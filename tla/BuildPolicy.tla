----------------------------- MODULE BuildPolicy -----------------------------
(***************************************************************************)
(* What cargo-xlfn decides before and after a build: the settings it takes *)
(* from Cargo's configuration files (cargo_settings.rs), the package it    *)
(* selects (metadata.rs), the C runtime it asks for and finds (crt.rs),    *)
(* the library it takes from Cargo's messages (cargo.rs), and whether the  *)
(* output and the build directory overlap (package.rs).                    *)
(*                                                                         *)
(* Every decision is an operator translated from the code's loop, compared *)
(* with a definition of what it has to decide over all small inputs.       *)
(***************************************************************************)
EXTENDS Naturals, Sequences, FiniteSets, SequencesExt

CONSTANTS Configs,         \* lexical paths of configuration files
          Physical,        \* the file that a path leads to
          Wrappers,        \* values of build.rustc-wrapper
          MaxIncludes,     \* include entries of a file
          MaxIncludeDepth, \* MAX_CONFIG_INCLUDE_DEPTH
          Components,      \* names in a path
          MaxPath, Volumes,
          MaxArguments, MaxMessages

None == "none"

-----------------------------------------------------------------------------
(* CargoSettings::read_file_at_depth and read_active_file.  A file has includes, in order, and *)
(* its own value or none.  seen is never taken back, active is the chain of physical files. *)
Sources == [includes : UNION {[1..n -> Configs] : n \in 0..MaxIncludes}, own : Wrappers \cup {None}]
(* A broken variant: the first value stays. *)
FirstWins(lower, higher) == IF lower # None THEN lower ELSE higher
\* CargoSettings::merge
Merge(lower, higher) == IF higher # None THEN higher ELSE lower

RECURSIVE ReadFile(_, _, _, _), ReadIncludes(_, _, _, _, _)
ReadFile(files, path, seen, active) ==
  IF \/ path \in seen \/ Len(active) >= MaxIncludeDepth
     \/ Physical[path] \in {active[i] : i \in DOMAIN active}
  THEN [ok |-> FALSE, seen |-> seen, value |-> None]
  ELSE LET included == ReadIncludes(files, files[path].includes, seen \cup {path},
                                    Append(active, Physical[path]), None) IN
         [included EXCEPT !.value = Merge(@, files[path].own)]
ReadIncludes(files, includes, seen, active, value) ==
  IF includes = <<>> THEN [ok |-> TRUE, seen |-> seen, value |-> value]
  ELSE LET one == ReadFile(files, Head(includes), seen, active) IN
         IF ~one.ok THEN one
         ELSE ReadIncludes(files, Tail(includes), one.seen, active, Merge(value, one.value))
Read(files, path) == ReadFile(files, path, {}, <<>>)

\* The wrapper that Cargo would use: a file before its includes, a later include before an earlier.
RECURSIVE Effective(_, _)
Effective(files, path) ==
  IF files[path].own # None THEN files[path].own
  ELSE LET includes == files[path].includes
           values == {i \in DOMAIN includes : Effective(files, includes[i]) # None} IN
         IF values = {} THEN None
         ELSE Effective(files, includes[CHOOSE i \in values : \A j \in values : i >= j])

(* CargoSettings::load_with: files from the farthest directory to the nearest, then the *)
(* environment, where an empty value disables every wrapper. *)
RECURSIVE Load(_, _)
Load(values, settings) ==
  IF values = <<>> THEN settings ELSE Load(Tail(values), Merge(settings, Head(values)))
Wrapper(values, environment) ==
  IF environment # None THEN environment ELSE Load(values, None)

(* Reading the configuration always ends, in an error or in the wrapper that Cargo itself *)
(* would use, whatever the files include and even when two paths lead to one file. *)
SettingsAreResolved ==
  /\ \A files \in [Configs -> Sources], path \in Configs :
       Read(files, path).ok => Read(files, path).value = Effective(files, path)
  /\ \A far, near, environment \in Wrappers \cup {None} :
       Wrapper(<<far, near>>, environment) =
         (CHOOSE w \in {environment, near, far, None} :
            /\ environment # None => w = environment
            /\ environment = None /\ near # None => w = near
            /\ environment = None /\ near = None => w = far)

-----------------------------------------------------------------------------
(* Directories.  A volume has directories by their stored spelling, links to directories and *)
(* perhaps a directory that is mounted in a second place; it may ignore case. *)
Paths == UNION {[1..n -> Components] : n \in 1..MaxPath}
Parent(p) == IF p = <<>> THEN <<>> ELSE Front(p)
Fold(volume, name) == IF volume.folds /\ name = "A" THEN "a" ELSE name
Alike(volume, p, q) ==
  Len(p) = Len(q) /\ \A i \in DOMAIN p : Fold(volume, p[i]) = Fold(volume, q[i])
\* The place of a path: what is under the mount is in the mounted directory.
Identity(volume, p) ==
  IF volume.mount # <<>> /\ IsPrefix(volume.mount, p)
  THEN volume.mounted \o SubSeq(p, Len(volume.mount) + 1, Len(p)) ELSE p
IsDir(volume, p) == p = <<>> \/ \E d \in volume.dirs : Alike(volume, d, Identity(volume, p))
\* canonicalize of a path whose parent is canonical
Canonical(volume, p) ==
  IF p \in DOMAIN volume.links THEN volume.links[p]
  ELSE IF p # <<>> /\ \E d \in volume.dirs : Alike(volume, d, p)
       THEN CHOOSE d \in volume.dirs : Alike(volume, d, p) ELSE p

(* resolve_output_build_path *)
RECURSIVE Resolve(_, _, _)
Resolve(volume, resolved, path) ==
  IF path = <<>> THEN resolved
  ELSE IF Head(path) = ".." THEN Resolve(volume, Parent(resolved), Tail(path))
  ELSE Resolve(volume, Canonical(volume, Append(resolved, Head(path))), Tail(path))

Ancestors(p) == {SubSeq(p, 1, n) : n \in 0..Len(p)}
\* existing_directory_contains, by the identities of existing directories
DirContains(volume, ancestor, descendant) ==
  IsDir(volume, ancestor)
    /\ \E p \in Ancestors(descendant) :
         IsDir(volume, p) /\ Identity(volume, p) = Identity(volume, ancestor)
(* validate_output_target_separation *)
Separate(volume, output, target) ==
  LET o == Resolve(volume, <<>>, output) t == Resolve(volume, <<>>, target) IN
    ~(IsPrefix(o, t) \/ IsPrefix(t, o) \/ DirContains(volume, o, t) \/ DirContains(volume, t, o))
\* create_dir_all of the build directory of a policy
Created(volume, target) ==
  LET t == Resolve(volume, <<>>, target) IN
    [volume EXCEPT !.dirs = @ \cup {Identity(volume, p) : p \in {a \in Ancestors(t) : ~IsDir(volume, a)}}]
(* A broken variant: the paths are compared once, before anything is created. *)
ComparesOnce(volume, output, target) == Separate(volume, output, target)
\* package: the check is made again once the build directory exists.
PackageStarts(volume, output, target) ==
  Separate(volume, output, target) /\ Separate(Created(volume, target), output, target)

\* The place that a path leads to, with the mount and the case taken into account.
Place(volume, path) ==
  LET p == Identity(volume, Resolve(volume, <<>>, path)) IN [i \in DOMAIN p |-> Fold(volume, p[i])]

(* A build directory and an output that a command accepts never contain each other, also when *)
(* one is reached through a link, a second mount or another spelling, and when neither exists *)
(* yet: a distribution is never published into the build storage, or built into the output. *)
OutputsAreSeparate ==
  \A volume \in Volumes, output, target \in Paths :
    PackageStarts(volume, output, target) =>
      LET later == Created(volume, target) o == Place(later, output) t == Place(later, target) IN
        ~IsPrefix(o, t) /\ ~IsPrefix(t, o)

-----------------------------------------------------------------------------
(* The C runtime. *)
Policies == {"inherit", "static", "dynamic"}
\* ResolvedCrtPolicy::resolve
Resolved(cli, metadata) == IF cli # None THEN cli ELSE IF metadata # None THEN metadata ELSE "static"
Tokens == {"--target", "ours", "host", "--target=ours", "+crt", "-crt"}
Arguments == UNION {[1..n -> Tokens] : n \in 0..MaxArguments}
\* rustc_invocation_targets
Targets(arguments) ==
  \/ \E i \in 1..(Len(arguments) - 1) : arguments[i] = "--target" /\ arguments[i + 1] = "ours"
  \/ \E i \in DOMAIN arguments : arguments[i] = "--target=ours"
(* A broken variant: the flag goes before what Cargo passes. *)
AddsFirst(arguments, flag) == <<flag>> \o arguments
\* The compiler takes the last of several flags.
Adds(arguments, flag) == Append(arguments, flag)
(* wrapper_arguments *)
WrapperArguments(arguments, policy) ==
  IF ~Targets(arguments) \/ policy = "inherit" THEN arguments
  ELSE Adds(arguments, IF policy = "static" THEN "+crt" ELSE "-crt")
Linkage(arguments) ==
  LET flags == {i \in DOMAIN arguments : arguments[i] \in {"+crt", "-crt"}} IN
    IF flags = {} THEN "dynamic"
    ELSE IF arguments[CHOOSE i \in flags : \A j \in flags : i >= j] = "+crt" THEN "static" ELSE "dynamic"

(* CrtObservation::inspect: the marker in the image and its imports of a dynamic runtime. *)
Inspect(requested, marker, imports) ==
  IF \/ marker = None
     \/ requested \in {"static", "dynamic"} /\ marker # requested
     \/ requested = "static" /\ imports
  THEN "error"
  ELSE IF requested = "inherit" /\ marker = "static" /\ imports THEN "potentially-mixed" ELSE "verified"

(* An add-in whose runtime was chosen, on the command line or in its metadata or by default, *)
(* is built with that runtime whatever flags Cargo passes, invocations for the host are left *)
(* alone, and a static one that needs a dynamic runtime after all is never accepted. *)
CrtIsAsRequested ==
  /\ \A cli, metadata \in Policies \cup {None}, arguments \in Arguments :
       LET policy == Resolved(cli, metadata) made == WrapperArguments(arguments, policy) IN
         /\ Targets(arguments) /\ policy # "inherit" => Linkage(made) = policy
         /\ ~Targets(arguments) => made = arguments
         /\ Targets(made) = Targets(arguments)
  /\ \A requested \in Policies, marker \in {None, "static", "dynamic"}, imports \in BOOLEAN :
       Inspect(requested, marker, imports) = "verified" =>
         /\ marker = "static" => ~imports
         /\ requested # "inherit" => marker = requested

-----------------------------------------------------------------------------
(* package_for_current_directory: the member whose directory is the deepest around the current *)
(* one; select_discovery_package falls back to the root package and to the only member. *)
Around(members, directory) == {m \in members : IsPrefix(m, directory)}
Deepest(S) == CHOOSE m \in S : \A n \in S : Len(m) >= Len(n)
Select(members, root, directory) ==
  IF Around(members, directory) # {} THEN Deepest(Around(members, directory))
  ELSE IF root # None THEN root
  ELSE IF Cardinality(members) = 1 THEN CHOOSE m \in members : TRUE ELSE None

(* read_build_messages: the library of the package, once, from a build that succeeded. *)
Messages == {"library", "other", "finished", "failed"}
RECURSIVE ReadMessages(_, _, _)
ReadMessages(messages, libraries, succeeded) ==
  IF messages = <<>> THEN succeeded /\ libraries = 1
  ELSE LET m == Head(messages) IN
         ReadMessages(Tail(messages), IF m = "library" THEN libraries + 1 ELSE libraries,
                      IF m \in {"finished", "failed"} THEN m = "finished" ELSE succeeded)

(* A build is used only when its last word was success and it named one library; inside of a *)
(* nested workspace member it is that member that is built, never one around it. *)
BuildIsTheSelected ==
  /\ \A messages \in UNION {[1..n -> Messages] : n \in 0..MaxMessages} :
       ReadMessages(messages, 0, FALSE) <=>
         /\ Cardinality({i \in DOMAIN messages : messages[i] = "library"}) = 1
         /\ \E i \in DOMAIN messages : messages[i] = "finished"
              /\ \A j \in (i + 1)..Len(messages) : messages[j] # "failed"
  /\ LET directories == {<<>>, <<"a">>, <<"a", "b">>, <<"b">>} IN
       \A members \in SUBSET directories, directory \in directories :
         members \cap Ancestors(directory) # {} =>
           LET s == Select(members, None, directory) IN
             s \in members /\ IsPrefix(s, directory) /\ \A m \in Around(members, directory) : IsPrefix(m, s)

-----------------------------------------------------------------------------
(* resolve_bundle_files_with_policy_impl: names in the order of the configuration; the file *)
(* system of the target takes two spellings for one name. *)
Spelled == {"a.dll", "A.dll", "b.dll", "SYS.dll", "Addin.xll", "Build-Manifest.json"}
\* windows_name_key
Key(name) ==
  CASE name = "A.dll" -> "a.dll" [] name = "SYS.dll" -> "sys.dll" [] name = "Addin.xll" -> "addin.xll"
    [] name = "Build-Manifest.json" -> "build-manifest.json" [] OTHER -> name
Keys(names) == {Key(names[i]) : i \in DOMAIN names}
\* is_reserved_distribution_name
Reserved == {"addin.xll", "build-manifest.json"}
RECURSIVE ResolveNames(_, _)
ResolveNames(names, known) ==
  \/ names = <<>>
  \/ LET key == Key(Head(names)) IN
       key # "sys.dll" /\ key \notin known /\ ResolveNames(Tail(names), known \cup {key})
\* ResolvedTargetBundle::resolve, with validate_bundle_output_names
BundleAccepted(names) == ResolveNames(names, {}) /\ Keys(names) \cap Reserved = {}

(* validate_manifest_bytes: entries <<spelled name, size>> against the artifacts. *)
RECURSIVE Describes(_, _)
Describes(entries, known) ==
  \/ entries = <<>>
  \/ LET key == Key(Head(entries)[1]) IN
       /\ key # "build-manifest.json" /\ key \notin {Key(d[1]) : d \in known}
       /\ Describes(Tail(entries), known \cup {Head(entries)})
ManifestAccepted(entries, artifacts) ==
  /\ Describes(entries, {}) /\ Len(entries) = Cardinality(artifacts)
  /\ \A a \in artifacts : \E i \in DOMAIN entries : entries[i] = a

(* PrivateAclPrincipals: two entries, each the owner or SYSTEM, who may be one and the same. *)
RECURSIVE Include(_, _, _)
Include(entries, owner, covered) ==
  IF entries = <<>> THEN {owner, "system"} \subseteq covered
  ELSE Head(entries) \in {owner, "system"} /\ Include(Tail(entries), owner, covered \cup {Head(entries)})
AclAccepted(entries, owner) == Len(entries) = 2 /\ Include(entries, owner, {})

(* No two files of a package share a name on the target's file system, none takes the place of *)
(* the add-in, of the manifest or of a system library; an accepted manifest lists exactly the *)
(* artifacts; and a private directory is open to nobody but its owner and SYSTEM. *)
NamesAreUnique ==
  /\ \A names \in UNION {[1..n -> Spelled] : n \in 0..3} :
       BundleAccepted(names) <=>
         /\ \A i, j \in DOMAIN names : i # j => Key(names[i]) # Key(names[j])
         /\ \A i \in DOMAIN names : Key(names[i]) \notin Reserved \cup {"sys.dll"}
  /\ \A entries \in UNION {[1..n -> {"a.dll", "A.dll", "b.dll"} \X {1, 2}] : n \in 0..3},
         artifacts \in {{}, {<<"a.dll", 1>>}, {<<"a.dll", 1>>, <<"b.dll", 2>>}} :
       ManifestAccepted(entries, artifacts) <=>
         {entries[i] : i \in DOMAIN entries} = artifacts /\ Len(entries) = Cardinality(artifacts)
  /\ \A owner \in {"user", "system"}, entries \in UNION {[1..n -> {"user", "system", "everyone"}] : n \in 0..3} :
       AclAccepted(entries, owner) =>
         \A i \in DOMAIN entries : entries[i] \in {owner, "system"}
=============================================================================
