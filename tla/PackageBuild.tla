---------------------------- MODULE PackageBuild ----------------------------
(***************************************************************************)
(* Building one package, from the sources to the published directory       *)
(* (cargo-xlfn's pipeline.rs and package.rs over xlfn-package's bundle.rs, *)
(* staging.rs, artifact.rs, manifest.rs and commit.rs).  Every source is   *)
(* read once into an immutable snapshot; the snapshots are staged,         *)
(* verified, materialized in a private directory, prepared as evidence and *)
(* published by a rename, and the evidence is compared with the files      *)
(* again and again on the way.                                             *)
(*                                                                         *)
(* Meanwhile somebody may write to a source (before it is snapshotted) and *)
(* change the directory between any two file operations.  What the journal *)
(* of the commit does is in DistributionCommit, what the images contain in *)
(* ImageClosure.                                                           *)
(***************************************************************************)
EXTENDS Naturals, Sequences, FiniteSets

CONSTANTS Bundle,         \* configured bundle files, by the key of their name
          Chunks,         \* contents of a read buffer
          MaxWrites,      \* writes to the source that is being read
          MaxChanges,     \* changes of the directory by somebody else
          MaxBytes        \* MAX_PREPARED_BYTES

VARIABLES platform,       \* windows: an open source excludes writers
          source,         \* the source file that is being read
          reader,         \* the snapshot in progress
          package,        \* the verified bytes of an artifact
          dir,            \* the directory, staged and later published
          evidence,       \* identities and bytes taken by the prepare calls
          todo,           \* file operations that are left
          result, changes, late

vars == <<platform, source, reader, package, dir, evidence, todo, result, changes, late>>

Xll == "xll"
Manifest == "manifest"
Files == {Xll} \cup Bundle
Artifacts == Files \cup {Manifest}
Entries == Artifacts \cup {"stranger"}
Other == <<"other", "bytes">>
ManifestBytes == <<"listing">>
NoFile == [id |-> 0, data |-> <<>>]
Contents == UNION {[1..n -> Chunks] : n \in 1..2}

\* Lists of operations, one for each artifact.
RECURSIVE Each(_, _)
Each(ops, files) ==
  IF files = {} THEN <<>>
  ELSE LET f == CHOOSE f \in files : TRUE IN [i \in DOMAIN ops |-> <<ops[i], f>>] \o Each(ops, files \ {f})

-----------------------------------------------------------------------------
(* The operations of the whole command, in the order of build_and_verify_target and package. *)
Identity == <<<<"identity">>>>
Names(S) == <<<<"names", S>>>>
\* stage_bundle, then the XLL is written beside it and everything is compared
Staging ==
  <<<<"create">>>> \o Each(<<"place">>, Bundle) \o Names(Bundle) \o Each(<<"check">>, Bundle) \o Identity
    \o <<<<"absent", Xll>>, <<"write", Xll>>>> \o Each(<<"check">>, Files) \o <<<<"verify">>>>
\* VerifiedPackage::materialize
Materialize ==
  <<<<"create">>>> \o Each(<<"place", "note">>, Artifacts) \o Names(Artifacts) \o Each(<<"check placed">>, Artifacts) \o Identity
\* VerifiedPackage::prepare_commit
PrepareCommit == Names(Artifacts) \o Each(<<"prepare">>, Artifacts) \o Identity
\* PreparedDirectoryCommit::prepare_with_shared_artifacts
PrepareRoot == Names(Artifacts) \o Each(<<"prepare root">>, Artifacts) \o Identity
VerifyRoot(op) == Names(Artifacts) \o Each(<<op>>, Artifacts) \o Identity
\* verify_source_contents of the directory and of the package
VerifySource == VerifyRoot("check root") \o VerifyRoot("check exact")
\* verify_committed_contents: the identity of a file may have changed, its bytes not
VerifyCommitted == VerifyRoot("check root bytes") \o VerifyRoot("check")
\* commit_prepared_directory_with, without the journal
Commit ==
  VerifySource \o VerifySource \o Identity \o Each(<<"lock">>, Artifacts) \o Identity \o VerifySource
    \o <<<<"rename">>, <<"final">>>> \o VerifyCommitted \o <<<<"publish">>>>

Command == Each(<<"snapshot">>, Files) \o Staging \o Materialize \o PrepareCommit \o PrepareRoot \o Commit

-----------------------------------------------------------------------------
Unread == [data |-> <<>>, time |-> 0, writes |-> 0, coarse |-> FALSE]
Idle == [at |-> "none", of |-> Xll, length |-> 0, time |-> 0, got |-> <<>>, seen |-> {}]
Init ==
  /\ platform \in {"windows", "unix"}
  /\ source = Unread
  /\ reader = Idle
  /\ package = [f \in Artifacts |-> <<>>]
  /\ dir = [id |-> 0, next |-> 1, files |-> [e \in Entries |-> NoFile]]
  /\ evidence = [dir |-> 0, placed |-> [f \in Artifacts |-> 0], ids |-> [f \in Artifacts |-> 0],
                 root |-> [f \in Artifacts |-> NoFile]]
  /\ todo = Command /\ result = "running" /\ changes = 0 /\ late = FALSE

At(op) == result = "running" /\ Head(todo)[1] = op
File == Head(todo)[2]
Fails == result' = "error" /\ todo' = <<>>
Goes == todo' = Tail(todo) /\ UNCHANGED result
GoesIf(c) == IF c THEN Goes ELSE Fails
Reading == reader.at # "none"
SourceStill == UNCHANGED <<platform, source, reader>>
Outside == UNCHANGED <<changes, late>>

-----------------------------------------------------------------------------
(* snapshot_file, resolve_bundle_files: read_stable_snapshot over the open source, and off *)
(* Windows a second read that is compared with the first. *)
Shorter(a, b) == IF a < b THEN a ELSE b
Step(at, update) == reader' = [update EXCEPT !.at = at]
ReaderOnly == UNCHANGED <<platform, source, package, dir, evidence, changes, late>>
Unstable == reader' = Idle /\ Fails
Continues == UNCHANGED <<todo, result>>

\* open_bundle_source_for_snapshot; a source is written to by others only while it is read.
Open ==
  /\ At("snapshot") /\ ~Reading
  /\ \E d \in Contents :
       /\ source' = [Unread EXCEPT !.data = d]
       /\ Step("opened", [Idle EXCEPT !.of = File, !.seen = {d}])
  /\ UNCHANGED <<platform, package, dir, evidence, todo, result, changes, late>>
\* file_snapshot_state
Before(at, next) ==
  /\ reader.at = at
  /\ Step(next, [reader EXCEPT !.length = Len(source.data), !.time = source.time])
  /\ Continues /\ ReaderOnly
FirstChunk ==
  /\ reader.at = "before"
  /\ Step("first", [reader EXCEPT !.got = SubSeq(source.data, 1, 1)])
  /\ Continues /\ ReaderOnly
\* read_to_end of what is left of the expected length
Rest ==
  /\ reader.at = "first"
  /\ LET more == SubSeq(source.data, 2, Shorter(reader.length, Len(source.data))) IN
       IF 1 + Len(more) = reader.length
       THEN Step("rest", [reader EXCEPT !.got = @ \o more]) /\ Continues ELSE Unstable
  /\ ReaderOnly
Extra ==
  /\ reader.at = "rest"
  /\ IF Len(source.data) > reader.length THEN Unstable ELSE Step("extra", reader) /\ Continues
  /\ ReaderOnly
(* A broken variant: the state of the file after the read is not compared. *)
TrustsLength == Len(source.data) = reader.length
\* The file has the state that it had before the read.
SameState == Len(source.data) = reader.length /\ source.time = reader.time
After ==
  /\ reader.at = "extra"
  /\ IF ~SameState THEN Unstable
     ELSE Step(IF platform = "windows" THEN "read" ELSE "again", reader) /\ Continues
  /\ ReaderOnly
\* compare_stable_snapshot, a chunk at a time
CompareFirst ==
  /\ reader.at = "before again"
  /\ IF reader.length = Len(reader.got) /\ source.data[1] = reader.got[1]
     THEN Step("first again", reader) /\ Continues ELSE Unstable
  /\ ReaderOnly
CompareRest ==
  /\ reader.at = "first again"
  /\ IF SubSeq(source.data, 2, Len(source.data)) = Tail(reader.got)
     THEN Step("rest again", reader) /\ Continues ELSE Unstable
  /\ ReaderOnly
AfterAgain ==
  /\ reader.at = "rest again"
  /\ IF SameState THEN Step("read", reader) /\ Continues ELSE Unstable
  /\ ReaderOnly
\* From here on only equality with the snapshot matters, and the file names its bytes.
Snapshot ==
  /\ reader.at = "read"
  /\ package' = [package EXCEPT ![reader.of] = <<reader.of>>]
  /\ reader' = Idle /\ source' = Unread /\ Goes
  /\ UNCHANGED <<platform, dir, evidence, changes, late>>

\* Somebody writes the source in place, and the file time may be too coarse to show it; on Windows the open handle refuses it.
WriteSource ==
  /\ Reading /\ platform = "unix" /\ source.writes < MaxWrites
  /\ \E d \in Contents, tick \in 0..1 :
       /\ source' = [data |-> d, time |-> source.time + tick, writes |-> source.writes + 1,
                     coarse |-> source.coarse \/ tick = 0]
       /\ reader' = [reader EXCEPT !.seen = @ \cup {d}]
  /\ UNCHANGED <<platform, package, dir, evidence, todo, result, changes, late>>

-----------------------------------------------------------------------------
(* The directory. *)
Present == {e \in Entries : dir.files[e].id # 0}
DirOnly == SourceStill /\ UNCHANGED package /\ Outside
Expected(f) == IF f = Manifest THEN ManifestBytes ELSE package[f]
Put(f, data) == dir' = [dir EXCEPT !.files[f] = [id |-> dir.next, data |-> data], !.next = @ + 1]

\* PrivateStagingDirectory::create; validate_private_directory
Create ==
  /\ At("create") /\ Goes
  /\ dir' = [id |-> dir.next, next |-> dir.next + 1, files |-> [e \in Entries |-> NoFile]]
  /\ evidence' = [evidence EXCEPT !.dir = dir.next]
  /\ DirOnly
\* A temporary file is written, flushed and moved to its name, which must be free.
Place ==
  /\ At("place")
  /\ IF dir.id = evidence.dir /\ dir.files[File].id = 0
     THEN Put(File, Expected(File)) /\ Goes ELSE UNCHANGED dir /\ Fails
  /\ UNCHANGED evidence /\ DirOnly
\* VerifiedPackage::materialize opens what is there now and remembers which file it is.
Note ==
  /\ At("note") /\ GoesIf(dir.id = evidence.dir /\ dir.files[File].id # 0)
  /\ evidence' = [evidence EXCEPT !.placed[File] = dir.files[File].id]
  /\ UNCHANGED dir /\ DirOnly
\* verify_target_snapshot: the XLL is written by its name.
IsAbsent == At("absent") /\ GoesIf(dir.files[File].id = 0) /\ UNCHANGED <<dir, evidence>> /\ DirOnly
WriteXll ==
  /\ At("write") /\ Goes
  /\ IF dir.files[File].id = 0 THEN Put(File, Expected(File))
     ELSE dir' = [dir EXCEPT !.files[File].data = Expected(File)]
  /\ UNCHANGED evidence /\ DirOnly
(* A broken variant: whatever else is in the directory is published too. *)
AllThere(S) == dir.id = evidence.dir /\ S \subseteq Present
\* inspect_directory_identity, ensure_exact_entry_set
ExactEntries(S) == dir.id = evidence.dir /\ Present = S
CheckNames == At("names") /\ GoesIf(ExactEntries(File)) /\ UNCHANGED <<dir, evidence>> /\ DirOnly
\* ensure_directory_identity
CheckIdentity == At("identity") /\ GoesIf(dir.id = evidence.dir) /\ UNCHANGED <<dir, evidence>> /\ DirOnly

\* verify_staged_bytes with ExpectedIdentity
Same(f, data) == dir.files[f].id # 0 /\ dir.files[f].data = data
Checks ==
  /\ \/ At("check") /\ GoesIf(Same(File, Expected(File)))
     \/ At("check placed") /\ GoesIf(Same(File, Expected(File)) /\ dir.files[File].id = evidence.placed[File])
     \/ At("check exact") /\ GoesIf(Same(File, Expected(File)) /\ dir.files[File].id = evidence.ids[File])
     \/ At("check root") /\ GoesIf(dir.files[File] = evidence.root[File])
     \/ At("check root bytes") /\ GoesIf(Same(File, evidence.root[File].data))
     \/ At("lock") /\ GoesIf(dir.files[File].id = evidence.root[File].id)
  /\ UNCHANGED <<dir, evidence>> /\ DirOnly
\* verify_staged_package: images may be refused; the manifest becomes an artifact.
Verify ==
  /\ At("verify") /\ \E accepted \in BOOLEAN : GoesIf(accepted)
  /\ UNCHANGED <<dir, evidence>> /\ DirOnly
\* A prepared artifact: the verified bytes, and the identity that has them now.
Prepare ==
  /\ At("prepare") /\ GoesIf(Same(File, Expected(File)))
  /\ evidence' = [evidence EXCEPT !.ids[File] = dir.files[File].id]
  /\ UNCHANGED dir /\ DirOnly
\* prepare_directory_entry: a file that no longer has the shared bytes is read as it is.
RECURSIVE Sum(_)
Sum(files) == IF files = {} THEN 0
              ELSE LET f == CHOOSE f \in files : TRUE IN Len(dir.files[f].data) + Sum(files \ {f})
PrepareRootEntry ==
  /\ At("prepare root") /\ GoesIf(dir.files[File].id # 0 /\ Sum(Present) <= MaxBytes)
  /\ evidence' = [evidence EXCEPT !.root[File] = dir.files[File]]
  /\ UNCHANGED dir /\ DirOnly
Rename == At("rename") /\ Goes /\ UNCHANGED <<dir, evidence>> /\ DirOnly
\* From here on a change can come after the last look at what it changes.
Final == At("final") /\ Goes /\ late' = FALSE /\ UNCHANGED <<dir, evidence, package, changes>> /\ SourceStill
Publish ==
  /\ At("publish") /\ result' = "published" /\ todo' = <<>>
  /\ UNCHANGED <<dir, evidence>> /\ DirOnly

\* Somebody changes the directory: a file is modified in place, replaced, removed or added, or
\* the whole directory is replaced by one that looks the same.
Change ==
  /\ result = "running" /\ dir.id # 0 /\ changes < MaxChanges
  /\ changes' = changes + 1 /\ late' = TRUE
  /\ \/ \E e \in Entries : \E d \in {Other} \cup {Expected(f) : f \in {e} \cap Artifacts} :
          \/ dir.files[e].id # 0 /\ dir' = [dir EXCEPT !.files[e].data = d]
          \/ Put(e, d)
     \/ \E e \in Present : dir' = [dir EXCEPT !.files[e] = NoFile]
     \/ dir' = [dir EXCEPT !.id = dir.next, !.next = @ + 1]
  /\ UNCHANGED <<platform, source, reader, package, evidence, todo, result>>

Read ==
  \/ Open \/ Before("opened", "before") \/ FirstChunk \/ Rest \/ Extra \/ After
  \/ Before("again", "before again") \/ CompareFirst \/ CompareRest \/ AfterAgain \/ Snapshot
Next ==
  \/ Read \/ WriteSource \/ Change
  \/ Create \/ Place \/ Note \/ IsAbsent \/ WriteXll \/ CheckNames \/ CheckIdentity \/ Checks \/ Verify
  \/ Prepare \/ PrepareRootEntry \/ Rename \/ Final \/ Publish
Spec == Init /\ [][Next]_vars

-----------------------------------------------------------------------------
TypeOK ==
  /\ result \in {"running", "published", "error"}
  /\ dir.id \in 0..dir.next /\ evidence.dir \in 0..dir.next
  /\ reader.at # "none" => At("snapshot")

(* A snapshot is one version of its source, as it was at some moment of the read, and never *)
(* a mixture of two: whatever is written, as long as the times tell the versions apart, and *)
(* even when they do not, unless the file is written three times while it is read. *)
SnapshotIsWhole ==
  reader.at = "read" /\ (source.coarse => source.writes < 3) => reader.got \in reader.seen

(* What is published is what was verified: the directory that was created for it, exactly the *)
(* artifacts, each with the bytes of its snapshot.  A change of any file or of the directory, *)
(* at any moment before the final verification, has been undone or is reported. *)
PublishedIsVerified ==
  result = "published" /\ ~late =>
    /\ dir.id = evidence.dir /\ Present = Artifacts
    /\ \A f \in Artifacts : dir.files[f].data = Expected(f)

(* The evidence that a successful commit compares with holds the verified bytes, although the *)
(* directory snapshot accepts whatever it finds. *)
EvidenceIsVerified ==
  result = "published" /\ ~late => \A f \in Artifacts : evidence.root[f].data = Expected(f)
=============================================================================
