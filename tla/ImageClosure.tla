---------------------------- MODULE ImageClosure ----------------------------
(***************************************************************************)
(* What the packager decides about PE images before it publishes them      *)
(* (pe.rs): the layout of an image, the entry points of the XLL, and the   *)
(* closure of imports and forwarded exports over the bundled images.  The  *)
(* tables are what the object reader hands out; names are model values.    *)
(*                                                                         *)
(* Every check is an operator translated from the code's loop, compared    *)
(* with a definition of what it has to decide over all small inputs.       *)
(***************************************************************************)
EXTENDS Integers, Sequences, FiniteSets, SequencesExt

CONSTANTS Word,            \* the largest u32, scaled down
          Page,            \* alignments below it must equal the file alignment
          Alignments, FileAlignments, ImageSizes, HeaderSizes, Starts, Extents,
          Slots,           \* indices of the export address table
          Names,           \* export names
          Required,        \* REQUIRED_XLL_EXPORTS
          Images,          \* keys of the XLL and of the bundled DLLs
          Imports,         \* imports <<library, symbol>> that an image may have
          MaxImports,
          Nodes,           \* symbols <<image, symbol>> that may be forwarded
          Forwards         \* where to: a node, or a symbol outside of the bundle

\* is_system, external_imports
System == {"sys"}
External == {"ext"}
\* The loader's entry point may be exported without being in the manifest.
Startup == "_DllMainCRTStartup"

-----------------------------------------------------------------------------
(* validate_mapped_sections *)
Sections == [start : Starts, virtual : Extents, raw : Extents]
PowerOfTwo(n) == n \in {1, 2, 4, 8, 16}
Larger(a, b) == IF a >= b THEN a ELSE b
(* A broken variant: the data of a section in the file is not counted. *)
VirtualOnly(s) == s.virtual
\* The initialized extent may be larger than the virtual one.
Size(s) == Larger(s.virtual, s.raw)
AlignEnd(e, a) == ((e + a - 1) \div a) * a

HeaderIsSane(h) ==
  /\ PowerOfTwo(h.align) /\ PowerOfTwo(h.file) /\ h.align >= h.file
  /\ h.align < Page => h.align = h.file
  /\ h.image % h.align = 0 /\ h.headers <= h.image

\* One section after another; an empty one is skipped, a sum past the word is an error.
RECURSIVE Walk(_, _, _)
Walk(h, sections, previous) ==
  \/ sections = <<>>
  \/ LET s == Head(sections) end == s.start + Size(s) IN
       IF Size(s) = 0 THEN Walk(h, Tail(sections), previous)
       ELSE /\ end + h.align - 1 <= Word
            /\ s.start % h.align = 0 /\ s.start >= previous /\ AlignEnd(end, h.align) <= h.image
            /\ Walk(h, Tail(sections), AlignEnd(end, h.align))
LayoutAccepted(h, sections) ==
  /\ HeaderIsSane(h) /\ h.headers + h.align - 1 <= Word
  /\ Walk(h, sections, AlignEnd(h.headers, h.align))

Headers == [align : Alignments, file : FileAlignments, image : ImageSizes, headers : HeaderSizes]
Pages(h, s) ==
  LET size == Larger(s.virtual, s.raw) IN
    IF size = 0 THEN {} ELSE s.start..(AlignEnd(s.start + size, h.align) - 1)

(* The sections of an accepted image never share a page, with each other or with the headers, *)
(* and none leaves the image: an export address has at most one section, so that whether its *)
(* target is executable is never a matter of which section is looked at first. *)
LayoutIsUnambiguous ==
  \A h \in Headers, a, b \in Sections :
    LayoutAccepted(h, <<a, b>>) =>
      /\ Pages(h, a) \cap Pages(h, b) = {}
      /\ \A s \in {a, b} : \A p \in Pages(h, s) : p >= h.headers /\ p < h.image

-----------------------------------------------------------------------------
(* parse_pe_file: the export table.  A slot is zero, code, data, or forwarded. *)
Tables == [eat : [Slots -> {"zero", "code", "data", "forwarded"}], names : SUBSET (Names \X Slots)]
NamesOf(t, kinds) == {pair[1] : pair \in {p \in t.names : t.eat[p[2]] \in kinds}}
(* A broken variant: a name of an empty slot counts as an export. *)
AllNames(t) == NamesOf(t, {"zero", "code", "data", "forwarded"})
\* A name of a zero entry resolves to nothing.
Exports(t) == NamesOf(t, {"code", "data", "forwarded"})
Info(t) == [exports |-> Exports(t),
            executable |-> NamesOf(t, {"code"}),
            forwarded |-> NamesOf(t, {"forwarded"}),
            nonzero |-> {s \in Slots : t.eat[s] # "zero"},
            named |-> {p[2] : p \in t.names}]

(* verify_xll_exports *)
XllAccepted(info, manifest) ==
  /\ \A n \in Required :
       n \in info.exports /\ n \notin info.forwarded /\ n \in info.executable /\ n \in manifest
  /\ manifest \subseteq info.exports /\ manifest \cap info.forwarded = {}
  /\ manifest \subseteq info.executable
  /\ info.exports \subseteq manifest \cup {Startup}
  /\ info.nonzero \subseteq info.named

\* Each entry that Excel, or anybody, can reach is one that the manifest declares.
Resolves(t, n) == {s \in Slots : <<n, s>> \in t.names /\ t.eat[s] # "zero"}
ExactlyDeclared(t, manifest) ==
  /\ Required \subseteq manifest
  /\ \A n \in manifest : /\ \E s \in Resolves(t, n) : t.eat[s] = "code"
                         /\ \A s \in Resolves(t, n) : t.eat[s] # "forwarded"
  /\ \A s \in Slots : t.eat[s] # "zero" =>
       /\ \E n \in Names : <<n, s>> \in t.names
       /\ \A n \in Names : <<n, s>> \in t.names => n \in manifest \cup {Startup}

(* An XLL is accepted exactly when its export table and its manifest agree: every declared *)
(* function is implemented in the image itself, and nothing reachable, by name or by ordinal, *)
(* is undeclared. *)
XllIsClosed ==
  \A t \in Tables, manifest \in SUBSET Names :
    XllAccepted(Info(t), manifest) <=> ExactlyDeclared(t, manifest)

-----------------------------------------------------------------------------
(* validate_dependency_node: depth first with a stack of images and the imports that are left *)
(* of each, and one visited set for all roots.  Every image exports "x" and nothing else. *)
ImportLists == UNION {[1..n -> Imports] : n \in 0..MaxImports}
Exists(image, symbol) == symbol = "x"
(* A broken variant: the symbol is looked at only when its image is visited first. *)
CheckedOnce(item, visited) == item[1] \in Images /\ (item[1] \in visited \/ Exists(item[1], item[2]))
\* The import names an image of the bundle, which exports the symbol.
Satisfied(item, visited) == item[1] \in Images /\ Exists(item[1], item[2])

RECURSIVE Descend(_, _, _)
Descend(graph, stack, visited) ==
  IF stack = <<>> THEN [ok |-> TRUE, visited |-> visited]
  ELSE LET rest == Head(stack) IN
       IF rest = <<>> THEN Descend(graph, Tail(stack), visited)
       ELSE LET item == Head(rest)
                left == <<Tail(rest)>> \o Tail(stack) IN
            IF item[1] \in System \cup External THEN Descend(graph, left, visited)
            ELSE IF ~Satisfied(item, visited) THEN [ok |-> FALSE, visited |-> visited]
            ELSE IF item[1] \in visited THEN Descend(graph, left, visited)
            ELSE Descend(graph, <<graph[item[1]]>> \o left, visited \cup {item[1]})

(* validate_dependency_graph, the roots in the order of their keys. *)
RECURSIVE FromRoots(_, _, _)
FromRoots(graph, roots, visited) ==
  \/ roots = <<>>
  \/ IF Head(roots) \in visited THEN FromRoots(graph, Tail(roots), visited)
     ELSE LET result == Descend(graph, <<graph[Head(roots)]>>, visited \cup {Head(roots)}) IN
            result.ok /\ FromRoots(graph, Tail(roots), result.visited)
ClosureAccepted(graph, roots) == FromRoots(graph, roots, {})

(* The walk, which visits an image once whichever root it starts from, accepts exactly the *)
(* bundles in which every import of every image is a system or external library or a symbol *)
(* of a bundled image; an image it has seen is still asked for each symbol. *)
ImportsAreClosed ==
  \A graph \in [Images -> ImportLists] :
    ClosureAccepted(graph, SetToSeq(Images)) <=>
      \A i \in Images : \A k \in DOMAIN graph[i] :
        \/ graph[i][k][1] \in System \cup External
        \/ graph[i][k][1] \in Images /\ Exists(graph[i][k][1], graph[i][k][2])

-----------------------------------------------------------------------------
(* validate_forwarded_exports.  A symbol of an image is absent, direct, or forwarded to a *)
(* symbol of a library. *)
Absent == <<"absent">>
Direct == <<"direct">>
Tables2 == [Nodes -> {Absent, Direct} \cup {<<"to", f>> : f \in Forwards}]
IsForwarded(t, node) == t[node][1] = "to"
(* A broken variant: a node is taken for settled when its chain is first entered. *)
SettledEarly(resolved, chain) == resolved \cup chain
\* Nodes of the chain are settled only when the chain has come to its end.
Settled(resolved, chain) == resolved

RECURSIVE Follow(_, _, _, _)
Follow(t, node, chain, resolved) ==
  IF node \in Settled(resolved, chain) THEN [ok |-> TRUE, resolved |-> resolved \cup chain]
  ELSE IF node \in chain THEN [ok |-> FALSE, resolved |-> resolved]           \* cyclic
  ELSE IF ~IsForwarded(t, node)
       THEN [ok |-> t[node] = Direct, resolved |-> resolved \cup {node} \cup chain]
  ELSE LET to == t[node][2] IN
       IF to[1] \in System \cup External
       THEN [ok |-> TRUE, resolved |-> resolved \cup chain \cup {node}]
       ELSE IF to[1] \notin Images \/ t[to] = Absent THEN [ok |-> FALSE, resolved |-> resolved]
       ELSE Follow(t, to, chain \cup {node}, resolved)

RECURSIVE FollowAll(_, _, _)
FollowAll(t, nodes, resolved) ==
  \/ nodes = <<>>
  \/ LET result == Follow(t, Head(nodes), {}, resolved) IN
       result.ok /\ FollowAll(t, Tail(nodes), result.resolved)
ForwardsAccepted(t) == FollowAll(t, SetToSeq({n \in Nodes : IsForwarded(t, n)}), {})

\* Where a symbol is after following n forwards: a node, or outside the bundle.
RECURSIVE After(_, _, _)
After(t, node, n) ==
  IF n = 0 \/ node[1] \notin Images \/ ~IsForwarded(t, node) THEN node
  ELSE After(t, t[node][2], n - 1)
EndsWell(t, node) ==
  LET end == After(t, node, Cardinality(Nodes)) IN
    IF end[1] \in Images THEN t[end] = Direct ELSE end[1] \in System \cup External

(* Following the forwarded exports with a memory of the settled ones accepts exactly the *)
(* bundles in which every chain comes to an end, in a direct export or a library that the *)
(* bundle does not carry: no chain is cyclic, dangling or unresolved. *)
ForwardsEnd ==
  \A t \in Tables2 :
    ForwardsAccepted(t) <=> \A node \in Nodes : IsForwarded(t, node) => EndsWell(t, node)
=============================================================================
