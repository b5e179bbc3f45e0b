----------------------------- MODULE RtdIdentity -----------------------------
(***************************************************************************)
(* What RTD subscriptions are told apart by (subscription/topic.rs,        *)
(* identity.rs, source.rs, source_catalog.rs): the handles of registered   *)
(* sources, the topics of a formula, the index that finds the subscription *)
(* of a source and a topic although hashes collide, and the text that      *)
(* carries a subscription through Excel and back.                          *)
(*                                                                         *)
(* A part of a topic is a record of its text, its UTF-8 bytes and its      *)
(* UTF-16 units; a character of transport text is a digit, in either case, *)
(* or no digit at all.                                                     *)
(***************************************************************************)
EXTENDS Naturals, Sequences, FiniteSets, SequencesExt

CONSTANTS Texts,                      \* the topic parts that formulas use
          MaxParts, MaxBytes, StringLimit,
          Generations,                \* generation numbers, which add-ins may share
          MaxRuntimes, MaxSources, MaxSourceIds, MaxIds,
          Base, Width                 \* of the digits of a transport key

VARIABLES runtimes,    \* one per add-in opening, in the order of their registration ids
          handles      \* the handles that were given out, with what they stand for
vars == <<runtimes, handles>>

Absent == <<>>

-----------------------------------------------------------------------------
\* Topics.  The parts that stop the scan, in the order in which they are met.
Refused(parts) == {i \in DOMAIN parts : i > MaxParts \/ parts[i].bytes = 0}
Bytes(parts) == FoldLeft(LAMBDA n, p : n + p.bytes, 0, parts)

(* A broken variant: UTF-8 bytes are taken for UTF-16 units. *)
CountsBytes(p) == p.bytes > StringLimit
\* Short parts are not decoded: a scalar has no more units than bytes.
TooLong(p) == p.bytes > StringLimit /\ p.units > StringLimit

\* validate_topic_parts, which RtdTopic::new and BorrowedTopicParts::new share
ValidateTopic(parts) ==
  IF parts = <<>> THEN "empty"
  ELSE IF Refused(parts) # {}
  THEN IF Min(Refused(parts)) > MaxParts THEN "parts" ELSE "empty"
  ELSE IF Bytes(parts) > MaxBytes THEN "bytes"
  ELSE IF \E i \in DOMAIN parts : TooLong(parts[i]) THEN "text"
  ELSE "valid"

Offers == UNION {[1..n -> Texts] : n \in 0..(MaxParts + 1)}
Topics == {parts \in Offers : ValidateTopic(parts) = "valid"}
\* RtdTopic's cached hash; topics of one length and size collide here.
IdentityHash(topic) == <<Len(topic), Bytes(topic)>>

-----------------------------------------------------------------------------
\* Transport keys.
Digit(d) == [value |-> d, upper |-> FALSE]
Junk == [value |-> Base, upper |-> FALSE]
Characters == [value : 0..(Base - 1), upper : BOOLEAN] \cup {Junk}
\* A number as fixed-width lower-case digits.
Digits(n) == [k \in 1..Width |-> Digit((n \div Base^(Width - k)) % Base)]

\* SubscriptionKey::to_transport
ToTransport(key) == [prefix |-> TRUE, runtime |-> Digits(key.runtime), id |-> Digits(key.id)]

(* A broken variant: digits are read from the other end. *)
ReadsBackwards(s) == FoldRight(LAMBDA c, n : n * Base + c.value, s, 0)
\* from_str_radix of digits of either case
NumberOf(s) == FoldLeft(LAMBDA n, c : n * Base + c.value, 0, s)
\* parse_fixed_hex
ParseFixed(s) == IF Len(s) = Width /\ Junk \notin Range(s) THEN <<NumberOf(s)>> ELSE Absent
\* SubscriptionKey::parse_transport
ParseTransport(text) ==
  LET r == ParseFixed(text.runtime) i == ParseFixed(text.id) IN
  IF ~text.prefix \/ r = Absent \/ i = Absent THEN Absent ELSE <<[runtime |-> r[1], id |-> i[1]]>>
(* A broken variant: any runtime answers for any key. *)
AnyRuntime(key, runtime) == <<key.id>>
\* SubscriptionKey::validate_runtime, resolve_transport_key
ValidateRuntime(key, runtime) == IF key.runtime = runtime THEN <<key.id>> ELSE Absent

-----------------------------------------------------------------------------
\* Sources.
Init == runtimes = <<>> /\ handles = {}

(* SourceRegistration::new with the generation of some add-in; the registration id is the *)
(* next of the process. *)
NewRegistration(g) ==
  /\ Len(runtimes) < MaxRuntimes
  /\ runtimes' = Append(runtimes, [generation |-> g, sources |-> 0, whole |-> FALSE, running |-> FALSE,
                                   ids |-> <<>>, entries |-> <<>>, refs |-> <<>>, next |-> 1])
  /\ UNCHANGED handles

Handle(r, n) == [generation |-> runtimes[r].generation, registration |-> r, sequence |-> n]
Issues(r, n) == {[id |-> Handle(r, k), runtime |-> r, source |-> k] : k \in n}

\* SourceRegistration::register, register_erased
RegisterSource(r) ==
  LET n == runtimes[r].sources + 1 IN
  /\ ~runtimes[r].running /\ ~runtimes[r].whole /\ n <= MaxSources
  /\ runtimes' = [runtimes EXCEPT ![r].sources = n]
  /\ handles' = handles \cup Issues(r, {n})
\* SourceRegistration::register_sources: a whole catalog, and only one.
RegisterCatalog(r, n) ==
  /\ ~runtimes[r].running /\ ~runtimes[r].whole /\ runtimes[r].sources = 0
  /\ runtimes' = [runtimes EXCEPT ![r].sources = n, ![r].whole = TRUE]
  /\ handles' = handles \cup Issues(r, 1..n)
\* SourceRegistration::finish
FinishRegistration(r) ==
  /\ ~runtimes[r].running
  /\ runtimes' = [runtimes EXCEPT ![r].running = TRUE]
  /\ UNCHANGED handles

(* A broken variant: the generation alone says whose handle it is. *)
SameGeneration(r, h) == h.generation = runtimes[r].generation
\* The issuer of a handle is its generation and its registration.
Issued(r, h) == h.generation = runtimes[r].generation /\ h.registration = r
\* SourceArena::resolve, CatalogEntry::acquire
Resolve(r, h) ==
  IF Issued(r, h) /\ h.sequence # 0 /\ h.sequence <= runtimes[r].sources THEN <<h.sequence>> ELSE Absent

-----------------------------------------------------------------------------
\* The index of one runtime.
Key(source, topic) == [source |-> source, hash |-> IdentityHash(topic)]
Lookup(f, k) == IF k \in DOMAIN f THEN f[k] ELSE <<>>
\* SubscriptionIdentityIndex::candidates, BorrowedTopicParts::matches
Matches(r, source, topic) ==
  {id \in Range(Lookup(runtimes[r].ids, Key(source, topic))) : runtimes[r].entries[id].topic = topic}

With(f, k, v) == [x \in DOMAIN f \cup {k} |-> IF x = k THEN v ELSE f[x]]
Without(f, k) == [x \in DOMAIN f \ {k} |-> f[x]]
Refs(r, source) == IF source \in DOMAIN runtimes[r].refs THEN runtimes[r].refs[source] ELSE 0
\* A new source needs one of the runtime's source ids.
SourceFits(r, source) ==
  source \in DOMAIN runtimes[r].refs \/ Cardinality(DOMAIN runtimes[r].refs) < MaxSourceIds

(* prepare_insert and commit, for a topic that no candidate matches. *)
Insert(r, source, topic) ==
  LET rt == runtimes[r]  k == Key(source, topic)  id == rt.next IN
  /\ Matches(r, source, topic) = {} /\ SourceFits(r, source) /\ id <= MaxIds
  /\ runtimes' = [runtimes EXCEPT ![r] = [@ EXCEPT
       !.ids = With(@, k, Append(Lookup(@, k), id)),
       !.entries = With(@, id, [source |-> source, topic |-> topic]),
       !.refs = With(@, source, Refs(r, source) + 1), !.next = id + 1]]

(* A formula subscribes: SubscriptionRuntime::prepare finds or inserts. *)
Subscribe(r, h, topic) ==
  /\ runtimes[r].running /\ topic \in Topics
  /\ \E source \in Range(Resolve(r, h)) : Insert(r, source, topic)
  /\ UNCHANGED handles

(* A broken variant: the last of a bucket is dropped, whichever was meant. *)
DropsLast(ids, id) == Front(ids)
\* swap_remove at the position of the id
SwapRemove(ids, id) ==
  LET k == CHOOSE j \in DOMAIN ids : ids[j] = id IN
  Front([ids EXCEPT ![k] = Last(ids)])

\* SubscriptionIdentityIndex::remove, release_ref
RemoveEntry(r, id) ==
  /\ id \in DOMAIN runtimes[r].entries
  /\ LET rt == runtimes[r]  e == rt.entries[id]  k == Key(e.source, e.topic)
         left == SwapRemove(rt.ids[k], id) IN
       runtimes' = [runtimes EXCEPT ![r] = [@ EXCEPT
         !.ids = IF left = <<>> THEN Without(@, k) ELSE With(@, k, left),
         !.entries = Without(@, id),
         !.refs = IF rt.refs[e.source] = 1 THEN Without(@, e.source)
                  ELSE With(@, e.source, rt.refs[e.source] - 1)]]
  /\ UNCHANGED handles

(* SubscriptionIdentityIndex::clear, at the end of a runtime. *)
Clear(r) ==
  /\ runtimes[r].running /\ runtimes[r].entries # <<>>
  /\ runtimes' = [runtimes EXCEPT ![r].ids = <<>>, ![r].entries = <<>>, ![r].refs = <<>>]
  /\ UNCHANGED handles

Next ==
  \/ \E g \in Generations : NewRegistration(g)
  \/ \E r \in DOMAIN runtimes :
       \/ RegisterSource(r) \/ FinishRegistration(r) \/ Clear(r)
       \/ \E n \in 1..MaxSources : RegisterCatalog(r, n)
       \/ \E h \in handles, topic \in Topics : Subscribe(r, h.id, topic)
       \/ \E id \in 1..MaxIds : RemoveEntry(r, id)
Spec == Init /\ [][Next]_vars

-----------------------------------------------------------------------------
TypeOK ==
  /\ Len(runtimes) <= MaxRuntimes
  /\ \A r \in DOMAIN runtimes :
       runtimes[r].sources \in 0..MaxSources /\ runtimes[r].next \in 1..(MaxIds + 1)

(* A topic is accepted exactly when it has one to MaxParts non-empty parts that fit Excel's *)
(* strings and the byte limit together, although short parts are never decoded. *)
TopicsAreExact ==
  \A parts \in Offers :
    ValidateTopic(parts) = "valid" <=>
      /\ Len(parts) \in 1..MaxParts /\ Bytes(parts) <= MaxBytes
      /\ \A i \in DOMAIN parts : parts[i].bytes > 0 /\ parts[i].units <= StringLimit

(* A handle resolves in the runtime that issued it, to the source it was issued for, and in *)
(* no other runtime, even if two add-ins have the same generation number. *)
HandlesResolve ==
  \A h \in handles, r \in DOMAIN runtimes :
    Resolve(r, h.id) = IF r = h.runtime THEN <<h.source>> ELSE Absent

(* However hashes collide and entries come and go, a source and topic have at most one *)
(* subscription and the index finds it, and a source is counted while one is left. *)
IndexIsExact ==
  \A r \in DOMAIN runtimes :
    LET rt == runtimes[r] IN
      /\ \A id \in DOMAIN rt.entries : Matches(r, rt.entries[id].source, rt.entries[id].topic) = {id}
      /\ \A source \in 1..MaxSources :
           Refs(r, source) = Cardinality({id \in DOMAIN rt.entries : rt.entries[id].source = source})
      /\ Cardinality(DOMAIN rt.refs) <= MaxSourceIds

(* A key comes back from Excel as it was sent, other text gives a key only if it spells the *)
(* same numbers, and only the runtime that sent a key takes it. *)
KeysComeBack ==
  LET Keys == [runtime : 0..(Base^Width - 1), id : 0..(Base^Width - 1)] IN
  /\ \A key \in Keys : ParseTransport(ToTransport(key)) = <<key>>
  /\ \A key \in Keys, runtime \in 0..(Base^Width - 1) :
       ValidateRuntime(key, runtime) # Absent => runtime = key.runtime
  /\ \A s \in UNION {[1..n -> Characters] : n \in 0..(Width + 1)} :
       ParseFixed(s) # Absent =>
         Digits(ParseFixed(s)[1]) = [k \in DOMAIN s |-> Digit(s[k].value)]
=============================================================================
