--------------------------- MODULE FormulaIdentity ---------------------------
(***************************************************************************)
(* What a formula and its object are recognised by: the token text of a    *)
(* handle and the small cache of verified tokens of a thread               *)
(* (handle/token.rs), and the fingerprint of a call's inputs               *)
(* (input_identity/backend.rs).                                            *)
(*                                                                         *)
(* The keyed hash of a token and the hash of inputs are taken to be        *)
(* injective: a tag is the tuple it authenticates, a digest the bytes that *)
(* were fed to it.                                                         *)
(***************************************************************************)
EXTENDS Naturals, Sequences, FiniteSets, SequencesExt

CONSTANTS Ops,                        \* which of "tokens" and "inputs" a run looks at
          Addresses,                  \* where a registry can lie; reused after it is gone
          MaxSession, Slots, MaxGeneration,
          Sets, Ways,                 \* of the cache; the last digit of a token selects the set
          Bytes, MaxWrite,            \* what an encoder writes at once
          InlineBytes, HashBuffer, MaxArgument, Arguments

VARIABLES registry,    \* the registry that is open: address, session, secret
          session,     \* sessions so far
          issued,      \* token texts that cells show
          cache,       \* the verified tokens of the thread, and the next victim of each set
          encoder,     \* of the argument that is being written
          written,     \* the bytes of that argument so far
          builder      \* of the whole fingerprint
vars == <<registry, session, issued, cache, encoder, written, builder>>

None == <<>>
Closed == [address |-> 0, session |-> 0, secret |-> 0]
Fresh == [sink |-> "inline", bytes |-> <<>>, fed |-> <<>>, error |-> "none"]

Init ==
  /\ registry = Closed /\ session = 0 /\ issued = {}
  /\ cache = [s \in Sets |-> [ways |-> [w \in 1..Ways |-> None], victim |-> 1]]
  /\ encoder = None /\ written = <<>>
  /\ builder = [root |-> <<>>, next |-> 1, scratch |-> None, ended |-> FALSE]

tokenVars == <<registry, session, issued, cache>>
inputVars == <<encoder, written, builder>>

-----------------------------------------------------------------------------
\* Tokens.
Id(slot, generation) == [slot |-> slot, generation |-> generation]
\* TokenCodec::authentication_tag
Tag(reg, id) == <<reg.secret, reg.session, id>>
\* The digit of a tag that selects a set: tokens of one slot and generation share it here.
SetOf(token) == (token.id.slot + token.id.generation) % Cardinality(Sets)

\* TokenCodec::format
Format(reg, id) == [session |-> reg.session, id |-> id, tag |-> Tag(reg, id), canonical |-> TRUE]
\* parse_uncached: only the canonical lower-case grammar, and no generation zero.
ParseUncached(token) ==
  IF token.canonical /\ token.id.generation > 0 THEN <<token>> ELSE None
\* TokenCodec::verify
Verify(reg, token) ==
  IF token.session = reg.session /\ token.tag = Tag(reg, token.id) THEN <<token.id>> ELSE None
Authenticates(reg, token) ==
  IF ParseUncached(token) = None THEN None ELSE Verify(reg, token)

(* A broken variant: a registry at the same address is taken for the same registry. *)
TrustsAddress(entry, reg, token) == entry.address = reg.address /\ entry.token = token
\* verified_token_cache_lookup, one way
Hit(entry, reg, token) ==
  /\ entry.address = reg.address /\ entry.session = reg.session
  /\ entry.token = token /\ entry.secret = reg.secret
CacheLookup(reg, token) ==
  {cache[SetOf(token)].ways[w][1].id :
     w \in {v \in 1..Ways : /\ cache[SetOf(token)].ways[v] # None
                            /\ Hit(cache[SetOf(token)].ways[v][1], reg, token)}}

\* HandleRegistry::from_entropy: a new session and secret, at an address that is free now.
OpenRegistry(a) ==
  /\ registry = Closed /\ session < MaxSession
  /\ session' = session + 1
  /\ registry' = [address |-> a, session |-> session + 1, secret |-> session + 1]
  /\ UNCHANGED <<issued, cache>>
CloseRegistry ==
  /\ registry # Closed
  /\ registry' = Closed
  /\ UNCHANGED <<session, issued, cache>>

IssueToken(slot, generation) ==
  /\ registry # Closed
  /\ issued' = issued \cup {Format(registry, Id(slot, generation))}
  /\ UNCHANGED <<registry, session, cache>>

(* A cell shows a token that was typed again, and not in the canonical form. *)
RetypeToken(token) ==
  /\ token.canonical
  /\ issued' = issued \cup {[token EXCEPT !.canonical = FALSE]}
  /\ UNCHANGED <<registry, session, cache>>

\* verified_token_cache_store
Stored(token, id) ==
  LET s == SetOf(token)  v == cache[s].victim IN
  [cache EXCEPT ![s].ways[v] = <<[address |-> registry.address, session |-> registry.session,
                                  secret |-> registry.secret, token |-> token, id |-> id]>>,
                ![s].victim = (v % Ways) + 1]

(* TokenCodec::parse of a token that some cell still shows. *)
ParseToken(token) ==
  /\ registry # Closed /\ token \in issued
  /\ CacheLookup(registry, token) = {}
  /\ LET id == Authenticates(registry, token) IN
       id # None /\ cache' = Stored(token, id[1])
  /\ UNCHANGED <<registry, session, issued>>

Tokens ==
  \/ \E a \in Addresses : OpenRegistry(a)
  \/ CloseRegistry
  \/ \E slot \in Slots, generation \in 1..MaxGeneration : IssueToken(slot, generation)
  \/ \E token \in issued : ParseToken(token) \/ RetypeToken(token)

-----------------------------------------------------------------------------
\* Inputs.
\* flush_hashed
Flushed(e) == [e EXCEPT !.fed = @ \o e.bytes, !.bytes = <<>>]
\* write_hashed
WriteHashed(e, bytes) ==
  IF Len(bytes) >= HashBuffer THEN [Flushed(e) EXCEPT !.fed = @ \o bytes]
  ELSE IF Len(e.bytes) + Len(bytes) > HashBuffer THEN [Flushed(e) EXCEPT !.bytes = bytes]
  ELSE [e EXCEPT !.bytes = @ \o bytes]

(* A broken variant: the workspace of an earlier argument is taken as it was left. *)
KeepsDigest(e) == [e EXCEPT !.sink = "hashed", !.fed = IF builder.scratch = None THEN <<>> ELSE builder.scratch[1]]
\* promote_to_hashed: a new hasher, or the spare one after a reset.
Promoted(e) == [e EXCEPT !.sink = "hashed", !.fed = <<>>]

(* A broken variant: an argument that fills the inline buffer is hashed already. *)
PromotesEarly(e, bytes) == e.sink = "inline" /\ Len(e.bytes) + Len(bytes) >= InlineBytes
NeedsPromotion(e, bytes) == e.sink = "inline" /\ Len(e.bytes) + Len(bytes) > InlineBytes

\* InputIdentityEncoder::write
Written(e, bytes) ==
  LET p == IF NeedsPromotion(e, bytes) THEN Promoted(e) ELSE e IN
  IF e.error # "none" THEN e
  ELSE IF p.sink = "inline" THEN [p EXCEPT !.bytes = @ \o bytes]
  ELSE WriteHashed(p, bytes)
\* f64_sequence: value by value, the sink chosen once for what remains.
Sequence(e, values) ==
  LET fits == IF e.sink = "hashed" THEN 0
              ELSE Max({n \in 0..Len(values) : Len(e.bytes) + n <= InlineBytes} \cup {0})
      inline == IF e.sink = "hashed" THEN e ELSE [e EXCEPT !.bytes = @ \o SubSeq(values, 1, fits)] IN
  IF e.error # "none" THEN e
  ELSE IF fits = Len(values) THEN inline
  ELSE FoldLeft(LAMBDA s, v : WriteHashed(s, <<v>>),
                IF e.sink = "hashed" THEN e ELSE Promoted(inline), SubSeq(values, fits + 1, Len(values)))

Writes == UNION {[1..n -> Bytes] : n \in 0..MaxWrite}

(* InputFingerprintBuilder::with_argument, for the argument whose turn it is. *)
StartArgument ==
  /\ encoder = None /\ ~builder.ended /\ builder.next <= Arguments
  /\ builder' = [builder EXCEPT !.root = Append(@, [as |-> "header", of |-> <<builder.next>>])]
  /\ encoder' = <<Fresh>> /\ written' = <<>>

(* tag, bytes, string, utf16, bool, u32, u64 ... of a conversion. *)
Write(bytes) ==
  /\ encoder # None /\ Len(written) + Len(bytes) <= MaxArgument
  /\ encoder' = <<Written(encoder[1], bytes)>> /\ written' = written \o bytes
  /\ UNCHANGED builder
\* fail, fail_input: the first error stays.
Failed(e) == [e EXCEPT !.error = "input"]
(* f64_sequence, whose values may end with one that cannot be converted. *)
WriteSequence(values, ok) ==
  /\ encoder # None /\ Len(written) + Len(values) <= MaxArgument
  /\ LET e == Sequence(encoder[1], values) IN encoder' = <<IF ok THEN e ELSE Failed(e)>>
  /\ written' = written \o values
  /\ UNCHANGED builder
Fail ==
  /\ encoder # None /\ encoder[1].error = "none"
  /\ encoder' = <<Failed(encoder[1])>>
  /\ UNCHANGED <<written, builder>>

\* What finish_into adds to the root.
Digest(e) == [as |-> e.sink, of |-> e.fed \o e.bytes]
(* A broken variant: an argument that failed counts as encoded. *)
AlwaysAdvances(e) == builder.next + 1
NextArgument(e) == IF e.error = "none" THEN builder.next + 1 ELSE builder.next
(* The end of with_argument.  The caller returns the error of an argument that failed. *)
FinishArgument ==
  /\ encoder # None
  /\ LET e == encoder[1] IN
       builder' = [root |-> IF e.error = "none" THEN Append(builder.root, Digest(e)) ELSE builder.root,
                   next |-> NextArgument(e),
                   ended |-> e.error # "none",
                   scratch |-> IF e.sink = "hashed" THEN <<e.fed>> ELSE builder.scratch]
  /\ encoder' = None
  /\ UNCHANGED written
\* finish_ref
Finishes == encoder = None /\ builder.next = Arguments + 1

Inputs ==
  \/ StartArgument \/ Fail \/ FinishArgument
  \/ \E bytes \in Writes : Write(bytes) \/ \E ok \in BOOLEAN : WriteSequence(bytes, ok)

Next ==
  \/ "tokens" \in Ops /\ Tokens /\ UNCHANGED inputVars
  \/ "inputs" \in Ops /\ Inputs /\ UNCHANGED tokenVars
Spec == Init /\ [][Next]_vars

-----------------------------------------------------------------------------
TypeOK ==
  /\ session \in 0..MaxSession
  /\ \A s \in Sets : cache[s].victim \in 1..Ways
  /\ encoder # None => Len(encoder[1].bytes) <= HashBuffer + InlineBytes

(* The cache of verified tokens never changes an answer: what it says about a token that *)
(* some cell shows is what parsing and authenticating it for the registry that is open now *)
(* says, also when an earlier registry had the same address. *)
CacheIsTransparent ==
  registry # Closed =>
    \A token \in issued :
      \A id \in CacheLookup(registry, token) : Authenticates(registry, token) = <<id>>

(* A registry takes exactly the tokens it issued itself. *)
OnlyOwnTokens ==
  registry # Closed =>
    \A token \in issued :
      Authenticates(registry, token) # None <=> token = Format(registry, token.id)

(* The identity of an argument depends on its bytes alone and not on the writes they came *)
(* in, and nothing of an earlier argument is in it: it is hashed exactly when it does not *)
(* fit inline, and what is hashed is what was written. *)
EncodingIsCanonical ==
  (encoder # None /\ encoder[1].error = "none") =>
    Digest(encoder[1]) =
      [as |-> IF Len(written) > InlineBytes THEN "hashed" ELSE "inline", of |-> written]

(* A fingerprint that is given out has the identity of every argument, in order. *)
FingerprintIsWhole ==
  Finishes =>
    /\ Len(builder.root) = 2 * Arguments
    /\ \A i \in 1..Arguments : /\ builder.root[2 * i - 1].of = <<i>>
                               /\ builder.root[2 * i].as # "header"
=============================================================================
