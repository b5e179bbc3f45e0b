---------------------------- MODULE AdmissionGate ----------------------------
(***************************************************************************)
(* What xlfn-kernel's admission gates promise their owner: threads are     *)
(* admitted while the gate is open, a drain certificate is issued only     *)
(* when the gate is closed and nobody is inside, the gate opens again only *)
(* when nobody is inside, and it is reclaimed only on a certificate.       *)
(***************************************************************************)
EXTENDS FiniteSets

CONSTANT Readers

VARIABLES door,      \* "open" or "closed"
          inside,    \* threads admitted and not yet completely out
          drained,   \* "yes" while the owner holds a drain certificate
          life       \* "run", "freed" (reclaimed), "overflow" (aborted)

gateVars == <<door, inside, drained, life>>

Init ==
  /\ door \in {"open", "closed"}
  /\ inside = {}
  /\ drained = "no"
  /\ life = "run"

Enter(r) ==
  /\ door = "open"
  /\ inside' = inside \cup {r}
  /\ UNCHANGED <<door, drained, life>>

Leave(r) ==
  /\ inside' = inside \ {r}
  /\ UNCHANGED <<door, drained, life>>

Close ==
  /\ door' = "closed"
  /\ UNCHANGED <<inside, drained, life>>

Certify ==
  /\ door = "closed"
  /\ inside = {}
  /\ drained' = "yes"
  /\ UNCHANGED <<door, inside, life>>

(* The certificate is given up before the door can open again.             *)
Surrender ==
  /\ drained' = "no"
  /\ UNCHANGED <<door, inside, life>>

Open ==
  /\ drained = "no"
  /\ inside = {}
  /\ door' = "open"
  /\ UNCHANGED <<inside, drained, life>>

Reclaim ==
  /\ drained = "yes"
  /\ life' = "freed"
  /\ UNCHANGED <<door, inside, drained>>

(* A full admission count aborts the process; only an open gate counts up. *)
Overflow ==
  /\ door = "open"
  /\ life' = "overflow"
  /\ UNCHANGED <<door, inside, drained>>

Next ==
  /\ life = "run"
  /\ \/ \E r \in Readers : Enter(r) \/ Leave(r)
     \/ Close \/ Certify \/ Surrender \/ Open \/ Reclaim \/ Overflow

Spec == Init /\ [][Next]_gateVars
=============================================================================
