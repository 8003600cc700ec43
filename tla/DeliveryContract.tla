-------------------------- MODULE DeliveryContract --------------------------
(***************************************************************************)
(* What the Collector promises about every record of a file source         *)
(* (docs/architecture/contracts/ARCH-01-collector-ingress-v1.md, sections  *)
(* 7, 8 and 12.A): a record is handed over before its position is          *)
(* committed, records of one file are handed over without gaps, and a      *)
(* committed position never moves backwards.  Handing a record over more   *)
(* than once is allowed and not visible here: `delivered' is a set.        *)
(*                                                                         *)
(* A record is a triple <<source, incarnation, offset>>.  An incarnation   *)
(* is one content of the file behind a source, from its first byte; a      *)
(* rotation starts the next one.                                           *)
(***************************************************************************)
EXTENDS Integers

CONSTANTS Source, MaxInc, MaxLen

VARIABLES
  delivered,  \* records handed over durably, as a batch or as a rejection
  committed   \* source -> the committed position [inc, end]

vars == <<delivered, committed>>

Record == Source \X (1..MaxInc) \X (1..MaxLen)

Position == [inc : 0..MaxInc, end : 0..MaxLen]

\* No record is handed over before every earlier record of its file.
GapFree(D) ==
  \A r \in D : \A k \in 1..r[3] : <<r[1], r[2], k>> \in D

Covered(s, p, D) == \A k \in 1..p.end : <<s, p.inc, k>> \in D

Forward(p, q) == p.inc < q.inc \/ (p.inc = q.inc /\ p.end <= q.end)

Init ==
  /\ delivered = {}
  /\ committed = [s \in Source |-> [inc |-> 0, end |-> 0]]

Deliver ==
  /\ delivered' \in SUBSET Record
  /\ delivered \subseteq delivered'
  /\ GapFree(delivered')
  /\ UNCHANGED committed

Commit ==
  /\ committed' \in [Source -> Position]
  /\ \A s \in Source :
       /\ Forward(committed[s], committed'[s])
       /\ Covered(s, committed'[s], delivered)
  /\ UNCHANGED delivered

Next == Deliver \/ Commit

Spec == Init /\ [][Next]_vars
=============================================================================
