---------------------------- MODULE SaleDelivery ----------------------------
(***************************************************************************)
(* What the offline sales queue promises (frontend/src/offline/sync.ts     *)
(* together with SyncBatch): a confirmed sale is recorded by the server at *)
(* most once, and the terminal marks as synced only what is recorded.      *)
(***************************************************************************)
EXTENDS Naturals

CONSTANTS
  Sales,
  Inherited    \* sales an earlier build may have left marked as synced

VARIABLES
  confirmed,   \* sales the cashier has closed
  recorded,    \* rows in ventas per sale
  marked       \* sales the terminal shows as synced

vars == <<confirmed, recorded, marked>>

Init ==
  /\ confirmed \in SUBSET Inherited
  /\ recorded \in [Sales -> 0 .. 1]
  /\ \A s \in Sales \ confirmed : recorded[s] = 0
  /\ marked = confirmed

Confirm(s) ==
  /\ s \notin confirmed
  /\ confirmed' = confirmed \cup {s}
  /\ UNCHANGED <<recorded, marked>>

Record(s) ==
  /\ s \in confirmed
  /\ recorded[s] = 0
  /\ recorded' = [recorded EXCEPT ![s] = 1]
  /\ UNCHANGED <<confirmed, marked>>

\* One IndexedDB transaction marks the sales a batch got through.
Mark(S) ==
  /\ \A s \in S : recorded[s] = 1
  /\ marked' = marked \cup S
  /\ UNCHANGED <<confirmed, recorded>>

\* The recovery pass takes marks back.
Unmark(S) ==
  /\ marked' = marked \ S
  /\ UNCHANGED <<confirmed, recorded>>

Next ==
  \/ \E s \in Sales : Confirm(s) \/ Record(s)
  \/ \E S \in SUBSET Sales : Mark(S) \/ Unmark(S)

Spec == Init /\ [][Next]_vars
=============================================================================
