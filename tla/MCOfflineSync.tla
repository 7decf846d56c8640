--------------------------- MODULE MCOfflineSync ----------------------------
(* An instance of OfflineSync: one sale, new or left by an earlier build,   *)
(* in two overlapping calls.                                                *)
EXTENDS OfflineSync

CONSTANTS s1, t1, t2
=============================================================================
