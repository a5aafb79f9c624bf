----------------------------- MODULE MemoryPort -----------------------------
(***************************************************************************)
(* What simProcessor needs of a cache behind cache.h: memoryRequest opens  *)
(* some accesses and blocks the processor, the accesses end one by one or  *)
(* together, and memOpCallback comes once all of them have ended.  CacheSim*)
(* is shown to implement this; SimProcessor is built on it.                *)
(***************************************************************************)
EXTENDS Integers

VARIABLES
  pendingMem,      \* the processor is blocked
  outstanding      \* accesses that have no permission yet

portVars == <<pendingMem, outstanding>>

Init == pendingMem = FALSE /\ outstanding = 0

(* An access that crosses a block boundary is two.                         *)
Request(n) == pendingMem' = TRUE /\ outstanding' = outstanding + n

Advance ==
  /\ outstanding > 0
  /\ outstanding' \in 0 .. outstanding - 1
  /\ UNCHANGED pendingMem

Answer ==
  /\ pendingMem /\ outstanding = 0
  /\ pendingMem' = FALSE
  /\ UNCHANGED outstanding

Next == (\E n \in 1 .. 2 : Request(n)) \/ Advance \/ Answer

Safety == Init /\ [][Next]_portVars

Spec == Safety /\ (pendingMem ~> ~pendingMem)
=============================================================================
