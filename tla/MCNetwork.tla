----------------------------- MODULE MCNetwork ------------------------------
(***************************************************************************)
(* Network for TLC, with a history: the blocks on which two processors     *)
(* have had transactions under way at one time, one of them a write.       *)
(***************************************************************************)
EXTENDS Network

VARIABLE raced

Writing(p, a) == coherStates[p][a] \in {"INVALID_MODIFIED", "SHARED_MODIFIED"}

Conflict(a) ==
  \E p, q \in Procs : p # q /\ Writing(p, a) /\ Transient(q, a)

MCInit == Init /\ raced = {}
MCNext == Next /\ raced' = raced \cup {a \in Addrs : Conflict(a)'}
MCSpec == MCInit /\ [][MCNext]_<<vars, raced>> /\ WF_<<vars, raced>>(MCNext)
----------------------------------------------------------------------------
(* The protocol of the network orders nothing by itself: two caches that   *)
(* ask for a block at the same time ack each other.  That is the only way  *)
(* to lose single writer / many readers: a block that was never raced for  *)
(* has it.                                                                 *)
SWMRUnlessRaced == \A a \in Addrs \ raced : SingleWriter(a)

=============================================================================
