----------------------------- MODULE Ownership -----------------------------
(***************************************************************************)
(* What coherence promises the processors, without messages, buses or      *)
(* memory: rights to blocks are granted in one step, a right to write only *)
(* while nobody else has any, a right to read only while nobody else may   *)
(* write; a processor goes on once its operation had the right it needs.   *)
(***************************************************************************)
EXTENDS Processors

CONSTANT Addrs

Rights == {"none", "read", "write"}

VARIABLES
  held,       \* per processor and block, the right it has
  wanted,     \* the right it waits for
  busy        \* per processor: a memory operation is going on

ownershipVars == <<held, wanted, busy>>

Init ==
  /\ held = [p \in Procs |-> [a \in Addrs |-> "none"]]
  /\ wanted = [p \in Procs |-> [a \in Addrs |-> "none"]]
  /\ busy = [p \in Procs |-> FALSE]

Covers(has, right) == has = "write" \/ has = right

(* An operation that needs a right: it has it, or waits for it and gives   *)
(* up what it had.                                                         *)
Request(p, a, right) ==
  /\ ~busy[p] /\ busy' = [busy EXCEPT ![p] = TRUE]
  /\ IF Covers(held[p][a], right)
     THEN UNCHANGED <<held, wanted>>
     ELSE /\ held' = [held EXCEPT ![p][a] = "none"]
          /\ wanted' = [wanted EXCEPT ![p][a] = right]

Grant(p, a) ==
  /\ wanted[p][a] # "none"
  /\ \A q \in Procs \ {p} :
       /\ held[q][a] # "write"
       /\ wanted[p][a] = "write" => held[q][a] = "none"
  /\ held' = [held EXCEPT ![p][a] = wanted[p][a]]
  /\ wanted' = [wanted EXCEPT ![p][a] = "none"]
  /\ UNCHANGED busy

(* Others lose the block, or the right to write it.                        *)
Revoke(a) ==
  /\ \E rights \in [Procs -> Rights] :
       /\ \A p \in Procs : rights[p] # "none" => Covers(held[p][a], rights[p])
       /\ held' = [p \in Procs |-> [held[p] EXCEPT ![a] = rights[p]]]
  /\ UNCHANGED <<wanted, busy>>

(* Operations end that wait for nothing.                                   *)
Retire(S) ==
  /\ \A p \in S, a \in Addrs : wanted[p][a] = "none"
  /\ busy' = [p \in Procs |-> busy[p] /\ p \notin S]
  /\ UNCHANGED <<held, wanted>>

Next ==
  \/ \E p \in Procs, a \in Addrs, right \in Rights \ {"none"} : Request(p, a, right)
  \/ \E p \in Procs, a \in Addrs : Grant(p, a)
  \/ \E a \in Addrs : Revoke(a)
  \/ \E S \in SUBSET Procs : Retire(S)

Safety == Init /\ [][Next]_ownershipVars

TypeOK ==
  /\ held \in [Procs -> [Addrs -> Rights]]
  /\ wanted \in [Procs -> [Addrs -> Rights]]
  /\ busy \in [Procs -> BOOLEAN]

(* Of two processors one may write only if the other has no right.         *)
Exclusive ==
  \A a \in Addrs : \A p, q \in Procs :
    p # q /\ held[p][a] = "write" => held[q][a] = "none"

Spec == Safety /\ \A p \in Procs : busy[p] ~> ~busy[p]
=============================================================================
