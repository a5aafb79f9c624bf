------------------------------ MODULE Dataflow ------------------------------
(***************************************************************************)
(* What an out-of-order core promises, without its queues and buses:       *)
(* operations come in program order, each starts once the operations it    *)
(* takes its operands from are done, and each is done in the end.          *)
(***************************************************************************)
EXTENDS Integers, Sequences, FiniteSets

CONSTANTS
  Ops,           \* ALU operations: [isLong, src1, src2, dest]
  MaxOps

NoReg == -1      \* an operand or a result that is not there

VARIABLES
  trace,         \* the operations so far
  started, done  \* numbers of operations

dataflowVars == <<trace, started, done>>

Largest(S) == {n \in S : \A k \in S : k <= n}

Sources(op) == {op.src1, op.src2} \ {NoReg}

(* The last operation before number n that writes register r, if any.      *)
Writer(ops, n, r) == Largest({k \in 1 .. n - 1 : ops[k].dest = r})

Producers(ops, n) == UNION {Writer(ops, n, r) : r \in Sources(ops[n])}

Init == trace = <<>> /\ started = {} /\ done = {}

Issue ==
  /\ \E op \in Ops : trace' = Append(trace, op)
  /\ UNCHANGED <<started, done>>

Start ==
  /\ started \subseteq started' /\ started' \subseteq DOMAIN trace
  /\ \A n \in started' \ started : Producers(trace, n) \subseteq done
  /\ UNCHANGED <<trace, done>>

Finish ==
  /\ done \subseteq done' /\ done' \subseteq started
  /\ UNCHANGED <<trace, started>>

Next == Issue \/ Start \/ Finish

Safety == Init /\ [][Next]_dataflowVars

Spec ==
  /\ Safety
  /\ \A n \in 1 .. MaxOps : (n \in DOMAIN trace) ~> (n \in done)
=============================================================================
