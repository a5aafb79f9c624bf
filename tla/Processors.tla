----------------------------- MODULE Processors -----------------------------
(* The processors simulated, numbered as in the engine and its components. *)
EXTENDS Integers

CONSTANT ProcessorCount   \* engine: -n

ASSUME ProcessorAssumption == ProcessorCount \in Nat \ {0}

Procs == 0 .. ProcessorCount - 1
=============================================================================
