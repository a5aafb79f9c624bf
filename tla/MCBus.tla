------------------------------- MODULE MCBus --------------------------------
(* Instances of Bus for TLC: blocks are model values and interchangeable.  *)
EXTENDS Bus, TLC

Symmetry == Permutations(Addrs)
=============================================================================
