---------------------------- MODULE MCBranchSim -----------------------------
(* BranchSim for TLC, and its refinement of TwoLevel.                      *)
EXTENDS BranchSim, Sequences

CONSTANT HistoryBits     \* b

ASSUME BHRSize = 2 ^ HistoryBits

(* The outcomes in the word BHR, the newest last, and the word of a        *)
(* sequence of outcomes.                                                   *)
Outcomes == [i \in 1 .. HistoryBits |-> (BHR \div 2 ^ (HistoryBits - i)) % 2 = 1]

Word ==
  [h \in [1 .. HistoryBits -> BOOLEAN] |->
     LET word[i \in 0 .. HistoryBits] ==
           IF i = 0 THEN 0 ELSE 2 * word[i - 1] + (IF h[i] THEN 1 ELSE 0)
     IN  word[HistoryBits]]

Contexts == (0 .. SelectSize - 1) \X [1 .. HistoryBits -> BOOLEAN]

Opinion(c) == <<"strongly not", "weakly not", "weakly taken", "strongly taken">>[c + 1]

Ideal == INSTANCE TwoLevel WITH
  SmallGroups <- SelectSize, LargeGroups <- PredictorSize,
  HistoryLength <- HistoryBits,
  opinion <- IF g = "GSELECT"
             THEN [x \in Contexts |-> Opinion(predictor[x[1] * BHRSize + Word[x[2]]])]
             ELSE [x \in Entries \X {<<>>} |-> Opinion(predictor[x[1]])],
  history <- Outcomes,
  target <- BTB

(* The predictor is a two-level predictor: no two groups and no two        *)
(* histories share a counter, counters saturate at both ends, and a        *)
(* prediction uses the state from before its own branch (getIndex,         *)
(* addToBHR and the order of calls in branchRequest).                      *)
ImplementsTwoLevel == Ideal!Spec
=============================================================================
