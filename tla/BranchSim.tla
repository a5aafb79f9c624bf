----------------------------- MODULE BranchSim ------------------------------
(***************************************************************************)
(* The branch predictor branchSim/branchSim.c: an array of two-bit         *)
(* counters, a branch history register of b bits and a target buffer.  The *)
(* masks (1 << n) - 1 are remainders and the shift by b is a product, the  *)
(* sizes being powers of two.  Model GSHARE (-g 1) is not here: getIndex   *)
(* returns nothing for it, so that what it indexes is undefined.           *)
(***************************************************************************)
EXTENDS Integers

CONSTANTS
  SelectSize,      \* 1 << (s - b): address bits in the index of GSELECT
  BHRSize,         \* 1 << b
  Branches,        \* addresses of branch instructions in the traces
  Targets          \* addresses that taken branches go to

ASSUME SizesAssumption ==
  /\ SelectSize \in Nat \ {0}
  /\ BHRSize \in Nat \ {0}
ASSUME AddressesAssumption ==
  /\ Branches \subseteq Nat
  /\ Targets \subseteq Nat \ {0}

PredictorSize == SelectSize * BHRSize     \* 1 << s

Models == {"DEFAULT", "GSELECT"}

VARIABLES
  g,               \* the model chosen on the command line
  predictor,       \* the counters
  BTB,             \* the target buffer; 0 is an empty entry
  BHR,             \* the last outcomes, the newest in the lowest bit
  answer           \* what the last branchRequest returned

vars == <<g, predictor, BTB, BHR, answer>>

Entries == 0 .. PredictorSize - 1

TypeOK ==
  /\ g \in Models
  /\ predictor \in [Entries -> 0 .. 3]
  /\ BTB \in [Entries -> Targets \cup {0}]
  /\ BHR \in 0 .. BHRSize - 1
  /\ answer \in Nat

Init ==
  /\ g \in Models
  /\ predictor = [i \in Entries |-> 1]
  /\ BTB = [i \in Entries |-> 0]
  /\ BHR = 0
  /\ answer = 0
----------------------------------------------------------------------------
(* Mutants: the counters do not saturate; the history is not shifted       *)
(* before the outcome is put in.                                           *)
IncrementCounterMut(c) == c + 1
AddToBHRMut(taken) == IF taken /\ BHR % 2 = 0 THEN BHR + 1 ELSE BHR

IncrementCounter(c) == IF c = 3 THEN c ELSE c + 1
DecrementCounter(c) == IF c = 0 THEN c ELSE c - 1
Predict(c) == c \notin {0, 1}

(* addToBHR.                                                               *)
AddToBHR(taken) == (2 * BHR + (IF taken THEN 1 ELSE 0)) % BHRSize

(* getIndex: the history fills the bits that the shift left free.          *)
GetIndex(pc) ==
  IF g = "DEFAULT"
  THEN (pc \div 8) % PredictorSize
  ELSE ((pc \div 8) % SelectSize) * BHRSize + BHR

(* Mutant: a target is kept in the entry of the counter.                   *)
BTBIndexMut(pc) == GetIndex(pc)

(* getBTB and setBTB use address bits only, in both models.                *)
BTBIndex(pc) == (pc \div 8) % PredictorSize

(* branchRequest: predict with the state before, then learn the outcome.   *)
BranchRequest(pc, next) ==
  LET c     == predictor[GetIndex(pc)]
      taken == next # pc + 4
  IN  /\ answer' = IF Predict(c) THEN BTB[BTBIndex(pc)] ELSE pc + 4
      /\ predictor' = [predictor EXCEPT ![GetIndex(pc)] =
                         IF taken THEN IncrementCounter(c)
                                  ELSE DecrementCounter(c)]
      /\ BTB' = IF taken THEN [BTB EXCEPT ![BTBIndex(pc)] = next] ELSE BTB
      /\ BHR' = AddToBHR(taken)
      /\ UNCHANGED g

Next == \E pc \in Branches : \E next \in Targets \cup {pc + 4} :
          BranchRequest(pc, next)

Spec == Init /\ [][Next]_vars
----------------------------------------------------------------------------
(* Entry i of the counters serves the addresses whose target is in one of  *)
(* these entries of the target buffer.                                     *)
Served(i) ==
  IF g = "DEFAULT" THEN {i}
                   ELSE {j \in Entries : j % SelectSize = i \div BHRSize}

(* The two arrays are indexed differently, yet a branch is predicted taken *)
(* only where a taken branch has left a target: a counter gets above 1 by  *)
(* branches that setBTB was called for (branchRequest).  With GSELECT that *)
(* may be the target of another branch of the same group.                  *)
TargetKnown ==
  \A i \in Entries : Predict(predictor[i]) => \E j \in Served(i) : BTB[j] # 0
=============================================================================
