--------------------------- MODULE BranchProofs ----------------------------
(* The branch predictor for every size of its tables and every trace.      *)
EXTENDS BranchSim, Numbers

(* The remainder of a remainder by a multiple.                             *)
LEMMA Remainders ==
  ASSUME NEW b \in Nat \ {0}, NEW c \in Nat \ {0}, NEW n \in Nat
  PROVE  (n % (b * c)) % b = n % b
<1> DEFINE m == b * c
           k == n \div m
           r == n % m
<1>1. m \in Nat \ {0}
  OBVIOUS
<1> HIDE DEF m
<1>2. k \in Nat /\ r \in Nat /\ n = k * m + r
  <2>1. r \in 0 .. m - 1 => r \in Nat
    BY <1>1
  <2> QED
    BY <1>1, <2>1, Division
<1>3. /\ r \div b \in Nat /\ r % b \in 0 .. b - 1
      /\ r = (r \div b) * b + (r % b)
  BY <1>2, Division
<1> HIDE DEF k, r
<1> DEFINE q == k * c + (r \div b)
<1>4. q \in Nat
  <2>1. k * c \in Nat
    BY <1>2
  <2> QED
    BY <1>3, <2>1
<1>5. k * m = (k * c) * b
  BY <1>2 DEF m
<1>6. n = q * b + (r % b)
  <2> DEFINE u == k * c
             v == r \div b
  <2>1. u \in Nat /\ v \in Nat
    BY <1>2, <1>3
  <2>2. n = u * b + r
    BY <1>2, <1>5
  <2> HIDE DEF u, v
  <2>3. r = v * b + (r % b)
    BY <1>3 DEF v
  <2>4. (u + v) * b = u * b + v * b
    BY <2>1
  <2>5. u * b \in Nat /\ v * b \in Nat /\ r % b \in Nat
    BY <1>3, <2>1
  <2>6. n = (u + v) * b + (r % b)
    BY <2>2, <2>3, <2>4, <2>5
  <2> QED
    BY <2>6 DEF u, v
<1> HIDE DEF q
<1>7. n % b = r % b
  BY <1>3, <1>4, <1>6, Quotient
<1> QED
  BY <1>7 DEF m, r
----------------------------------------------------------------------------
(* The masks keep both indices inside their arrays.                        *)
LEMMA IndexInRange ==
  ASSUME NEW bits \in 0 .. SelectSize - 1, NEW h \in 0 .. BHRSize - 1
  PROVE  bits * BHRSize + h \in Entries
<1>1. (bits + 1) * BHRSize <= SelectSize * BHRSize
  <2>1. CASE bits + 1 = SelectSize
    BY <2>1, SizesAssumption
  <2>2. CASE bits + 1 < SelectSize
    <3>1. (bits + 1) * BHRSize + BHRSize <= SelectSize * BHRSize
      BY <2>2, SizesAssumption, MultipleOrder
    <3>2. (bits + 1) * BHRSize \in Nat /\ SelectSize * BHRSize \in Nat
      BY SizesAssumption
    <3> QED
      BY <3>1, <3>2, SizesAssumption
  <2> QED
    BY <2>1, <2>2, SizesAssumption
<1>2. (bits + 1) * BHRSize = bits * BHRSize + BHRSize
  BY SizesAssumption
<1>3. bits * BHRSize \in Nat /\ SelectSize * BHRSize \in Nat
  BY SizesAssumption
<1> QED
  BY <1>1, <1>2, <1>3, SizesAssumption DEF Entries, PredictorSize

LEMMA Indices ==
  ASSUME TypeOK, NEW pc \in Nat
  PROVE  /\ GetIndex(pc) \in Entries /\ BTBIndex(pc) \in Entries
         /\ (pc \div 8) \in Nat
         /\ (pc \div 8) % SelectSize \in 0 .. SelectSize - 1
<1>1. pc \div 8 \in Nat
  BY Division
<1>2. PredictorSize \in Nat \ {0}
  BY SizesAssumption DEF PredictorSize
<1>3. (pc \div 8) % PredictorSize \in Entries
  BY <1>1, <1>2, Division DEF Entries
<1>4. (pc \div 8) % SelectSize \in 0 .. SelectSize - 1
  BY <1>1, SizesAssumption, Division
<1>5. ((pc \div 8) % SelectSize) * BHRSize + BHR \in Entries
  BY <1>4, IndexInRange DEF TypeOK
<1> QED
  BY <1>1, <1>3, <1>4, <1>5 DEF GetIndex, BTBIndex
----------------------------------------------------------------------------
LEMMA BranchInit == Init => TypeOK /\ TargetKnown
<1> SUFFICES ASSUME Init PROVE TypeOK /\ TargetKnown
  OBVIOUS
<1>1. TypeOK
  BY SizesAssumption DEF Init, TypeOK
<1>2. \A i \in Entries : ~Predict(predictor[i])
  BY DEF Init, Predict
<1> QED
  BY <1>1, <1>2 DEF TargetKnown

(* What a branch does to the arrays, with the answer left out.             *)
LEMMA BranchEffect ==
  ASSUME TypeOK, NEW pc \in Branches, NEW next \in Targets \cup {pc + 4},
         BranchRequest(pc, next)
  PROVE  /\ TypeOK' /\ g' = g
         /\ \A i \in Entries \ {GetIndex(pc)} : predictor'[i] = predictor[i]
         /\ \A j \in Entries : BTB'[j] = BTB[j] \/ BTB'[j] # 0
         /\ Predict(predictor'[GetIndex(pc)])
              => Predict(predictor[GetIndex(pc)]) \/ BTB'[BTBIndex(pc)] # 0
<1> DEFINE i == GetIndex(pc)
           j == BTBIndex(pc)
           taken == next # pc + 4
           c == predictor[i]
<1>1. pc \in Nat /\ next \in Nat /\ (taken => next \in Targets /\ next # 0)
  BY AddressesAssumption
<1>2. i \in Entries /\ j \in Entries /\ c \in 0 .. 3
  BY <1>1, Indices DEF TypeOK
<1>3. /\ predictor' = [predictor EXCEPT ![i] = IF taken THEN IncrementCounter(c)
                                                      ELSE DecrementCounter(c)]
      /\ BTB' = IF taken THEN [BTB EXCEPT ![j] = next] ELSE BTB
      /\ BHR' = AddToBHR(taken)
      /\ answer' = IF Predict(c) THEN BTB[j] ELSE pc + 4
      /\ g' = g
  BY DEF BranchRequest
<1> HIDE DEF i, j, c
<1>4. IncrementCounter(c) \in 0 .. 3 /\ DecrementCounter(c) \in 0 .. 3
  BY <1>2 DEF IncrementCounter, DecrementCounter
<1>5. BHR' \in 0 .. BHRSize - 1
  <2>1. AddToBHR(taken) \in 0 .. BHRSize - 1
    <3> DEFINE n == 2 * BHR + (IF taken THEN 1 ELSE 0)
    <3>1. n \in Nat
      BY SizesAssumption DEF TypeOK
    <3> HIDE DEF n
    <3>2. n % BHRSize \in 0 .. BHRSize - 1
      BY <3>1, SizesAssumption, Division
    <3> QED
      BY <3>2 DEF AddToBHR, n
  <2> QED
    BY <1>3, <2>1
<1>6. answer' \in Nat
  <2>1. BTB[j] \in Targets \cup {0}
    BY <1>2 DEF TypeOK
  <2>2. Targets \cup {0} \subseteq Nat
    BY AddressesAssumption
  <2>3. BTB[j] \in Nat
    BY <2>1, <2>2
  <2> QED
    BY <1>1, <1>3, <2>3
<1>7. predictor' \in [Entries -> 0 .. 3] /\ BTB' \in [Entries -> Targets \cup {0}]
  BY <1>1, <1>2, <1>3, <1>4 DEF TypeOK
<1>8. TypeOK'
  BY <1>3, <1>5, <1>6, <1>7 DEF TypeOK
<1>9. \A k \in Entries \ {i} : predictor'[k] = predictor[k]
  BY <1>3 DEF TypeOK
<1>10. \A k \in Entries : BTB'[k] = BTB[k] \/ BTB'[k] # 0
  BY <1>1, <1>3 DEF TypeOK
<1>11. Predict(predictor'[i]) => Predict(c) \/ BTB'[j] # 0
  <2>1. CASE taken
    BY <1>1, <1>2, <1>3, <2>1 DEF TypeOK
  <2>2. CASE ~taken
    <3>1. predictor'[i] = DecrementCounter(c)
      BY <1>2, <1>3, <2>2 DEF TypeOK
    <3> QED
      BY <1>2, <3>1 DEF DecrementCounter, Predict
  <2> QED
    BY <2>1, <2>2
<1> QED
  BY <1>3, <1>8, <1>9, <1>10, <1>11 DEF i, j, c

(* The target of a branch is in an entry that its counter serves.          *)
LEMMA TargetServed ==
  ASSUME TypeOK, NEW pc \in Nat
  PROVE  BTBIndex(pc) \in Served(GetIndex(pc))
<1>1. BTBIndex(pc) \in Entries /\ (pc \div 8) \in Nat
      /\ (pc \div 8) % SelectSize \in 0 .. SelectSize - 1
  BY Indices
<1>2. CASE g = "DEFAULT"
  BY <1>2 DEF Served, GetIndex, BTBIndex
<1>3. CASE g # "DEFAULT"
  <2> DEFINE bits == (pc \div 8) % SelectSize
  <2>1. BTBIndex(pc) % SelectSize = bits
    BY <1>1, SizesAssumption, Remainders DEF BTBIndex, PredictorSize
  <2>2. bits \in Nat /\ BHR \in 0 .. BHRSize - 1
    BY <1>1, SizesAssumption DEF TypeOK
  <2> HIDE DEF bits
  <2>3. (bits * BHRSize + BHR) \div BHRSize = bits
    BY <2>2, SizesAssumption, Quotient
  <2>4. GetIndex(pc) \div BHRSize = bits
    BY <1>3, <2>3 DEF GetIndex, bits
  <2> QED
    BY <1>1, <1>3, <2>1, <2>4 DEF Served
<1> QED
  BY <1>2, <1>3

LEMMA BranchKeeps ==
  TypeOK /\ TargetKnown /\ [Next]_vars => TypeOK' /\ TargetKnown'
<1> SUFFICES ASSUME TypeOK, TargetKnown, [Next]_vars PROVE TypeOK' /\ TargetKnown'
  OBVIOUS
<1>1. CASE UNCHANGED vars
  BY <1>1 DEF vars, TypeOK, TargetKnown, Served
<1>2. CASE Next
  <2>1. PICK pc \in Branches : \E next \in Targets \cup {pc + 4} : BranchRequest(pc, next)
    BY <1>2 DEF Next
  <2>2. /\ TypeOK' /\ g' = g
        /\ \A i \in Entries \ {GetIndex(pc)} : predictor'[i] = predictor[i]
        /\ \A j \in Entries : BTB'[j] = BTB[j] \/ BTB'[j] # 0
        /\ Predict(predictor'[GetIndex(pc)])
             => Predict(predictor[GetIndex(pc)]) \/ BTB'[BTBIndex(pc)] # 0
    BY <2>1, BranchEffect
  <2>3. /\ GetIndex(pc) \in Entries
        /\ BTBIndex(pc) \in Served(GetIndex(pc))
    BY AddressesAssumption, Indices, TargetServed
  <2>4. \A i \in Entries : Served(i)' = Served(i) /\ Served(i) \subseteq Entries
    BY <2>2 DEF Served
  <2>5. ASSUME NEW i \in Entries, Predict(predictor'[i])
        PROVE  \E j \in Served(i) : BTB'[j] # 0
    <3>1. CASE Predict(predictor[i])
      <4>1. PICK j \in Served(i) : BTB[j] # 0
        BY <3>1 DEF TargetKnown
      <4> QED
        BY <2>2, <2>4, <4>1
    <3>2. CASE ~Predict(predictor[i])
      <4>1. i = GetIndex(pc)
        BY <2>2, <2>5, <3>2
      <4> QED
        BY <2>2, <2>3, <2>5, <3>2, <4>1
    <3> QED
      BY <3>1, <3>2
  <2>6. TargetKnown'
    BY <2>4, <2>5 DEF TargetKnown, Predict
  <2> QED
    BY <2>2, <2>6
<1> QED
  BY <1>1, <1>2

(* The indices stay in their arrays and the counters in their two bits,    *)
(* whatever the sizes and the addresses (getIndex, setCounter, setBTB).    *)
THEOREM BranchTypeCorrect == Spec => []TypeOK
<1>1. TypeOK /\ TargetKnown /\ [Next]_vars => (TypeOK /\ TargetKnown)'
  BY BranchKeeps
<1> QED
  BY <1>1, BranchInit, PTL DEF Spec

(* A branch is predicted taken only where a target has been left, although *)
(* counters and targets are indexed differently (branchRequest).           *)
THEOREM BranchTargetKnown == Spec => []TargetKnown
<1>1. TypeOK /\ TargetKnown /\ [Next]_vars => (TypeOK /\ TargetKnown)'
  BY BranchKeeps
<1> QED
  BY <1>1, BranchInit, PTL DEF Spec

(* With GSELECT two branches share a counter only when their address bits  *)
(* and the history agree: the history does not spill into the address bits *)
(* (the shift in getIndex).                                                *)
THEOREM IndexInjective ==
  ASSUME TypeOK, TypeOK', g = "GSELECT", g' = "GSELECT",
         NEW p \in Branches, NEW q \in Branches, GetIndex(p) = GetIndex(q)'
  PROVE  /\ (p \div 8) % SelectSize = (q \div 8) % SelectSize
         /\ BHR = BHR'
<1> DEFINE x == (p \div 8) % SelectSize
           y == (q \div 8) % SelectSize
<1>1. x \in Nat /\ y \in Nat
  <2>1. x \in 0 .. SelectSize - 1 /\ y \in 0 .. SelectSize - 1
    BY AddressesAssumption, Indices
  <2> QED
    BY <2>1, SizesAssumption
<1>2. x * BHRSize + BHR = y * BHRSize + BHR'
  BY DEF GetIndex
<1>3. BHR \in 0 .. BHRSize - 1 /\ BHR' \in 0 .. BHRSize - 1
  BY DEF TypeOK
<1> HIDE DEF x, y
<1>4. x = y /\ BHR = BHR'
  BY <1>1, <1>2, <1>3, SizesAssumption, OneRemainder
<1> QED
  BY <1>4 DEF x, y
=============================================================================
