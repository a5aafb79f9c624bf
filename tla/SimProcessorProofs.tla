------------------------- MODULE SimProcessorProofs -------------------------
(* The out-of-order core for every width, every number of units and buses, *)
(* every set of registers and every trace.                                 *)
EXTENDS SimProcessor, Numbers, FiniteSetTheorems, SequenceTheorems

(* The k-th smallest element of a finite set of numbers: positions are the *)
(* ranks of the elements.                                                  *)
LEMMA InOrderEnumerates ==
  ASSUME NEW S, S \subseteq Nat, IsFiniteSet(S)
  PROVE  /\ Cardinality(S) \in Nat
         /\ InOrder(S) \in Seq(S) /\ Len(InOrder(S)) = Cardinality(S)
         /\ \A n \in S : \E j \in 1 .. Cardinality(S) : InOrder(S)[j] = n
         /\ \A i, j \in 1 .. Cardinality(S) : InOrder(S)[i] = InOrder(S)[j] => i = j
         /\ \A j \in 1 .. Cardinality(S) :
              Cardinality({m \in S : m <= InOrder(S)[j]}) = j
<1> DEFINE UpTo(n) == {m \in S : m <= n}
           rank == [n \in S |-> Cardinality(UpTo(n))]
           C == Cardinality(S)
<1>1. C \in Nat
  BY FS_CardinalityType
<1>2. \A n \in S : IsFiniteSet(UpTo(n)) /\ Cardinality(UpTo(n)) \in 1 .. C
  <2> TAKE n \in S
  <2>1. UpTo(n) \in SUBSET S
    OBVIOUS
  <2>2. IsFiniteSet(UpTo(n)) /\ Cardinality(UpTo(n)) <= C
    BY <2>1, FS_Subset
  <2>3. n \in UpTo(n)
    OBVIOUS
  <2>4. Cardinality(UpTo(n)) \in Nat /\ Cardinality(UpTo(n)) # 0
    BY <2>2, <2>3, FS_CardinalityType, FS_EmptySet
  <2> QED
    BY <1>1, <2>2, <2>4
<1>3. \A n, k \in S : n < k => Cardinality(UpTo(n)) # Cardinality(UpTo(k))
  <2> SUFFICES ASSUME NEW n \in S, NEW k \in S, n < k,
                      Cardinality(UpTo(n)) = Cardinality(UpTo(k))
               PROVE  FALSE
    OBVIOUS
  <2>1. UpTo(n) \in SUBSET UpTo(k)
    <3>1. ASSUME NEW m \in S, m <= n PROVE m <= k
      <4>1. m \in Nat /\ n \in Nat /\ k \in Nat
        OBVIOUS
      <4> QED
        BY <3>1, <4>1
    <3> QED
      BY <3>1
  <2>2. UpTo(n) = UpTo(k)
    BY <1>2, <2>1, FS_Subset
  <2>3. k \in UpTo(k) /\ k \notin UpTo(n)
    OBVIOUS
  <2> QED
    BY <2>2, <2>3
<1> HIDE DEF UpTo
<1>4. rank \in Injection(S, 1 .. C)
  <2>1. rank \in [S -> 1 .. C]
    BY <1>2
  <2>2. \A n, k \in S : rank[n] = rank[k] => n = k
    BY <1>3
  <2> QED
    BY <2>1, <2>2 DEF Injection, IsInjective
<1>5. IsFiniteSet(1 .. C) /\ Cardinality(1 .. C) = C
  BY <1>1, FS_Interval
<1>6. rank \in Surjection(S, 1 .. C)
  BY <1>4, <1>5, FS_Injection
<1>7. \A j \in 1 .. C : \E n \in S : Cardinality(UpTo(n)) = j
  BY <1>6 DEF Surjection
<1>8. InOrder(S) = [j \in 1 .. C |-> CHOOSE n \in S : Cardinality(UpTo(n)) = j]
  BY DEF InOrder, UpTo
<1>9. \A j \in 1 .. C : InOrder(S)[j] \in S /\ Cardinality(UpTo(InOrder(S)[j])) = j
  BY <1>7, <1>8
<1>10. InOrder(S) \in Seq(S) /\ Len(InOrder(S)) = C
  BY <1>1, <1>8, <1>9
<1>11. \A n \in S : InOrder(S)[Cardinality(UpTo(n))] = n
  <2> TAKE n \in S
  <2>1. Cardinality(UpTo(n)) \in 1 .. C
    BY <1>2
  <2>2. rank[InOrder(S)[Cardinality(UpTo(n))]] = rank[n]
    BY <2>1, <1>9
  <2> QED
    BY <2>1, <2>2, <1>9, <1>4 DEF Injection, IsInjective
<1>12. \A j \in 1 .. C : Cardinality({m \in S : m <= InOrder(S)[j]}) = j
  BY <1>9 DEF UpTo
<1> QED
  BY <1>1, <1>2, <1>9, <1>10, <1>11, <1>12

(* What is left of a list without duplicates.                              *)
LEMMA SublistKeeps ==
  ASSUME NEW T, NEW list \in Seq(T), NEW K \in SUBSET (1 .. Len(list)),
         \A i, j \in 1 .. Len(list) : list[i] = list[j] => i = j
  PROVE  /\ Sublist(list, K) \in Seq(T)
         /\ \A i \in 1 .. Len(Sublist(list, K)) : \E n \in K : Sublist(list, K)[i] = list[n]
         /\ \A n \in K : \E i \in 1 .. Len(Sublist(list, K)) : Sublist(list, K)[i] = list[n]
         /\ \A i, j \in 1 .. Len(Sublist(list, K)) :
              Sublist(list, K)[i] = Sublist(list, K)[j] => i = j
<1>1. IsFiniteSet(K) /\ K \subseteq Nat
  <2>1. Len(list) \in Nat
    OBVIOUS
  <2>2. IsFiniteSet(1 .. Len(list))
    BY <2>1, FS_Interval
  <2>3. IsFiniteSet(K)
    BY <2>2, FS_Subset
  <2>4. ASSUME NEW n \in K PROVE n \in Nat
    <3>1. n \in 1 .. Len(list)
      OBVIOUS
    <3> QED
      BY <2>1, <3>1
  <2> QED
    BY <2>3, <2>4
<1> DEFINE C == Cardinality(K)
           at == InOrder(K)
<1>2. /\ C \in Nat /\ at \in Seq(K) /\ Len(at) = C
      /\ \A n \in K : \E j \in 1 .. C : at[j] = n
      /\ \A i, j \in 1 .. C : at[i] = at[j] => i = j
  BY <1>1, InOrderEnumerates
<1>3. Sublist(list, K) = [j \in 1 .. C |-> list[at[j]]]
  BY DEF Sublist
<1> HIDE DEF C, at
<1>4. \A j \in 1 .. C : at[j] \in K
  BY <1>2
<1> DEFINE sub == [j \in 1 .. C |-> list[at[j]]]
<1>5. sub \in Seq(T) /\ Len(sub) = C
  <2>1. ASSUME NEW j \in 1 .. C PROVE list[at[j]] \in T
    <3>1. at[j] \in 1 .. Len(list)
      BY <1>4
    <3> QED
      BY <3>1
  <2> QED
    BY <1>2, <2>1
<1>6. \A j \in 1 .. C : sub[j] = list[at[j]]
  OBVIOUS
<1> HIDE DEF sub
<1>7. \A n \in K : \E j \in 1 .. C : sub[j] = list[n]
  BY <1>2, <1>6
<1>8. \A i \in 1 .. C : \E n \in K : sub[i] = list[n]
  BY <1>4, <1>6
<1>9. \A i, j \in 1 .. C : sub[i] = sub[j] => i = j
  <2> TAKE i, j \in 1 .. C
  <2>1. at[i] \in 1 .. Len(list) /\ at[j] \in 1 .. Len(list)
    BY <1>4
  <2>2. sub[i] = sub[j] => at[i] = at[j]
    BY <1>6, <2>1
  <2> QED
    BY <1>2, <2>2
<1>10. Sublist(list, K) = sub
  BY <1>3 DEF sub
<1> QED
  BY <1>5, <1>7, <1>8, <1>9, <1>10
----------------------------------------------------------------------------
(* The inductive invariant.                                                *)
Src(op, s) == IF s = 1 THEN op.src1 ELSE op.src2
WritersBefore(n, r) == Writers!Writer(trace, n, r)
Waiters == {completed[i] : i \in 1 .. Len(completed)}

(* An access that crosses a block boundary takes two of what is left.      *)
AccessesLeft == outstanding + 2 * opsLeft <= 2 * MaxOps

(* The operations that are not dispatched yet are in DQ.                   *)
QueueIsRest ==
  /\ Len(DQ) = Len(trace) - tagCounter
  /\ \A i \in 1 .. Len(DQ) : DQ[i] = trace[tagCounter + i]

StationsOK ==
  /\ \A rs \in SQ : rs.op = trace[rs.tag]
  /\ \A a, b \in SQ : a.tag = b.tag => a = b

(* A station that was issued is in one place: a unit, the list of the      *)
(* completed, or on its way out.                                           *)
NothingLost ==
  IssuedTags = fast \cup long[1] \cup long[2] \cup long[3] \cup Waiters \cup toRemove

OnePlaceEach ==
  /\ \A n \in fast : trace[n].isLong = FALSE
  /\ \A i \in 1 .. 3 : \A n \in long[i] : trace[n].isLong = TRUE
  /\ long[1] \cap long[2] = {} /\ long[1] \cap long[3] = {} /\ long[2] \cap long[3] = {}
  /\ Waiters \cap (fast \cup long[1] \cup long[2] \cup long[3]) = {}
  /\ toRemove \cap (fast \cup long[1] \cup long[2] \cup long[3] \cup Waiters) = {}
  /\ \A i, j \in 1 .. Len(completed) : completed[i] = completed[j] => i = j

PhasesOK ==
  /\ phase \in {"memory", "fetch", "update"} => toRemove = {} /\ cdbsIssued = {}
  /\ phase = "schedule" => fast = {} /\ long[1] = {}
  /\ phase = "dispatch" => cdbs = {}

BusesOK ==
  /\ cdbs \subseteq DoneTags
  /\ cdbsIssued = {n \in toRemove : trace[n].dest # NoReg}

(* A source waits for the last earlier writer of its register, or that one *)
(* is done.                                                                *)
SourcesOK ==
  \A rs \in SQ : \A s \in 1 .. 2 :
    LET r == Src(rs.op, s)
    IN  IF rs.waits[s] = 0
        THEN r # NoReg => WritersBefore(rs.tag, r) \subseteq DoneTags
        ELSE r # NoReg /\ rs.waits[s] \in WritersBefore(rs.tag, r)

RegistersOK ==
  \A r \in Registers :
    IF rf[r].ready THEN WritersBefore(tagCounter + 1, r) \subseteq DoneTags
    ELSE rf[r].tag \in InFlight /\ rf[r].tag \in WritersBefore(tagCounter + 1, r)

(* What is about the stations only.                                        *)
WindowOK ==
  /\ StationsOK /\ NothingLost /\ OnePlaceEach
  /\ BusesOK /\ SourcesOK /\ RegistersOK /\ NoLostWakeup

IInv == TypeOK /\ AccessesLeft /\ QueueIsRest /\ PhasesOK /\ WindowOK
----------------------------------------------------------------------------
LEMMA Widths ==
  /\ FetchRate \in Nat \ {0} /\ DispatchWidth \in Nat \ {0}
  /\ ScheduleWidth \in Nat \ {0} /\ NumFastALU \in Nat \ {0}
  /\ NumLongALU \in Nat \ {0} /\ NumCDB \in Nat \ {0}
  /\ MaxOps \in Nat
BY WidthsAssumption, OpsAssumption

LEMMA InitIInv == Init => IInv
<1> SUFFICES ASSUME Init PROVE IInv
  OBVIOUS
<1> USE DEF Init, Port!Init
<1>1. TypeOK
  <2>1. Cardinality({}) = 0 /\ \A isLong \in BOOLEAN : InSQ(isLong) = 0
    BY FS_EmptySet DEF InSQ
  <2>2. MaxDQ \in Nat /\ \A isLong \in BOOLEAN : MaxSQ(isLong) \in Nat
    BY Widths DEF MaxDQ, MaxSQ, Units
  <2>3. \A isLong \in BOOLEAN : InSQ(isLong) <= MaxSQ(isLong)
    BY <2>1, <2>2
  <2>4. /\ phase \in Phases /\ pendingMem \in BOOLEAN /\ outstanding \in 0 .. 2 * MaxOps
        /\ pendingBranch \in 0 .. 1 /\ opsLeft \in 0 .. MaxOps
        /\ slots \in Nat /\ progress \in BOOLEAN
    <3>1. phase \in Phases /\ pendingMem \in BOOLEAN /\ progress \in BOOLEAN
      BY DEF Phases
    <3>2. outstanding = 0 /\ pendingBranch = 0 /\ slots = 0 /\ opsLeft = MaxOps
      OBVIOUS
    <3>3. 0 \in 0 .. 2 * MaxOps /\ MaxOps \in 0 .. MaxOps
      BY Widths
    <3> QED
      BY <3>1, <3>2, <3>3
  <2>5. /\ trace \in Seq(Ops) /\ tagCounter \in 0 .. Len(trace)
        /\ DQ \in Seq(Ops) /\ Len(DQ) <= MaxDQ
    BY <2>2
  <2>6. /\ SQ \subseteq Stations
        /\ rf \in [Registers -> [ready : BOOLEAN, tag : 0 .. tagCounter]]
    OBVIOUS
  <2>7. /\ fast \subseteq Tags /\ Cardinality(fast) <= NumFastALU
        /\ long \in [1 .. 3 -> SUBSET Tags]
        /\ \A stage \in 1 .. 3 : Cardinality(long[stage]) <= NumLongALU
    BY <2>1, Widths
  <2>8. /\ completed \in Seq(Tags)
        /\ cdbs \subseteq Tags /\ cdbsIssued \subseteq Tags /\ toRemove \subseteq Tags
        /\ Cardinality(cdbs) <= NumCDB /\ Cardinality(toRemove) <= NumCDB
    BY <2>1, Widths
  <2> QED
    BY <2>3, <2>4, <2>5, <2>6, <2>7, <2>8 DEF TypeOK
<1>2. AccessesLeft /\ QueueIsRest /\ PhasesOK
  BY Widths DEF AccessesLeft, QueueIsRest, PhasesOK
<1>3. StationsOK /\ NothingLost /\ OnePlaceEach /\ BusesOK /\ SourcesOK
  BY DEF StationsOK, NothingLost, OnePlaceEach, BusesOK, SourcesOK, IssuedTags, Waiters
<1>4. RegistersOK /\ NoLostWakeup
  BY DEF RegistersOK, NoLostWakeup, WritersBefore, Writers!Writer, Writers!Largest
<1> QED
  BY <1>1, <1>2, <1>3, <1>4 DEF IInv, WindowOK

TypeFront ==
  /\ phase \in Phases
  /\ pendingMem \in BOOLEAN /\ outstanding \in 0 .. 2 * MaxOps
  /\ pendingBranch \in 0 .. 1 /\ opsLeft \in 0 .. MaxOps
  /\ slots \in Nat /\ progress \in BOOLEAN

TypeQueue == trace \in Seq(Ops) /\ DQ \in Seq(Ops) /\ Len(DQ) <= MaxDQ

TypeWindow ==
  /\ tagCounter \in 0 .. Len(trace)
  /\ SQ \subseteq Stations /\ \A isLong \in BOOLEAN : InSQ(isLong) <= MaxSQ(isLong)
  /\ rf \in [Registers -> [ready : BOOLEAN, tag : 0 .. tagCounter]]
  /\ fast \subseteq Tags /\ Cardinality(fast) <= NumFastALU
  /\ long \in [1 .. 3 -> SUBSET Tags]
  /\ \A stage \in 1 .. 3 : Cardinality(long[stage]) <= NumLongALU
  /\ completed \in Seq(Tags)
  /\ cdbs \subseteq Tags /\ cdbsIssued \subseteq Tags /\ toRemove \subseteq Tags
  /\ Cardinality(cdbs) <= NumCDB /\ Cardinality(toRemove) <= NumCDB

LEMMA TypeParts ==
  /\ TypeOK <=> TypeFront /\ TypeQueue /\ TypeWindow
  /\ TypeOK' <=> TypeFront' /\ TypeQueue' /\ TypeWindow'
BY DEF TypeOK, TypeFront, TypeQueue, TypeWindow

(* A step that leaves the stations alone.                                  *)
LEMMA WindowKept ==
  ASSUME WindowOK, UNCHANGED <<trace, window, backEnd, buses>>
  PROVE  WindowOK' /\ (TypeWindow => TypeWindow')
<1> USE DEF window, backEnd, buses
<1>1. (StationsOK /\ NothingLost /\ OnePlaceEach)'
  BY DEF WindowOK, StationsOK, NothingLost, OnePlaceEach, IssuedTags, Waiters
<1>2. BusesOK'
  BY DEF WindowOK, BusesOK, DoneTags, InFlight, Tags
<1>3. (SourcesOK /\ RegistersOK /\ NoLostWakeup)'
  BY DEF WindowOK, SourcesOK, RegistersOK, NoLostWakeup, DoneTags, InFlight, Tags, Src,
         WritersBefore, Writers!Writer, Writers!Largest
<1>4. TypeWindow => TypeWindow'
  BY DEF TypeWindow, Stations, Tags, InSQ
<1> QED
  BY <1>1, <1>2, <1>3, <1>4 DEF WindowOK
----------------------------------------------------------------------------
LEMMA QuietKeeps ==
  ASSUME IInv, MemoryAdvances \/ MemoryAnswers \/ StartFetch \/ FetchMemory
               \/ FetchBranch \/ FetchEnd \/ UNCHANGED vars
  PROVE  IInv' /\ UNCHANGED Writers!dataflowVars
<1> USE DEF IInv
<1>1. UNCHANGED <<trace, DQ, window, backEnd, buses>>
  BY DEF MemoryAdvances, MemoryAnswers, StartFetch, FetchMemory, FetchBranch, FetchEnd,
         Fetching, vars, frontEnd
<1>2. WindowOK' /\ TypeWindow'
  BY <1>1, WindowKept, TypeParts
<1>3. QueueIsRest' /\ TypeQueue'
  BY <1>1, TypeParts DEF QueueIsRest, TypeQueue, window
<1>4. TypeFront /\ AccessesLeft /\ PhasesOK
  BY TypeParts
<1>5. TypeFront' /\ AccessesLeft' /\ PhasesOK'
  <2> USE <1>1, <1>4, Widths DEF TypeFront, AccessesLeft, PhasesOK, Phases, backEnd, buses
  <2>1. CASE MemoryAdvances
    BY <2>1 DEF MemoryAdvances, Port!Advance, frontEnd
  <2>2. CASE MemoryAnswers
    BY <2>2 DEF MemoryAnswers, Port!Answer, frontEnd
  <2>3. CASE StartFetch
    BY <2>3 DEF StartFetch, Waiting, memory
  <2>4. CASE FetchMemory
    BY <2>4 DEF FetchMemory, Fetching, Port!Request
  <2>5. CASE FetchBranch
    BY <2>5 DEF FetchBranch, Fetching, memory
  <2>6. CASE FetchEnd
    BY <2>6 DEF FetchEnd, memory, frontEnd
  <2>7. CASE UNCHANGED vars
    BY <2>7 DEF vars, memory, frontEnd
  <2> QED
    BY <2>1, <2>2, <2>3, <2>4, <2>5, <2>6, <2>7
<1>6. UNCHANGED Writers!dataflowVars
  BY <1>1 DEF Writers!dataflowVars, DoneTags, IssuedTags, InFlight, Tags, window, buses
<1> QED
  BY <1>2, <1>3, <1>5, <1>6, TypeParts

(* An operation goes into the queue and to the end of the trace.           *)
LEMMA FetchALUKeeps ==
  ASSUME IInv, FetchALU
  PROVE  IInv' /\ Writers!Issue
<1> USE DEF IInv
<1>1. PICK op \in Ops : DQ' = Append(DQ, op) /\ trace' = Append(trace, op)
  BY DEF FetchALU
<1>2. /\ TypeFront /\ TypeQueue /\ TypeWindow
      /\ UNCHANGED <<phase, window, backEnd, buses, memory, pendingBranch>>
  BY TypeParts DEF FetchALU, Fetching
<1>3. /\ trace' \in Seq(Ops) /\ Len(trace') = Len(trace) + 1
      /\ \A n \in 1 .. Len(trace) : trace'[n] = trace[n]
      /\ trace'[Len(trace) + 1] = op
  BY <1>1, <1>2 DEF TypeQueue
<1>4. TypeFront' /\ AccessesLeft' /\ PhasesOK'
  BY <1>2, Widths DEF FetchALU, Fetching, TypeFront, AccessesLeft, PhasesOK, memory, backEnd,
         buses
<1>5. /\ DQ' \in Seq(Ops) /\ Len(DQ') = Len(DQ) + 1 /\ Len(DQ) \in Nat
      /\ \A i \in 1 .. Len(DQ) : DQ'[i] = DQ[i]
      /\ DQ'[Len(DQ) + 1] = op
  BY <1>1, <1>2 DEF TypeQueue
<1>6. TypeQueue' /\ QueueIsRest'
  <2>1. MaxDQ \in Nat
    BY Widths DEF MaxDQ
  <2>2. Len(DQ') <= MaxDQ
    BY <1>2, <1>5, <2>1 DEF FetchALU, Fetching, IsFullDQ
  <2>3. Len(trace) \in Nat /\ tagCounter \in 0 .. Len(trace) /\ tagCounter' = tagCounter
    BY <1>2 DEF TypeQueue, TypeWindow, window
  <2>4. ASSUME NEW i \in 1 .. Len(DQ') PROVE DQ'[i] = trace'[tagCounter + i]
    <3>1. CASE i = Len(DQ) + 1
      BY <1>3, <1>5, <2>3, <3>1 DEF QueueIsRest
    <3>2. CASE i \in 1 .. Len(DQ)
      <4>1. tagCounter + i \in 1 .. Len(trace)
        BY <2>3, <3>2 DEF QueueIsRest
      <4> QED
        BY <1>3, <1>5, <3>2, <4>1 DEF QueueIsRest
    <3> QED
      BY <1>5, <3>1, <3>2
  <2> QED
    BY <1>2, <1>3, <1>5, <2>2, <2>3, <2>4 DEF TypeQueue, QueueIsRest
<1>7. TypeWindow'
  BY <1>2, <1>3 DEF TypeWindow, TypeQueue, window, backEnd, buses, Stations, Tags, InSQ
<1>8. \A n \in Tags : trace'[n] = trace[n] /\ n \in Nat
  BY <1>2, <1>3 DEF Tags, TypeWindow
<1> USE DEF window, backEnd, buses
<1>9. (StationsOK /\ NothingLost /\ OnePlaceEach)'
  BY <1>2, <1>8 DEF WindowOK, TypeWindow, Stations, StationsOK, NothingLost, OnePlaceEach,
       IssuedTags, Waiters
<1>10. BusesOK'
  BY <1>2, <1>8 DEF WindowOK, TypeWindow, BusesOK, DoneTags, InFlight, Tags
<1>11. \A r : \A n \in 1 .. tagCounter + 1 : WritersBefore(n, r)' = WritersBefore(n, r)
  BY <1>2, <1>8 DEF TypeWindow, Tags, WritersBefore, Writers!Writer, Writers!Largest
<1>12. SourcesOK'
  BY <1>2, <1>11 DEF WindowOK, TypeWindow, SourcesOK, Stations, DoneTags, InFlight, Tags, Src
<1>13. (RegistersOK /\ NoLostWakeup)'
  BY <1>2, <1>11 DEF WindowOK, TypeWindow, RegistersOK, NoLostWakeup, DoneTags, InFlight, Tags
<1>14. Writers!Issue
  BY <1>1, <1>2 DEF Writers!Issue, DoneTags, IssuedTags, InFlight, Tags
<1> QED
  BY <1>4, <1>6, <1>7, <1>9, <1>10, <1>12, <1>13, <1>14, TypeParts DEF WindowOK
----------------------------------------------------------------------------
LEMMA WriterIs ==
  ASSUME NEW n \in Nat, NEW r, NEW w \in WritersBefore(n, r)
  PROVE  /\ w \in 1 .. n - 1 /\ trace[w].dest = r
         /\ WritersBefore(n, r) = {w}
BY DEF WritersBefore, Writers!Writer, Writers!Largest

LEMMA StationIs ==
  ASSUME StationsOK, NEW rs \in SQ
  PROVE  Station(rs.tag) = rs /\ DestOf(rs.tag) = trace[rs.tag].dest
<1>1. \A other \in SQ : other.tag = rs.tag => other = rs
  BY DEF StationsOK
<1>2. Station(rs.tag) = rs
  BY <1>1 DEF Station
<1> QED
  BY <1>2 DEF DestOf, StationsOK

(* removeByMinTag has a strict order, so that as many stations are taken as*)
(* there are buses, or all.                                                *)
LEMMA ChosenFew ==
  ASSUME NEW T, T \subseteq Nat, completed \in Seq(T)
  PROVE  /\ IsFiniteSet(Updated) /\ Cardinality(Updated) \in Nat
         /\ Cardinality(Updated) <= NumCDB
<1> DEFINE D == 1 .. Len(completed)
           Sooner(i) == {j \in D : Before(j, i)}
           rank == [i \in Chosen |-> Cardinality(Sooner(i))]
<1>1. Len(completed) \in Nat /\ \A i \in D : completed[i] \in Nat
  <2>1. Len(completed) \in Nat
    OBVIOUS
  <2>2. ASSUME NEW i \in D PROVE completed[i] \in Nat
    <3>1. completed[i] \in T
      OBVIOUS
    <3> QED
      BY <3>1
  <2> QED
    BY <2>1, <2>2
<1>2. IsFiniteSet(D)
  BY <1>1, FS_Interval
<1>3. \A i \in D : OrderTag(completed[i]) \in Int
  BY <1>1 DEF OrderTag
<1>4. \A i, j \in D : i # j => Before(i, j) \/ Before(j, i)
  BY <1>1, <1>3 DEF Before
<1>5. \A i \in D : ~Before(i, i)
  BY <1>1, <1>3 DEF Before
<1>6. \A i, j, k \in D : Before(i, j) /\ Before(j, k) => Before(i, k)
  BY <1>1, <1>3 DEF Before
<1>7. \A i \in D : IsFiniteSet(Sooner(i)) /\ Cardinality(Sooner(i)) \in Nat
  <2> TAKE i \in D
  <2>1. Sooner(i) \in SUBSET D
    OBVIOUS
  <2> QED
    BY <1>2, <2>1, FS_Subset, FS_CardinalityType
<1>8. \A i, j \in D : Before(i, j) => Cardinality(Sooner(i)) # Cardinality(Sooner(j))
  <2> SUFFICES ASSUME NEW i \in D, NEW j \in D, Before(i, j),
                      Cardinality(Sooner(i)) = Cardinality(Sooner(j))
               PROVE  FALSE
    OBVIOUS
  <2>1. Sooner(i) \in SUBSET Sooner(j)
    BY <1>6
  <2>2. Sooner(i) = Sooner(j)
    BY <1>7, <2>1, FS_Subset
  <2>3. i \in Sooner(j) /\ i \notin Sooner(i)
    BY <1>5
  <2> QED
    BY <2>2, <2>3
<1>9. Chosen = {i \in D : Cardinality(Sooner(i)) < NumCDB}
  BY DEF Chosen
<1> HIDE DEF Sooner
<1>10. rank \in Injection(Chosen, 0 .. NumCDB - 1)
  <2>1. \A i \in Chosen : i \in D /\ Cardinality(Sooner(i)) \in 0 .. NumCDB - 1
    BY <1>7, <1>9, Widths
  <2>2. \A i, j \in Chosen : rank[i] = rank[j] => i = j
    BY <1>4, <1>8, <2>1
  <2> QED
    BY <2>1, <2>2 DEF Injection, IsInjective
<1>11. IsFiniteSet(0 .. NumCDB - 1) /\ Cardinality(0 .. NumCDB - 1) = NumCDB
  BY Widths, FS_Interval
<1>12. IsFiniteSet(Chosen) /\ Cardinality(Chosen) <= NumCDB
  BY <1>10, <1>11, FS_Injection
<1> DEFINE at == [i \in Chosen |-> completed[i]]
<1>13. at \in Surjection(Chosen, Updated)
  BY DEF Updated, Surjection
<1>14. IsFiniteSet(Updated) /\ Cardinality(Updated) <= Cardinality(Chosen)
  BY <1>12, <1>13, FS_Surjection
<1> QED
  BY <1>12, <1>14, FS_CardinalityType, Widths

LEMMA StateUpdateKeeps ==
  ASSUME IInv, StateUpdate
  PROVE  IInv' /\ Writers!Finish
<1> USE DEF IInv
<1> DEFINE D == 1 .. Len(completed)
<1>1. /\ TypeFront /\ TypeQueue /\ TypeWindow /\ StationsOK
      /\ NothingLost /\ OnePlaceEach /\ BusesOK /\ SourcesOK /\ RegistersOK /\ NoLostWakeup
      /\ phase = "update" /\ toRemove = {} /\ cdbsIssued = {}
  BY TypeParts DEF StateUpdate, WindowOK, PhasesOK
<1>2. /\ phase' = "execute" /\ toRemove' = Updated
      /\ completed' = Sublist(completed, D \ Chosen)
      /\ cdbsIssued' = {n \in Updated : DestOf(n) # NoReg}
      /\ rf' = [r \in Registers |-> [rf[r] EXCEPT !.ready = RegisterReady(r)]]
      /\ UNCHANGED <<slots, progress, pendingMem, outstanding, pendingBranch, opsLeft, DQ,
                     trace, SQ, tagCounter, fast, long, cdbs>>
  BY DEF StateUpdate, memory, frontEnd
<1>3. completed \in Seq(Tags) /\ Tags \subseteq Nat /\ tagCounter \in Nat /\ Len(completed) \in Nat
  BY <1>1 DEF TypeWindow, TypeQueue, Tags
<1>4. \A i, j \in D : completed[i] = completed[j] => i = j
  BY <1>1 DEF OnePlaceEach
<1>5. /\ completed' \in Seq(Tags)
      /\ \A i \in 1 .. Len(completed') : \E n \in D \ Chosen : completed'[i] = completed[n]
      /\ \A n \in D \ Chosen : \E i \in 1 .. Len(completed') : completed'[i] = completed[n]
      /\ \A i, j \in 1 .. Len(completed') : completed'[i] = completed'[j] => i = j
  <2> DEFINE K == D \ Chosen
  <2>1. K \in SUBSET D
    OBVIOUS
  <2> HIDE DEF K
  <2>2. /\ Sublist(completed, K) \in Seq(Tags)
        /\ \A i \in 1 .. Len(Sublist(completed, K)) :
             \E n \in K : Sublist(completed, K)[i] = completed[n]
        /\ \A n \in K : \E i \in 1 .. Len(Sublist(completed, K)) :
             Sublist(completed, K)[i] = completed[n]
        /\ \A i, j \in 1 .. Len(Sublist(completed, K)) :
             Sublist(completed, K)[i] = Sublist(completed, K)[j] => i = j
    BY <1>3, <1>4, <2>1, SublistKeeps
  <2>3. completed' = Sublist(completed, K)
    BY <1>2 DEF K
  <2> QED
    BY <2>2, <2>3 DEF K
<1>6. Updated \subseteq Waiters /\ Waiters' = Waiters \ Updated
  <2>1. Chosen \subseteq D
    BY DEF Chosen
  <2>2. ASSUME NEW n \in Waiters' PROVE n \in Waiters \ Updated
    <3>1. PICK i \in D \ Chosen : n = completed[i]
      BY <1>5, <2>2 DEF Waiters
    <3> QED
      BY <1>4, <2>1, <3>1 DEF Waiters, Updated
  <2>3. ASSUME NEW n \in Waiters \ Updated PROVE n \in Waiters'
    <3>1. PICK i \in D : n = completed[i]
      BY <2>3 DEF Waiters
    <3>2. i \notin Chosen
      BY <2>3, <3>1 DEF Updated
    <3> QED
      BY <1>5, <3>1, <3>2 DEF Waiters
  <2> QED
    BY <2>1, <2>2, <2>3 DEF Updated, Waiters
<1>7. Waiters \subseteq IssuedTags /\ IssuedTags \subseteq Tags /\ IssuedTags' = IssuedTags
  BY <1>1, <1>2 DEF NothingLost, IssuedTags, TypeWindow, Stations
<1>8. \A n \in Updated : /\ n \in Tags /\ n \in {rs.tag : rs \in SQ}
                         /\ DestOf(n) = trace[n].dest
  BY <1>1, <1>6, <1>7, StationIs DEF IssuedTags
<1>9. InFlight' = InFlight \ Updated /\ DoneTags' = DoneTags \cup Updated
  BY <1>1, <1>2, <1>8 DEF InFlight, DoneTags, Tags
<1>10. TypeFront' /\ TypeQueue' /\ AccessesLeft' /\ QueueIsRest' /\ PhasesOK' /\ StationsOK'
  BY <1>1, <1>2 DEF TypeFront, TypeQueue, AccessesLeft, QueueIsRest, PhasesOK, StationsOK, Phases
<1>11. TypeWindow'
  <2>1. Cardinality(toRemove') <= NumCDB
    BY <1>2, <1>3, ChosenFew
  <2>2. cdbsIssued' \subseteq Tags /\ toRemove' \subseteq Tags
    BY <1>2, <1>8
  <2>3. rf' \in [Registers -> [ready : BOOLEAN, tag : 0 .. tagCounter]]
    BY <1>1, <1>2 DEF TypeWindow, RegisterReady
  <2> QED
    BY <1>1, <1>2, <1>5, <2>1, <2>2, <2>3 DEF TypeWindow, Stations, Tags, InSQ
<1>12. NothingLost' /\ OnePlaceEach'
  BY <1>1, <1>2, <1>5, <1>6, <1>7 DEF NothingLost, OnePlaceEach
<1>13. BusesOK'
  BY <1>1, <1>2, <1>8, <1>9 DEF BusesOK
<1>14. \A n, r : WritersBefore(n, r)' = WritersBefore(n, r)
  BY <1>2 DEF WritersBefore, Writers!Writer, Writers!Largest
<1>15. SourcesOK'
  BY <1>1, <1>2, <1>9, <1>14 DEF SourcesOK, Src
<1>16. RegistersOK'
  <2> SUFFICES ASSUME NEW r \in Registers
               PROVE  IF rf'[r].ready THEN WritersBefore(tagCounter + 1, r) \subseteq DoneTags'
                      ELSE /\ rf'[r].tag \in InFlight'
                           /\ rf'[r].tag \in WritersBefore(tagCounter + 1, r)
    BY <1>2, <1>14 DEF RegistersOK
  <2>1. rf'[r].ready = RegisterReady(r) /\ rf'[r].tag = rf[r].tag
    BY <1>1, <1>2 DEF TypeWindow
  <2>2. CASE rf[r].ready
    BY <1>1, <1>9, <2>1, <2>2 DEF RegistersOK, RegisterReady
  <2>3. CASE ~rf[r].ready
    <3>1. rf[r].tag \in InFlight /\ rf[r].tag \in WritersBefore(tagCounter + 1, r)
      BY <1>1, <2>3 DEF RegistersOK
    <3>2. /\ WritersBefore(tagCounter + 1, r) = {rf[r].tag}
          /\ trace[rf[r].tag].dest = r
      BY <1>3, <3>1, WriterIs
    <3>3. RegisterReady(r) <=> rf[r].tag \in Updated
      BY <1>8, <2>3, <3>2 DEF RegisterReady
    <3> QED
      BY <1>9, <2>1, <3>1, <3>2, <3>3
  <2> QED
    BY <2>2, <2>3
<1>17. NoLostWakeup'
  <2>1. ASSUME NEW rs \in SQ, NEW s \in 1 .. 2, rs.waits[s] # 0
        PROVE  rs.waits[s] \in InFlight' \cup cdbs' \cup cdbsIssued'
    <3> DEFINE r == Src(rs.op, s)
    <3>1. rs.tag \in Nat
      BY <1>1, <1>3 DEF TypeWindow, Stations, Tags
    <3>2. r # NoReg /\ rs.waits[s] \in WritersBefore(rs.tag, r)
      BY <1>1, <2>1 DEF SourcesOK
    <3>3. trace[rs.waits[s]].dest # NoReg
      BY <3>1, <3>2, WriterIs
    <3> QED
      BY <1>1, <1>2, <1>8, <1>9, <2>1, <3>3 DEF NoLostWakeup
  <2>2. \A r \in Registers : ~rf'[r].ready => rf'[r].tag \in InFlight'
    BY <1>2, <1>16 DEF RegistersOK
  <2> QED
    BY <1>2, <2>1, <2>2 DEF NoLostWakeup
<1>18. Writers!Finish
  BY <1>2, <1>6, <1>7, <1>9 DEF Writers!Finish
<1> QED
  BY <1>10, <1>11, <1>12, <1>13, <1>15, <1>16, <1>17, <1>18, TypeParts DEF WindowOK
----------------------------------------------------------------------------
Elems(list) == {list[i] : i \in 1 .. Len(list)}
NoDups(list) == \A i, j \in 1 .. Len(list) : list[i] = list[j] => i = j

LEMMA ConcatKeeps ==
  ASSUME NEW T, NEW a \in Seq(T), NEW b \in Seq(T),
         NoDups(a), NoDups(b), Elems(a) \cap Elems(b) = {}
  PROVE  a \o b \in Seq(T) /\ NoDups(a \o b) /\ Elems(a \o b) = Elems(a) \cup Elems(b)
<1> DEFINE c == a \o b
<1>1. Len(a) \in Nat /\ Len(b) \in Nat
  OBVIOUS
<1>2. /\ c \in Seq(T) /\ Len(c) = Len(a) + Len(b)
      /\ \A i \in 1 .. Len(c) : c[i] = IF i <= Len(a) THEN a[i] ELSE b[i - Len(a)]
  OBVIOUS
<1> HIDE DEF c
<1>3. NoDups(c)
  <2> SUFFICES ASSUME NEW i \in 1 .. Len(c), NEW j \in 1 .. Len(c), c[i] = c[j]
               PROVE  i = j
    BY DEF NoDups
  <2>1. i \in Nat /\ j \in Nat
    OBVIOUS
  <2>2. \A k \in 1 .. Len(c) : k <= Len(a) => k \in 1 .. Len(a) /\ c[k] = a[k]
    BY <1>1, <1>2
  <2>3. \A k \in 1 .. Len(c) : ~(k <= Len(a)) =>
          k - Len(a) \in 1 .. Len(b) /\ c[k] = b[k - Len(a)]
    BY <1>1, <1>2
  <2>4. CASE i <= Len(a) /\ j <= Len(a)
    BY <2>2, <2>4 DEF NoDups
  <2>5. CASE ~(i <= Len(a)) /\ ~(j <= Len(a))
    <3>1. i - Len(a) = j - Len(a)
      BY <2>3, <2>5 DEF NoDups
    <3> QED
      BY <1>1, <2>1, <3>1
  <2>6. CASE i <= Len(a) /\ ~(j <= Len(a))
    <3>1. c[i] \in Elems(a) /\ c[j] \in Elems(b)
      BY <2>2, <2>3, <2>6 DEF Elems
    <3> QED
      BY <3>1
  <2>7. CASE ~(i <= Len(a)) /\ j <= Len(a)
    <3>1. c[i] \in Elems(b) /\ c[j] \in Elems(a)
      BY <2>2, <2>3, <2>7 DEF Elems
    <3> QED
      BY <3>1
  <2> QED
    BY <2>4, <2>5, <2>6, <2>7
<1>4. ASSUME NEW x \in Elems(c) PROVE x \in Elems(a) \cup Elems(b)
  <2>1. PICK i \in 1 .. Len(c) : x = c[i]
    BY <1>4 DEF Elems
  <2>2. CASE i <= Len(a)
    BY <1>1, <1>2, <2>1, <2>2 DEF Elems
  <2>3. CASE ~(i <= Len(a))
    <3>1. i - Len(a) \in 1 .. Len(b) /\ x = b[i - Len(a)]
      BY <1>1, <1>2, <2>1, <2>3
    <3> QED
      BY <3>1 DEF Elems
  <2> QED
    BY <2>2, <2>3
<1>5. ASSUME NEW x \in Elems(a) PROVE x \in Elems(c)
  <2>1. PICK i \in 1 .. Len(a) : x = a[i]
    BY <1>5 DEF Elems
  <2>2. i \in 1 .. Len(c) /\ c[i] = a[i]
    BY <1>1, <1>2
  <2> QED
    BY <2>1, <2>2 DEF Elems
<1>6. ASSUME NEW x \in Elems(b) PROVE x \in Elems(c)
  <2>1. PICK i \in 1 .. Len(b) : x = b[i]
    BY <1>6 DEF Elems
  <2> DEFINE k == i + Len(a)
  <2>2. k \in 1 .. Len(c) /\ ~(k <= Len(a)) /\ k - Len(a) = i
    BY <1>1, <1>2
  <2>3. c[k] = b[k - Len(a)]
    BY <1>2, <2>2
  <2> QED
    BY <2>1, <2>2, <2>3 DEF Elems
<1>7. Elems(c) = Elems(a) \cup Elems(b)
  BY <1>4, <1>5, <1>6
<1> QED
  BY <1>2, <1>3, <1>7 DEF c

LEMMA InOrderLists ==
  ASSUME NEW n \in Nat, NEW S \in SUBSET (1 .. n)
  PROVE  /\ InOrder(S) \in Seq(1 .. n) /\ NoDups(InOrder(S)) /\ Elems(InOrder(S)) = S
<1>1. IsFiniteSet(S)
  <2>1. IsFiniteSet(1 .. n)
    BY FS_Interval
  <2> QED
    BY <2>1, FS_Subset
<1>2. S \subseteq Nat
  <2>1. ASSUME NEW m \in S PROVE m \in Nat
    <3>1. m \in 1 .. n
      OBVIOUS
    <3> QED
      BY <3>1
  <2> QED
    BY <2>1
<1> DEFINE list == InOrder(S)
<1>3. /\ list \in Seq(S) /\ Len(list) = Cardinality(S)
      /\ \A m \in S : \E j \in 1 .. Len(list) : list[j] = m
      /\ NoDups(list)
  BY <1>1, <1>2, InOrderEnumerates DEF NoDups
<1> HIDE DEF list
<1>4. Elems(list) = S
  BY <1>3 DEF Elems
<1>5. list \in Seq(1 .. n)
  <2>1. Seq(S) \subseteq Seq(1 .. n)
    BY SeqMonotonic
  <2> QED
    BY <1>3, <2>1
<1> QED
  BY <1>3, <1>4, <1>5 DEF list
----------------------------------------------------------------------------
LEMMA ExecuteKeeps ==
  ASSUME IInv, Execute
  PROVE  IInv' /\ UNCHANGED Writers!dataflowVars
<1> USE DEF IInv
<1>1. /\ TypeFront /\ TypeQueue /\ TypeWindow /\ StationsOK
      /\ NothingLost /\ OnePlaceEach /\ BusesOK /\ SourcesOK /\ RegistersOK /\ NoLostWakeup
  BY TypeParts DEF WindowOK
<1>2. /\ phase' = "schedule" /\ fast' = {}
      /\ completed' = InOrder(long[3]) \o InOrder(fast) \o completed
      /\ long' = [stage \in 1 .. 3 |-> IF stage = 1 THEN {} ELSE long[stage - 1]]
      /\ UNCHANGED <<slots, progress, pendingMem, outstanding, pendingBranch, opsLeft, DQ,
                     trace, SQ, tagCounter, rf, cdbs, cdbsIssued, toRemove>>
  BY DEF Execute, memory, frontEnd, window, buses
<1>3. tagCounter \in Nat /\ Tags' = Tags
  BY <1>1, <1>2 DEF TypeWindow, TypeQueue, Tags
<1>4. /\ completed \in Seq(Tags) /\ NoDups(completed) /\ Elems(completed) = Waiters
      /\ fast \in SUBSET Tags /\ long[3] \in SUBSET Tags
  BY <1>1 DEF TypeWindow, OnePlaceEach, NoDups, Elems, Waiters
<1>5. fast \cap long[3] = {} /\ (fast \cup long[3]) \cap Waiters = {}
  BY <1>1 DEF OnePlaceEach
<1> DEFINE a == InOrder(long[3])
           b == InOrder(fast)
<1>6. /\ a \in Seq(Tags) /\ NoDups(a) /\ Elems(a) = long[3]
      /\ b \in Seq(Tags) /\ NoDups(b) /\ Elems(b) = fast
  BY <1>3, <1>4, InOrderLists DEF Tags
<1> HIDE DEF a, b
<1>7. a \o b \in Seq(Tags) /\ NoDups(a \o b) /\ Elems(a \o b) = long[3] \cup fast
  <2>1. Elems(a) \cap Elems(b) = {}
    BY <1>5, <1>6
  <2> QED
    BY <1>6, <2>1, ConcatKeeps
<1> DEFINE c == a \o b
<1>8. completed' = c \o completed
  BY <1>2 DEF a, b
<1> HIDE DEF c
<1>9. /\ completed' \in Seq(Tags) /\ NoDups(completed')
      /\ Elems(completed') = long[3] \cup fast \cup Waiters
  <2>1. c \in Seq(Tags) /\ NoDups(c) /\ Elems(c) = long[3] \cup fast
    BY <1>7 DEF c
  <2>2. Elems(c) \cap Elems(completed) = {}
    BY <1>4, <1>5, <2>1
  <2>3. /\ c \o completed \in Seq(Tags) /\ NoDups(c \o completed)
        /\ Elems(c \o completed) = Elems(c) \cup Elems(completed)
    BY <1>4, <2>1, <2>2, ConcatKeeps
  <2> QED
    BY <1>4, <1>8, <2>1, <2>3
<1>10. Waiters' = long[3] \cup fast \cup Waiters
  BY <1>9 DEF Waiters, Elems
<1>11. long'[1] = {} /\ long'[2] = long[1] /\ long'[3] = long[2]
  BY <1>2
<1>12. TypeWindow'
  <2>1. \A stage \in 1 .. 3 : Cardinality(long'[stage]) <= NumLongALU
    BY <1>1, <1>2, <1>11, Widths, FS_EmptySet DEF TypeWindow
  <2>2. Cardinality(fast') <= NumFastALU
    BY <1>2, Widths, FS_EmptySet
  <2>3. long' \in [1 .. 3 -> SUBSET Tags]
    BY <1>1, <1>2 DEF TypeWindow
  <2> QED
    BY <1>1, <1>2, <1>3, <1>9, <2>1, <2>2, <2>3 DEF TypeWindow, Stations, Tags, InSQ
<1>13. IssuedTags' = IssuedTags /\ DoneTags' = DoneTags /\ InFlight' = InFlight
  BY <1>2 DEF IssuedTags, DoneTags, InFlight, Tags
<1>14. NothingLost'
  BY <1>1, <1>2, <1>10, <1>11, <1>13 DEF NothingLost
<1>15. OnePlaceEach'
  <2>1. \A n \in long[1] \cup long[2] : trace[n].isLong = TRUE
    BY <1>1 DEF OnePlaceEach
  <2>2. \A i \in 1 .. 3 : \A n \in long'[i] : trace[n].isLong = TRUE
    BY <1>11, <2>1
  <2>3. \A i, j \in 1 .. Len(completed') : completed'[i] = completed'[j] => i = j
    BY <1>9 DEF NoDups
  <2>4. (long[1] \cup long[2]) \cap (long[3] \cup fast) = {}
    BY <1>1 DEF OnePlaceEach
  <2> QED
    BY <1>1, <1>2, <1>10, <1>11, <2>2, <2>3, <2>4 DEF OnePlaceEach
<1>16. /\ TypeFront' /\ TypeQueue' /\ AccessesLeft' /\ QueueIsRest' /\ PhasesOK'
       /\ StationsOK'
  BY <1>1, <1>2, <1>11 DEF TypeFront, TypeQueue, AccessesLeft, QueueIsRest, PhasesOK,
       StationsOK, Phases
<1>17. BusesOK'
  BY <1>1, <1>2, <1>13 DEF BusesOK
<1>18. \A n, r : WritersBefore(n, r)' = WritersBefore(n, r)
  BY <1>2 DEF WritersBefore, Writers!Writer, Writers!Largest
<1>19. (SourcesOK /\ RegistersOK /\ NoLostWakeup)'
  BY <1>1, <1>2, <1>13, <1>18 DEF SourcesOK, Src, RegistersOK, NoLostWakeup
<1>20. UNCHANGED Writers!dataflowVars
  BY <1>2, <1>13 DEF Writers!dataflowVars
<1> QED
  BY <1>12, <1>14, <1>15, <1>16, <1>17, <1>19, <1>20, TypeParts DEF WindowOK

LEMMA QueueFinite ==
  ASSUME TypeQueue, TypeWindow, StationsOK
  PROVE  IsFiniteSet(SQ)
<1>1. tagCounter \in Nat
  BY DEF TypeQueue, TypeWindow
<1>2. IsFiniteSet(Tags)
  BY <1>1, FS_Interval DEF Tags
<1> DEFINE tagOf == [rs \in SQ |-> rs.tag]
<1>3. tagOf \in Injection(SQ, Tags)
  BY DEF TypeWindow, Stations, StationsOK, Injection, IsInjective
<1> QED
  BY <1>2, <1>3, FS_Injection

LEMMA EndTickKeeps ==
  ASSUME IInv, EndTick
  PROVE  IInv' /\ UNCHANGED Writers!dataflowVars
<1> USE DEF IInv
<1>1. /\ TypeFront /\ TypeQueue /\ TypeWindow /\ StationsOK
      /\ NothingLost /\ OnePlaceEach /\ BusesOK /\ SourcesOK /\ RegistersOK /\ NoLostWakeup
  BY TypeParts DEF WindowOK
<1>2. /\ phase' \in {"memory", "halted"}
      /\ cdbs' = cdbsIssued /\ cdbsIssued' = {}
      /\ SQ' = {rs \in SQ : rs.tag \notin toRemove}
      /\ toRemove' = {} /\ slots' = 0 /\ progress' = FALSE
      /\ UNCHANGED <<pendingMem, outstanding, pendingBranch, opsLeft, DQ, trace, tagCounter,
                     rf, fast, long, completed>>
  BY DEF EndTick, NextCDBs, memory, frontEnd, backEnd
<1>3. TypeFront' /\ TypeQueue' /\ AccessesLeft' /\ QueueIsRest' /\ PhasesOK'
  BY <1>1, <1>2 DEF TypeFront, TypeQueue, AccessesLeft, QueueIsRest, PhasesOK, Phases
<1>4. toRemove \subseteq IssuedTags /\ IssuedTags \subseteq Tags /\ tagCounter \in Nat
  BY <1>1 DEF NothingLost, IssuedTags, TypeWindow, TypeQueue, Stations
<1>5. InFlight' = InFlight
  BY <1>2 DEF InFlight
<1>6. DoneTags' = DoneTags /\ Tags' = Tags
  BY <1>2, <1>5 DEF DoneTags, Tags
<1>7. IssuedTags' = IssuedTags \ toRemove
  BY <1>2 DEF IssuedTags
<1>8. TypeWindow'
  <2>1. \A isLong \in BOOLEAN : InSQ(isLong)' <= MaxSQ(isLong)
    <3> TAKE isLong \in BOOLEAN
    <3> DEFINE old == {rs \in SQ : rs.op.isLong = isLong}
               new == {rs \in SQ' : rs.op.isLong = isLong}
    <3>1. new \in SUBSET old /\ IsFiniteSet(old)
      BY <1>1, <1>2, QueueFinite, FS_Subset
    <3>2. Cardinality(new) <= Cardinality(old) /\ IsFiniteSet(new)
      BY <3>1, FS_Subset
    <3>3. Cardinality(old) \in Nat /\ Cardinality(new) \in Nat /\ MaxSQ(isLong) \in Nat
      BY <3>1, <3>2, FS_CardinalityType, Widths DEF MaxSQ, Units
    <3>4. Cardinality(old) <= MaxSQ(isLong)
      BY <1>1 DEF TypeWindow, InSQ
    <3> HIDE DEF old, new
    <3>5. Cardinality(new) <= MaxSQ(isLong)
      BY <3>2, <3>3, <3>4
    <3> QED
      BY <3>5 DEF InSQ, new
  <2>2. Cardinality(cdbs') <= NumCDB
    <3>1. cdbsIssued \in SUBSET toRemove /\ Cardinality(toRemove) <= NumCDB
      BY <1>1 DEF BusesOK, TypeWindow
    <3>2. IsFiniteSet(Tags)
      BY <1>4, FS_Interval DEF Tags
    <3>3. IsFiniteSet(toRemove)
      BY <1>4, <3>2, FS_Subset
    <3>4. Cardinality(cdbsIssued) <= Cardinality(toRemove) /\ IsFiniteSet(cdbsIssued)
      BY <3>1, <3>3, FS_Subset
    <3>5. Cardinality(cdbsIssued) \in Nat /\ Cardinality(toRemove) \in Nat
      BY <3>3, <3>4, FS_CardinalityType
    <3> QED
      BY <1>2, <3>1, <3>4, <3>5, Widths
  <2>3. Cardinality(toRemove') <= NumCDB
    BY <1>2, Widths, FS_EmptySet
  <2> QED
    BY <1>1, <1>2, <1>6, <2>1, <2>2, <2>3 DEF TypeWindow, Stations, Tags
<1>9. StationsOK' /\ NothingLost' /\ OnePlaceEach'
  <2>1. Waiters' = Waiters
    BY <1>2 DEF Waiters
  <2> QED
    BY <1>1, <1>2, <1>7, <2>1 DEF StationsOK, NothingLost, OnePlaceEach
<1>10. BusesOK'
  <2>1. toRemove \subseteq DoneTags
    BY <1>4 DEF DoneTags, InFlight
  <2> QED
    BY <1>1, <1>2, <1>6, <2>1 DEF BusesOK
<1>11. \A n, r : WritersBefore(n, r)' = WritersBefore(n, r)
  BY <1>2 DEF WritersBefore, Writers!Writer, Writers!Largest
<1>12. (SourcesOK /\ RegistersOK)'
  BY <1>1, <1>2, <1>5, <1>6, <1>11 DEF SourcesOK, Src, RegistersOK
<1>13. NoLostWakeup'
  <2>1. cdbs = {}
    BY DEF EndTick, PhasesOK
  <2> QED
    BY <1>1, <1>2, <1>5, <2>1 DEF NoLostWakeup
<1>14. UNCHANGED Writers!dataflowVars
  <2>1. toRemove \subseteq DoneTags
    BY <1>4 DEF DoneTags, InFlight
  <2> QED
    BY <1>2, <1>6, <1>7, <2>1 DEF Writers!dataflowVars
<1> QED
  BY <1>3, <1>8, <1>9, <1>10, <1>12, <1>13, <1>14, TypeParts DEF WindowOK
----------------------------------------------------------------------------
(* A queue from which fewer than N are taken before each that is taken     *)
(* gives at most N.                                                        *)
LEMMA FewTaken ==
  ASSUME NEW K, IsFiniteSet(K), NEW N \in Nat,
         \A x \in K : x.tag \in Nat,
         \A x, y \in K : x.tag = y.tag => x = y,
         \A x \in K : Cardinality({y \in K : y.tag > x.tag}) < N
  PROVE  IsFiniteSet({x.tag : x \in K}) /\ Cardinality({x.tag : x \in K}) <= N
<1> DEFINE numbers == {x.tag : x \in K}
           tagOf == [x \in K |-> x.tag]
<1>1. tagOf \in Surjection(K, numbers)
  BY DEF Surjection
<1>2. IsFiniteSet(numbers) /\ Cardinality(numbers) <= Cardinality(K)
  BY <1>1, FS_Surjection
<1>3. Cardinality(numbers) \in Nat /\ Cardinality(K) \in Nat
  BY <1>2, FS_CardinalityType
<1>4. CASE K = {}
  BY <1>2, <1>3, <1>4, FS_EmptySet
<1>5. CASE K # {}
  <2>1. numbers \subseteq Nat /\ numbers # {}
    BY <1>5
  <2>2. PICK n \in numbers : \A m \in numbers : n <= m
    BY <1>2, <2>1, SmallestOf
  <2>3. PICK x \in K : x.tag = n
    BY <2>2
  <2> DEFINE above == {y \in K : y.tag > x.tag}
  <2>4. K = above \cup {x}
    <3>1. ASSUME NEW y \in K, y # x PROVE y \in above
      <4>1. y.tag \in Nat /\ x.tag \in Nat /\ y.tag # x.tag
        BY <3>1
      <4>2. x.tag <= y.tag
        BY <2>2, <2>3
      <4> QED
        BY <4>1, <4>2
    <3> QED
      BY <3>1
  <2>5. IsFiniteSet(above)
    BY FS_Subset
  <2>6. x \notin above
    <3>1. x.tag \in Nat
      OBVIOUS
    <3> QED
      BY <3>1
  <2>7. Cardinality(above) < N
    OBVIOUS
  <2> HIDE DEF above
  <2>8. Cardinality(K) = Cardinality(above) + 1 /\ Cardinality(above) \in Nat
    BY <2>4, <2>5, <2>6, FS_AddElement, FS_CardinalityType
  <2> QED
    BY <1>2, <1>3, <2>7, <2>8
<1> QED
  BY <1>2, <1>4, <1>5

(* What schedule makes of a station.                                       *)
After(rs, fired) == [Woken(rs) EXCEPT !.issued = @ \/ Woken(rs) \in fired]

LEMMA AfterIs ==
  ASSUME tagCounter \in Nat, NEW rs \in Stations, NEW fired
  PROVE  /\ Woken(rs) \in Stations /\ Woken(rs).tag = rs.tag /\ Woken(rs).op = rs.op
         /\ Woken(rs).issued = rs.issued
         /\ \A s \in 1 .. 2 :
              Woken(rs).waits[s] = IF rs.waits[s] \in cdbs THEN 0 ELSE rs.waits[s]
         /\ After(rs, fired) \in Stations
         /\ After(rs, fired).tag = rs.tag /\ After(rs, fired).op = rs.op
         /\ After(rs, fired).waits = Woken(rs).waits
         /\ After(rs, fired).issued = (rs.issued \/ Woken(rs) \in fired)
<1>1. rs = [tag |-> rs.tag, op |-> rs.op, waits |-> rs.waits, issued |-> rs.issued]
  BY DEF Stations
<1>2. /\ rs.tag \in Tags /\ rs.op \in Ops /\ rs.issued \in BOOLEAN
      /\ rs.waits \in [1 .. 2 -> 0 .. tagCounter]
  BY DEF Stations
<1> DEFINE waits == [s \in 1 .. 2 |-> IF rs.waits[s] \in cdbs THEN 0 ELSE rs.waits[s]]
<1>3. Woken(rs) = [tag |-> rs.tag, op |-> rs.op, waits |-> waits, issued |-> rs.issued]
  BY <1>1 DEF Woken
<1>4. waits \in [1 .. 2 -> 0 .. tagCounter]
  <2>1. ASSUME NEW s \in 1 .. 2 PROVE waits[s] \in 0 .. tagCounter
    <3>1. rs.waits[s] \in 0 .. tagCounter
      BY <1>2
    <3>2. 0 \in 0 .. tagCounter
      OBVIOUS
    <3> QED
      BY <3>1, <3>2
  <2> QED
    BY <2>1
<1> DEFINE issued == rs.issued \/ Woken(rs) \in fired
<1>5. After(rs, fired) = [tag |-> rs.tag, op |-> rs.op, waits |-> waits, issued |-> issued]
  BY <1>3 DEF After
<1>6. \A s \in 1 .. 2 : waits[s] = IF rs.waits[s] \in cdbs THEN 0 ELSE rs.waits[s]
  OBVIOUS
<1>7. issued \in BOOLEAN
  BY <1>2
<1> HIDE DEF waits, issued
<1>8. Woken(rs) \in Stations /\ After(rs, fired) \in Stations
  BY <1>2, <1>3, <1>4, <1>5, <1>7 DEF Stations
<1> QED
  BY <1>3, <1>5, <1>6, <1>8 DEF issued

LEMMA ScheduleKeeps ==
  ASSUME IInv, Schedule
  PROVE  IInv' /\ Writers!Start
<1> USE DEF IInv
<1>1. /\ TypeFront /\ TypeQueue /\ TypeWindow /\ StationsOK
      /\ NothingLost /\ OnePlaceEach /\ BusesOK /\ SourcesOK /\ RegistersOK /\ NoLostWakeup
      /\ fast = {} /\ long[1] = {} /\ tagCounter \in Nat
  BY TypeParts DEF WindowOK, PhasesOK, Schedule, TypeWindow, TypeQueue
<1> DEFINE woken == {Woken(rs) : rs \in SQ}
<1>2. PICK fired \in SUBSET woken :
        /\ \A w \in woken : w \in fired <=> MayFire(w, fired)
        /\ SQ' = {[w EXCEPT !.issued = @ \/ w \in fired] : w \in woken}
        /\ fast' = fast \cup Firing(fired, FALSE)
        /\ long' = [long EXCEPT ![1] = @ \cup Firing(fired, TRUE)]
  BY DEF Schedule
<1>3. /\ phase' = "dispatch" /\ cdbs' = {} /\ slots' = DispatchWidth
      /\ UNCHANGED <<progress, pendingMem, outstanding, pendingBranch, opsLeft, DQ, trace,
                     tagCounter, rf, completed, cdbsIssued, toRemove>>
  BY DEF Schedule, memory, frontEnd
<1>4. SQ' = {After(rs, fired) : rs \in SQ}
  BY <1>2 DEF After
<1>5. \A rs \in SQ :
        /\ rs.tag \in Tags /\ rs.op \in Ops /\ rs.issued \in BOOLEAN
        /\ Woken(rs).tag = rs.tag /\ Woken(rs).op = rs.op /\ Woken(rs).issued = rs.issued
        /\ \A s \in 1 .. 2 :
             Woken(rs).waits[s] = IF rs.waits[s] \in cdbs THEN 0 ELSE rs.waits[s]
        /\ After(rs, fired) \in Stations
        /\ After(rs, fired).tag = rs.tag /\ After(rs, fired).op = rs.op
        /\ After(rs, fired).waits = Woken(rs).waits
        /\ After(rs, fired).issued = (rs.issued \/ Woken(rs) \in fired)
  <2> TAKE rs \in SQ
  <2>1. rs \in Stations
    BY <1>1 DEF TypeWindow
  <2> QED
    BY <1>1, <2>1, AfterIs DEF Stations
<1>6. \A w \in fired : \E rs \in SQ : w = Woken(rs)
  BY <1>2
<1>7. \A x, y \in woken : x.tag = y.tag => x = y
  BY <1>1, <1>5 DEF StationsOK
<1>8. Tags' = Tags /\ Stations' = Stations
  BY <1>3 DEF Tags, Stations
<1>9. IsFiniteSet(SQ)
  BY <1>1, QueueFinite
<1>10. IsFiniteSet(woken) /\ IsFiniteSet(fired)
  <2> DEFINE f == [rs \in SQ |-> Woken(rs)]
  <2>1. f \in Surjection(SQ, woken)
    BY DEF Surjection
  <2>2. IsFiniteSet(woken)
    BY <1>9, <2>1, FS_Surjection
  <2> QED
    BY <1>2, <2>2, FS_Subset
<1> HIDE DEF woken
<1>11. \A isLong \in BOOLEAN :
         Cardinality(Firing(fired, isLong)) <= Units(isLong)
  <2> TAKE isLong \in BOOLEAN
  <2> DEFINE K == {x \in fired : x.op.isLong = isLong}
  <2>1. IsFiniteSet(K)
    BY <1>10, FS_Subset
  <2>2. \A x \in K : x.tag \in Nat
    BY <1>5, <1>6 DEF Tags
  <2>3. \A x, y \in K : x.tag = y.tag => x = y
    BY <1>2, <1>7
  <2>4. Units(isLong) \in Nat /\ FreeUnits(isLong) = Units(isLong)
    BY <1>1, Widths, FS_EmptySet DEF Units, FreeUnits
  <2>5. ASSUME NEW x \in K PROVE Cardinality({y \in K : y.tag > x.tag}) < Units(isLong)
    <3>1. MayFire(x, fired)
      BY <1>2
    <3> DEFINE before == {other \in fired : other.tag > x.tag}
               kind == {other \in before : other.op.isLong = x.op.isLong}
    <3>2. Cardinality(kind) < FreeUnits(x.op.isLong)
      BY <3>1 DEF MayFire
    <3>3. kind = {y \in K : y.tag > x.tag}
      OBVIOUS
    <3> QED
      BY <2>4, <3>2, <3>3
  <2>6. Firing(fired, isLong) = {x.tag : x \in K}
    BY DEF Firing
  <2> HIDE DEF K
  <2> QED
    BY <2>1, <2>2, <2>3, <2>4, <2>5, <2>6, FewTaken
<1>12. \A isLong \in BOOLEAN : \A n \in Firing(fired, isLong) :
         /\ n \in Tags /\ n \notin IssuedTags /\ trace[n].isLong = isLong
         /\ \E rs \in SQ : rs.tag = n /\ Woken(rs) \in fired
  <2> TAKE isLong \in BOOLEAN
  <2> TAKE n \in Firing(fired, isLong)
  <2>1. PICK w \in fired : w.op.isLong = isLong /\ w.tag = n
    BY DEF Firing
  <2>2. PICK rs \in SQ : w = Woken(rs)
    BY <1>6
  <2>3. ~w.issued
    BY <1>2, <2>1 DEF MayFire, CanFire
  <2>4. rs.tag = n /\ ~rs.issued /\ rs.op.isLong = isLong
    BY <1>5, <2>1, <2>2, <2>3
  <2>5. trace[n].isLong = isLong /\ n \in Tags
    BY <1>1, <1>5, <2>4 DEF StationsOK
  <2>6. n \notin IssuedTags
    BY <1>1, <2>4 DEF StationsOK, IssuedTags
  <2> QED
    BY <2>1, <2>2, <2>4, <2>5, <2>6
<1>13. IssuedTags' = IssuedTags \cup Firing(fired, FALSE) \cup Firing(fired, TRUE)
  <2>1. ASSUME NEW n \in IssuedTags'
        PROVE  n \in IssuedTags \cup Firing(fired, FALSE) \cup Firing(fired, TRUE)
    <3>1. PICK x \in SQ' : x.issued /\ x.tag = n
      BY DEF IssuedTags
    <3>2. PICK rs \in SQ : x = After(rs, fired)
      BY <1>4, <3>1
    <3>3. rs.tag = n /\ (rs.issued \/ Woken(rs) \in fired)
      BY <1>5, <3>1, <3>2
    <3>4. rs.op.isLong \in BOOLEAN
      BY <1>5, OpsAssumption
    <3> QED
      BY <1>5, <3>3, <3>4 DEF IssuedTags, Firing
  <2>2. ASSUME NEW rs \in SQ, rs.issued \/ Woken(rs) \in fired PROVE rs.tag \in IssuedTags'
    <3>1. After(rs, fired) \in SQ' /\ After(rs, fired).issued /\ After(rs, fired).tag = rs.tag
      BY <1>4, <1>5, <2>2
    <3> QED
      BY <3>1 DEF IssuedTags
  <2>3. IssuedTags \subseteq IssuedTags'
    BY <2>2 DEF IssuedTags
  <2>4. \A isLong \in BOOLEAN : Firing(fired, isLong) \subseteq IssuedTags'
    <3> TAKE isLong \in BOOLEAN
    <3>1. ASSUME NEW n \in Firing(fired, isLong) PROVE n \in IssuedTags'
      <4>1. PICK rs \in SQ : rs.tag = n /\ Woken(rs) \in fired
        BY <1>12
      <4> QED
        BY <2>2, <4>1
    <3> QED
      BY <3>1
  <2> QED
    BY <2>1, <2>3, <2>4
<1>14. {rs.tag : rs \in SQ'} = {rs.tag : rs \in SQ}
  BY <1>4, <1>5
<1>15. InFlight' = InFlight /\ DoneTags' = DoneTags
  BY <1>3, <1>8, <1>14 DEF InFlight, DoneTags
<1>16. /\ fast' = Firing(fired, FALSE)
       /\ long'[1] = Firing(fired, TRUE) /\ long'[2] = long[2] /\ long'[3] = long[3]
       /\ DOMAIN long' = 1 .. 3
  BY <1>1, <1>2 DEF TypeWindow
<1>17. TypeWindow'
  <2>1. SQ' \subseteq Stations
    BY <1>4, <1>5
  <2>2. \A isLong \in BOOLEAN : InSQ(isLong)' <= MaxSQ(isLong)
    <3> TAKE isLong \in BOOLEAN
    <3> DEFINE old == {rs \in SQ : rs.op.isLong = isLong}
               new == {rs \in SQ' : rs.op.isLong = isLong}
               f == [rs \in old |-> After(rs, fired)]
    <3>1. IsFiniteSet(old)
      BY <1>9, FS_Subset
    <3>2. f \in Surjection(old, new)
      <4>1. f \in [old -> new]
        BY <1>4, <1>5
      <4>2. \A x \in new : \E rs \in old : f[rs] = x
        BY <1>4, <1>5
      <4> QED
        BY <4>1, <4>2 DEF Surjection
    <3>3. Cardinality(new) <= Cardinality(old) /\ IsFiniteSet(new)
      BY <3>1, <3>2, FS_Surjection
    <3>4. Cardinality(old) \in Nat /\ Cardinality(new) \in Nat /\ MaxSQ(isLong) \in Nat
      BY <3>1, <3>3, FS_CardinalityType, Widths DEF MaxSQ, Units
    <3>5. Cardinality(old) <= MaxSQ(isLong)
      BY <1>1 DEF TypeWindow, InSQ
    <3> HIDE DEF old, new, f
    <3>6. Cardinality(new) <= MaxSQ(isLong)
      BY <3>3, <3>4, <3>5
    <3> QED
      BY <3>6 DEF InSQ, new
  <2>3. fast' \subseteq Tags /\ Cardinality(fast') <= NumFastALU
    BY <1>11, <1>12, <1>16 DEF Units
  <2>4. long' \in [1 .. 3 -> SUBSET Tags]
    BY <1>1, <1>2, <1>12 DEF TypeWindow
  <2>5. \A stage \in 1 .. 3 : Cardinality(long'[stage]) <= NumLongALU
    <3> TAKE stage \in 1 .. 3
    <3>1. Cardinality(long'[1]) <= NumLongALU
      BY <1>11, <1>16 DEF Units
    <3>2. stage # 1 => long'[stage] = long[stage]
      BY <1>16
    <3> QED
      BY <1>1, <3>1, <3>2 DEF TypeWindow
  <2>6. Cardinality(cdbs') <= NumCDB /\ cdbs' \subseteq Tags
    BY <1>3, Widths, FS_EmptySet
  <2> QED
    BY <1>1, <1>3, <1>8, <2>1, <2>2, <2>3, <2>4, <2>5, <2>6 DEF TypeWindow
<1>18. StationsOK'
  <2>1. \A rs \in SQ' : rs.op = trace[rs.tag]
    BY <1>1, <1>4, <1>5 DEF StationsOK
  <2>2. \A x, y \in SQ' : x.tag = y.tag => x = y
    BY <1>1, <1>4, <1>5 DEF StationsOK
  <2> QED
    BY <1>3, <2>1, <2>2 DEF StationsOK
<1>19. Waiters' = Waiters
  BY <1>3 DEF Waiters
<1>20. NothingLost'
  BY <1>1, <1>3, <1>13, <1>16, <1>19 DEF NothingLost
<1>21. OnePlaceEach'
  <2>1. \A n \in fast' : trace[n].isLong = FALSE
    BY <1>12, <1>16
  <2>2. \A i \in 1 .. 3 : \A n \in long'[i] : trace[n].isLong = TRUE
    <3>1. \A n \in long'[1] : trace[n].isLong = TRUE
      BY <1>12, <1>16
    <3>2. \A i \in 1 .. 3 : i # 1 => long'[i] = long[i]
      BY <1>16
    <3> QED
      BY <1>1, <3>1, <3>2 DEF OnePlaceEach
  <2>3. (fast' \cup long'[1]) \cap (long[2] \cup long[3] \cup Waiters \cup toRemove) = {}
    <3>1. \A n \in fast' \cup long'[1] : n \notin IssuedTags
      BY <1>12, <1>16
    <3>2. long[2] \cup long[3] \cup Waiters \cup toRemove \subseteq IssuedTags
      BY <1>1 DEF NothingLost
    <3> QED
      BY <3>1, <3>2
  <2> QED
    BY <1>1, <1>3, <1>16, <1>19, <2>1, <2>2, <2>3 DEF OnePlaceEach
<1>22. BusesOK'
  BY <1>1, <1>3, <1>15 DEF BusesOK
<1>23. \A n, r : WritersBefore(n, r)' = WritersBefore(n, r)
  BY <1>3 DEF WritersBefore, Writers!Writer, Writers!Largest
<1>24. SourcesOK' /\ NoLostWakeup'
  <2>1. ASSUME NEW x \in SQ', NEW s \in 1 .. 2
        PROVE  /\ x.waits[s] \in InFlight \cup cdbsIssued \cup {0}
               /\ LET r == Src(x.op, s)
                  IN  IF x.waits[s] = 0
                      THEN r # NoReg => WritersBefore(x.tag, r) \subseteq DoneTags
                      ELSE r # NoReg /\ x.waits[s] \in WritersBefore(x.tag, r)
    <3>1. PICK rs \in SQ : x = After(rs, fired)
      BY <1>4
    <3> DEFINE r == Src(rs.op, s)
    <3>2. /\ x.tag = rs.tag /\ x.op = rs.op /\ rs.tag \in Nat
          /\ x.waits[s] = IF rs.waits[s] \in cdbs THEN 0 ELSE rs.waits[s]
      BY <1>5, <3>1 DEF Tags
    <3>3. rs.waits[s] \in InFlight \cup cdbs \cup cdbsIssued \cup {0}
      BY <1>1 DEF NoLostWakeup
    <3>4. IF rs.waits[s] = 0
          THEN r # NoReg => WritersBefore(rs.tag, r) \subseteq DoneTags
          ELSE r # NoReg /\ rs.waits[s] \in WritersBefore(rs.tag, r)
      BY <1>1 DEF SourcesOK
    <3>5. CASE rs.waits[s] \in cdbs
      <4>1. rs.waits[s] \in DoneTags /\ rs.waits[s] # 0
        <5>1. rs.waits[s] \in DoneTags
          BY <1>1, <3>5 DEF BusesOK
        <5>2. rs.waits[s] \in 1 .. tagCounter
          BY <5>1 DEF DoneTags, Tags
        <5> QED
          BY <1>1, <5>1, <5>2
      <4>2. WritersBefore(rs.tag, r) = {rs.waits[s]}
        BY <3>2, <3>4, <4>1, WriterIs
      <4> QED
        BY <3>2, <3>5, <4>1, <4>2
    <3>6. CASE rs.waits[s] \notin cdbs
      BY <3>2, <3>3, <3>4, <3>6
    <3> QED
      BY <3>5, <3>6
  <2>2. SourcesOK'
    BY <1>15, <1>23, <2>1 DEF SourcesOK, Src
  <2>3. \A r \in Registers : ~rf'[r].ready => rf'[r].tag \in InFlight'
    BY <1>1, <1>3, <1>15 DEF RegistersOK
  <2> QED
    BY <1>3, <1>15, <2>1, <2>2, <2>3 DEF NoLostWakeup
<1>25. RegistersOK'
  BY <1>1, <1>3, <1>15, <1>23 DEF RegistersOK
<1>26. TypeFront' /\ TypeQueue' /\ AccessesLeft' /\ QueueIsRest' /\ PhasesOK'
  BY <1>1, <1>3, Widths DEF TypeFront, TypeQueue, AccessesLeft, QueueIsRest, PhasesOK, Phases
<1>27. Writers!Start
  <2>1. ASSUME NEW n \in IssuedTags' \ IssuedTags
        PROVE  Writers!Producers(trace, n) \subseteq DoneTags
    <3>1. PICK rs \in SQ : rs.tag = n /\ Woken(rs) \in fired
      BY <1>12, <1>13
    <3> DEFINE x == After(rs, fired)
    <3>2. \A s \in 1 .. 2 : Woken(rs).waits[s] = 0
      BY <1>2, <3>1 DEF MayFire, CanFire
    <3>3. x \in SQ' /\ x.tag = n /\ x.op = rs.op /\ \A s \in 1 .. 2 : x.waits[s] = 0
      BY <1>4, <1>5, <3>1, <3>2
    <3> HIDE DEF x
    <3>4. x.op = trace[n]
      BY <1>3, <1>18, <3>3 DEF StationsOK
    <3>5. \A s \in 1 .. 2 : Src(x.op, s) # NoReg =>
            WritersBefore(n, Src(x.op, s)) \subseteq DoneTags
      BY <1>15, <1>23, <1>24, <3>3 DEF SourcesOK, Src
    <3>6. \A r \in Writers!Sources(trace[n]) : WritersBefore(n, r) \subseteq DoneTags
      BY <3>4, <3>5 DEF Writers!Sources, Writers!NoReg, NoReg, Src
    <3> QED
      BY <3>6 DEF Writers!Producers, WritersBefore
  <2>2. IssuedTags' \subseteq Tags /\ DoneTags \subseteq Tags
    BY <1>8, <1>17 DEF IssuedTags, DoneTags, TypeWindow, Stations
  <2>3. Tags \subseteq DOMAIN trace
    BY <1>1 DEF Tags, TypeWindow, TypeQueue
  <2> QED
    BY <1>3, <1>13, <1>15, <2>1, <2>2, <2>3 DEF Writers!Start
<1> QED
  BY <1>17, <1>18, <1>20, <1>21, <1>22, <1>24, <1>25, <1>26, <1>27, TypeParts DEF WindowOK
----------------------------------------------------------------------------
(* The next operation gets a station with the next number.                 *)
LEMMA DispatchKeeps ==
  ASSUME IInv, Dispatch
  PROVE  IInv' /\ UNCHANGED Writers!dataflowVars
<1> USE DEF IInv
<1> DEFINE op  == Head(DQ)
           tag == tagCounter + 1
           new == [tag |-> tag, op |-> op, issued |-> FALSE,
                   waits |-> <<Awaited(op.src1), Awaited(op.src2)>>]
<1>1. /\ TypeFront /\ TypeQueue /\ TypeWindow /\ StationsOK /\ QueueIsRest
      /\ NothingLost /\ OnePlaceEach /\ BusesOK /\ SourcesOK /\ RegistersOK /\ NoLostWakeup
      /\ phase = "dispatch" /\ cdbs = {} /\ slots > 0 /\ DQ # <<>> /\ ~IsFullSQ(op.isLong)
  BY TypeParts DEF WindowOK, PhasesOK, Dispatch, CanDispatch
<1>2. /\ SQ' = SQ \cup {new} /\ tagCounter' = tag /\ DQ' = Tail(DQ) /\ slots' = slots - 1
      /\ rf' = [r \in Registers |-> IF r = op.dest THEN [ready |-> FALSE, tag |-> tag]
                                                   ELSE rf[r]]
      /\ UNCHANGED <<phase, progress, pendingMem, outstanding, pendingBranch, opsLeft, trace,
                     fast, long, completed, cdbs, cdbsIssued, toRemove>>
  BY DEF Dispatch, memory, backEnd, buses
<1>3. /\ Len(DQ) \in Nat \ {0} /\ op \in Ops /\ op = DQ[1]
      /\ DQ' \in Seq(Ops) /\ Len(DQ') = Len(DQ) - 1
      /\ \A i \in 1 .. Len(DQ') : DQ'[i] = DQ[i + 1]
  BY <1>1, <1>2 DEF TypeQueue
<1>4. /\ tagCounter \in Nat /\ Len(trace) \in Nat /\ tag \in 1 .. Len(trace) /\ tag \in Nat
      /\ op = trace[tag]
  <2>1. tagCounter \in Nat /\ Len(trace) \in Nat
    BY <1>1 DEF TypeWindow, TypeQueue
  <2>2. tag \in 1 .. Len(trace)
    BY <1>1, <1>3, <2>1 DEF QueueIsRest
  <2>3. 1 \in 1 .. Len(DQ)
    BY <1>3
  <2>4. DQ[1] = trace[tagCounter + 1]
    BY <1>1, <2>3 DEF QueueIsRest
  <2> QED
    BY <1>3, <2>1, <2>2, <2>4
<1>5. /\ op.src1 \in Registers \cup {NoReg} /\ op.src2 \in Registers \cup {NoReg}
      /\ op.dest \in Registers \cup {NoReg} /\ op.isLong \in BOOLEAN
      /\ NoReg \notin Registers
  BY <1>3, OpsAssumption DEF NoReg
<1>6. Tags' = Tags \cup {tag} /\ tag \notin Tags /\ Tags \subseteq Nat
  BY <1>2, <1>4 DEF Tags
<1> HIDE DEF op
<1>7. \A r \in Registers \cup {NoReg} :
        /\ Awaited(r) \in 0 .. tagCounter
        /\ IF Awaited(r) = 0
           THEN r # NoReg => WritersBefore(tag, r) \subseteq DoneTags
           ELSE r # NoReg /\ Awaited(r) \in WritersBefore(tag, r) /\ Awaited(r) \in InFlight
  <2> TAKE r \in Registers \cup {NoReg}
  <2>1. CASE r = NoReg \/ rf[r].ready
    BY <1>1, <1>4, <2>1 DEF Awaited, RegistersOK
  <2>2. CASE ~(r = NoReg \/ rf[r].ready)
    <3>1. Awaited(r) = rf[r].tag /\ rf[r].tag \in 0 .. tagCounter
      BY <1>1, <2>2 DEF Awaited, TypeWindow
    <3>2. rf[r].tag \in WritersBefore(tag, r) /\ rf[r].tag \in InFlight
      BY <1>1, <2>2 DEF RegistersOK
    <3>3. rf[r].tag # 0
      BY <1>4, <3>2, WriterIs
    <3> QED
      BY <2>2, <3>1, <3>2, <3>3
  <2> QED
    BY <2>1, <2>2
<1>8. /\ new.tag = tag /\ new.op = op /\ new.issued = FALSE
      /\ \A s \in 1 .. 2 : new.waits[s] = Awaited(Src(op, s))
      /\ \A s \in 1 .. 2 : Src(op, s) \in Registers \cup {NoReg}
  BY <1>5 DEF Src
<1>9. new \in Stations'
  <2>1. new.waits \in [1 .. 2 -> 0 .. tagCounter']
    <3>1. Awaited(op.src1) \in 0 .. tag /\ Awaited(op.src2) \in 0 .. tag
      BY <1>4, <1>5, <1>7
    <3> QED
      BY <1>2, <3>1
  <2> QED
    BY <1>3, <1>6, <2>1 DEF Stations
<1> HIDE DEF new
<1>10. Stations \subseteq Stations'
  <2>1. 0 .. tagCounter \subseteq 0 .. tagCounter'
    BY <1>2, <1>4
  <2> QED
    BY <1>6, <2>1 DEF Stations
<1>11. \A rs \in SQ : rs \in Stations /\ rs.tag \in Tags /\ rs.tag # tag
  BY <1>1, <1>6 DEF TypeWindow, Stations
<1>12. IsFiniteSet(SQ)
  BY <1>1, QueueFinite
<1>13. /\ IssuedTags' = IssuedTags /\ Waiters' = Waiters
       /\ toRemove \subseteq Tags /\ tag \notin toRemove
       /\ InFlight' = InFlight \cup {tag} /\ DoneTags' = DoneTags
  <2>1. IssuedTags' = IssuedTags
    BY <1>2, <1>8 DEF IssuedTags
  <2>2. toRemove \subseteq Tags
    BY <1>1 DEF TypeWindow
  <2>3. {rs.tag : rs \in SQ'} = {rs.tag : rs \in SQ} \cup {tag}
    BY <1>2, <1>8
  <2>4. InFlight' = InFlight \cup {tag}
    BY <1>2, <1>6, <2>2, <2>3 DEF InFlight
  <2>5. DoneTags' = DoneTags
    BY <1>6, <2>4 DEF DoneTags
  <2> QED
    BY <1>2, <1>6, <2>1, <2>2, <2>4, <2>5 DEF Waiters
<1>14. TypeWindow'
  <2>1. SQ' \subseteq Stations'
    BY <1>2, <1>9, <1>10, <1>11
  <2>2. \A isLong \in BOOLEAN : InSQ(isLong)' <= MaxSQ(isLong)
    <3> TAKE isLong \in BOOLEAN
    <3> DEFINE old == {rs \in SQ : rs.op.isLong = isLong}
               all == {rs \in SQ' : rs.op.isLong = isLong}
    <3>1. IsFiniteSet(old) /\ new \notin old
      BY <1>8, <1>11, <1>12, FS_Subset
    <3>2. Cardinality(old) \in Nat /\ MaxSQ(isLong) \in Nat
      BY <3>1, FS_CardinalityType, Widths DEF MaxSQ, Units
    <3>3. Cardinality(old) <= MaxSQ(isLong)
      BY <1>1 DEF TypeWindow, InSQ
    <3>4. CASE op.isLong = isLong
      <4>1. all = old \cup {new}
        BY <1>2, <1>8, <3>4
      <4>2. ~(Cardinality(old) >= MaxSQ(isLong))
        BY <1>1, <3>4 DEF IsFullSQ, InSQ
      <4> HIDE DEF old, all
      <4>3. Cardinality(all) = Cardinality(old) + 1
        BY <3>1, <4>1, FS_AddElement
      <4>4. Cardinality(all) <= MaxSQ(isLong)
        BY <3>2, <4>2, <4>3
      <4> QED
        BY <4>4 DEF InSQ, all
    <3>5. CASE op.isLong # isLong
      <4>1. all = old
        BY <1>2, <1>8, <3>5
      <4> QED
        BY <3>3, <4>1 DEF InSQ
    <3> QED
      BY <3>4, <3>5
  <2>3. rf' \in [Registers -> [ready : BOOLEAN, tag : 0 .. tagCounter']]
    <3>1. ASSUME NEW r \in Registers
          PROVE  rf'[r] \in [ready : BOOLEAN, tag : 0 .. tagCounter']
      <4>1. CASE r = op.dest
        <5>1. tag \in 0 .. tagCounter'
          BY <1>2, <1>4
        <5> QED
          BY <1>2, <4>1, <5>1
      <4>2. CASE r # op.dest
        <5>1. rf'[r] = rf[r]
          BY <1>2, <4>2
        <5>2. rf[r] \in [ready : BOOLEAN, tag : 0 .. tagCounter]
          BY <1>1 DEF TypeWindow
        <5>3. 0 .. tagCounter \subseteq 0 .. tagCounter'
          BY <1>2, <1>4
        <5> QED
          BY <5>1, <5>2, <5>3
      <4> QED
        BY <4>1, <4>2
    <3> QED
      BY <1>2, <3>1
  <2>4. completed' \in Seq(Tags')
    <3>1. Seq(Tags) \subseteq Seq(Tags')
      BY <1>6, SeqMonotonic
    <3> QED
      BY <1>1, <1>2, <3>1 DEF TypeWindow
  <2>5. /\ fast' \subseteq Tags' /\ Cardinality(fast') <= NumFastALU
        /\ long' \in [1 .. 3 -> SUBSET Tags']
        /\ \A stage \in 1 .. 3 : Cardinality(long'[stage]) <= NumLongALU
        /\ cdbs' \subseteq Tags' /\ cdbsIssued' \subseteq Tags' /\ toRemove' \subseteq Tags'
        /\ Cardinality(cdbs') <= NumCDB /\ Cardinality(toRemove') <= NumCDB
    BY <1>1, <1>2, <1>6 DEF TypeWindow
  <2>6. tagCounter' \in 0 .. Len(trace')
    BY <1>2, <1>4
  <2> QED
    BY <2>1, <2>2, <2>3, <2>4, <2>5, <2>6 DEF TypeWindow, MaxSQ
<1>15. TypeFront' /\ TypeQueue' /\ AccessesLeft' /\ PhasesOK'
  <2>1. MaxDQ \in Nat
    BY Widths DEF MaxDQ
  <2>2. slots' \in Nat
    BY <1>1, <1>2 DEF TypeFront
  <2>3. Len(DQ') <= MaxDQ
    BY <1>1, <1>3, <2>1 DEF TypeQueue
  <2> QED
    BY <1>1, <1>2, <1>3, <2>2, <2>3 DEF TypeFront, TypeQueue, AccessesLeft, PhasesOK
<1>16. QueueIsRest'
  <2>1. \A i \in 1 .. Len(DQ') : DQ'[i] = trace[tag + i]
    <3> TAKE i \in 1 .. Len(DQ')
    <3>1. i + 1 \in 1 .. Len(DQ) /\ tagCounter + (i + 1) = tag + i
      BY <1>3, <1>4
    <3>2. DQ[i + 1] = trace[tagCounter + (i + 1)]
      BY <1>1, <3>1 DEF QueueIsRest
    <3> QED
      BY <1>3, <3>1, <3>2
  <2>2. Len(DQ') = Len(trace) - tag
    BY <1>1, <1>3, <1>4 DEF QueueIsRest
  <2> QED
    BY <1>2, <2>1, <2>2 DEF QueueIsRest
<1>17. StationsOK'
  BY <1>1, <1>2, <1>4, <1>8, <1>11 DEF StationsOK
<1>18. NothingLost' /\ OnePlaceEach'
  BY <1>1, <1>2, <1>13 DEF NothingLost, OnePlaceEach
<1>19. BusesOK'
  BY <1>1, <1>2, <1>13 DEF BusesOK
<1>20. \A n, r : WritersBefore(n, r)' = WritersBefore(n, r)
  BY <1>2 DEF WritersBefore, Writers!Writer, Writers!Largest
<1>21. SourcesOK'
  <2>1. ASSUME NEW rs \in SQ', NEW s \in 1 .. 2
        PROVE  LET r == Src(rs.op, s)
               IN  IF rs.waits[s] = 0
                   THEN r # NoReg => WritersBefore(rs.tag, r) \subseteq DoneTags
                   ELSE r # NoReg /\ rs.waits[s] \in WritersBefore(rs.tag, r)
    <3>1. CASE rs \in SQ
      BY <1>1, <3>1 DEF SourcesOK
    <3>2. CASE rs = new
      BY <1>7, <1>8, <3>2
    <3> QED
      BY <1>2, <3>1, <3>2
  <2> QED
    BY <1>13, <1>20, <2>1 DEF SourcesOK, Src
<1>22. RegistersOK'
  <2> SUFFICES ASSUME NEW r \in Registers
               PROVE  IF rf'[r].ready
                      THEN WritersBefore(tag + 1, r) \subseteq DoneTags
                      ELSE /\ rf'[r].tag \in InFlight \cup {tag}
                           /\ rf'[r].tag \in WritersBefore(tag + 1, r)
    BY <1>2, <1>13, <1>20 DEF RegistersOK
  <2>1. CASE r = op.dest
    <3>1. rf'[r].ready = FALSE /\ rf'[r].tag = tag
      BY <1>2, <2>1
    <3>2. tag \in WritersBefore(tag + 1, r)
      BY <1>4, <2>1 DEF WritersBefore, Writers!Writer, Writers!Largest
    <3> QED
      BY <3>1, <3>2
  <2>2. CASE r # op.dest
    <3>1. {k \in 1 .. (tag + 1) - 1 : trace[k].dest = r} = {k \in 1 .. tag - 1 : trace[k].dest = r}
      BY <1>4, <2>2
    <3>2. WritersBefore(tag + 1, r) = WritersBefore(tag, r)
      BY <3>1 DEF WritersBefore, Writers!Writer
    <3>3. rf'[r] = rf[r]
      BY <1>2, <2>2
    <3> QED
      BY <1>1, <3>2, <3>3 DEF RegistersOK
  <2> QED
    BY <2>1, <2>2
<1>23. NoLostWakeup'
  <2>1. ASSUME NEW rs \in SQ', NEW s \in 1 .. 2
        PROVE  rs.waits[s] \in InFlight' \cup cdbs' \cup cdbsIssued' \cup {0}
    <3>1. CASE rs \in SQ
      BY <1>1, <1>2, <1>13, <3>1 DEF NoLostWakeup
    <3>2. CASE rs = new
      BY <1>7, <1>8, <1>13, <3>2
    <3> QED
      BY <1>2, <3>1, <3>2
  <2>2. \A r \in Registers : ~rf'[r].ready => rf'[r].tag \in InFlight'
    BY <1>22 DEF RegistersOK
  <2> QED
    BY <2>1, <2>2 DEF NoLostWakeup
<1>24. UNCHANGED Writers!dataflowVars
  BY <1>2, <1>13 DEF Writers!dataflowVars
<1> QED
  BY <1>14, <1>15, <1>16, <1>17, <1>18, <1>19, <1>21, <1>22, <1>23, <1>24, TypeParts
     DEF WindowOK
----------------------------------------------------------------------------
LEMMA NextKeeps ==
  ASSUME IInv, [Next]_vars
  PROVE  IInv' /\ [Writers!Next]_(Writers!dataflowVars)
<1> USE DEF Writers!Next
<1>1. CASE FetchALU
  BY <1>1, FetchALUKeeps
<1>2. CASE StateUpdate
  BY <1>2, StateUpdateKeeps
<1>3. CASE Execute
  BY <1>3, ExecuteKeeps
<1>4. CASE Schedule
  BY <1>4, ScheduleKeeps
<1>5. CASE Dispatch
  BY <1>5, DispatchKeeps
<1>6. CASE EndTick
  BY <1>6, EndTickKeeps
<1>7. CASE \/ MemoryAdvances \/ MemoryAnswers \/ StartFetch \/ FetchMemory
           \/ FetchBranch \/ FetchEnd \/ UNCHANGED vars
  BY <1>7, QuietKeeps
<1> QED
  BY <1>1, <1>2, <1>3, <1>4, <1>5, <1>6, <1>7 DEF Next, Fetch, Halted

LEMMA CoreInvariant == Spec => []IInv
<1>1. IInv /\ [Next]_vars => IInv'
  BY NextKeeps
<1> QED
  BY <1>1, InitIInv, PTL DEF Spec

(* The queues never hold more than their room, no unit is given two        *)
(* operations, no tag beyond the counter is waited for or broadcast, and no*)
(* more results leave in a tick than there are CDBs (isFullDQ, isFullSQ,   *)
(* the loop of schedule, removeByMinTag), for every configuration.         *)
THEOREM SimTypeCorrect == Spec => []TypeOK
<1>1. IInv => TypeOK
  BY DEF IInv
<1> QED
  BY <1>1, CoreInvariant, PTL

(* No operation waits for a broadcast that has been: the tag of a source is*)
(* in flight, or it is on a bus the source still hears (the order of the   *)
(* stages in tick, and shiftCDBs).                                         *)
THEOREM SimNoLostWakeup == Spec => []NoLostWakeup
<1>1. IInv => NoLostWakeup
  BY DEF IInv, WindowOK
<1> QED
  BY <1>1, CoreInvariant, PTL

(* Results that come out of order leave the register file as program order *)
(* would: a register is ready exactly when its last writer is done (the    *)
(* comparison of tags in stateUpdate, and the renaming in dispatch).       *)
THEOREM SimRegistersCurrent == Spec => []RegistersCurrent
<1>1. ASSUME IInv PROVE RegistersCurrent
  <2> SUFFICES ASSUME NEW r \in Registers
               PROVE  rf[r].ready <=> WritersBefore(tagCounter + 1, r) \subseteq DoneTags
    BY DEF RegistersCurrent, WritersBefore
  <2>1. RegistersOK
    BY <1>1 DEF IInv, WindowOK
  <2>2. rf[r].tag \in InFlight => rf[r].tag \notin DoneTags
    BY DEF DoneTags
  <2> QED
    BY <2>1, <2>2 DEF RegistersOK
<1> QED
  BY <1>1, CoreInvariant, PTL

(* A station that was issued is in a unit, among the completed, or on its  *)
(* way out, and in one of them only: no operation is dropped or executed   *)
(* twice between the lists of the processor (schedule, execute,            *)
(* stateUpdate, removeAllFromSQ).                                          *)
THEOREM SimNothingLost == Spec => [](NothingLost /\ OnePlaceEach)
<1>1. IInv => NothingLost /\ OnePlaceEach
  BY DEF IInv, WindowOK
<1> QED
  BY <1>1, CoreInvariant, PTL

(* The core is a dataflow machine: whatever the order in which operations  *)
(* are woken, issued and broadcast, each starts after the last earlier     *)
(* writers of its sources are done (the safety part of ImplementsDataflow).*)
THEOREM SimImplementsDataflow == Spec => Writers!Safety
<1>1. Init => Writers!Init
  BY DEF Init, Writers!Init, DoneTags, IssuedTags, InFlight, Tags
<1>2. IInv /\ [Next]_vars => [Writers!Next]_(Writers!dataflowVars)
  BY NextKeeps
<1> QED
  BY <1>1, <1>2, CoreInvariant, PTL DEF Spec, Writers!Safety
=============================================================================
