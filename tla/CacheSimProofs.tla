--------------------------- MODULE CacheSimProofs ---------------------------
(* The set-associative cache for every number of sets, lines, victims and  *)
(* blocks, every configuration and every trace.                            *)
EXTENDS CacheSim, Numbers, FiniteSetTheorems, SequenceTheorems

(* The phases between which the lists are empty.                           *)
CourseOK ==
  /\ phase \in {"coherence", "permissions", "callbacks", "halted"} =>
       serving = <<>> /\ fetches = 0
  /\ phase = "processor" => serving = <<>>
  /\ phase = "callbacks" => readyPermReq = <<>>
  /\ ~pendingMem => /\ serving = <<>> /\ pendReq = <<>>
                    /\ readyPermReq = <<>> /\ pendPermReq = <<>>

BusCountsRequests == countDown > 0 <=> busQueue # <<>>

SetNumbers == 0 .. Sets - 1
Ways == 1 .. Lines
Entries == 1 .. VictimEntries

(* Where a block can be.                                                   *)
InItsSet ==
  \A s \in SetNumbers : \A i \in Ways :
    cacheSets[s][i] # NULL => SetOf(cacheSets[s][i].addr) = s
LinesApart ==
  \A s \in SetNumbers : \A i, j \in Ways :
    /\ cacheSets[s][i] # NULL /\ cacheSets[s][j] # NULL
    /\ cacheSets[s][i].addr = cacheSets[s][j].addr
    => i = j
VictimsApart ==
  \A i, j \in Entries :
    /\ victimCache[i] # NULL /\ victimCache[j] # NULL
    /\ victimCache[i].addr = victimCache[j].addr
    => i = j
(* A block goes to the victim cache when it has to leave its set.          *)
VictimsOut ==
  /\ ~useVictim => \A e \in Entries : victimCache[e] = NULL
  /\ \A e \in Entries : victimCache[e] # NULL =>
       LET s == SetOf(victimCache[e].addr)
       IN  \A i \in Ways : /\ cacheSets[s][i] # NULL
                           /\ cacheSets[s][i].addr # victimCache[e].addr

Layout == InItsSet /\ LinesApart /\ VictimsApart /\ VictimsOut

IInv == TypeOK /\ CourseOK /\ BusCountsRequests /\ Layout /\ StampsInOrder
----------------------------------------------------------------------------
(* The cache and the coherence component.                                  *)
Addrs(list) == {list[i].addr : i \in 1 .. Len(list)}
Once(list) == \A i, j \in 1 .. Len(list) : list[i].addr = list[j].addr => i = j

InLine(a) ==
  \E i \in Ways : cacheSets[SetOf(a)][i] # NULL /\ cacheSets[SetOf(a)][i].addr = a
InVictims(a) == \E e \in Entries : victimCache[e] # NULL /\ victimCache[e].addr = a
Resident(a) == InLine(a) \/ InVictims(a)

(* The states a miss leads to.                                             *)
MissStates == {CacheStep(load, "INVALID").next : load \in BOOLEAN}

(* A block that is in the cache and has no permission yet.                 *)
UnderWay(a) == coherStates[a] \in MissStates \cup {"INVALID"}

Distinct(queue) == \A i, j \in 1 .. Len(queue) : queue[i] = queue[j] => i = j
Items(queue) == {queue[i] : i \in 1 .. Len(queue)}
BusAgrees == Distinct(busQueue) /\ Items(busQueue) = Addrs(pendReq)

RequestsAgree ==
  /\ Once(pendReq) /\ Once(readyPermReq) /\ Once(pendPermReq)
  /\ Addrs(readyPermReq) \cap Addrs(pendPermReq) = {}
  /\ BusAgrees

StatesAgree ==
  \A a \in Blocks :
    /\ coherStates[a] \in TransientStates => coherStates[a] \in MissStates
    /\ a \in Addrs(pendReq) <=> coherStates[a] \in TransientStates
    /\ ~Resident(a) => coherStates[a] = "INVALID"
    /\ a \in Addrs(readyPermReq) \cup Addrs(pendPermReq)
         <=> Resident(a) /\ coherStates[a] = "INVALID"

(* The lines of a set that were used after line i, and i itself.           *)
NotBefore(s, i) ==
  {j \in Ways : cacheSets[s][j] # NULL
                  /\ cacheSets[s][j].timeStamp >= cacheSets[s][i].timeStamp}

(* How often the operations since the processor was called back have used  *)
(* a set.                                                                  *)
Uses(s) ==
  fetchRate - fetches - IF \E k \in 1 .. Len(serving) : SetOf(serving[k]) = s THEN 1 ELSE 0

(* A block that is under way was asked for by one of these operations, so  *)
(* that it is not the line to replace.                                     *)
VictimsSettled ==
  \A e \in Entries : victimCache[e] # NULL => ~UnderWay(victimCache[e].addr)
LinesInUse ==
  fetches > 0 \/ serving # <<>> =>
    \A s \in SetNumbers : \A i \in Ways :
      cacheSets[s][i] # NULL /\ UnderWay(cacheSets[s][i].addr) =>
        /\ Uses(s) >= 1
        /\ ~useRRIP => Cardinality(NotBefore(s, i)) <= Uses(s)

ServingApart ==
  /\ \A k, l \in 1 .. Len(serving) : SetOf(serving[k]) = SetOf(serving[l]) => k = l
  /\ serving # <<>> => fetches < fetchRate

(* No more operations are under way than lines can be kept for.            *)
Slow(rrip, rate) == rate = 1 \/ (~rrip /\ rate <= Lines)

KInv ==
  /\ phase # "aborted" /\ Slow(useRRIP, fetchRate)
  /\ RequestsAgree /\ StatesAgree /\ VictimsSettled /\ LinesInUse /\ ServingApart
----------------------------------------------------------------------------
(* The operators of the model.                                             *)
LEMMA Sizes ==
  /\ BlockSize \in Nat \ {0} /\ Sets \in Nat \ {0} /\ Lines \in Nat \ {0}
  /\ VictimEntries \in Nat \ {0} /\ Distant \in Nat \ {0} /\ MaxDelay \in Nat \ {0}
  /\ MaxOps \in Nat
  /\ Configurations \subseteq [useVictim : BOOLEAN, useRRIP : BOOLEAN, fetchRate : Nat \ {0}]
BY CacheAssumption

LEMMA BlocksAre ==
  /\ Blocks \subseteq Nat
  /\ \A x \in Accesses : /\ BlocksOf(x) \in Seq(Blocks) /\ Len(BlocksOf(x)) \in 1 .. 2
                         /\ Len(BlocksOf(x)) = 2 => BlocksOf(x)[2] = BlocksOf(x)[1] + 1
                         /\ x.isRead \in BOOLEAN
<1>1. \A x \in Accesses : x.memAddress \in Nat /\ x.memAddress \div BlockSize \in Nat
  BY AccessesAssumption, Sizes, Division
<1>2. Blocks \subseteq Nat
  BY <1>1 DEF Blocks
<1>3. ASSUME NEW x \in Accesses
      PROVE  /\ BlocksOf(x) \in Seq(Blocks) /\ Len(BlocksOf(x)) \in 1 .. 2
             /\ Len(BlocksOf(x)) = 2 => BlocksOf(x)[2] = BlocksOf(x)[1] + 1
  <2> DEFINE first == x.memAddress \div BlockSize
  <2>1. first \in Blocks /\ first + 1 \in Blocks
    BY DEF Blocks
  <2>2. BlocksOf(x) = <<first>> \/ BlocksOf(x) = <<first, first + 1>>
    BY DEF BlocksOf
  <2> HIDE DEF first
  <2>3. CASE BlocksOf(x) = <<first>>
    BY <2>1, <2>3
  <2>4. CASE BlocksOf(x) = <<first, first + 1>>
    BY <2>1, <2>4
  <2> QED
    BY <2>2, <2>3, <2>4
<1> QED
  BY <1>2, <1>3, AccessesAssumption

LEMMA InSetNumbers ==
  ASSUME NEW a \in Nat
  PROVE  SetOf(a) \in SetNumbers
BY Sizes, Division DEF SetOf, SetNumbers

(* A block is known by its tag and its set.                                *)
LEMMA TagAndSet ==
  ASSUME NEW a \in Nat, NEW b \in Nat, TagOf(a) = TagOf(b), SetOf(a) = SetOf(b)
  PROVE  a = b
<1>1. a = TagOf(a) * Sets + SetOf(a) /\ b = TagOf(b) * Sets + SetOf(b)
  BY Sizes, Division DEF TagOf, SetOf
<1> QED
  BY <1>1

(* Two blocks beside each other are in different sets.                     *)
LEMMA NeighboursApart ==
  ASSUME NEW a \in Nat, Sets > 1
  PROVE  SetOf(a) # SetOf(a + 1)
<1>1. CASE SetOf(a) + 1 \in 0 .. Sets - 1
  <2>1. a = TagOf(a) * Sets + SetOf(a) /\ TagOf(a) \in Nat /\ SetOf(a) \in Nat
    BY Sizes, Division DEF TagOf, SetOf
  <2>2. TagOf(a) * Sets \in Nat
    BY <2>1, Sizes
  <2>3. a + 1 = TagOf(a) * Sets + (SetOf(a) + 1)
    BY <2>1, <2>2
  <2>4. (TagOf(a) * Sets + (SetOf(a) + 1)) % Sets = SetOf(a) + 1
    BY <1>1, <2>1, Sizes, Quotient
  <2>5. SetOf(a + 1) = SetOf(a) + 1
    BY <2>3, <2>4 DEF SetOf
  <2> QED
    BY <2>1, <2>5
<1>2. CASE SetOf(a) + 1 \notin 0 .. Sets - 1
  <2>1. a = TagOf(a) * Sets + SetOf(a) /\ TagOf(a) \in Nat /\ SetOf(a) = Sets - 1
    <3>1. /\ a = TagOf(a) * Sets + SetOf(a) /\ TagOf(a) \in Nat
          /\ SetOf(a) \in 0 .. Sets - 1
      BY Sizes, Division DEF TagOf, SetOf
    <3> QED
      BY <1>2, <3>1, Sizes
  <2>2. TagOf(a) * Sets \in Nat /\ (TagOf(a) + 1) * Sets = TagOf(a) * Sets + Sets
    BY <2>1, Sizes
  <2>3. a + 1 = (TagOf(a) + 1) * Sets + 0
    BY <2>1, <2>2, Sizes
  <2>4. 0 \in 0 .. Sets - 1 /\ TagOf(a) + 1 \in Nat
    BY <2>1, Sizes
  <2>5. ((TagOf(a) + 1) * Sets + 0) % Sets = 0
    BY <2>4, Sizes, Quotient
  <2>6. SetOf(a + 1) = 0
    BY <2>3, <2>5 DEF SetOf
  <2> QED
    BY <2>1, <2>6, Sizes
<1> QED
  BY <1>1, <1>2

LEMMA FirstOf ==
  ASSUME NEW n \in Nat, NEW S \in SUBSET (1 .. n), S # {}
  PROVE  First(S) \in S
<1>1. S \subseteq Nat
  <2>1. ASSUME NEW i \in S PROVE i \in Nat
    <3>1. i \in 1 .. n
      OBVIOUS
    <3> QED
      BY <3>1
  <2> QED
    BY <2>1
<1>2. \E i \in S : \A j \in S : i <= j
  BY <1>1, SmallestOf
<1> QED
  BY <1>2 DEF First

(* The line with the least, and the one with the largest stamp.            *)
LEMMA OldestOf ==
  ASSUME NEW n \in Nat \ {0}, NEW array, \A i \in 1 .. n : array[i].timeStamp \in Nat
  PROVE  /\ Oldest(array, 1 .. n) \in 1 .. n
         /\ \A j \in 1 .. n :
              array[Oldest(array, 1 .. n)].timeStamp <= array[j].timeStamp
<1> DEFINE S == {i \in 1 .. n : \A j \in 1 .. n : array[i].timeStamp <= array[j].timeStamp}
           stamps == {array[i].timeStamp : i \in 1 .. n}
<1>1. stamps \subseteq Nat /\ stamps # {}
  <2>1. 1 \in 1 .. n
    OBVIOUS
  <2> QED
    BY <2>1
<1>2. PICK t \in stamps : \A u \in stamps : t <= u
  BY <1>1, SmallestOf
<1>3. S # {} /\ S \in SUBSET (1 .. n)
  BY <1>2
<1>4. First(S) \in S
  BY <1>3, FirstOf
<1> QED
  BY <1>4 DEF Oldest

LEMMA FarthestOf ==
  ASSUME NEW n \in Nat \ {0}, NEW array, NEW b \in Nat,
         \A i \in 1 .. n : array[i].timeStamp \in Nat /\ array[i].timeStamp <= b
  PROVE  /\ Farthest(array, 1 .. n) \in 1 .. n
         /\ \A j \in 1 .. n :
              array[j].timeStamp <= array[Farthest(array, 1 .. n)].timeStamp
<1> DEFINE S == {i \in 1 .. n : \A j \in 1 .. n : array[i].timeStamp >= array[j].timeStamp}
           stamps == {array[i].timeStamp : i \in 1 .. n}
<1>1. stamps \subseteq Nat /\ stamps # {}
  <2>1. 1 \in 1 .. n
    OBVIOUS
  <2> QED
    BY <2>1
<1>2. PICK t \in stamps : \A u \in stamps : u <= t
  <2>1. \A u \in stamps : u <= b
    OBVIOUS
  <2> HIDE DEF stamps
  <2> QED
    BY <1>1, <2>1, GreatestOf
<1>3. S # {} /\ S \in SUBSET (1 .. n)
  <2>1. PICK i \in 1 .. n : t = array[i].timeStamp
    BY <1>2
  <2>2. i \in S
    BY <1>2, <2>1
  <2> QED
    BY <2>2
<1>4. First(S) \in S
  BY <1>3, FirstOf
<1>5. Farthest(array, 1 .. n) = First(S)
  BY DEF Farthest
<1>6. First(S) \in 1 .. n /\ \A j \in 1 .. n : array[First(S)].timeStamp >= array[j].timeStamp
  BY <1>4
<1> HIDE DEF S
<1> QED
  BY <1>5, <1>6
----------------------------------------------------------------------------
LEMMA CacheStepType ==
  ASSUME NEW load \in BOOLEAN, NEW st \in CoherenceStates
  PROVE  /\ CacheStep(load, st).next \in CoherenceStates
         /\ CacheStep(load, st).perm \in BOOLEAN
<1> DEFINE Typed(step) == step.next \in CoherenceStates /\ step.perm \in BOOLEAN
<1>1. ASSUME NEW s \in CoherenceStates
      PROVE  /\ Typed(Perm(s)) /\ Typed(Wait(s))
             /\ Typed(Miss("BUSRD", s)) /\ Typed(Miss("BUSWR", s))
  BY DEF Perm, Wait, Miss
<1> HIDE DEF Typed
<1>2. /\ "INVALID" \in CoherenceStates /\ "INVALID_MODIFIED" \in CoherenceStates
      /\ "SHARED_MODIFIED" \in CoherenceStates /\ "INVALID_SHARED" \in CoherenceStates
      /\ "INVALID_SHARED_EXCLUSIVE" \in CoherenceStates
      /\ "EXCLUSIVE" \in CoherenceStates /\ "MODIFIED" \in CoherenceStates
  BY DEF CoherenceStates
<1>3. Typed(CacheMI(load, st))
  BY <1>1, <1>2 DEF CacheMI
<1>4. \A readMiss \in CoherenceStates : Typed(CacheShared(load, st, readMiss))
  BY <1>1, <1>2 DEF CacheShared
<1>5. Typed(CacheMSI(load, st)) /\ Typed(CacheMESI(load, st))
  BY <1>1, <1>2, <1>4 DEF CacheMSI, CacheMESI
<1>6. Typed(CacheMOESI(load, st)) /\ Typed(CacheMESIF(load, st))
  BY <1>1, <1>2, <1>5 DEF CacheMOESI, CacheMESIF
<1>7. Typed(CacheStep(load, st))
  BY <1>3, <1>5, <1>6, SchemeAssumption DEF Schemes, CacheStep
<1> QED
  BY <1>7 DEF Typed

LEMMA SnoopStepType ==
  ASSUME NEW st \in CoherenceStates
  PROVE  SnoopStep("DATA", st).next \in CoherenceStates
BY SchemeAssumption DEF Schemes, CoherenceStates, SnoopStep, SnoopMI, SnoopMSI, SnoopMESI,
     SnoopMOESI, SnoopMESIF, SnoopOwner, SnoopWritePending, Ack, AckRecv, AckInval, AckFor,
     Unsupported, Snooped

(* A block without permission is asked for on the bus and waits; the block *)
(* that comes from the bus is taken by a cache that waits for it.          *)
LEMMA MissWaits ==
  ASSUME NEW load \in BOOLEAN
  PROVE  LET step == CacheStep(load, "INVALID")
             answer == SnoopStep("DATA", step.next)
         IN  /\ step.perm = FALSE /\ step.send # "NO_REQ"
             /\ step.next \in TransientStates
             /\ answer.send = "NO_REQ" /\ answer.ca = "DATA_RECV"
             /\ answer.next \notin TransientStates \cup {"INVALID"}
<1> USE DEF Perm, Wait, Miss, TransientStates, SnoopWritePending, AckRecv, AckFor, Snooped
<1>1. CASE Scheme = "MI"
  BY <1>1 DEF CacheStep, CacheMI, SnoopStep, SnoopMI
<1>2. CASE Scheme = "MSI"
  BY <1>2 DEF CacheStep, CacheMSI, CacheShared, SnoopStep, SnoopMSI
<1>3. CASE Scheme \in {"MESI", "MOESI", "MESIF"}
  <2>1. CacheStep(load, "INVALID") =
          Miss(IF load THEN "BUSRD" ELSE "BUSWR",
               IF load THEN "INVALID_SHARED_EXCLUSIVE" ELSE "INVALID_MODIFIED")
    BY <1>3 DEF CacheStep, CacheMESI, CacheMOESI, CacheMESIF, CacheShared
  <2>2. ASSUME NEW st \in {"INVALID_SHARED_EXCLUSIVE", "INVALID_MODIFIED"}
        PROVE  SnoopStep("DATA", st) = SnoopMESI("DATA", st)
    BY <1>3 DEF SnoopStep, SnoopMOESI, SnoopMESIF
  <2>3. /\ SnoopMESI("DATA", "INVALID_SHARED_EXCLUSIVE") = AckRecv("DATA", "EXCLUSIVE")
        /\ SnoopMESI("DATA", "INVALID_MODIFIED") = AckRecv("DATA", "MODIFIED")
    BY DEF SnoopMESI
  <2> QED
    BY <2>1, <2>2, <2>3
<1> QED
  BY <1>1, <1>2, <1>3, SchemeAssumption DEF Schemes

LEMMA MissEnds ==
  ASSUME NEW st \in MissStates
  PROVE  /\ st \in TransientStates
         /\ SnoopStep("DATA", st).send = "NO_REQ" /\ SnoopStep("DATA", st).ca = "DATA_RECV"
         /\ SnoopStep("DATA", st).next \notin TransientStates \cup {"INVALID"}
BY MissWaits DEF MissStates
----------------------------------------------------------------------------
(* The lists of requests.                                                  *)
LEMMA PushIs ==
  ASSUME NEW T, NEW list \in Seq(T), NEW pr \in T
  PROVE  /\ Push(pr, list) \in Seq(T) /\ Len(Push(pr, list)) = Len(list) + 1
         /\ Addrs(Push(pr, list)) = Addrs(list) \cup {pr.addr}
         /\ Once(list) /\ pr.addr \notin Addrs(list) => Once(Push(pr, list))
<1> DEFINE new == <<pr>> \o list
<1>1. /\ new \in Seq(T) /\ Len(new) = Len(list) + 1 /\ Len(list) \in Nat
      /\ new[1] = pr /\ \A i \in 1 .. Len(list) : new[i + 1] = list[i]
  OBVIOUS
<1> HIDE DEF new
<1>2. \A i \in 1 .. Len(new) : i = 1 \/ (i - 1 \in 1 .. Len(list) /\ new[i] = list[i - 1])
  <2> TAKE i \in 1 .. Len(new)
  <2>1. CASE i # 1
    <3>1. i - 1 \in 1 .. Len(list) /\ (i - 1) + 1 = i
      BY <1>1, <2>1
    <3> QED
      BY <1>1, <3>1
  <2> QED
    BY <2>1
<1>3. Addrs(new) = Addrs(list) \cup {pr.addr}
  <2>1. ASSUME NEW i \in 1 .. Len(new) PROVE new[i].addr \in Addrs(list) \cup {pr.addr}
    BY <1>1, <1>2 DEF Addrs
  <2>2. pr.addr \in Addrs(new)
    <3>1. 1 \in 1 .. Len(new)
      BY <1>1
    <3> QED
      BY <1>1, <3>1 DEF Addrs
  <2>3. ASSUME NEW i \in 1 .. Len(list) PROVE list[i].addr \in Addrs(new)
    <3>1. i + 1 \in 1 .. Len(new) /\ new[i + 1] = list[i]
      BY <1>1
    <3> QED
      BY <3>1 DEF Addrs
  <2> QED
    <3>1. Addrs(new) \subseteq Addrs(list) \cup {pr.addr}
      BY <2>1 DEF Addrs
    <3>2. Addrs(list) \subseteq Addrs(new)
      BY <2>3 DEF Addrs
    <3> QED
      BY <2>2, <3>1, <3>2
<1>4. ASSUME Once(list), pr.addr \notin Addrs(list) PROVE Once(new)
  <2> SUFFICES ASSUME NEW i \in 1 .. Len(new), NEW j \in 1 .. Len(new),
                      new[i].addr = new[j].addr
               PROVE  i = j
    BY DEF Once
  <2>1. i \in Int /\ j \in Int
    OBVIOUS
  <2>2. CASE i = 1 /\ j = 1
    BY <2>2
  <2>3. CASE i # 1 /\ j # 1
    <3>1. i - 1 = j - 1
      BY <1>2, <1>4, <2>3, SMTT(20) DEF Once
    <3> QED
      BY <2>1, <3>1
  <2>4. CASE (i = 1 /\ j # 1) \/ (i # 1 /\ j = 1)
    BY <1>1, <1>2, <1>4, <2>4, ZenonT(30) DEF Addrs
  <2> QED
    BY <2>2, <2>3, <2>4
<1> QED
  BY <1>1, <1>3, <1>4 DEF Push, new

LEMMA WithoutIs ==
  ASSUME NEW T, NEW list \in Seq(T), NEW n \in 1 .. Len(list)
  PROVE  /\ Without(list, n) \in Seq(T) /\ Len(Without(list, n)) = Len(list) - 1
         /\ Once(list) => /\ Once(Without(list, n))
                          /\ Addrs(Without(list, n)) = Addrs(list) \ {list[n].addr}
<1> DEFINE a == SubSeq(list, 1, n - 1)
           b == SubSeq(list, n + 1, Len(list))
           new == a \o b
           from(i) == IF i < n THEN i ELSE i + 1
<1>1. Len(list) \in Nat /\ n \in Nat
  OBVIOUS
<1>2. /\ a \in Seq(T) /\ Len(a) = n - 1
      /\ \A i \in 1 .. n - 1 : a[i] = list[i]
  BY <1>1, SubSeqProperties
<1>3. /\ b \in Seq(T) /\ Len(b) = Len(list) - n
      /\ \A i \in 1 .. Len(list) - n : b[i] = list[n + i]
  BY <1>1, SubSeqProperties
<1> HIDE DEF a, b
<1>4. /\ new \in Seq(T) /\ Len(new) = Len(list) - 1
      /\ \A i \in 1 .. Len(new) : from(i) \in 1 .. Len(list) /\ new[i] = list[from(i)]
  <2>1. new \in Seq(T) /\ Len(new) = Len(list) - 1
    <3>1. new \in Seq(T) /\ Len(new) = Len(a) + Len(b)
      BY <1>2, <1>3, ConcatProperties
    <3> QED
      BY <1>1, <1>2, <1>3, <3>1
  <2>2. \A i \in 1 .. Len(new) : i < n => new[i] = list[i]
    BY <1>1, <1>2, <1>3, <2>1
  <2>3. ASSUME NEW i \in 1 .. Len(new), ~(i < n) PROVE new[i] = list[i + 1]
    <3>1. i - (n - 1) \in 1 .. Len(list) - n /\ n + (i - (n - 1)) = i + 1
      BY <1>1, <2>1, <2>3
    <3>2. new[i] = b[i - (n - 1)]
      BY <1>1, <1>2, <1>3, <2>1, <2>3
    <3> QED
      BY <1>3, <3>1, <3>2
  <2>4. \A i \in 1 .. Len(new) : from(i) \in 1 .. Len(list)
    BY <1>1, <2>1
  <2> QED
    BY <2>1, <2>2, <2>3, <2>4
<1> HIDE DEF new
<1>5. \A k \in 1 .. Len(list) : k # n => \E i \in 1 .. Len(new) : from(i) = k
  <2> TAKE k \in 1 .. Len(list)
  <2>1. CASE k < n
    <3>1. k \in 1 .. Len(new) /\ from(k) = k
      BY <1>1, <1>4, <2>1
    <3> QED
      BY <3>1
  <2>2. CASE k > n
    <3>1. k - 1 \in 1 .. Len(new) /\ from(k - 1) = k
      BY <1>1, <1>4, <2>2
    <3> QED
      BY <3>1
  <2> QED
    BY <1>1, <2>1, <2>2
<1>6. \A i, j \in 1 .. Len(new) : /\ from(i) = from(j) => i = j
                                  /\ from(i) # n
  BY <1>1
<1> HIDE DEF from
<1>7. ASSUME Once(list) PROVE Once(new) /\ Addrs(new) = Addrs(list) \ {list[n].addr}
  <2>1. Once(new)
    BY <1>4, <1>6, <1>7, SMTT(20) DEF Once
  <2>2. Addrs(new) \subseteq Addrs(list) \ {list[n].addr}
    <3> SUFFICES ASSUME NEW i \in 1 .. Len(new)
                 PROVE  new[i].addr \in Addrs(list) \ {list[n].addr}
      BY DEF Addrs
    <3> QED
      BY <1>4, <1>6, <1>7, ZenonT(30) DEF Once, Addrs
  <2>3. Addrs(list) \ {list[n].addr} \subseteq Addrs(new)
    <3> SUFFICES ASSUME NEW k \in 1 .. Len(list), list[k].addr # list[n].addr
                 PROVE  list[k].addr \in Addrs(new)
      BY DEF Addrs
    <3>1. PICK i \in 1 .. Len(new) : from(i) = k
      BY <1>5
    <3> QED
      BY <1>4, <3>1 DEF Addrs
  <2> QED
    BY <2>1, <2>2, <2>3
<1>8. Without(list, n) = new
  BY DEF Without, new, a, b
<1> QED
  BY <1>4, <1>7, <1>8

LEMMA TailIs ==
  ASSUME NEW T, NEW list \in Seq(T), list # <<>>
  PROVE  /\ Tail(list) \in Seq(T) /\ Len(Tail(list)) = Len(list) - 1
         /\ Head(list) \in T /\ Head(list).addr \in Addrs(list)
         /\ Once(list) => /\ Once(Tail(list))
                          /\ Addrs(Tail(list)) = Addrs(list) \ {Head(list).addr}
<1> DEFINE new == Tail(list)
<1>1. /\ new \in Seq(T) /\ Len(new) = Len(list) - 1 /\ Len(list) \in Nat \ {0}
      /\ Head(list) = list[1] /\ list[1] \in T
      /\ \A i \in 1 .. Len(new) : new[i] = list[i + 1]
  OBVIOUS
<1> HIDE DEF new
<1>2. \A i \in 1 .. Len(new) : i + 1 \in 1 .. Len(list) /\ i + 1 # 1
  BY <1>1
<1>3. 1 \in 1 .. Len(list)
  BY <1>1
<1>4. ASSUME Once(list) PROVE Once(new) /\ Addrs(new) = Addrs(list) \ {list[1].addr}
  <2>1. Once(new)
    <3> SUFFICES ASSUME NEW i \in 1 .. Len(new), NEW j \in 1 .. Len(new),
                        new[i].addr = new[j].addr
                 PROVE  i = j
      BY DEF Once
    <3>1. i + 1 = j + 1
      BY <1>1, <1>2, <1>4 DEF Once
    <3> QED
      BY <3>1
  <2>2. Addrs(new) \subseteq Addrs(list) \ {list[1].addr}
    BY <1>1, <1>2, <1>3, <1>4, SMTT(20) DEF Once, Addrs
  <2>3. ASSUME NEW k \in 1 .. Len(list), k # 1 PROVE list[k].addr \in Addrs(new)
    <3>1. k - 1 \in 1 .. Len(new) /\ (k - 1) + 1 = k
      BY <1>1, <2>3
    <3>2. new[k - 1] = list[k]
      BY <1>1, <3>1
    <3> QED
      BY <3>1, <3>2 DEF Addrs
  <2> QED
    BY <2>1, <2>2, <2>3 DEF Addrs
<1> QED
  BY <1>1, <1>3, <1>4 DEF new, Addrs
----------------------------------------------------------------------------
(* What a request does to the set of its block.                            *)
Record(line) == line \in [addr : Blocks, timeStamp : Nat]

LEMMA LineIs ==
  ASSUME NEW line \in CacheLines
  PROVE  /\ line # NULL <=> Record(line)
         /\ line # NULL => line.addr \in Blocks /\ line.timeStamp \in Nat
BY NullAssumption DEF CacheLines, Record

TypeControl ==
  /\ phase \in Phases
  /\ useVictim \in BOOLEAN /\ useRRIP \in BOOLEAN /\ fetchRate \in Nat \ {0}
  /\ isRead \in BOOLEAN
  /\ pendingMem \in BOOLEAN /\ fetches \in 0 .. fetchRate /\ opsLeft \in 0 .. MaxOps
TypeArrays ==
  /\ cacheSets \in [SetNumbers -> [Ways -> CacheLines]]
  /\ victimCache \in [Entries -> CacheLines]
  /\ accessCounter \in Nat /\ victimCounter \in Nat
TypeLists ==
  /\ readyReq \in Seq(PendingRequests) /\ pendReq \in Seq(PendingRequests)
  /\ readyPermReq \in Seq(PendingRequests) /\ pendPermReq \in Seq(PendingRequests)
  /\ serving \in Seq(Blocks) /\ Len(serving) <= 2
TypeBelow ==
  /\ coherStates \in [Blocks -> CoherenceStates]
  /\ busQueue \in Seq(Blocks) /\ countDown \in 0 .. MaxDelay

LEMMA TypeParts ==
  /\ TypeOK <=> TypeControl /\ TypeArrays /\ TypeLists /\ TypeBelow
  /\ TypeOK' <=> TypeControl' /\ TypeArrays' /\ TypeLists' /\ TypeBelow'
BY DEF TypeOK, TypeControl, TypeArrays, TypeLists, TypeBelow, SetNumbers, Ways, Entries

Serving == phase = "request" /\ serving # <<>>

LEMMA ServedIs ==
  ASSUME IInv, Serving
  PROVE  /\ block \in Blocks /\ block \in Nat /\ SetOf(block) \in SetNumbers
         /\ Set = cacheSets[SetOf(block)] /\ Set \in [Ways -> CacheLines]
         /\ Pr \in PendingRequests /\ Pr.addr = block
         /\ Tail(serving) \in Seq(Blocks) /\ Len(Tail(serving)) = Len(serving) - 1
         /\ Len(serving) \in Nat \ {0}
<1>1. serving \in Seq(Blocks) /\ isRead \in BOOLEAN
  BY DEF IInv, TypeOK
<1>2. block \in Blocks /\ Tail(serving) \in Seq(Blocks) /\ Len(serving) \in Nat \ {0}
      /\ Len(Tail(serving)) = Len(serving) - 1
  BY <1>1 DEF block, Serving
<1>3. block \in Nat
  BY <1>2, BlocksAre
<1>4. SetOf(block) \in SetNumbers
  BY <1>3, InSetNumbers
<1>5. Set \in [Ways -> CacheLines]
  BY <1>4, TypeParts DEF IInv, TypeArrays, Set
<1> HIDE DEF block
<1> QED
  BY <1>1, <1>2, <1>3, <1>4, <1>5 DEF Set, Pr, PendingRequests

LEMMA SetIs ==
  ASSUME IInv, Serving, NEW i \in Ways, Set[i] # NULL
  PROVE  /\ Record(Set[i]) /\ Set[i].addr \in Blocks /\ Set[i].addr \in Nat
         /\ SetOf(Set[i].addr) = SetOf(block)
         /\ Set[i].timeStamp \in Nat
         /\ useRRIP => Set[i].timeStamp <= Distant
         /\ ~useRRIP => Set[i].timeStamp < accessCounter
         /\ i \in HitLines <=> Set[i].addr = block
<1>1. /\ block \in Nat /\ SetOf(block) \in SetNumbers
      /\ Set = cacheSets[SetOf(block)] /\ Set \in [Ways -> CacheLines]
  BY ServedIs
<1> HIDE DEF block
<1>2. Record(Set[i]) /\ Set[i].addr \in Blocks /\ Set[i].timeStamp \in Nat
  BY <1>1, LineIs
<1>3. Set[i].addr \in Nat
  BY <1>2, BlocksAre
<1>4. SetOf(Set[i].addr) = SetOf(block)
  BY <1>1 DEF IInv, Layout, InItsSet
<1>5. /\ useRRIP => Set[i].timeStamp <= Distant
      /\ ~useRRIP => Set[i].timeStamp < accessCounter
  BY <1>1 DEF IInv, StampsInOrder, Ways, SetNumbers
<1>6. i \in HitLines <=> TagOf(Set[i].addr) = TagOf(block)
  BY DEF HitLines, Ways
<1>7. i \in HitLines <=> Set[i].addr = block
  BY <1>1, <1>3, <1>4, <1>6, TagAndSet
<1> QED
  BY <1>2, <1>3, <1>4, <1>5, <1>7

(* Line w holds the block now and was used last; the others keep their     *)
(* blocks, and under LRU their stamps.                                     *)
Touched(w) ==
  /\ w \in Ways
  /\ cacheSets' \in [SetNumbers -> [Ways -> CacheLines]]
  /\ \A s \in SetNumbers : s # SetOf(block) => cacheSets'[s] = cacheSets[s]
  /\ LET new == cacheSets'[SetOf(block)]
     IN  /\ new[w] # NULL /\ new[w].addr = block
         /\ IF useRRIP THEN new[w].timeStamp <= Distant
                       ELSE new[w].timeStamp = accessCounter
         /\ \A i \in Ways \ {w} :
              /\ new[i] = NULL <=> Set[i] = NULL
              /\ Set[i] # NULL => /\ new[i].addr = Set[i].addr
                                  /\ IF useRRIP THEN new[i].timeStamp <= Distant
                                     ELSE new[i].timeStamp = Set[i].timeStamp

LEMMA StampIs ==
  ASSUME IInv, NEW onHit \in BOOLEAN
  PROVE  /\ Stamp(onHit) \in Nat
         /\ IF useRRIP THEN Stamp(onHit) <= Distant ELSE Stamp(onHit) = accessCounter
BY Sizes DEF IInv, TypeOK, Stamp

LEMMA HitTouches ==
  ASSUME IInv, Hit
  PROVE  /\ Touched(First(HitLines))
         /\ Set[First(HitLines)] # NULL /\ Set[First(HitLines)].addr = block
<1> DEFINE w == First(HitLines)
<1>1. Serving /\ HitLines # {}
  BY DEF Hit, Served, Serving, NoHit
<1>2. /\ SetOf(block) \in SetNumbers
      /\ Set = cacheSets[SetOf(block)] /\ Set \in [Ways -> CacheLines]
  BY <1>1, ServedIs
<1>3. w \in Ways /\ w \in HitLines /\ Set[w] # NULL
  <2>1. HitLines \in SUBSET (1 .. Lines)
    BY DEF HitLines
  <2>2. w \in HitLines
    BY <1>1, <2>1, Sizes, FirstOf
  <2> QED
    BY <2>2 DEF HitLines, Ways
<1>4. Record(Set[w]) /\ Set[w].addr = block
  BY <1>1, <1>3, SetIs
<1>5. cacheSets' = [cacheSets EXCEPT ![SetOf(block)][w].timeStamp = Stamp(TRUE)]
  BY DEF Hit
<1>6. cacheSets \in [SetNumbers -> [Ways -> CacheLines]]
  BY TypeParts DEF IInv, TypeArrays
<1> HIDE DEF w, block
<1> DEFINE new == [addr |-> block, timeStamp |-> Stamp(TRUE)]
<1>7. Record(new) /\ new \in CacheLines /\ new # NULL
  <2>1. Record(new)
    BY <1>4, StampIs DEF Record
  <2> QED
    BY <2>1, LineIs DEF Record, CacheLines
<1>8. [Set[w] EXCEPT !.timeStamp = Stamp(TRUE)] = new
  <2>1. Set[w] \in [addr : Blocks, timeStamp : Nat]
    BY <1>4 DEF Record
  <2>2. \A t : [Set[w] EXCEPT !.timeStamp = t] = [addr |-> Set[w].addr, timeStamp |-> t]
    BY <2>1
  <2> QED
    BY <1>4, <2>2
<1>9. cacheSets' = [cacheSets EXCEPT ![SetOf(block)] = [Set EXCEPT ![w] = new]]
  BY <1>2, <1>5, <1>8
<1>10. cacheSets'[SetOf(block)] = [Set EXCEPT ![w] = new]
  BY <1>2, <1>6, <1>9
<1>11. cacheSets' \in [SetNumbers -> [Ways -> CacheLines]]
  <2>1. [Set EXCEPT ![w] = new] \in [Ways -> CacheLines]
    BY <1>2, <1>7
  <2> QED
    BY <1>6, <1>9, <2>1
<1>12. \A i \in Ways \ {w} : cacheSets'[SetOf(block)][i] = Set[i]
  BY <1>2, <1>10
<1>13. cacheSets'[SetOf(block)][w] = new
  BY <1>2, <1>3, <1>10
<1>14. \A i \in Ways : Set[i] # NULL /\ useRRIP => Set[i].timeStamp <= Distant
  BY <1>1, SetIs
<1>15. \A s \in SetNumbers : s # SetOf(block) => cacheSets'[s] = cacheSets[s]
  BY <1>6, <1>9
<1>16. new.addr = block /\ new.timeStamp = Stamp(TRUE)
  OBVIOUS
<1> HIDE DEF new
<1>17. Touched(w)
  BY <1>3, <1>7, <1>11, <1>12, <1>13, <1>14, <1>15, <1>16, StampIs DEF Touched
<1> QED
  BY <1>3, <1>4, <1>17 DEF w

(* The same for a block that comes into line w of its set, whose other     *)
(* lines may have aged.                                                    *)
LEMMA FillTouches ==
  ASSUME IInv, Serving, NEW w \in Ways, NEW set \in [Ways -> CacheLines], Fill(set, w),
         \A i \in Ways \ {w} :
           /\ set[i] = NULL <=> Set[i] = NULL
           /\ Set[i] # NULL => /\ set[i].addr = Set[i].addr
                               /\ IF useRRIP THEN set[i].timeStamp <= Distant
                                  ELSE set[i].timeStamp = Set[i].timeStamp
  PROVE  Touched(w)
<1>1. /\ SetOf(block) \in SetNumbers /\ block \in Blocks
      /\ Set = cacheSets[SetOf(block)] /\ Set \in [Ways -> CacheLines]
  BY ServedIs
<1>2. cacheSets \in [SetNumbers -> [Ways -> CacheLines]]
  BY TypeParts DEF IInv, TypeArrays
<1> HIDE DEF block
<1> DEFINE new == [addr |-> block, timeStamp |-> Stamp(FALSE)]
<1>3. Record(new) /\ new \in CacheLines /\ new # NULL
  <2>1. Record(new)
    BY <1>1, StampIs DEF Record
  <2> QED
    BY <2>1, LineIs DEF Record, CacheLines
<1>4. cacheSets' = [cacheSets EXCEPT ![SetOf(block)] = [set EXCEPT ![w] = new]]
  BY DEF Fill
<1>5. new.addr = block /\ new.timeStamp = Stamp(FALSE)
  OBVIOUS
<1> HIDE DEF new
<1>6. cacheSets'[SetOf(block)] = [set EXCEPT ![w] = new]
  BY <1>1, <1>2, <1>4
<1>7. cacheSets' \in [SetNumbers -> [Ways -> CacheLines]]
  <2>1. [set EXCEPT ![w] = new] \in [Ways -> CacheLines]
    BY <1>3
  <2> QED
    BY <1>2, <1>4, <2>1
<1>8. \A i \in Ways \ {w} : cacheSets'[SetOf(block)][i] = set[i]
  BY <1>6
<1>9. cacheSets'[SetOf(block)][w] = new
  BY <1>6
<1>10. \A s \in SetNumbers : s # SetOf(block) => cacheSets'[s] = cacheSets[s]
  BY <1>2, <1>4
<1> QED
  BY <1>3, <1>5, <1>7, <1>8, <1>9, <1>10, StampIs, ZenonT(30) DEF Touched

LEMMA VictimIs ==
  ASSUME IInv, Serving, FreeLines = {}
  PROVE  /\ VictimIndex \in Ways
         /\ \A i \in Ways : Set[i] # NULL
         /\ IF useRRIP
            THEN \A i \in Ways : Set[i].timeStamp <= Set[VictimIndex].timeStamp
            ELSE \A i \in Ways : Set[VictimIndex].timeStamp <= Set[i].timeStamp
<1>1. \A i \in Ways : Set[i] # NULL
  BY DEF FreeLines, Ways
<1>2. \A i \in 1 .. Lines : /\ Set[i].timeStamp \in Nat
                            /\ useRRIP => Set[i].timeStamp <= Distant
  BY <1>1, SetIs DEF Ways
<1>3. CASE useRRIP
  <2>1. /\ Farthest(Set, 1 .. Lines) \in 1 .. Lines
        /\ \A i \in 1 .. Lines :
             Set[i].timeStamp <= Set[Farthest(Set, 1 .. Lines)].timeStamp
    BY <1>2, <1>3, Sizes, FarthestOf
  <2> QED
    BY <1>1, <1>3, <2>1 DEF VictimIndex, Ways
<1>4. CASE ~useRRIP
  <2>1. /\ Oldest(Set, 1 .. Lines) \in 1 .. Lines
        /\ \A i \in 1 .. Lines :
             Set[Oldest(Set, 1 .. Lines)].timeStamp <= Set[i].timeStamp
    BY <1>2, Sizes, OldestOf
  <2> QED
    BY <1>1, <1>4, <2>1 DEF VictimIndex, Ways
<1> QED
  BY <1>3, <1>4

LEMMA ReplaceTouches ==
  ASSUME IInv, Replacing
  PROVE  Serving /\ Touched(VictimIndex) /\ \A i \in Ways : Set[i] # NULL
<1>1. Serving /\ FreeLines = {} /\ Fill(Aged, VictimIndex)
  BY DEF Replacing, Served, Serving
<1>2. /\ VictimIndex \in Ways /\ \A i \in Ways : Set[i] # NULL
      /\ useRRIP => \A i \in Ways : Set[i].timeStamp <= Set[VictimIndex].timeStamp
  BY <1>1, VictimIs
<1>3. \A i \in Ways : /\ Record(Set[i]) /\ Set[i].timeStamp \in Nat
                      /\ useRRIP => Set[i].timeStamp <= Distant
  BY <1>1, <1>2, SetIs
<1>4. CASE useRRIP
  <2> DEFINE diff == Distant - Set[VictimIndex].timeStamp
  <2>1. diff \in Nat
    BY <1>2, <1>3, <1>4, Sizes
  <2>2. Aged = [i \in Ways |-> [Set[i] EXCEPT !.timeStamp = @ + diff]]
    BY <1>4 DEF Aged, Ways
  <2>3. ASSUME NEW i \in Ways
        PROVE  /\ Record(Aged[i]) /\ Aged[i].addr = Set[i].addr
               /\ Aged[i].timeStamp <= Distant
    <3>1. Set[i].timeStamp \in Nat /\ Set[VictimIndex].timeStamp \in Nat
          /\ Set[i].timeStamp <= Set[VictimIndex].timeStamp
      BY <1>2, <1>3, <1>4
    <3>2. Set[i].timeStamp + diff \in Nat /\ Set[i].timeStamp + diff <= Distant
      BY <2>1, <3>1, Sizes
    <3> HIDE DEF diff
    <3>3. Aged[i] = [Set[i] EXCEPT !.timeStamp = @ + diff]
      BY <2>2
    <3>4. Set[i] \in [addr : Blocks, timeStamp : Nat]
      BY <1>3 DEF Record
    <3>5. Aged[i] = [addr |-> Set[i].addr, timeStamp |-> Set[i].timeStamp + diff]
      BY <3>3, <3>4
    <3> QED
      BY <3>2, <3>4, <3>5 DEF Record
  <2>4. Aged \in [Ways -> CacheLines] /\ \A i \in Ways : Aged[i] # NULL
    BY <2>2, <2>3, LineIs DEF Record, CacheLines
  <2> QED
    BY <1>1, <1>2, <1>4, <2>3, <2>4, FillTouches
<1>5. CASE ~useRRIP
  <2>1. Aged = Set /\ Set \in [Ways -> CacheLines]
    BY <1>1, <1>5, ServedIs DEF Aged
  <2> QED
    BY <1>1, <1>2, <1>5, <2>1, FillTouches
<1> QED
  BY <1>4, <1>5
----------------------------------------------------------------------------
LEMMA LinesKept ==
  ASSUME IInv, Serving, NEW w, Touched(w), UNCHANGED useRRIP,
         accessCounter' = accessCounter + 1,
         \A i \in Ways \ {w} : Set[i] # NULL => Set[i].addr # block
  PROVE  InItsSet' /\ LinesApart' /\ StampsInOrder'
<1> DEFINE home == SetOf(block)
           new == cacheSets'[home]
<1>1. /\ home \in SetNumbers /\ Set = cacheSets[home] /\ Set \in [Ways -> CacheLines]
      /\ accessCounter \in Nat
  BY ServedIs DEF IInv, TypeOK
<1>2. /\ w \in Ways /\ new[w] # NULL /\ new[w].addr = block
      /\ IF useRRIP THEN new[w].timeStamp <= Distant ELSE new[w].timeStamp = accessCounter
      /\ \A s \in SetNumbers : s # home => cacheSets'[s] = cacheSets[s]
  BY DEF Touched
<1>3. \A i \in Ways \ {w} : new[i] # NULL =>
        /\ Set[i] # NULL /\ new[i].addr = Set[i].addr /\ new[i].addr # block
        /\ SetOf(new[i].addr) = home
        /\ IF useRRIP THEN new[i].timeStamp <= Distant
           ELSE new[i].timeStamp = Set[i].timeStamp /\ Set[i].timeStamp < accessCounter
                /\ Set[i].timeStamp \in Nat
  <2> TAKE i \in Ways \ {w}
  <2> HAVE new[i] # NULL
  <2>1. Set[i] # NULL
    BY DEF Touched
  <2>2. /\ SetOf(Set[i].addr) = home /\ Set[i].timeStamp \in Nat
        /\ ~useRRIP => Set[i].timeStamp < accessCounter
    BY <2>1, SetIs
  <2>3. /\ new[i].addr = Set[i].addr
        /\ IF useRRIP THEN new[i].timeStamp <= Distant
           ELSE new[i].timeStamp = Set[i].timeStamp
    BY <2>1 DEF Touched
  <2> HIDE DEF home, new
  <2> QED
    BY <2>1, <2>2, <2>3
<1>4. \A i, j \in Ways \ {w} : new[i] # NULL /\ new[j] # NULL =>
        /\ new[i].addr = new[j].addr => i = j
        /\ ~useRRIP /\ new[i].timeStamp = new[j].timeStamp => i = j
  <2>1. LinesApart /\ StampsInOrder
    BY DEF IInv, Layout
  <2>2. \A i, j \in Ways \ {w} : Set[i] # NULL /\ Set[j] # NULL =>
          /\ Set[i].addr = Set[j].addr => i = j
          /\ ~useRRIP /\ Set[i].timeStamp = Set[j].timeStamp => i = j
    BY <1>1, <2>1 DEF LinesApart, StampsInOrder, SetNumbers, Ways
  <2> HIDE DEF new
  <2> QED
    BY <1>3, <2>2
<1> HIDE DEF new
<1>5. InItsSet'
  <2> SUFFICES ASSUME NEW s \in SetNumbers, NEW i \in Ways, cacheSets'[s][i] # NULL
               PROVE  SetOf(cacheSets'[s][i].addr) = s
    BY DEF InItsSet
  <2>1. CASE s = home
    BY <1>2, <1>3, <2>1 DEF new
  <2>2. CASE s # home
    <3>1. cacheSets'[s] = cacheSets[s]
      BY <1>2, <2>2
    <3> QED
      BY <3>1 DEF IInv, Layout, InItsSet
  <2> QED
    BY <2>1, <2>2
<1>6. LinesApart'
  <2> SUFFICES ASSUME NEW s \in SetNumbers, NEW i \in Ways, NEW j \in Ways,
                      cacheSets'[s][i] # NULL, cacheSets'[s][j] # NULL,
                      cacheSets'[s][i].addr = cacheSets'[s][j].addr
               PROVE  i = j
    BY DEF LinesApart
  <2>1. CASE s = home
    BY <1>2, <1>3, <1>4, <2>1 DEF new
  <2>2. CASE s # home
    <3>1. cacheSets'[s] = cacheSets[s]
      BY <1>2, <2>2
    <3> QED
      BY <3>1 DEF IInv, Layout, LinesApart
  <2> QED
    BY <2>1, <2>2
<1>7. StampsInOrder'
  <2> SUFFICES ASSUME NEW s \in SetNumbers, NEW i \in Ways, NEW j \in Ways,
                      cacheSets'[s][i] # NULL, cacheSets'[s][j] # NULL
               PROVE  IF useRRIP THEN cacheSets'[s][i].timeStamp <= Distant
                      ELSE /\ cacheSets'[s][i].timeStamp < accessCounter + 1
                           /\ i # j =>
                                cacheSets'[s][i].timeStamp # cacheSets'[s][j].timeStamp
    BY DEF StampsInOrder, SetNumbers, Ways
  <2>1. CASE s = home
    <3>1. cacheSets'[s] = new
      BY <2>1 DEF new
    <3>2. CASE useRRIP
      BY <1>2, <1>3, <3>1, <3>2
    <3>3. CASE ~useRRIP
      <4>1. new[i].timeStamp \in Nat /\ new[i].timeStamp < accessCounter + 1
        BY <1>1, <1>2, <1>3, <3>1, <3>3
      <4>2. i # j => new[i].timeStamp # new[j].timeStamp
        BY <1>1, <1>2, <1>3, <1>4, <3>1, <3>3
      <4> QED
        BY <3>1, <3>3, <4>1, <4>2
    <3> QED
      BY <3>2, <3>3
  <2>2. CASE s # home
    <3>1. cacheSets'[s] = cacheSets[s]
      BY <1>2, <2>2
    <3>2. cacheSets[s][i] \in CacheLines
      BY TypeParts DEF IInv, TypeArrays
    <3>3. cacheSets[s][i].timeStamp \in Nat
      BY <3>1, <3>2, LineIs
    <3>4. IF useRRIP THEN cacheSets[s][i].timeStamp <= Distant
          ELSE /\ cacheSets[s][i].timeStamp < accessCounter
               /\ i # j => cacheSets[s][i].timeStamp # cacheSets[s][j].timeStamp
      BY <3>1 DEF IInv, StampsInOrder, SetNumbers, Ways
    <3> QED
      BY <1>1, <3>1, <3>3, <3>4
  <2> QED
    BY <2>1, <2>2
<1> QED
  BY <1>5, <1>6, <1>7

(* The line that leaves its set is in entry f of the victim cache; what    *)
(* else is there was there before, and the block is not.                   *)
Placed(f) ==
  /\ f \in Entries
  /\ victimCache' \in [Entries -> CacheLines]
  /\ victimCache'[f] # NULL /\ victimCache'[f].addr = Set[VictimIndex].addr
  /\ \A e \in Entries \ {f} : victimCache'[e] # NULL =>
       victimCache'[e] = victimCache[e] /\ victimCache[e].addr # block

LEMMA PlaceIs ==
  ASSUME IInv, Serving, FreeLines = {},
         NEW f \in Entries, NEW cleared \in [Entries -> CacheLines],
         PlaceInVictimCache(cleared, f),
         \A e \in Entries \ {f} : cleared[e] # NULL =>
           cleared[e] = victimCache[e] /\ victimCache[e].addr # block
  PROVE  /\ Placed(f) /\ victimCounter' \in Nat
         /\ \A e \in Entries \ {f} : victimCache'[e] = cleared[e]
<1>1. VictimIndex \in Ways /\ Set[VictimIndex] # NULL
  BY VictimIs
<1>2. Set[VictimIndex].addr \in Blocks /\ victimCounter \in Nat
  BY <1>1, SetIs DEF IInv, TypeOK
<1> DEFINE a == Set[VictimIndex].addr
           new == [addr |-> a, timeStamp |-> victimCounter]
<1>3. victimCache' = [cleared EXCEPT ![f] = new] /\ victimCounter' = victimCounter + 1
  BY DEF PlaceInVictimCache
<1> HIDE DEF a
<1>4. Record(new) /\ new \in CacheLines /\ new # NULL /\ new.addr = a
  <2>1. Record(new)
    BY <1>2 DEF Record, a
  <2> QED
    BY <2>1, LineIs DEF Record, CacheLines
<1> HIDE DEF new
<1>5. victimCache'[f] = new /\ \A e \in Entries \ {f} : victimCache'[e] = cleared[e]
  BY <1>3
<1>6. victimCache' \in [Entries -> CacheLines]
  BY <1>3, <1>4
<1> QED
  BY <1>2, <1>3, <1>4, <1>5, <1>6 DEF Placed, a

LEMMA HitLayout ==
  ASSUME IInv, Serving, NEW w, Touched(w), Set[w] # NULL, Set[w].addr = block,
         UNCHANGED <<useVictim, victimCache, useRRIP>>, accessCounter' = accessCounter + 1
  PROVE  Layout' /\ StampsInOrder'
<1>1. /\ SetOf(block) \in SetNumbers /\ Set = cacheSets[SetOf(block)] /\ w \in Ways
  BY ServedIs DEF Touched
<1>2. \A i \in Ways \ {w} : Set[i] # NULL => Set[i].addr # block
  BY <1>1 DEF IInv, Layout, LinesApart
<1>3. InItsSet' /\ LinesApart' /\ StampsInOrder'
  BY <1>2, LinesKept
<1>4. \A s \in SetNumbers : \A i \in Ways :
        /\ cacheSets'[s][i] = NULL <=> cacheSets[s][i] = NULL
        /\ cacheSets[s][i] # NULL => cacheSets'[s][i].addr = cacheSets[s][i].addr
  BY <1>1 DEF Touched
<1>5. VictimsApart' /\ VictimsOut'
  <2>1. \A e \in Entries : victimCache[e] # NULL => SetOf(victimCache[e].addr) \in SetNumbers
    <3> TAKE e \in Entries
    <3> HAVE victimCache[e] # NULL
    <3>1. victimCache[e] \in CacheLines
      BY TypeParts DEF IInv, TypeArrays
    <3>2. victimCache[e].addr \in Nat
      BY <3>1, LineIs, BlocksAre
    <3> QED
      BY <3>2, InSetNumbers
  <2> QED
    BY <1>4, <2>1 DEF IInv, Layout, VictimsApart, VictimsOut
<1> QED
  BY <1>3, <1>5 DEF Layout

LEMMA VictimSet ==
  ASSUME IInv, NEW e \in Entries, victimCache[e] # NULL
  PROVE  /\ victimCache[e].addr \in Blocks /\ victimCache[e].addr \in Nat
         /\ SetOf(victimCache[e].addr) \in SetNumbers
         /\ victimCache[e].timeStamp \in Nat
<1>1. victimCache[e] \in CacheLines
  BY TypeParts DEF IInv, TypeArrays
<1>2. victimCache[e].addr \in Nat
  BY <1>1, LineIs, BlocksAre
<1> QED
  BY <1>1, <1>2, LineIs, InSetNumbers

LEMMA FillLayout ==
  ASSUME IInv, Serving, NEW w, Touched(w), Set[w] = NULL, NoHit, VictimHits = {},
         UNCHANGED <<useVictim, victimCache, useRRIP>>, accessCounter' = accessCounter + 1
  PROVE  Layout' /\ StampsInOrder'
<1>1. /\ SetOf(block) \in SetNumbers /\ Set = cacheSets[SetOf(block)] /\ w \in Ways
  BY ServedIs DEF Touched
<1>2. \A i \in Ways \ {w} : Set[i] # NULL => Set[i].addr # block
  BY SetIs DEF NoHit
<1>3. InItsSet' /\ LinesApart' /\ StampsInOrder'
  BY <1>2, LinesKept
<1>4. VictimsApart'
  BY DEF IInv, Layout, VictimsApart
<1>5. VictimsOut'
  <2>1. ASSUME NEW e \in Entries, victimCache[e] # NULL,
               NEW i \in Ways
        PROVE  LET s == SetOf(victimCache[e].addr)
               IN  cacheSets'[s][i] # NULL /\ cacheSets'[s][i].addr # victimCache[e].addr
    <3> DEFINE s == SetOf(victimCache[e].addr)
    <3>1. s \in SetNumbers
      BY <2>1, VictimSet
    <3>2. \A k \in Ways : cacheSets[s][k] # NULL
      BY <2>1 DEF IInv, Layout, VictimsOut
    <3>3. s # SetOf(block)
      BY <1>1, <3>2
    <3>4. cacheSets'[s] = cacheSets[s]
      BY <3>1, <3>3 DEF Touched
    <3> QED
      BY <2>1, <3>4 DEF IInv, Layout, VictimsOut
  <2> QED
    BY <2>1 DEF IInv, Layout, VictimsOut
<1> QED
  BY <1>3, <1>4, <1>5 DEF Layout

LEMMA ReplaceLayout ==
  ASSUME IInv, Replacing, UNCHANGED <<useVictim, useRRIP>>,
         \/ useVictim /\ \E f \in Entries : Placed(f)
         \/ ~useVictim /\ UNCHANGED victimCache
  PROVE  Layout' /\ StampsInOrder'
<1> DEFINE home == SetOf(block)
           w == VictimIndex
<1>1. Serving /\ Touched(w) /\ (\A i \in Ways : Set[i] # NULL) /\ NoHit
      /\ accessCounter' = accessCounter + 1
  BY ReplaceTouches DEF Replacing, Served
<1>2. /\ home \in SetNumbers /\ Set = cacheSets[home] /\ w \in Ways
  BY <1>1, ServedIs DEF Touched
<1>3. \A i \in Ways : /\ Set[i].addr # block /\ SetOf(Set[i].addr) = home
  BY <1>1, SetIs DEF NoHit
<1>4. InItsSet' /\ LinesApart' /\ StampsInOrder'
  BY <1>1, <1>3, LinesKept
<1>5. CASE ~useVictim /\ UNCHANGED victimCache
  BY <1>4, <1>5 DEF IInv, Layout, VictimsApart, VictimsOut
<1>6. CASE useVictim /\ \E f \in Entries : Placed(f)
  <2>1. PICK f \in Entries : Placed(f)
    BY <1>6
  <2>2. victimCache'[f] # NULL /\ victimCache'[f].addr = Set[w].addr
    BY <2>1 DEF Placed
  <2>3. \A e \in Entries \ {f} : victimCache'[e] # NULL =>
          /\ victimCache'[e] = victimCache[e] /\ victimCache[e].addr # block
          /\ victimCache[e].addr # Set[w].addr
    <3> TAKE e \in Entries \ {f}
    <3> HAVE victimCache'[e] # NULL
    <3>1. victimCache'[e] = victimCache[e] /\ victimCache[e].addr # block
      BY <2>1 DEF Placed
    <3>2. victimCache[e].addr # Set[w].addr
      BY <1>2, <1>3, <3>1 DEF IInv, Layout, VictimsOut
    <3> QED
      BY <3>1, <3>2
  <2>4. VictimsApart'
    BY <2>2, <2>3 DEF IInv, Layout, VictimsApart
  <2>5. ASSUME NEW e \in Entries, victimCache'[e] # NULL, NEW i \in Ways
        PROVE  LET s == SetOf(victimCache'[e].addr)
               IN  cacheSets'[s][i] # NULL /\ cacheSets'[s][i].addr # victimCache'[e].addr
    <3>1. \A k \in Ways : /\ cacheSets'[home][k] # NULL
                          /\ cacheSets'[home][k].addr =
                               IF k = w THEN block ELSE Set[k].addr
      BY <1>1 DEF Touched
    <3>2. CASE e = f
      <4>1. SetOf(victimCache'[e].addr) = home
        BY <1>2, <1>3, <2>2, <3>2
      <4>2. \A k \in Ways : k # w => Set[k].addr # Set[w].addr
        BY <1>1, <1>2 DEF IInv, Layout, LinesApart
      <4> QED
        BY <1>2, <1>3, <2>2, <3>1, <3>2, <4>1, <4>2
    <3>3. CASE e # f
      <4> DEFINE s == SetOf(victimCache[e].addr)
      <4>1. victimCache'[e] = victimCache[e] /\ victimCache[e] # NULL
            /\ victimCache[e].addr # block
        BY <2>3, <2>5, <3>3
      <4>2. \A k \in Ways : cacheSets[s][k] # NULL /\ cacheSets[s][k].addr # victimCache[e].addr
        BY <4>1 DEF IInv, Layout, VictimsOut
      <4>3. s \in SetNumbers
        BY <4>1, VictimSet
      <4>4. CASE s = home
        BY <1>2, <3>1, <4>1, <4>2, <4>4
      <4>5. CASE s # home
        BY <1>1, <4>1, <4>2, <4>3, <4>5 DEF Touched
      <4> QED
        BY <4>4, <4>5
    <3> QED
      BY <3>2, <3>3
  <2>6. VictimsOut'
    BY <1>6, <2>5 DEF VictimsOut
  <2> QED
    BY <1>4, <2>4, <2>6 DEF Layout
<1> QED
  BY <1>5, <1>6
----------------------------------------------------------------------------
(* The calls of the coherence component.                                   *)
ListTypes ==
  /\ readyReq \in Seq(PendingRequests) /\ pendReq \in Seq(PendingRequests)
  /\ readyPermReq \in Seq(PendingRequests) /\ pendPermReq \in Seq(PendingRequests)

LEMMA SendKeeps ==
  ASSUME IInv, NEW a \in Blocks, NEW queue \in {busQueue, Append(busQueue, a)}, Send(queue)
  PROVE  /\ busQueue' \in Seq(Blocks) /\ countDown' \in 0 .. MaxDelay
         /\ BusCountsRequests'
<1>1. /\ busQueue \in Seq(Blocks) /\ countDown \in 0 .. MaxDelay /\ countDown \in Int
      /\ (countDown > 0 <=> busQueue # <<>>)
  BY Sizes DEF IInv, TypeOK, BusCountsRequests
<1>2. busQueue' = queue
  BY DEF Send
<1>3. CASE queue = busQueue
  BY <1>1, <1>2, <1>3 DEF Send, BusCountsRequests
<1>4. CASE queue = Append(busQueue, a)
  <2>1. queue \in Seq(Blocks) /\ queue # <<>>
    BY <1>1, <1>4
  <2>2. CASE busQueue = <<>>
    <3>1. countDown' \in 1 .. MaxDelay
      BY <2>1, <2>2 DEF Send
    <3>2. countDown' \in 0 .. MaxDelay /\ countDown' > 0
      BY <3>1, Sizes
    <3> QED
      BY <1>2, <2>1, <3>2 DEF BusCountsRequests
  <2>3. CASE busQueue # <<>>
    <3>1. countDown' = countDown
      BY <2>3 DEF Send
    <3> QED
      BY <1>1, <1>2, <2>1, <2>3, <3>1 DEF BusCountsRequests
  <2> QED
    BY <2>2, <2>3
<1> QED
  BY <1>3, <1>4

LEMMA PermReqKeeps ==
  ASSUME IInv, NEW pr \in PendingRequests, PermReq(pr)
  PROVE  /\ TypeBelow' /\ BusCountsRequests'
         /\ readyReq' \in Seq(PendingRequests) /\ pendReq' \in Seq(PendingRequests)
         /\ \/ readyReq' = Push(pr, readyReq) /\ pendReq' = pendReq
            \/ pendReq' = Push(pr, pendReq) /\ readyReq' = readyReq
<1> DEFINE step == CacheStep(pr.isRead, coherStates[pr.addr])
<1>1. /\ pr.addr \in Blocks /\ pr.isRead \in BOOLEAN
      /\ coherStates \in [Blocks -> CoherenceStates]
      /\ readyReq \in Seq(PendingRequests) /\ pendReq \in Seq(PendingRequests)
  BY DEF PendingRequests, IInv, TypeOK
<1>2. step.next \in CoherenceStates
  BY <1>1, CacheStepType
<1>3. /\ coherStates' = [coherStates EXCEPT ![pr.addr] = step.next]
      /\ Send(IF step.send = "NO_REQ" THEN busQueue ELSE Append(busQueue, pr.addr))
      /\ IF step.perm
         THEN readyReq' = Push(pr, readyReq) /\ UNCHANGED pendReq
         ELSE pendReq' = Push(pr, pendReq) /\ UNCHANGED readyReq
  BY DEF PermReq
<1> HIDE DEF step
<1>4. coherStates' \in [Blocks -> CoherenceStates]
  BY <1>1, <1>2, <1>3
<1>5. /\ busQueue' \in Seq(Blocks) /\ countDown' \in 0 .. MaxDelay
      /\ BusCountsRequests'
  <2> DEFINE queue == IF step.send = "NO_REQ" THEN busQueue ELSE Append(busQueue, pr.addr)
  <2>1. queue \in {busQueue, Append(busQueue, pr.addr)} /\ Send(queue)
    BY <1>3
  <2> HIDE DEF queue
  <2> QED
    BY <1>1, <2>1, SendKeeps
<1>6. /\ Push(pr, readyReq) \in Seq(PendingRequests)
      /\ Push(pr, pendReq) \in Seq(PendingRequests)
  BY <1>1, PushIs
<1>7. TypeBelow'
  BY <1>4, <1>5 DEF TypeBelow
<1> QED
  BY <1>1, <1>3, <1>5, <1>6, <1>7

LEMMA InvlReqKeeps ==
  ASSUME IInv, NEW pr \in PendingRequests, NEW a \in Blocks, InvlReq(pr, a)
  PROVE  /\ TypeBelow' /\ BusCountsRequests'
         /\ readyPermReq' \in Seq(PendingRequests) /\ pendPermReq' \in Seq(PendingRequests)
         /\ UNCHANGED <<readyReq, pendReq>>
         /\ \E q \in PendingRequests :
              /\ q.addr = pr.addr /\ q.evictedAddr = a
              /\ \/ /\ Flush(a)
                    /\ readyPermReq' = readyPermReq /\ pendPermReq' = Push(q, pendPermReq)
                 \/ /\ ~Flush(a)
                    /\ readyPermReq' = Push(q, readyPermReq) /\ pendPermReq' = pendPermReq
<1> DEFINE q == [pr EXCEPT !.evictedAddr = a]
<1>1. q \in PendingRequests /\ q.addr = pr.addr /\ q.evictedAddr = a
  BY DEF PendingRequests
<1>2. /\ coherStates' = [coherStates EXCEPT ![a] = "INVALID"]
      /\ IF Flush(a)
         THEN pendPermReq' = Push(q, pendPermReq) /\ UNCHANGED readyPermReq
         ELSE readyPermReq' = Push(q, readyPermReq) /\ UNCHANGED pendPermReq
      /\ UNCHANGED <<busQueue, countDown, readyReq, pendReq>>
  BY DEF InvlReq
<1> HIDE DEF q
<1>3. TypeBelow' /\ BusCountsRequests'
  BY <1>2 DEF TypeBelow, IInv, TypeOK, BusCountsRequests, CoherenceStates
<1>4. readyPermReq \in Seq(PendingRequests) /\ pendPermReq \in Seq(PendingRequests)
  BY DEF IInv, TypeOK
<1>5. /\ Push(q, pendPermReq) \in Seq(PendingRequests)
      /\ Push(q, readyPermReq) \in Seq(PendingRequests)
  BY <1>1, <1>4, PushIs
<1> QED
  BY <1>1, <1>2, <1>3, <1>4, <1>5
----------------------------------------------------------------------------
(* The invariant, action by action.                                        *)
LEMMA RequestKeeps ==
  ASSUME IInv, Served, phase' = phase, Layout', StampsInOrder',
         cacheSets' \in [SetNumbers -> [Ways -> CacheLines]],
         victimCache' \in [Entries -> CacheLines], victimCounter' \in Nat,
         TypeBelow', BusCountsRequests', ListTypes'
  PROVE  IInv'
<1>1. Serving /\ accessCounter' = accessCounter + 1 /\ serving' = Tail(serving)
      /\ UNCHANGED <<isRead, useVictim, useRRIP, fetchRate, pendingMem, fetches, opsLeft>>
  BY DEF Served, Serving, options, core
<1>2. /\ Tail(serving) \in Seq(Blocks) /\ Len(Tail(serving)) = Len(serving) - 1
      /\ Len(serving) \in Nat
  BY <1>1, ServedIs
<1>3. TypeControl /\ TypeArrays /\ TypeLists
  BY TypeParts DEF IInv
<1>4. TypeLists'
  BY <1>1, <1>2, <1>3 DEF TypeLists, ListTypes
<1>5. TypeControl' /\ TypeArrays'
  BY <1>1, <1>3 DEF TypeControl, TypeArrays
<1>6. CourseOK'
  BY <1>1 DEF IInv, CourseOK, Serving
<1> QED
  BY <1>4, <1>5, <1>6, TypeParts DEF IInv

LEMMA HitKeeps ==
  ASSUME IInv, Hit
  PROVE  IInv' /\ serving' = Tail(serving) /\ readyReq' = Push(Pr, readyReq)
         /\ UNCHANGED <<pendReq, readyPermReq, pendPermReq, pendingMem>>
<1>1. /\ Served /\ Serving /\ phase' = phase /\ readyReq' = Push(Pr, readyReq)
      /\ serving' = Tail(serving) /\ accessCounter' = accessCounter + 1
      /\ UNCHANGED <<victimCache, victimCounter, pendReq, readyPermReq, pendPermReq,
                     coherStates, busQueue, countDown, useVictim, useRRIP, pendingMem>>
  BY DEF Hit, Served, Serving, below, options, core
<1>2. /\ Touched(First(HitLines))
      /\ Set[First(HitLines)] # NULL /\ Set[First(HitLines)].addr = block
  BY HitTouches
<1>3. Layout' /\ StampsInOrder'
  BY <1>1, <1>2, HitLayout
<1>4. TypeArrays /\ TypeLists /\ TypeBelow
  BY TypeParts DEF IInv
<1>5. Pr \in PendingRequests
  BY <1>1, ServedIs
<1> HIDE DEF Pr
<1>6. ListTypes'
  BY <1>1, <1>4, <1>5, PushIs DEF ListTypes, TypeLists
<1>7. TypeBelow' /\ BusCountsRequests'
  BY <1>1, <1>4 DEF TypeBelow, IInv, BusCountsRequests
<1>8. victimCache' \in [Entries -> CacheLines] /\ victimCounter' \in Nat
  BY <1>1, <1>4 DEF TypeArrays
<1>9. cacheSets' \in [SetNumbers -> [Ways -> CacheLines]]
  BY <1>2 DEF Touched
<1>10. IInv'
  BY <1>1, <1>3, <1>6, <1>7, <1>8, <1>9, RequestKeeps
<1> QED
  BY <1>1, <1>10

LEMMA AbortKeeps ==
  ASSUME IInv, Abort
  PROVE  IInv'
<1>1. /\ phase' = "aborted"
      /\ UNCHANGED <<useVictim, useRRIP, fetchRate, cacheSets, victimCache, accessCounter,
                     victimCounter, readyReq, pendReq, readyPermReq, pendPermReq, serving,
                     isRead, coherStates, busQueue, countDown, pendingMem, fetches, opsLeft>>
  BY DEF Abort, options, arrays, lists, request, below, core
<1>2. TypeOK'
  BY <1>1 DEF IInv, TypeOK, Phases
<1>3. CourseOK' /\ BusCountsRequests'
  BY <1>1 DEF IInv, CourseOK, BusCountsRequests
<1>4. Layout' /\ StampsInOrder'
  BY <1>1 DEF IInv, Layout, InItsSet, LinesApart, VictimsApart, VictimsOut, StampsInOrder
<1> QED
  BY <1>2, <1>3, <1>4 DEF IInv

(* Every other request leaves the lists as a call of permReq or of invlReq *)
(* leaves them.                                                            *)
LEMMA FillFreeKeeps ==
  ASSUME IInv, FillFree, ~Abort
  PROVE  /\ IInv' /\ serving' = Tail(serving) /\ PermReq(Pr)
         /\ UNCHANGED <<readyPermReq, pendPermReq, pendingMem, victimCache>>
         /\ VictimHits = {} /\ Served /\ Touched(First(FreeLines))
         /\ Set[First(FreeLines)] = NULL
<1>1. /\ NoHit /\ FreeLines # {} /\ VictimHits = {} /\ Served /\ Serving
      /\ Fill(Set, First(FreeLines)) /\ PermReq(Pr) /\ phase' = phase
      /\ accessCounter' = accessCounter + 1 /\ serving' = Tail(serving)
      /\ UNCHANGED <<victimCache, victimCounter, readyPermReq, pendPermReq, useVictim,
                     useRRIP, pendingMem>>
  BY DEF FillFree, Served, Serving, options, core
<1>2. First(FreeLines) \in Ways /\ Set[First(FreeLines)] = NULL
  <2>1. FreeLines \in SUBSET (1 .. Lines)
    BY DEF FreeLines
  <2>2. First(FreeLines) \in FreeLines
    BY <1>1, <2>1, Sizes, FirstOf
  <2> QED
    BY <2>2 DEF FreeLines, Ways
<1>3. Set \in [Ways -> CacheLines]
  BY <1>1, ServedIs
<1>4. \A i \in Ways : Set[i] # NULL /\ useRRIP => Set[i].timeStamp <= Distant
  BY <1>1, SetIs
<1>5. Touched(First(FreeLines))
  BY <1>1, <1>2, <1>3, <1>4, FillTouches
<1>6. Layout' /\ StampsInOrder'
  BY <1>1, <1>2, <1>5, FillLayout
<1>7. TypeArrays /\ TypeLists /\ TypeBelow
  BY TypeParts DEF IInv
<1>8. Pr \in PendingRequests
  BY <1>1, ServedIs
<1> HIDE DEF Pr
<1>9. /\ TypeBelow' /\ BusCountsRequests'
      /\ readyReq' \in Seq(PendingRequests) /\ pendReq' \in Seq(PendingRequests)
  BY <1>1, <1>8, PermReqKeeps
<1>10. ListTypes'
  BY <1>1, <1>7, <1>9 DEF ListTypes, TypeLists
<1>11. victimCache' \in [Entries -> CacheLines] /\ victimCounter' \in Nat
  BY <1>1, <1>7 DEF TypeArrays
<1>12. cacheSets' \in [SetNumbers -> [Ways -> CacheLines]]
  BY <1>5 DEF Touched
<1>13. IInv'
  BY <1>1, <1>6, <1>9, <1>10, <1>11, <1>12, RequestKeeps
<1> QED
  BY <1>1, <1>2, <1>5, <1>13

LEMMA ReplacingKeeps ==
  ASSUME IInv, Replacing, victimCounter' \in Nat,
         \/ useVictim /\ \E f \in Entries : Placed(f)
         \/ ~useVictim /\ UNCHANGED victimCache,
         TypeBelow', BusCountsRequests', ListTypes'
  PROVE  IInv'
<1>1. /\ Served /\ phase' = phase /\ UNCHANGED <<useVictim, useRRIP>>
  BY DEF Replacing, Served, options
<1>2. Touched(VictimIndex)
  BY ReplaceTouches
<1>3. Layout' /\ StampsInOrder'
  BY <1>1, ReplaceLayout
<1>4. victimCache' \in [Entries -> CacheLines]
  BY TypeParts DEF IInv, TypeArrays, Placed
<1>5. cacheSets' \in [SetNumbers -> [Ways -> CacheLines]]
  BY <1>2 DEF Touched
<1> QED
  BY <1>1, <1>3, <1>4, <1>5, RequestKeeps

LEMMA SwapKeeps ==
  ASSUME IInv, Swap
  PROVE  /\ IInv' /\ \E f \in Entries : Placed(f)
         /\ \E e \in Entries : victimCache[e] # NULL /\ victimCache[e].addr = block
         /\ UNCHANGED <<pendReq, readyPermReq, pendPermReq, pendingMem, coherStates, busQueue>>
         /\ readyReq' = Push(Pr, readyReq) /\ serving' = Tail(serving)
         /\ \A e \in Entries : victimCache[e] # NULL /\ victimCache[e].addr # block =>
              victimCache'[e] = victimCache[e]
<1> DEFINE cleared == [victimCache EXCEPT ![First(VictimHits)] = NULL]
           f == First(FreeEntries(cleared))
           h == First(VictimHits)
<1>1. /\ Replacing /\ Serving /\ FreeLines = {} /\ VictimHits # {} /\ PlaceInVictimCache(cleared, f)
      /\ readyReq' = Push(Pr, readyReq) /\ serving' = Tail(serving)
      /\ UNCHANGED <<pendReq, readyPermReq, pendPermReq, coherStates, busQueue, countDown,
                     pendingMem>>
  BY DEF Swap, Replacing, Served, Serving, below, core
<1>2. h \in Entries /\ victimCache[h] # NULL /\ victimCache[h].addr = block /\ useVictim
  <2>1. VictimHits \in SUBSET (1 .. VictimEntries)
    BY DEF VictimHits
  <2>2. First(VictimHits) \in VictimHits
    BY <1>1, <2>1, Sizes, FirstOf
  <2> QED
    BY <2>2 DEF VictimHits, Entries
<1>3. TypeArrays /\ TypeLists /\ TypeBelow
  BY TypeParts DEF IInv
<1>4. cleared \in [Entries -> CacheLines] /\ cleared[h] = NULL
      /\ \A e \in Entries \ {h} : cleared[e] = victimCache[e]
  BY <1>2, <1>3 DEF TypeArrays, CacheLines
<1> HIDE DEF cleared, h
<1>5. f \in Entries /\ cleared[f] = NULL
  <2>1. FreeEntries(cleared) \in SUBSET (1 .. VictimEntries) /\ h \in FreeEntries(cleared)
    BY <1>2, <1>4 DEF FreeEntries, Entries
  <2>2. f \in FreeEntries(cleared)
    BY <2>1, Sizes, FirstOf
  <2> QED
    BY <2>2 DEF FreeEntries, Entries
<1> HIDE DEF f
<1>6. \A e \in Entries \ {f} : cleared[e] # NULL =>
        cleared[e] = victimCache[e] /\ victimCache[e].addr # block
  BY <1>2, <1>4 DEF IInv, Layout, VictimsApart
<1>7. /\ Placed(f) /\ victimCounter' \in Nat
      /\ \A e \in Entries \ {f} : victimCache'[e] = cleared[e]
  BY <1>1, <1>4, <1>5, <1>6, PlaceIs
<1>8. Pr \in PendingRequests
  BY <1>1, ServedIs
<1> HIDE DEF Pr
<1>9. ListTypes'
  BY <1>1, <1>3, <1>8, PushIs DEF ListTypes, TypeLists
<1>10. TypeBelow' /\ BusCountsRequests'
  BY <1>1, <1>3 DEF TypeBelow, IInv, BusCountsRequests
<1>11. IInv'
  BY <1>1, <1>2, <1>5, <1>7, <1>9, <1>10, ReplacingKeeps
<1>12. \A e \in Entries : victimCache[e] # NULL /\ victimCache[e].addr # block =>
              victimCache'[e] = victimCache[e]
  BY <1>2, <1>4, <1>5, <1>7
<1> QED
  BY <1>1, <1>2, <1>5, <1>7, <1>11, <1>12

LEMMA SpillKeeps ==
  ASSUME IInv, Spill
  PROVE  /\ IInv' /\ \E f \in Entries : Placed(f) /\ victimCache[f] = NULL
         /\ PermReq(Pr) /\ serving' = Tail(serving)
         /\ \A e \in Entries : victimCache[e] # NULL => victimCache'[e] = victimCache[e]
         /\ UNCHANGED <<readyPermReq, pendPermReq, pendingMem>>
<1> DEFINE f == First(FreeEntries(victimCache))
<1>1. /\ Replacing /\ Serving /\ FreeLines = {} /\ VictimHits = {} /\ useVictim
      /\ FreeEntries(victimCache) # {} /\ PlaceInVictimCache(victimCache, f)
      /\ PermReq(Pr) /\ serving' = Tail(serving)
      /\ UNCHANGED <<readyPermReq, pendPermReq, pendingMem>>
  BY DEF Spill, Replacing, Served, Serving, core
<1>2. TypeArrays /\ TypeLists /\ TypeBelow
  BY TypeParts DEF IInv
<1>3. f \in Entries /\ victimCache[f] = NULL
  <2>1. FreeEntries(victimCache) \in SUBSET (1 .. VictimEntries)
    BY DEF FreeEntries
  <2>2. f \in FreeEntries(victimCache)
    BY <1>1, <2>1, Sizes, FirstOf
  <2> QED
    BY <2>2 DEF FreeEntries, Entries
<1> HIDE DEF f
<1>4. \A e \in Entries \ {f} : victimCache[e] # NULL => victimCache[e].addr # block
  BY <1>1 DEF VictimHits, Entries
<1>5. /\ Placed(f) /\ victimCounter' \in Nat
      /\ \A e \in Entries \ {f} : victimCache'[e] = victimCache[e]
  BY <1>1, <1>2, <1>3, <1>4, PlaceIs DEF TypeArrays
<1>6. Pr \in PendingRequests
  BY <1>1, ServedIs
<1> HIDE DEF Pr
<1>7. /\ TypeBelow' /\ BusCountsRequests'
      /\ readyReq' \in Seq(PendingRequests) /\ pendReq' \in Seq(PendingRequests)
  BY <1>1, <1>6, PermReqKeeps
<1>8. ListTypes'
  BY <1>1, <1>2, <1>7 DEF ListTypes, TypeLists
<1>9. IInv'
  BY <1>1, <1>3, <1>5, <1>7, <1>8, ReplacingKeeps
<1> QED
  BY <1>1, <1>3, <1>5, <1>9

(* Two of the actions evict a block: the oldest of a victim cache that is  *)
(* full, or the line itself.                                               *)
LEMMA SpillEvictKeeps ==
  ASSUME IInv, SpillEvict
  PROVE  /\ IInv' /\ serving' = Tail(serving) /\ UNCHANGED pendingMem
         /\ \E e \in Entries :
              /\ Placed(e) /\ victimCache[e] # NULL /\ InvlReq(Pr, victimCache[e].addr)
              /\ \A i \in Entries \ {e} : victimCache'[i] = victimCache[i]
<1> DEFINE e == Oldest(victimCache, 1 .. VictimEntries)
<1>1. /\ Replacing /\ Serving /\ FreeLines = {} /\ VictimHits = {} /\ useVictim
      /\ FreeEntries(victimCache) = {} /\ PlaceInVictimCache(victimCache, e)
      /\ InvlReq(Pr, victimCache[e].addr) /\ serving' = Tail(serving)
      /\ UNCHANGED pendingMem
  BY DEF SpillEvict, Replacing, Served, Serving, core
<1>2. TypeArrays /\ TypeLists /\ TypeBelow
  BY TypeParts DEF IInv
<1>3. \A i \in Entries : victimCache[i] # NULL
  BY <1>1 DEF FreeEntries, Entries
<1>4. e \in Entries /\ victimCache[e].addr \in Blocks
  <2>1. \A i \in 1 .. VictimEntries : victimCache[i].timeStamp \in Nat
    BY <1>3, VictimSet DEF Entries
  <2>2. e \in Entries
    BY <2>1, Sizes, OldestOf DEF Entries
  <2> HIDE DEF e
  <2> QED
    BY <1>3, <2>2, VictimSet
<1> HIDE DEF e
<1>5. \A i \in Entries : victimCache[i].addr # block
  BY <1>1, <1>3 DEF VictimHits, Entries
<1>6. /\ Placed(e) /\ victimCounter' \in Nat
      /\ \A i \in Entries \ {e} : victimCache'[i] = victimCache[i]
  BY <1>1, <1>2, <1>4, <1>5, PlaceIs DEF TypeArrays
<1>7. Pr \in PendingRequests
  BY <1>1, ServedIs
<1> HIDE DEF Pr
<1>8. /\ TypeBelow' /\ BusCountsRequests' /\ UNCHANGED <<readyReq, pendReq>>
      /\ readyPermReq' \in Seq(PendingRequests) /\ pendPermReq' \in Seq(PendingRequests)
  BY <1>1, <1>4, <1>7, InvlReqKeeps
<1>9. ListTypes'
  BY <1>2, <1>8 DEF ListTypes, TypeLists
<1>10. IInv'
  BY <1>1, <1>4, <1>6, <1>8, <1>9, ReplacingKeeps
<1> QED
  BY <1>1, <1>3, <1>4, <1>6, <1>10

LEMMA EvictKeeps ==
  ASSUME IInv, Evict
  PROVE  /\ IInv' /\ serving' = Tail(serving) /\ UNCHANGED <<pendingMem, victimCache>>
         /\ InvlReq(Pr, Set[VictimIndex].addr) /\ Set[VictimIndex].addr \in Blocks
<1>1. /\ Replacing /\ Serving /\ FreeLines = {} /\ ~useVictim
      /\ InvlReq(Pr, Set[VictimIndex].addr) /\ serving' = Tail(serving)
      /\ UNCHANGED <<pendingMem, victimCache, victimCounter>>
  BY DEF Evict, Replacing, Served, Serving, core
<1>2. TypeArrays /\ TypeLists /\ TypeBelow
  BY TypeParts DEF IInv
<1>3. VictimIndex \in Ways /\ Set[VictimIndex] # NULL
  BY <1>1, VictimIs
<1>4. Set[VictimIndex].addr \in Blocks
  BY <1>1, <1>3, SetIs
<1>5. Pr \in PendingRequests
  BY <1>1, ServedIs
<1> HIDE DEF Pr
<1>6. /\ TypeBelow' /\ BusCountsRequests' /\ UNCHANGED <<readyReq, pendReq>>
      /\ readyPermReq' \in Seq(PendingRequests) /\ pendPermReq' \in Seq(PendingRequests)
  BY <1>1, <1>4, <1>5, InvlReqKeeps
<1>7. ListTypes'
  BY <1>2, <1>6 DEF ListTypes, TypeLists
<1>8. IInv'
  BY <1>1, <1>2, <1>6, <1>7, ReplacingKeeps DEF TypeArrays
<1> QED
  BY <1>1, <1>4, <1>8
----------------------------------------------------------------------------
(* The actions that are no requests.                                       *)
ArraysKept == UNCHANGED <<cacheSets, victimCache, accessCounter, victimCounter>>

LEMMA ArraysKeep ==
  ASSUME IInv, ArraysKept, UNCHANGED <<useVictim, useRRIP>>
  PROVE  Layout' /\ StampsInOrder' /\ TypeArrays'
<1>1. Layout' /\ StampsInOrder'
  BY DEF ArraysKept, IInv, Layout, InItsSet, LinesApart, VictimsApart, VictimsOut,
         StampsInOrder
<1>2. TypeArrays
  BY TypeParts DEF IInv
<1> QED
  BY <1>1, <1>2 DEF ArraysKept, TypeArrays

LEMMA FetchKeeps ==
  ASSUME IInv, FetchMemory
  PROVE  /\ IInv'
         /\ \E x \in Accesses : serving' = BlocksOf(x)
         /\ Len(serving') \in 1 .. 2 /\ pendingMem' = TRUE
         /\ fetches > 0 /\ fetches' = fetches - 1 /\ serving = <<>>
         /\ UNCHANGED <<arrays, lists, below>>
<1>1. /\ phase = "processor" /\ fetches > 0 /\ opsLeft > 0
      /\ pendingMem' = TRUE /\ fetches' = fetches - 1 /\ opsLeft' = opsLeft - 1
      /\ phase' = "request"
      /\ ArraysKept
      /\ UNCHANGED <<useVictim, useRRIP, fetchRate, readyReq, pendReq, readyPermReq,
                     pendPermReq, coherStates, busQueue, countDown>>
  BY DEF FetchMemory, ArraysKept, arrays, options, lists, below
<1>2. PICK x \in Accesses : serving' = BlocksOf(x) /\ isRead' = x.isRead
  BY DEF FetchMemory
<1>3. serving' \in Seq(Blocks) /\ Len(serving') \in 1 .. 2 /\ isRead' \in BOOLEAN
  BY <1>2, BlocksAre
<1>4. TypeControl /\ TypeLists /\ TypeBelow
  BY TypeParts DEF IInv
<1>5. TypeControl'
  BY <1>1, <1>3, <1>4, Sizes DEF TypeControl, Phases
<1>6. Len(serving') <= 2 /\ serving = <<>>
  <2>1. \A n \in 1 .. 2 : n <= 2
    OBVIOUS
  <2>2. Len(serving') <= 2
    BY <1>3, <2>1
  <2> QED
    BY <1>1, <2>2 DEF IInv, CourseOK
<1>7. TypeLists' /\ TypeBelow'
  BY <1>1, <1>3, <1>4, <1>6 DEF TypeLists, TypeBelow
<1>8. Layout' /\ StampsInOrder' /\ TypeArrays'
  BY <1>1, ArraysKeep
<1>9. CourseOK' /\ BusCountsRequests'
  BY <1>1 DEF IInv, CourseOK, BusCountsRequests
<1>10. IInv'
  BY <1>5, <1>7, <1>8, <1>9, TypeParts DEF IInv
<1> QED
  BY <1>1, <1>2, <1>3, <1>6, <1>10 DEF arrays, lists, below, ArraysKept

(* Steps that only move the phase on, or the countdown.                    *)
LEMMA PhaseKeeps ==
  ASSUME IInv, RequestDone \/ EndTick \/ AllAsked \/ BusCounts \/ Stopped
  PROVE  /\ IInv'
         /\ UNCHANGED <<arrays, lists, request, coherStates, busQueue, options, pendingMem>>
<1> DEFINE kept == /\ ArraysKept
                   /\ UNCHANGED <<useVictim, useRRIP, fetchRate, readyReq, pendReq,
                                  readyPermReq, pendPermReq, serving, isRead, coherStates,
                                  busQueue, pendingMem, opsLeft>>
<1>1. kept
  BY DEF RequestDone, EndTick, AllAsked, BusCounts, Stopped, vars, ArraysKept, arrays, options,
         lists, request, below, core
<1>2. TypeControl /\ TypeLists /\ TypeBelow /\ CourseOK /\ BusCountsRequests
      /\ fetches \in Nat /\ 0 \in 0 .. fetchRate
  BY TypeParts, Sizes DEF IInv, TypeControl
<1>3. /\ phase' \in Phases /\ CourseOK' /\ fetches' \in {0, fetches}
  <2>1. CASE RequestDone
    BY <1>1, <1>2, <2>1 DEF RequestDone, Phases, CourseOK, request, core
  <2>2. CASE EndTick
    BY <1>1, <1>2, <2>2 DEF EndTick, Phases, CourseOK
  <2>3. CASE AllAsked
    BY <1>1, <1>2, <2>3 DEF AllAsked, Phases, CourseOK, core
  <2>4. CASE BusCounts
    BY <1>1, <1>2, <2>4 DEF BusCounts, Phases, CourseOK, core
  <2>5. CASE Stopped
    BY <1>1, <1>2, <2>5 DEF Stopped, vars, TypeControl, CourseOK, core
  <2> QED
    BY <2>1, <2>2, <2>3, <2>4, <2>5
<1>4. countDown' \in 0 .. MaxDelay /\ BusCountsRequests'
  <2>1. CASE BusCounts
    <3>1. /\ countDown \in 0 .. MaxDelay /\ countDown # 1
          /\ countDown' = IF countDown > 0 THEN countDown - 1 ELSE 0
      BY <1>2, <2>1 DEF BusCounts, TypeBelow
    <3>2. /\ countDown' \in 0 .. MaxDelay
          /\ countDown' > 0 <=> countDown > 0
      BY <3>1, Sizes
    <3> QED
      BY <1>1, <1>2, <3>2 DEF BusCountsRequests
  <2>2. CASE ~BusCounts
    <3>1. UNCHANGED countDown
      BY <2>2 DEF RequestDone, EndTick, AllAsked, Stopped, vars, below
    <3> QED
      BY <1>1, <1>2, <3>1 DEF TypeBelow, BusCountsRequests
  <2> QED
    BY <2>1, <2>2
<1>5. TypeControl' /\ TypeLists' /\ TypeBelow'
  BY <1>1, <1>2, <1>3, <1>4 DEF TypeControl, TypeLists, TypeBelow
<1>6. Layout' /\ StampsInOrder' /\ TypeArrays'
  BY <1>1, ArraysKeep
<1>7. IInv'
  BY <1>3, <1>4, <1>5, <1>6, TypeParts DEF IInv
<1> QED
  BY <1>1, <1>7 DEF ArraysKept, arrays, lists, request, options

LEMMA CallbacksKeeps ==
  ASSUME IInv, Callbacks
  PROVE  /\ IInv' /\ serving = <<>> /\ readyPermReq = <<>>
         /\ UNCHANGED <<arrays, pendReq, readyPermReq, pendPermReq, request, coherStates,
                        busQueue, options>>
<1>1. /\ phase = "callbacks" /\ phase' = "processor"
      /\ readyReq' = <<>> /\ pendingMem' = (pendingMem /\ ~CalledBack)
      /\ fetches' = IF pendingMem' THEN 0 ELSE fetchRate
      /\ ArraysKept
      /\ UNCHANGED <<useVictim, useRRIP, fetchRate, pendReq, readyPermReq, pendPermReq,
                     serving, isRead, coherStates, busQueue, countDown, opsLeft>>
  BY DEF Callbacks, ArraysKept, arrays, options, request, below
<1>2. TypeControl /\ TypeLists /\ TypeBelow
  BY TypeParts DEF IInv
<1>3. serving = <<>> /\ readyPermReq = <<>>
  BY <1>1 DEF IInv, CourseOK
<1>4. TypeControl'
  BY <1>1, <1>2 DEF TypeControl, Phases
<1>5. TypeLists' /\ TypeBelow'
  BY <1>1, <1>2 DEF TypeLists, TypeBelow
<1>6. Layout' /\ StampsInOrder' /\ TypeArrays'
  BY <1>1, ArraysKeep
<1>7. CourseOK' /\ BusCountsRequests'
  BY <1>1, <1>3 DEF IInv, CourseOK, CalledBack, BusCountsRequests
<1>8. IInv'
  BY <1>4, <1>5, <1>6, <1>7, TypeParts DEF IInv
<1> QED
  BY <1>1, <1>3, <1>8 DEF ArraysKept, arrays, request, options

LEMMA AskKeeps ==
  ASSUME IInv, AskPermission
  PROVE  /\ IInv' /\ PermReq(Head(readyPermReq)) /\ Head(readyPermReq) \in PendingRequests
         /\ readyPermReq # <<>> /\ readyPermReq' = Tail(readyPermReq)
         /\ serving = <<>> /\ fetches = 0
         /\ UNCHANGED <<phase, arrays, request, options, core, pendPermReq>>
<1>1. /\ phase = "permissions" /\ readyPermReq # <<>> /\ PermReq(Head(readyPermReq))
      /\ readyPermReq' = Tail(readyPermReq) /\ ArraysKept
      /\ UNCHANGED <<phase, useVictim, useRRIP, fetchRate, serving, isRead, pendPermReq,
                     pendingMem, fetches, opsLeft>>
  BY DEF AskPermission, ArraysKept, arrays, options, request, core
<1>2. TypeControl /\ TypeLists
  BY TypeParts DEF IInv
<1>3. Head(readyPermReq) \in PendingRequests /\ Tail(readyPermReq) \in Seq(PendingRequests)
  BY <1>1, <1>2, TailIs DEF TypeLists
<1>4. /\ TypeBelow' /\ BusCountsRequests'
      /\ readyReq' \in Seq(PendingRequests) /\ pendReq' \in Seq(PendingRequests)
  BY <1>1, <1>3, PermReqKeeps
<1>5. TypeControl' /\ TypeLists'
  BY <1>1, <1>2, <1>3, <1>4 DEF TypeControl, TypeLists
<1>6. Layout' /\ StampsInOrder' /\ TypeArrays'
  BY <1>1, ArraysKeep
<1>7. CourseOK'
  BY <1>1 DEF IInv, CourseOK
<1>8. IInv'
  BY <1>4, <1>5, <1>6, <1>7, TypeParts DEF IInv
<1>9. serving = <<>> /\ fetches = 0
  BY <1>1 DEF IInv, CourseOK
<1> QED
  BY <1>1, <1>3, <1>8, <1>9 DEF ArraysKept, arrays, request, options, core

(* An answer of the bus moves one request from one list to another, or     *)
(* none.                                                                   *)
LEMMA CallbackMoves ==
  ASSUME IInv, NEW ca, NEW addr, CallbackAsserts(ca, addr), CoherCallback(ca, addr)
  PROVE  /\ ListTypes'
         /\ \/ /\ ca = "DATA_RECV"
               /\ \E i \in 1 .. Len(pendReq) :
                    /\ pendReq[i].addr = addr
                    /\ pendReq' = Without(pendReq, i)
               /\ UNCHANGED <<readyPermReq, pendPermReq>>
            \/ /\ ca = "NO_ACTION"
               /\ pendPermReq # <<>>
               /\ UNCHANGED <<pendReq, readyReq>>
            \/ UNCHANGED <<readyReq, pendReq, readyPermReq, pendPermReq>>
         /\ Len(pendReq') + Len(readyPermReq') + Len(pendPermReq')
              <= Len(pendReq) + Len(readyPermReq) + Len(pendPermReq)
         /\ ca = "DATA_RECV" =>
              Len(pendReq') + Len(readyPermReq') + Len(pendPermReq')
                < Len(pendReq) + Len(readyPermReq) + Len(pendPermReq)
<1>1. TypeLists
  BY TypeParts DEF IInv
<1>2. CASE ca = "DATA_RECV"
  <2> DEFINE i == First(ForData(addr))
  <2>1. /\ ForData(addr) # {} /\ readyReq' = Push(pendReq[i], readyReq)
        /\ pendReq' = Without(pendReq, i)
        /\ UNCHANGED <<readyPermReq, pendPermReq>>
    BY <1>2 DEF CallbackAsserts, CoherCallback
  <2>2. i \in 1 .. Len(pendReq) /\ pendReq[i].addr = addr
    <3>1. ForData(addr) \in SUBSET (1 .. Len(pendReq)) /\ Len(pendReq) \in Nat
      BY <1>1 DEF ForData, TypeLists
    <3>2. i \in ForData(addr)
      BY <2>1, <3>1, FirstOf
    <3> QED
      BY <3>1, <3>2 DEF ForData
  <2> HIDE DEF i
  <2>3. pendReq[i] \in PendingRequests
    BY <1>1, <2>2 DEF TypeLists
  <2>4. /\ Push(pendReq[i], readyReq) \in Seq(PendingRequests)
        /\ Without(pendReq, i) \in Seq(PendingRequests)
        /\ Len(Without(pendReq, i)) = Len(pendReq) - 1
    BY <1>1, <2>2, <2>3, PushIs, WithoutIs DEF TypeLists
  <2>5. ListTypes'
    BY <1>1, <2>1, <2>4 DEF ListTypes, TypeLists
  <2>6. /\ Len(pendReq) \in Nat /\ Len(readyPermReq) \in Nat /\ Len(pendPermReq) \in Nat
    BY <1>1 DEF TypeLists
  <2> QED
    BY <1>2, <2>1, <2>2, <2>4, <2>5, <2>6
<1>3. CASE ca = "NO_ACTION"
  <2> DEFINE i == First(Flushing(addr))
  <2>1. /\ Flushing(addr) # {} /\ readyPermReq' = Push(pendPermReq[i], readyPermReq)
        /\ pendPermReq' = Without(pendPermReq, i)
        /\ UNCHANGED <<readyReq, pendReq>>
    BY <1>3 DEF CallbackAsserts, CoherCallback
  <2>2. i \in 1 .. Len(pendPermReq)
    <3>1. Flushing(addr) \in SUBSET (1 .. Len(pendPermReq)) /\ Len(pendPermReq) \in Nat
      BY <1>1 DEF Flushing, TypeLists
    <3>2. i \in Flushing(addr)
      BY <2>1, <3>1, FirstOf
    <3> QED
      BY <3>1, <3>2
  <2> HIDE DEF i
  <2>3. pendPermReq[i] \in PendingRequests
    BY <1>1, <2>2 DEF TypeLists
  <2>4. /\ Push(pendPermReq[i], readyPermReq) \in Seq(PendingRequests)
        /\ Len(Push(pendPermReq[i], readyPermReq)) = Len(readyPermReq) + 1
        /\ Without(pendPermReq, i) \in Seq(PendingRequests)
        /\ Len(Without(pendPermReq, i)) = Len(pendPermReq) - 1
    BY <1>1, <2>2, <2>3, PushIs, WithoutIs DEF TypeLists
  <2>5. ListTypes'
    BY <1>1, <2>1, <2>4 DEF ListTypes, TypeLists
  <2>6. /\ Len(pendReq) \in Nat /\ Len(readyPermReq) \in Nat /\ Len(pendPermReq) \in Nat
    BY <1>1 DEF TypeLists
  <2>7. pendPermReq # <<>>
    BY <2>2, <2>6
  <2> QED
    BY <1>3, <2>1, <2>4, <2>5, <2>6, <2>7
<1>4. CASE ca \notin {"DATA_RECV", "NO_ACTION"}
  <2>1. UNCHANGED <<readyReq, pendReq, readyPermReq, pendPermReq>>
    BY <1>4 DEF CoherCallback, lists
  <2>2. ListTypes'
    BY <1>1, <2>1 DEF ListTypes, TypeLists
  <2>3. /\ Len(pendReq) \in Nat /\ Len(readyPermReq) \in Nat /\ Len(pendPermReq) \in Nat
    BY <1>1 DEF TypeLists
  <2> QED
    BY <1>4, <2>1, <2>2, <2>3
<1> QED
  BY <1>2, <1>3, <1>4

LEMMA DeliveryKeeps ==
  ASSUME IInv, BusDelivers, ~Abort
  PROVE  LET addr == Head(busQueue)
             snoop == SnoopStep("DATA", coherStates[addr])
         IN  /\ IInv' /\ busQueue # <<>> /\ addr \in Blocks /\ fetches = 0 /\ serving = <<>>
             /\ CallbackAsserts(snoop.ca, addr) /\ CoherCallback(snoop.ca, addr)
             /\ coherStates' = [coherStates EXCEPT ![addr] = snoop.next]
             /\ busQueue' = Tail(busQueue) /\ phase' = "permissions"
             /\ UNCHANGED <<arrays, request, options, core>>
<1> DEFINE addr == Head(busQueue)
           snoop == SnoopStep("DATA", coherStates[addr])
<1>1. /\ phase = "coherence" /\ countDown = 1
      /\ CallbackAsserts(snoop.ca, addr) /\ CoherCallback(snoop.ca, addr)
      /\ coherStates' = [coherStates EXCEPT ![addr] = snoop.next]
      /\ busQueue' = Tail(busQueue)
      /\ IF Tail(busQueue) = <<>> THEN countDown' = 0 ELSE countDown' \in 1 .. MaxDelay
      /\ phase' = "permissions" /\ ArraysKept
      /\ UNCHANGED <<useVictim, useRRIP, fetchRate, serving, isRead, pendingMem, fetches,
                     opsLeft>>
  BY DEF BusDelivers, ArraysKept, arrays, options, request, core
<1>2. TypeControl /\ TypeLists /\ TypeBelow
  BY TypeParts DEF IInv
<1>3. busQueue # <<>> /\ addr \in Blocks /\ Tail(busQueue) \in Seq(Blocks)
  BY <1>1, <1>2 DEF TypeBelow, IInv, BusCountsRequests
<1> HIDE DEF addr
<1>4. snoop.next \in CoherenceStates
  BY <1>2, <1>3, SnoopStepType DEF TypeBelow
<1> HIDE DEF snoop
<1>5. countDown' \in 0 .. MaxDelay /\ (countDown' > 0 <=> Tail(busQueue) # <<>>)
  BY <1>1, Sizes
<1>6. TypeBelow' /\ BusCountsRequests'
  BY <1>1, <1>2, <1>3, <1>4, <1>5 DEF TypeBelow, BusCountsRequests
<1>7. ListTypes'
  BY <1>1, CallbackMoves
<1>8. TypeLists' /\ TypeControl'
  BY <1>1, <1>2, <1>7 DEF TypeLists, ListTypes, TypeControl, Phases
<1>9. Layout' /\ StampsInOrder' /\ TypeArrays'
  BY <1>1, ArraysKeep
<1>10. serving = <<>> /\ fetches = 0
  BY <1>1 DEF IInv, CourseOK
<1>11. CourseOK'
  <2>1. ~pendingMem => pendReq' = <<>> /\ readyPermReq' = <<>> /\ pendPermReq' = <<>>
    <3> SUFFICES ASSUME ~pendingMem
                 PROVE  pendReq' = <<>> /\ readyPermReq' = <<>> /\ pendPermReq' = <<>>
      OBVIOUS
    <3>1. pendReq = <<>> /\ readyPermReq = <<>> /\ pendPermReq = <<>>
      BY DEF IInv, CourseOK
    <3>2. Len(pendReq') + Len(readyPermReq') + Len(pendPermReq') <= 0
      BY <1>1, <3>1, CallbackMoves
    <3> QED
      BY <1>7, <3>2 DEF ListTypes
  <2> QED
    BY <1>1, <1>10, <2>1 DEF CourseOK
<1>12. IInv'
  BY <1>6, <1>8, <1>9, <1>11, TypeParts DEF IInv
<1> QED
  BY <1>1, <1>3, <1>10, <1>12 DEF addr, snoop, ArraysKept, arrays, request, options, core

LEMMA InitIInv == Init => IInv
<1> SUFFICES ASSUME Init PROVE IInv
  OBVIOUS
<1>1. PICK c \in Configurations :
        useVictim = c.useVictim /\ useRRIP = c.useRRIP /\ fetchRate = c.fetchRate
  BY DEF Init
<1>2. useVictim \in BOOLEAN /\ useRRIP \in BOOLEAN /\ fetchRate \in Nat \ {0}
  BY <1>1, Sizes
<1>3. TypeOK
  <2>1. TypeControl
    <3>1. MaxOps \in Nat /\ fetches = 0 /\ opsLeft = MaxOps
      BY Sizes DEF Init
    <3>2. fetches \in 0 .. fetchRate /\ opsLeft \in 0 .. MaxOps
      BY <1>2, <3>1
    <3> QED
      BY <1>2, <3>2 DEF Init, TypeControl, Phases
  <2>2. TypeArrays
    BY DEF Init, TypeArrays, SetNumbers, Ways, Entries, CacheLines
  <2>3. TypeLists
    BY DEF Init, TypeLists
  <2>4. TypeBelow
    BY Sizes DEF Init, TypeBelow, CoherenceStates
  <2> QED
    BY <2>1, <2>2, <2>3, <2>4, TypeParts
<1>4. CourseOK /\ BusCountsRequests
  BY DEF Init, CourseOK, BusCountsRequests
<1>5. Layout /\ StampsInOrder
  BY DEF Init, Layout, InItsSet, LinesApart, VictimsApart, VictimsOut, StampsInOrder,
         SetNumbers, Ways, Entries
<1> QED
  BY <1>3, <1>4, <1>5 DEF IInv

LEMMA NextKeeps == IInv /\ [Next]_vars => IInv'
<1> SUFFICES ASSUME IInv, [Next]_vars PROVE IInv'
  OBVIOUS
<1>1. CASE FetchMemory
  BY <1>1, FetchKeeps
<1>2. CASE CacheRequest
  BY <1>2, HitKeeps, FillFreeKeeps, AbortKeeps, SwapKeeps, SpillKeeps, SpillEvictKeeps, EvictKeeps
     DEF CacheRequest
<1>3. CASE RequestDone \/ EndTick \/ AllAsked \/ BusCounts \/ Stopped
  BY <1>3, PhaseKeeps
<1>4. CASE BusDelivers \/ AskPermission \/ Callbacks
  BY <1>4, DeliveryKeeps, AbortKeeps, AskKeeps, CallbacksKeeps
<1>5. CASE UNCHANGED vars
  <2>1. /\ ArraysKept
        /\ UNCHANGED <<phase, useVictim, useRRIP, fetchRate, readyReq, pendReq, readyPermReq,
                       pendPermReq, serving, isRead, coherStates, busQueue, countDown,
                       pendingMem, fetches, opsLeft>>
    BY <1>5 DEF vars, ArraysKept, arrays, options, lists, request, below, core
  <2>2. Layout' /\ StampsInOrder' /\ TypeArrays'
    BY <2>1, ArraysKeep
  <2>3. TypeControl' /\ TypeLists' /\ TypeBelow'
    BY <2>1, TypeParts DEF IInv, TypeControl, TypeLists, TypeBelow
  <2>4. CourseOK' /\ BusCountsRequests'
    BY <2>1 DEF IInv, CourseOK, BusCountsRequests
  <2> QED
    BY <2>2, <2>3, <2>4, TypeParts DEF IInv
<1> QED
  BY <1>1, <1>2, <1>3, <1>4, <1>5 DEF Next, Tick

LEMMA CacheInvariant == Spec => []IInv
<1> QED
  BY InitIInv, NextKeeps, PTL DEF Spec

(* TypeOK: no access leaves the sets, the lines and the victim entries,    *)
(* and no request is on file for a block that is none.                     *)
THEOREM CacheTypeCorrect == Spec => []TypeOK
<1>1. IInv => TypeOK
  BY DEF IInv
<1> QED
  BY <1>1, CacheInvariant, PTL

(* StampsInOrder: LRU stamps differ and RRIP values fit their bits.        *)
THEOREM CacheStampsInOrder == Spec => []StampsInOrder
<1>1. IInv => StampsInOrder
  BY DEF IInv
<1> QED
  BY <1>1, CacheInvariant, PTL
----------------------------------------------------------------------------
LEMMA AtMostOne ==
  ASSUME NEW S, \A x, y \in S : x = y
  PROVE  Cardinality(S) \in 0 .. 1 /\ (S # {} => Cardinality(S) = 1)
<1>1. CASE S = {}
  BY <1>1, FS_EmptySet
<1>2. CASE S # {}
  <2>1. PICK x \in S : TRUE
    BY <1>2
  <2>2. S = {x}
    BY <2>1
  <2> QED
    BY <2>2, FS_Singleton
<1> QED
  BY <1>1, <1>2

(* A place that holds a block, without the tuples.                         *)
LEMMA HoldingIs ==
  ASSUME IInv, NEW a \in Blocks, NEW place
  PROVE  place \in Holding(a) <=>
           \/ \E i \in Ways : /\ place = <<"line", SetOf(a), i>>
                              /\ cacheSets[SetOf(a)][i] # NULL
                              /\ cacheSets[SetOf(a)][i].addr = a
           \/ \E e \in Entries : /\ place = <<"victim", 0, e>>
                                 /\ victimCache[e] # NULL /\ victimCache[e].addr = a
<1>1. SetOf(a) \in SetNumbers
  BY BlocksAre, InSetNumbers
<1>2. \A s \in SetNumbers : \A i \in Ways :
        LineAt(<<"line", s, i>>) = cacheSets[s][i]
  BY DEF LineAt
<1>3. \A e \in Entries : LineAt(<<"victim", 0, e>>) = victimCache[e]
  BY DEF LineAt
<1>4. place \in Places <=> \/ \E s \in SetNumbers : \E i \in Ways : place = <<"line", s, i>>
                           \/ \E e \in Entries : place = <<"victim", 0, e>>
  BY DEF Places, SetNumbers, Ways, Entries
<1>5. \A s \in SetNumbers : \A i \in Ways :
        cacheSets[s][i] # NULL /\ cacheSets[s][i].addr = a => s = SetOf(a)
  BY DEF IInv, Layout, InItsSet
<1>6. place \in Holding(a) <=> place \in Places /\ LineAt(place) # NULL /\ LineAt(place).addr = a
  BY DEF Holding
<1> QED
  BY <1>1, <1>2, <1>3, <1>4, <1>5, <1>6

LEMMA HeldOnce ==
  ASSUME IInv, NEW a \in Blocks
  PROVE  /\ \A p, q \in Holding(a) : p = q
         /\ Holding(a) # {} <=> Resident(a)
<1>1. SetOf(a) \in SetNumbers
  BY BlocksAre, InSetNumbers
<1>2. \A p, q \in Holding(a) : p = q
  <2> SUFFICES ASSUME NEW p \in Holding(a), NEW q \in Holding(a) PROVE p = q
    OBVIOUS
  <2> DEFINE inLine(i) == cacheSets[SetOf(a)][i] # NULL /\ cacheSets[SetOf(a)][i].addr = a
             inEntry(e) == victimCache[e] # NULL /\ victimCache[e].addr = a
  <2>1. \A x \in Holding(a) : \/ \E i \in Ways : x = <<"line", SetOf(a), i>> /\ inLine(i)
                              \/ \E e \in Entries : x = <<"victim", 0, e>> /\ inEntry(e)
    BY HoldingIs
  <2>2. \A i, j \in Ways : inLine(i) /\ inLine(j) => i = j
    BY <1>1 DEF IInv, Layout, LinesApart
  <2>3. \A e, f \in Entries : inEntry(e) /\ inEntry(f) => e = f
    BY DEF IInv, Layout, VictimsApart
  <2>4. \A i \in Ways : \A e \in Entries : ~(inLine(i) /\ inEntry(e))
    BY DEF IInv, Layout, VictimsOut
  <2> HIDE DEF inLine, inEntry
  <2> QED
    BY <2>1, <2>2, <2>3, <2>4
<1>3. Holding(a) # {} <=> Resident(a)
  <2>1. ASSUME NEW p \in Holding(a) PROVE Resident(a)
    BY HoldingIs DEF Resident, InLine, InVictims
  <2>2. ASSUME NEW i \in Ways, cacheSets[SetOf(a)][i] # NULL, cacheSets[SetOf(a)][i].addr = a
        PROVE  <<"line", SetOf(a), i>> \in Holding(a)
    BY <2>2, HoldingIs
  <2>3. ASSUME NEW e \in Entries, victimCache[e] # NULL, victimCache[e].addr = a
        PROVE  <<"victim", 0, e>> \in Holding(a)
    BY <2>3, HoldingIs
  <2> QED
    BY <2>1, <2>2, <2>3 DEF Resident, InLine, InVictims
<1> QED
  BY <1>2, <1>3

(* NoneTwice: no block is in two lines or in a line and the victim cache,  *)
(* and each is in its set.                                                 *)
THEOREM CacheNoneTwice == Spec => []NoneTwice
<1>1. ASSUME IInv PROVE NoneTwice
  <2> SUFFICES ASSUME NEW addr \in Blocks
               PROVE  /\ Cardinality(Holding(addr)) <= 1
                      /\ \A place \in Holding(addr) :
                           place[1] = "line" => place[2] = addr % Sets
    BY DEF NoneTwice
  <2>1. Cardinality(Holding(addr)) \in 0 .. 1
    BY <1>1, HeldOnce, AtMostOne
  <2>2. \A place \in Holding(addr) : place[1] = "line" => place[2] = addr % Sets
    BY <1>1, HoldingIs DEF SetOf
  <2> HIDE DEF Holding
  <2>3. \A n \in 0 .. 1 : n <= 1
    OBVIOUS
  <2> QED
    BY <2>1, <2>2, <2>3
<1> QED
  BY <1>1, CacheInvariant, PTL
----------------------------------------------------------------------------
(* The accesses that have no permission yet.                               *)
Outstanding == Len(serving) + Len(pendReq) + Len(readyPermReq) + Len(pendPermReq)

LEMMA LengthTypes ==
  ASSUME IInv
  PROVE  /\ Len(serving) \in Nat /\ Len(pendReq) \in Nat /\ Len(readyPermReq) \in Nat
         /\ Len(pendPermReq) \in Nat /\ Outstanding \in Nat
<1>1. TypeLists
  BY TypeParts DEF IInv
<1>2. /\ Len(serving) \in Nat /\ Len(pendReq) \in Nat /\ Len(readyPermReq) \in Nat
      /\ Len(pendPermReq) \in Nat
  BY <1>1 DEF TypeLists
<1> QED
  BY <1>2 DEF Outstanding

LEMMA PrimedLengthTypes ==
  ASSUME IInv'
  PROVE  /\ Len(serving') \in Nat /\ Len(pendReq') \in Nat /\ Len(readyPermReq') \in Nat
         /\ Len(pendPermReq') \in Nat /\ Outstanding' \in Nat
<1>1. TypeLists'
  BY TypeParts DEF IInv
<1>2. /\ Len(serving') \in Nat /\ Len(pendReq') \in Nat /\ Len(readyPermReq') \in Nat
      /\ Len(pendPermReq') \in Nat
  BY <1>1 DEF TypeLists
<1> QED
  BY <1>2 DEF Outstanding

(* A permission that is asked for is one access less or the same number.   *)
LEMMA PermReqCounts ==
  ASSUME IInv, NEW pr \in PendingRequests, PermReq(pr)
  PROVE  Len(pendReq') \in {Len(pendReq), Len(pendReq) + 1}
<1>1. pendReq \in Seq(PendingRequests)
  BY TypeParts DEF IInv, TypeLists
<1>2. Len(Push(pr, pendReq)) = Len(pendReq) + 1
  BY <1>1, PushIs
<1>3. pendReq' = pendReq \/ pendReq' = Push(pr, pendReq)
  BY PermReqKeeps
<1> QED
  BY <1>2, <1>3

LEMMA InvlReqCounts ==
  ASSUME IInv, NEW pr \in PendingRequests, NEW a \in Blocks, InvlReq(pr, a)
  PROVE  /\ Len(readyPermReq') + Len(pendPermReq') = Len(readyPermReq) + Len(pendPermReq) + 1
         /\ UNCHANGED pendReq
<1>1. readyPermReq \in Seq(PendingRequests) /\ pendPermReq \in Seq(PendingRequests)
  BY TypeParts DEF IInv, TypeLists
<1>2. PICK q \in PendingRequests :
        \/ readyPermReq' = readyPermReq /\ pendPermReq' = Push(q, pendPermReq)
        \/ readyPermReq' = Push(q, readyPermReq) /\ pendPermReq' = pendPermReq
  BY InvlReqKeeps
<1>3. /\ Len(Push(q, readyPermReq)) = Len(readyPermReq) + 1
      /\ Len(Push(q, pendPermReq)) = Len(pendPermReq) + 1
  BY <1>1, PushIs
<1>4. Len(readyPermReq) \in Nat /\ Len(pendPermReq) \in Nat
  BY <1>1
<1>5. UNCHANGED pendReq
  BY InvlReqKeeps
<1> QED
  BY <1>2, <1>3, <1>4, <1>5

LEMMA FewerAdvances ==
  ASSUME IInv, IInv', UNCHANGED pendingMem, Outstanding' <= Outstanding
  PROVE  Port!Advance \/ (Outstanding' = Outstanding /\ UNCHANGED pendingMem)
<1>1. Outstanding \in Nat /\ Outstanding' \in Nat
  BY LengthTypes, PrimedLengthTypes
<1>2. CASE Outstanding' # Outstanding
  <2>1. Outstanding > 0 /\ Outstanding' \in 0 .. Outstanding - 1
    BY <1>1, <1>2
  <2> QED
    BY <2>1 DEF Port!Advance, Outstanding
<1> QED
  BY <1>2

LEMMA PortStep ==
  ASSUME IInv, IInv', [Next]_vars
  PROVE  Port!Next \/ (Outstanding' = Outstanding /\ UNCHANGED pendingMem)
<1>a. /\ Len(serving) \in Nat /\ Len(pendReq) \in Nat /\ Len(readyPermReq) \in Nat
      /\ Len(pendPermReq) \in Nat
  BY LengthTypes
<1>b. /\ Len(serving') \in Nat /\ Len(pendReq') \in Nat /\ Len(readyPermReq') \in Nat
      /\ Len(pendPermReq') \in Nat
  BY PrimedLengthTypes
<1>1. CASE FetchMemory
  <2>1. /\ Len(serving') \in 1 .. 2 /\ serving = <<>> /\ pendingMem' = TRUE
        /\ UNCHANGED <<pendReq, readyPermReq, pendPermReq>>
    BY <1>1, FetchKeeps DEF lists
  <2>2. Outstanding' = Outstanding + Len(serving')
    BY <2>1 DEF Outstanding
  <2>3. Port!Request(Len(serving'))
    BY <2>1, <2>2 DEF Port!Request, Outstanding
  <2> QED
    BY <2>1, <2>3 DEF Port!Next
<1>2. CASE CacheRequest /\ ~Abort
  <2>1. Serving /\ Len(Tail(serving)) = Len(serving) - 1 /\ Pr \in PendingRequests
    BY <1>2, ServedIs DEF CacheRequest, Hit, FillFree, Swap, Spill, SpillEvict, Evict, Replacing,
       Served, Serving
  <2>2. serving' = Tail(serving) /\ UNCHANGED pendingMem
    BY <1>2, HitKeeps, FillFreeKeeps, SwapKeeps, SpillKeeps, SpillEvictKeeps, EvictKeeps
       DEF CacheRequest
  <2> HIDE DEF Pr
  <2>3. Len(pendReq') + Len(readyPermReq') + Len(pendPermReq')
          <= Len(pendReq) + Len(readyPermReq) + Len(pendPermReq) + 1
    <3>1. CASE Hit \/ Swap
      <4>1. UNCHANGED <<pendReq, readyPermReq, pendPermReq>>
        BY <3>1, HitKeeps, SwapKeeps
      <4> QED
        BY <4>1
    <3>2. CASE FillFree \/ Spill
      <4>1. PermReq(Pr) /\ UNCHANGED <<readyPermReq, pendPermReq>>
        BY <1>2, <3>2, FillFreeKeeps, SpillKeeps
      <4> QED
        BY <2>1, <4>1, PermReqCounts
    <3>3. CASE SpillEvict \/ Evict
      <4>1. \E a \in Blocks : InvlReq(Pr, a)
        BY <3>3, SpillEvictKeeps, EvictKeeps, VictimSet
      <4> QED
        <5>1. PICK a \in Blocks : InvlReq(Pr, a)
          BY <4>1
        <5>2. /\ Len(readyPermReq') + Len(pendPermReq') =
                   Len(readyPermReq) + Len(pendPermReq) + 1
              /\ Len(pendReq') = Len(pendReq)
          BY <2>1, <5>1, InvlReqCounts
        <5> QED
          BY <1>a, <1>b, <5>2
    <3> QED
      BY <1>2, <3>1, <3>2, <3>3 DEF CacheRequest
  <2>4. Len(serving') = Len(serving) - 1
    BY <2>1, <2>2
  <2>5. Outstanding' <= Outstanding
    BY <1>a, <1>b, <2>3, <2>4 DEF Outstanding
  <2> QED
    BY <2>2, <2>5, FewerAdvances DEF Port!Next
<1>3. CASE Abort
  BY <1>3 DEF Abort, lists, request, core, Outstanding
<1>4. CASE RequestDone \/ EndTick \/ AllAsked \/ BusCounts \/ Stopped
  BY <1>4, PhaseKeeps DEF lists, request, Outstanding
<1>5. CASE BusDelivers /\ ~Abort
  <2>1. /\ UNCHANGED <<serving, pendingMem>>
        /\ Len(pendReq') + Len(readyPermReq') + Len(pendPermReq')
             <= Len(pendReq) + Len(readyPermReq) + Len(pendPermReq)
    BY <1>5, DeliveryKeeps, CallbackMoves DEF request, core
  <2>2. Outstanding' <= Outstanding
    BY <2>1 DEF Outstanding
  <2> QED
    BY <2>1, <2>2, FewerAdvances DEF Port!Next
<1>6. CASE AskPermission
  <2>1. /\ UNCHANGED <<serving, pendingMem, pendPermReq>>
        /\ readyPermReq' = Tail(readyPermReq) /\ readyPermReq # <<>>
        /\ PermReq(Head(readyPermReq)) /\ Head(readyPermReq) \in PendingRequests
    BY <1>6, AskKeeps DEF request, core
  <2>2. Len(Tail(readyPermReq)) = Len(readyPermReq) - 1
    BY <2>1, TypeParts, TailIs DEF IInv, TypeLists
  <2>3. Len(pendReq') \in {Len(pendReq), Len(pendReq) + 1}
    BY <2>1, PermReqCounts
  <2>4. Outstanding' <= Outstanding
    BY <1>a, <1>b, <2>1, <2>2, <2>3 DEF Outstanding
  <2> QED
    BY <2>1, <2>4, FewerAdvances DEF Port!Next
<1>7. CASE Callbacks
  <2>1. /\ UNCHANGED <<serving, pendReq, readyPermReq, pendPermReq>>
        /\ serving = <<>> /\ readyPermReq = <<>>
        /\ pendingMem' = (pendingMem /\ ~CalledBack)
    BY <1>7, CallbacksKeeps DEF request, Callbacks
  <2>2. Outstanding' = Outstanding
    BY <2>1 DEF Outstanding
  <2>3. CASE pendingMem /\ CalledBack
    <3>1. Outstanding = 0
      BY <2>1, <2>3 DEF Outstanding, CalledBack
    <3>2. pendingMem' = FALSE
      BY <2>1, <2>3
    <3>3. Port!Answer
      BY <2>2, <2>3, <3>1, <3>2 DEF Port!Answer, Outstanding
    <3> QED
      BY <3>3 DEF Port!Next
  <2>4. CASE ~(pendingMem /\ CalledBack)
    <3>1. pendingMem \in BOOLEAN
      BY DEF IInv, TypeOK
    <3> QED
      BY <2>1, <2>2, <2>4, <3>1
  <2> QED
    BY <2>3, <2>4
<1>8. CASE UNCHANGED vars
  BY <1>8 DEF vars, lists, request, core, Outstanding
<1> QED
  BY <1>1, <1>2, <1>3, <1>4, <1>5, <1>6, <1>7, <1>8 DEF Next, Tick

(* The safety part of ImplementsPort: the processor is called back once    *)
(* per blocking and not before all of its accesses have permission.        *)
THEOREM CacheImplementsPort == Spec => Port!Safety
<1>1. Init => Port!Init
  BY DEF Init, Port!Init
<1>2. IInv /\ IInv' /\ [Next]_vars => [Port!Next]_Port!portVars
  BY PortStep DEF Port!portVars, Outstanding
<1> QED
  BY <1>1, <1>2, CacheInvariant, PTL DEF Spec, Port!Safety
----------------------------------------------------------------------------
(* The requests on file.                                                   *)
LEMMA MissStatesAre ==
  /\ MissStates \subseteq TransientStates
  /\ "INVALID" \notin TransientStates
BY MissWaits DEF MissStates, TransientStates

LEMMA AppendedBus ==
  ASSUME NEW T, NEW queue \in Seq(T), NEW a \in T, a \notin Items(queue), Distinct(queue)
  PROVE  Distinct(Append(queue, a)) /\ Items(Append(queue, a)) = Items(queue) \cup {a}
<1> DEFINE new == Append(queue, a)
           n == Len(queue)
<1>1. /\ n \in Nat /\ Len(new) = n + 1 /\ new[n + 1] = a
      /\ \A i \in 1 .. n : new[i] = queue[i]
  OBVIOUS
<1> HIDE DEF new, n
<1>2. \A i : i \in 1 .. n + 1 <=> i = n + 1 \/ i \in 1 .. n
  BY <1>1
<1>3. \A i \in 1 .. n : queue[i] # a
  BY DEF n, Items
<1>4. \A i, j \in 1 .. n : queue[i] = queue[j] => i = j
  BY DEF n, Distinct
<1>5. \A i, j \in 1 .. Len(new) : new[i] = new[j] => i = j
  BY <1>1, <1>2, <1>3, <1>4
<1>6. {new[i] : i \in 1 .. Len(new)} = {queue[i] : i \in 1 .. n} \cup {a}
  BY <1>1, <1>2
<1> QED
  BY <1>5, <1>6 DEF new, n, Items, Distinct

LEMMA TailBus ==
  ASSUME NEW T, NEW queue \in Seq(T), queue # <<>>, Distinct(queue)
  PROVE  /\ Distinct(Tail(queue)) /\ Items(Tail(queue)) = Items(queue) \ {Head(queue)}
         /\ Head(queue) \in Items(queue)
<1> DEFINE new == Tail(queue)
           n == Len(queue)
<1>1. /\ n \in Nat \ {0} /\ Len(new) = n - 1 /\ Head(queue) = queue[1]
      /\ \A i \in 1 .. n - 1 : new[i] = queue[i + 1]
  OBVIOUS
<1> HIDE DEF new, n
<1>2. \A i : i \in 1 .. n => i = 1 \/ (i - 1 \in 1 .. n - 1 /\ (i - 1) + 1 = i)
  BY <1>1
<1>3. \A i \in 1 .. n - 1 : i + 1 \in 1 .. n /\ i + 1 # 1
  BY <1>1
<1>4. \A i, j \in 1 .. n : queue[i] = queue[j] => i = j
  BY DEF n, Distinct
<1>5. 1 \in 1 .. n
  BY <1>1
<1>6. ASSUME NEW i \in 1 .. Len(new), NEW j \in 1 .. Len(new), new[i] = new[j] PROVE i = j
  <2>1. i + 1 = j + 1
    BY <1>1, <1>3, <1>4, <1>6
  <2> QED
    BY <2>1
<1>7. Distinct(new)
  BY <1>6 DEF Distinct
<1>8. Items(new) \subseteq Items(queue) \ {queue[1]}
  <2> SUFFICES ASSUME NEW i \in 1 .. n - 1
               PROVE  new[i] \in Items(queue) /\ new[i] # queue[1]
    BY <1>1 DEF Items
  <2> QED
    BY <1>1, <1>3, <1>4, <1>5 DEF Items, n
<1>9. Items(queue) \ {queue[1]} \subseteq Items(new)
  <2> SUFFICES ASSUME NEW i \in 1 .. n, queue[i] # queue[1] PROVE queue[i] \in Items(new)
    BY DEF Items, n
  <2>1. i - 1 \in 1 .. n - 1 /\ (i - 1) + 1 = i
    BY <1>2
  <2>2. new[i - 1] = queue[i]
    BY <1>1, <2>1
  <2> QED
    BY <1>1, <2>1, <2>2 DEF Items
<1>10. queue[1] \in Items(queue)
  BY <1>5 DEF Items, n
<1>11. Distinct(new) /\ Items(new) = Items(queue) \ {queue[1]} /\ queue[1] \in Items(queue)
  BY <1>7, <1>8, <1>9, <1>10
<1> QED
  BY <1>1, <1>11 DEF new

(* A block without permission is asked for: its request waits for the bus. *)
LEMMA AskedWaits ==
  ASSUME IInv, RequestsAgree, StatesAgree, NEW pr \in PendingRequests,
         coherStates[pr.addr] = "INVALID", PermReq(pr)
  PROVE  /\ coherStates'[pr.addr] \in MissStates
         /\ \A a \in Blocks \ {pr.addr} : coherStates'[a] = coherStates[a]
         /\ Once(pendReq)' /\ Addrs(pendReq)' = Addrs(pendReq) \cup {pr.addr}
         /\ BusAgrees'
<1> DEFINE a == pr.addr
           step == CacheStep(pr.isRead, coherStates[a])
<1>1. /\ a \in Blocks /\ pr.isRead \in BOOLEAN
      /\ coherStates \in [Blocks -> CoherenceStates]
      /\ pendReq \in Seq(PendingRequests) /\ busQueue \in Seq(Blocks)
  BY DEF PendingRequests, IInv, TypeOK
<1>2. step.perm = FALSE /\ step.send # "NO_REQ" /\ step.next \in MissStates
  BY <1>1, MissWaits DEF MissStates
<1>3. /\ coherStates' = [coherStates EXCEPT ![a] = step.next]
      /\ Send(IF step.send = "NO_REQ" THEN busQueue ELSE Append(busQueue, a))
      /\ IF step.perm
         THEN readyReq' = Push(pr, readyReq) /\ UNCHANGED pendReq
         ELSE pendReq' = Push(pr, pendReq) /\ UNCHANGED readyReq
  BY DEF PermReq
<1> HIDE DEF step
<1>4. pendReq' = Push(pr, pendReq) /\ busQueue' = Append(busQueue, a)
  BY <1>2, <1>3 DEF Send
<1>5. a \notin Addrs(pendReq)
  BY <1>1, MissStatesAre DEF StatesAgree
<1>6. Once(pendReq') /\ Addrs(pendReq') = Addrs(pendReq) \cup {a}
  <2>1. Once(pendReq) /\ pr.addr \notin Addrs(pendReq)
    BY <1>5 DEF RequestsAgree
  <2>2. Once(Push(pr, pendReq)) /\ Addrs(Push(pr, pendReq)) = Addrs(pendReq) \cup {pr.addr}
    <3>1. pendReq \in Seq(PendingRequests)
      BY <1>1
    <3> HIDE DEF a
    <3> QED
      BY <2>1, <3>1, PushIs, ZenonT(30)
  <2> QED
    BY <1>4, <2>2
<1>7. /\ a \notin Items(busQueue) /\ Distinct(busQueue)
      /\ Items(busQueue) = Addrs(pendReq)
  BY <1>5 DEF RequestsAgree, BusAgrees
<1>8. Distinct(busQueue') /\ Items(busQueue') = Items(busQueue) \cup {a}
  BY <1>1, <1>4, <1>7, AppendedBus
<1>9. Distinct(busQueue)' /\ Items(busQueue)' = Items(busQueue')
  BY <1>8 DEF Distinct, Items
<1>10. Once(pendReq)' /\ Addrs(pendReq)' = Addrs(pendReq) \cup {a}
  BY <1>6 DEF Once, Addrs
<1>11. BusAgrees'
  BY <1>7, <1>8, <1>9, <1>10 DEF BusAgrees
<1>12. /\ coherStates'[a] \in MissStates
       /\ \A b \in Blocks \ {a} : coherStates'[b] = coherStates[b]
  BY <1>1, <1>2, <1>3
<1> QED
  BY <1>10, <1>11, <1>12

LEMMA AskedAgree ==
  ASSUME IInv, RequestsAgree, StatesAgree, NEW pr \in PendingRequests,
         coherStates[pr.addr] = "INVALID", PermReq(pr),
         \A a \in Blocks : Resident(a)' <=> Resident(a) \/ a = pr.addr,
         UNCHANGED pendPermReq, pr.addr \notin Addrs(pendPermReq),
         Addrs(readyPermReq)' = Addrs(readyPermReq) \ {pr.addr}, Once(readyPermReq)'
  PROVE  RequestsAgree' /\ StatesAgree'
<1>1. /\ coherStates'[pr.addr] \in MissStates
      /\ \A a \in Blocks \ {pr.addr} : coherStates'[a] = coherStates[a]
      /\ Once(pendReq)' /\ Addrs(pendReq)' = Addrs(pendReq) \cup {pr.addr}
      /\ BusAgrees'
  BY AskedWaits
<1>2. Addrs(pendPermReq)' = Addrs(pendPermReq) /\ Once(pendPermReq)'
  BY DEF RequestsAgree, Once, Addrs
<1>3. RequestsAgree'
  BY <1>1, <1>2 DEF RequestsAgree
<1>4. StatesAgree'
  <2> SUFFICES ASSUME NEW a \in Blocks
               PROVE  /\ coherStates'[a] \in TransientStates => coherStates'[a] \in MissStates
                      /\ a \in Addrs(pendReq)' <=> coherStates'[a] \in TransientStates
                      /\ ~Resident(a)' => coherStates'[a] = "INVALID"
                      /\ a \in Addrs(readyPermReq)' \cup Addrs(pendPermReq)'
                           <=> Resident(a)' /\ coherStates'[a] = "INVALID"
    BY DEF StatesAgree
  <2>1. CASE a = pr.addr
    BY <1>1, <1>2, <2>1, MissStatesAre
  <2>2. CASE a # pr.addr
    BY <1>1, <1>2, <2>2 DEF StatesAgree
  <2> QED
    BY <2>1, <2>2
<1> QED
  BY <1>3, <1>4

(* A block that has permission is evicted for one that is not in the       *)
(* cache.                                                                  *)
LEMMA EvictedAgree ==
  ASSUME IInv, RequestsAgree, StatesAgree, NEW pr \in PendingRequests, NEW b \in Blocks,
         InvlReq(pr, b), ~Resident(pr.addr), ~UnderWay(b),
         \A a \in Blocks : Resident(a)' <=> (Resident(a) /\ a # b) \/ a = pr.addr
  PROVE  /\ RequestsAgree' /\ StatesAgree'
         /\ \A a \in Blocks \ {b} : coherStates'[a] = coherStates[a]
         /\ coherStates[pr.addr] = "INVALID"
<1>1. /\ coherStates' = [coherStates EXCEPT ![b] = "INVALID"]
      /\ UNCHANGED <<busQueue, pendReq>>
  BY DEF InvlReq
<1>2. /\ coherStates \in [Blocks -> CoherenceStates] /\ pr.addr \in Blocks
      /\ readyPermReq \in Seq(PendingRequests) /\ pendPermReq \in Seq(PendingRequests)
  BY DEF IInv, TypeOK, PendingRequests
<1>3. coherStates'[b] = "INVALID" /\ \A a \in Blocks \ {b} : coherStates'[a] = coherStates[a]
  BY <1>1, <1>2
<1>4. coherStates[pr.addr] = "INVALID" /\ pr.addr \notin Addrs(readyPermReq) \cup Addrs(pendPermReq)
  BY <1>2 DEF StatesAgree
<1>5. b # pr.addr /\ coherStates[b] # "INVALID" /\ coherStates[b] \notin TransientStates
  BY <1>4 DEF UnderWay, StatesAgree
<1>6. PICK q \in PendingRequests :
        /\ q.addr = pr.addr
        /\ \/ readyPermReq' = readyPermReq /\ pendPermReq' = Push(q, pendPermReq)
           \/ readyPermReq' = Push(q, readyPermReq) /\ pendPermReq' = pendPermReq
  BY InvlReqKeeps
<1>7. /\ Addrs(Push(q, readyPermReq)) = Addrs(readyPermReq) \cup {pr.addr}
      /\ Once(Push(q, readyPermReq))
      /\ Addrs(Push(q, pendPermReq)) = Addrs(pendPermReq) \cup {pr.addr}
      /\ Once(Push(q, pendPermReq))
  <2>1. /\ Once(readyPermReq) /\ Once(pendPermReq)
        /\ q.addr \notin Addrs(readyPermReq) /\ q.addr \notin Addrs(pendPermReq)
    BY <1>4, <1>6 DEF RequestsAgree
  <2>2. /\ Addrs(Push(q, readyPermReq)) = Addrs(readyPermReq) \cup {q.addr}
        /\ Once(Push(q, readyPermReq))
    BY <1>2, <2>1, PushIs, ZenonT(30)
  <2>3. /\ Addrs(Push(q, pendPermReq)) = Addrs(pendPermReq) \cup {q.addr}
        /\ Once(Push(q, pendPermReq))
    BY <1>2, <2>1, PushIs, ZenonT(30)
  <2> QED
    BY <1>6, <2>2, <2>3
<1>8. /\ Addrs(readyPermReq') \cup Addrs(pendPermReq') =
           Addrs(readyPermReq) \cup Addrs(pendPermReq) \cup {pr.addr}
      /\ Addrs(readyPermReq') \cap Addrs(pendPermReq') = {}
      /\ Once(readyPermReq') /\ Once(pendPermReq')
  <2>1. CASE readyPermReq' = readyPermReq /\ pendPermReq' = Push(q, pendPermReq)
    BY <1>4, <1>7, <2>1 DEF RequestsAgree
  <2>2. CASE readyPermReq' = Push(q, readyPermReq) /\ pendPermReq' = pendPermReq
    BY <1>4, <1>7, <2>2 DEF RequestsAgree
  <2> QED
    BY <1>6, <2>1, <2>2
<1>9. /\ Addrs(readyPermReq)' = Addrs(readyPermReq') /\ Addrs(pendPermReq)' = Addrs(pendPermReq')
      /\ Addrs(pendReq)' = Addrs(pendReq) /\ Once(pendReq)'
      /\ Once(readyPermReq)' /\ Once(pendPermReq)' /\ BusAgrees'
  <2>1. Once(pendReq)' /\ BusAgrees'
    <3>1. Once(pendReq) /\ BusAgrees
      BY DEF RequestsAgree
    <3>2. Once(pendReq)' /\ Addrs(pendReq)' = Addrs(pendReq)
      BY <1>1, <3>1 DEF Addrs, Once
    <3> QED
      BY <1>1, <3>1, <3>2 DEF BusAgrees, Distinct, Items
  <2>2. Once(readyPermReq)' /\ Once(pendPermReq)'
    BY <1>8 DEF Once
  <2> QED
    BY <1>1, <2>1, <2>2 DEF Addrs
<1>10. RequestsAgree'
  BY <1>8, <1>9 DEF RequestsAgree
<1>11. StatesAgree'
  <2> SUFFICES ASSUME NEW a \in Blocks
               PROVE  /\ coherStates'[a] \in TransientStates => coherStates'[a] \in MissStates
                      /\ a \in Addrs(pendReq)' <=> coherStates'[a] \in TransientStates
                      /\ ~Resident(a)' => coherStates'[a] = "INVALID"
                      /\ a \in Addrs(readyPermReq)' \cup Addrs(pendPermReq)'
                           <=> Resident(a)' /\ coherStates'[a] = "INVALID"
    BY DEF StatesAgree
  <2>1. CASE a = b
    BY <1>3, <1>5, <1>8, <1>9, <2>1, MissStatesAre DEF StatesAgree
  <2>2. CASE a # b
    BY <1>3, <1>4, <1>8, <1>9, <2>2 DEF StatesAgree
  <2> QED
    BY <2>1, <2>2
<1> QED
  BY <1>3, <1>4, <1>10, <1>11

(* Nothing is asked for or evicted.                                        *)
LEMMA NothingAsked ==
  ASSUME RequestsAgree, StatesAgree,
         UNCHANGED <<pendReq, readyPermReq, pendPermReq, busQueue, coherStates>>,
         \A a \in Blocks : Resident(a)' <=> Resident(a)
  PROVE  RequestsAgree' /\ StatesAgree'
<1>1. /\ Addrs(pendReq)' = Addrs(pendReq) /\ Addrs(readyPermReq)' = Addrs(readyPermReq)
      /\ Addrs(pendPermReq)' = Addrs(pendPermReq)
  BY DEF Addrs
<1>2. RequestsAgree'
  BY <1>1 DEF RequestsAgree, BusAgrees, Once, Distinct, Items
<1>3. StatesAgree'
  BY <1>1 DEF StatesAgree
<1> QED
  BY <1>2, <1>3
----------------------------------------------------------------------------
(* Which blocks are in the cache after a request.                          *)
LEMMA NotThere ==
  ASSUME IInv, Serving, NoHit, VictimHits = {}
  PROVE  ~Resident(block)
<1>1. SetOf(block) \in SetNumbers /\ Set = cacheSets[SetOf(block)]
  BY ServedIs
<1>2. ~InLine(block)
  BY <1>1, SetIs DEF InLine, NoHit
<1>3. ~InVictims(block)
  BY DEF InVictims, VictimHits, IInv, Layout, VictimsOut, Entries
<1> QED
  BY <1>2, <1>3 DEF Resident

LEMMA LineResidents ==
  ASSUME IInv, Serving, NEW w, Touched(w), NEW a \in Blocks
  PROVE  InLine(a)' <=> a = block \/ (InLine(a) /\ ~(Set[w] # NULL /\ Set[w].addr = a))
<1> DEFINE home == SetOf(block)
<1>1. home \in SetNumbers /\ Set = cacheSets[home] /\ SetOf(a) \in SetNumbers
  BY ServedIs, BlocksAre, InSetNumbers
<1>2. InLine(a)' <=> \E i \in Ways : /\ cacheSets'[SetOf(a)][i] # NULL
                                     /\ cacheSets'[SetOf(a)][i].addr = a
  BY DEF InLine
<1>3. /\ w \in Ways /\ cacheSets'[home][w] # NULL /\ cacheSets'[home][w].addr = block
      /\ \A i \in Ways \ {w} :
           /\ cacheSets'[home][i] = NULL <=> Set[i] = NULL
           /\ Set[i] # NULL => cacheSets'[home][i].addr = Set[i].addr
      /\ \A s \in SetNumbers : s # home => cacheSets'[s] = cacheSets[s]
  BY DEF Touched
<1>4. CASE SetOf(a) # home
  <2>1. cacheSets'[SetOf(a)] = cacheSets[SetOf(a)] /\ a # block
    BY <1>1, <1>3, <1>4
  <2>2. ~(Set[w] # NULL /\ Set[w].addr = a)
    BY <1>3, <1>4, SetIs
  <2> QED
    BY <1>2, <2>1, <2>2 DEF InLine
<1>5. CASE SetOf(a) = home
  <2>1. \A i, j \in Ways : Set[i] # NULL /\ Set[j] # NULL /\ Set[i].addr = Set[j].addr => i = j
    BY <1>1 DEF IInv, Layout, LinesApart
  <2>2. InLine(a) <=> \E i \in Ways : Set[i] # NULL /\ Set[i].addr = a
    BY <1>1, <1>5 DEF InLine
  <2>3. InLine(a)' <=> \E i \in Ways : /\ cacheSets'[home][i] # NULL
                                       /\ cacheSets'[home][i].addr = a
    BY <1>2, <1>5
  <2> HIDE DEF home
  <2>4. ASSUME InLine(a)', a # block
        PROVE  InLine(a) /\ ~(Set[w] # NULL /\ Set[w].addr = a)
    <3>1. PICK i \in Ways : cacheSets'[home][i] # NULL /\ cacheSets'[home][i].addr = a
      BY <2>3, <2>4
    <3>2. i # w /\ Set[i] # NULL /\ Set[i].addr = a
      BY <1>3, <2>4, <3>1
    <3> QED
      BY <1>3, <2>1, <2>2, <3>2
  <2>5. ASSUME InLine(a), ~(Set[w] # NULL /\ Set[w].addr = a) PROVE InLine(a)'
    <3>1. PICK i \in Ways : Set[i] # NULL /\ Set[i].addr = a
      BY <2>2, <2>5
    <3>2. i # w /\ cacheSets'[home][i] # NULL /\ cacheSets'[home][i].addr = a
      BY <1>3, <2>5, <3>1
    <3> QED
      BY <2>3, <3>2
  <2>6. a = block => InLine(a)'
    BY <1>3, <2>3
  <2> QED
    BY <2>4, <2>5, <2>6
<1> QED
  BY <1>4, <1>5

(* The line to replace has permission: its set would have to be used by as *)
(* many operations as it has lines.                                        *)
LEMMA ReplacedSettled ==
  ASSUME IInv, KInv, Serving, FreeLines = {}
  PROVE  ~UnderWay(Set[VictimIndex].addr)
<1> DEFINE home == SetOf(block)
           w == VictimIndex
<1>1. /\ home \in SetNumbers /\ Set = cacheSets[home]
  BY ServedIs
<1>2. /\ w \in Ways /\ \A i \in Ways : Set[i] # NULL
      /\ ~useRRIP => \A i \in Ways : Set[w].timeStamp <= Set[i].timeStamp
  BY VictimIs
<1>3. \A i \in Ways : Set[i].timeStamp \in Nat
  BY <1>2, SetIs
<1> SUFFICES ASSUME UnderWay(Set[w].addr) PROVE FALSE
  OBVIOUS
<1>4. Uses(home) = fetchRate - fetches - 1
  <2>1. 1 \in 1 .. Len(serving) /\ SetOf(serving[1]) = home
    <3>1. serving \in Seq(Blocks) /\ serving # <<>>
      BY DEF IInv, TypeOK, Serving
    <3>2. Len(serving) \in Nat \ {0} /\ Head(serving) = serving[1]
      BY <3>1
    <3> QED
      BY <3>2 DEF block
  <2> HIDE DEF home
  <2> QED
    BY <2>1 DEF Uses
<1> HIDE DEF home, w
<1>5. Uses(home) >= 1 /\ (~useRRIP => Cardinality(NotBefore(home, w)) <= Uses(home))
  BY <1>1, <1>2 DEF KInv, LinesInUse, Serving
<1>6. fetches \in Nat /\ fetchRate \in Nat \ {0}
  BY Sizes DEF IInv, TypeOK
<1>7. fetchRate # 1
  BY <1>4, <1>5, <1>6
<1>8. ~useRRIP /\ fetchRate <= Lines
  BY <1>7 DEF KInv, Slow
<1>9. NotBefore(home, w) = Ways
  <2>1. \A i \in Ways : Set[i].timeStamp >= Set[w].timeStamp
    BY <1>2, <1>3, <1>8
  <2> QED
    BY <1>1, <1>2, <2>1 DEF NotBefore
<1>10. Cardinality(Ways) = Lines
  BY FS_Interval, Sizes DEF Ways
<1> QED
  BY <1>4, <1>5, <1>6, <1>8, <1>9, <1>10, Sizes
----------------------------------------------------------------------------
(* How often the sets are used.                                            *)
LEMMA UsesCount ==
  ASSUME IInv, ServingApart, Serving, serving' = Tail(serving),
         UNCHANGED <<fetchRate, fetches>>
  PROVE  /\ Uses(SetOf(block)) \in Nat
         /\ \A s \in SetNumbers :
              Uses(s)' = IF s = SetOf(block) THEN Uses(s) + 1 ELSE Uses(s)
<1> DEFINE home == SetOf(block)
           n == Len(serving)
           new == Tail(serving)
           inUse(s) == \E k \in 1 .. n : SetOf(serving[k]) = s
           stillInUse(s) == \E k \in 1 .. Len(new) : SetOf(new[k]) = s
<1>1. serving \in Seq(Blocks) /\ serving # <<>> /\ phase = "request"
  BY DEF IInv, TypeOK, Serving
<1>2. /\ n \in Nat \ {0} /\ Head(serving) = serving[1] /\ Len(new) = n - 1
      /\ \A k \in 1 .. n - 1 : new[k] = serving[k + 1]
  BY <1>1
<1>3. home = SetOf(serving[1])
  BY <1>2 DEF block
<1>4. \A k, l \in 1 .. n : SetOf(serving[k]) = SetOf(serving[l]) => k = l
  BY DEF ServingApart
<1>5. fetches < fetchRate /\ fetches \in Nat /\ fetchRate \in Nat
  BY <1>1, Sizes DEF ServingApart, IInv, TypeOK
<1>6. \A s : Uses(s) = fetchRate - fetches - IF inUse(s) THEN 1 ELSE 0
  BY DEF Uses
<1>7. \A s \in SetNumbers : Uses(s)' = fetchRate - fetches - IF stillInUse(s) THEN 1 ELSE 0
  BY DEF Uses
<1> HIDE DEF home, n, new
<1>8. \A k \in 1 .. n - 1 : k + 1 \in 1 .. n /\ k + 1 # 1
  BY <1>2
<1>9. 1 \in 1 .. n
  BY <1>2
<1>10. inUse(home)
  BY <1>3, <1>9
<1>11. ~stillInUse(home)
  BY <1>2, <1>3, <1>4, <1>8, <1>9
<1>12. ASSUME NEW s, s # home PROVE stillInUse(s) <=> inUse(s)
  <2>1. stillInUse(s) => inUse(s)
    BY <1>2, <1>8
  <2>2. ASSUME NEW k \in 1 .. n, SetOf(serving[k]) = s PROVE stillInUse(s)
    <3>1. k - 1 \in 1 .. n - 1 /\ (k - 1) + 1 = k
      BY <1>2, <1>3, <1>12, <2>2
    <3>2. new[k - 1] = serving[k]
      BY <1>2, <3>1
    <3> QED
      BY <1>2, <2>2, <3>1, <3>2
  <2> QED
    BY <2>1, <2>2
<1> HIDE DEF inUse, stillInUse
<1>13. home \in SetNumbers
  BY ServedIs DEF home
<1>14. Uses(home) \in Nat
  BY <1>5, <1>6, <1>10
<1>15. ASSUME NEW s \in SetNumbers
       PROVE  Uses(s)' = IF s = home THEN Uses(s) + 1 ELSE Uses(s)
  <2>1. CASE s = home
    BY <1>5, <1>6, <1>7, <1>10, <1>11, <2>1
  <2>2. CASE s # home
    BY <1>5, <1>6, <1>7, <1>12, <2>2
  <2> QED
    BY <2>1, <2>2
<1> QED
  BY <1>14, <1>15 DEF home

(* After a request no line is replaced too early either.                   *)
LEMMA LinesStayInUse ==
  ASSUME IInv, KInv, Serving, serving' = Tail(serving), UNCHANGED <<fetchRate, fetches, useRRIP>>,
         NEW w, Touched(w), NEW gone,
         \A a \in Blocks \ {block, gone} : coherStates'[a] = coherStates[a],
         \A s \in SetNumbers : \A i \in Ways :
           cacheSets[s][i] # NULL /\ ~(s = SetOf(block) /\ i = w)
             => cacheSets[s][i].addr \notin {block, gone}
  PROVE  LinesInUse'
<1>a. SetOf(block) \in SetNumbers
  BY ServedIs
<1> PICK home \in SetNumbers : home = SetOf(block)
  BY <1>a
<1> DEFINE new == cacheSets'[home]
<1>1. /\ home \in SetNumbers /\ Set = cacheSets[home] /\ serving # <<>>
  BY ServedIs DEF Serving
<1>2. /\ w \in Ways /\ new[w] # NULL /\ new[w].addr = block
      /\ ~useRRIP => new[w].timeStamp = accessCounter
      /\ \A s \in SetNumbers : s # home => cacheSets'[s] = cacheSets[s]
  BY DEF Touched
<1>3. ASSUME NEW i \in Ways \ {w}, new[i] # NULL
      PROVE  /\ Set[i] # NULL /\ new[i].addr = Set[i].addr
             /\ ~useRRIP => /\ new[i].timeStamp = Set[i].timeStamp
                            /\ Set[i].timeStamp < accessCounter /\ Set[i].timeStamp \in Nat
  <2>1. Set[i] # NULL
    BY <1>3 DEF Touched
  <2>2. Set[i].timeStamp \in Nat /\ (~useRRIP => Set[i].timeStamp < accessCounter)
    BY <2>1, SetIs
  <2>3. new[i].addr = Set[i].addr /\ (~useRRIP => new[i].timeStamp = Set[i].timeStamp)
    BY <2>1 DEF Touched
  <2> QED
    BY <2>1, <2>2, <2>3
<1>4. /\ Uses(home) \in Nat /\ Uses(home)' = Uses(home) + 1
      /\ \A s \in SetNumbers : s # home => Uses(s)' = Uses(s)
  BY UsesCount DEF KInv
<1>6. \A s \in SetNumbers : \A i \in Ways :
        cacheSets[s][i] # NULL /\ UnderWay(cacheSets[s][i].addr) =>
          Uses(s) >= 1 /\ (~useRRIP => Cardinality(NotBefore(s, i)) <= Uses(s))
  BY <1>1 DEF KInv, LinesInUse
<1>7. \A s \in SetNumbers : \A i \in Ways :
        /\ cacheSets[s][i] # NULL /\ ~(s = home /\ i = w)
        /\ coherStates'[cacheSets[s][i].addr] \in MissStates \cup {"INVALID"}
        => UnderWay(cacheSets[s][i].addr)
  <2> TAKE s \in SetNumbers
  <2> TAKE i \in Ways
  <2> HAVE /\ cacheSets[s][i] # NULL /\ ~(s = home /\ i = w)
           /\ coherStates'[cacheSets[s][i].addr] \in MissStates \cup {"INVALID"}
  <2>1. cacheSets[s][i] \in CacheLines
    BY TypeParts DEF IInv, TypeArrays
  <2>2. cacheSets[s][i].addr \in Blocks \ {block, gone}
    BY <2>1, LineIs
  <2> QED
    BY <2>2 DEF UnderWay
<1>8. accessCounter \in Nat
  BY DEF IInv, TypeOK
<1> HIDE DEF new
<1> SUFFICES ASSUME NEW s \in SetNumbers, NEW i \in Ways, cacheSets'[s][i] # NULL,
                    coherStates'[cacheSets'[s][i].addr] \in MissStates \cup {"INVALID"}
             PROVE  /\ Uses(s)' >= 1
                    /\ ~useRRIP => Cardinality(NotBefore(s, i)') <= Uses(s)'
  BY DEF LinesInUse, UnderWay
<1>9. NotBefore(s, i)' = {j \in Ways : cacheSets'[s][j] # NULL
                            /\ cacheSets'[s][j].timeStamp >= cacheSets'[s][i].timeStamp}
  BY DEF NotBefore
<1>10. CASE s # home
  <2>1. cacheSets'[s] = cacheSets[s] /\ Uses(s)' = Uses(s)
    BY <1>2, <1>4, <1>10
  <2>2. NotBefore(s, i)' = NotBefore(s, i)
    BY <1>9, <2>1 DEF NotBefore
  <2> QED
    BY <1>6, <1>7, <1>10, <2>1, <2>2
<1>11. CASE s = home /\ i = w
  <2>1. Uses(s)' \in Nat /\ Uses(s)' >= 1
    BY <1>4, <1>11
  <2>2. ASSUME ~useRRIP PROVE Cardinality(NotBefore(s, i)') <= 1
    <3>1. ASSUME NEW j \in NotBefore(s, i)' PROVE j = w
      <4>1. j \in Ways /\ new[j] # NULL /\ new[j].timeStamp >= accessCounter
        BY <1>2, <1>9, <1>11, <2>2, <3>1 DEF new
      <4> QED
        BY <1>3, <1>8, <2>2, <4>1
    <3>2. Cardinality(NotBefore(s, i)') \in 0 .. 1
      BY <3>1, AtMostOne
    <3>3. \A m \in 0 .. 1 : m <= 1
      OBVIOUS
    <3> QED
      BY <3>2, <3>3
  <2>3. ASSUME ~useRRIP PROVE Cardinality(NotBefore(s, i)') \in Nat
    <3>1. IsFiniteSet(Ways)
      BY FS_Interval, Sizes DEF Ways
    <3>2. NotBefore(s, i)' \subseteq Ways
      BY <1>9
    <3> QED
      BY <3>1, <3>2, FS_Subset, FS_CardinalityType
  <2> QED
    BY <2>1, <2>2, <2>3
<1>12. CASE s = home /\ i # w
  <2>1. /\ Set[i] # NULL /\ cacheSets'[s][i].addr = Set[i].addr
        /\ ~useRRIP => cacheSets'[s][i].timeStamp = Set[i].timeStamp
    BY <1>3, <1>12 DEF new
  <2>2. UnderWay(Set[i].addr)
    BY <1>1, <1>7, <1>12, <2>1
  <2>3. Uses(home) >= 1 /\ (~useRRIP => Cardinality(NotBefore(home, i)) <= Uses(home))
    BY <1>1, <1>6, <2>1, <2>2
  <2>4. ASSUME ~useRRIP PROVE Cardinality(NotBefore(s, i)') <= Uses(home) + 1
    <3>1. NotBefore(s, i)' \subseteq NotBefore(home, i) \cup {w}
      <4> SUFFICES ASSUME NEW j \in NotBefore(s, i)', j # w PROVE j \in NotBefore(home, i)
        OBVIOUS
      <4>1. j \in Ways \ {w} /\ new[j] # NULL /\ new[j].timeStamp >= Set[i].timeStamp
        BY <1>9, <1>12, <2>1, <2>4 DEF new
      <4>2. Set[j] # NULL /\ new[j].timeStamp = Set[j].timeStamp
        BY <1>3, <2>4, <4>1
      <4> QED
        BY <1>1, <4>1, <4>2 DEF NotBefore
    <3>2. IsFiniteSet(NotBefore(home, i))
      <4>1. NotBefore(home, i) \subseteq Ways
        BY DEF NotBefore
      <4>2. IsFiniteSet(Ways)
        BY FS_Interval, Sizes DEF Ways
      <4> QED
        BY <4>1, <4>2, FS_Subset
    <3>3. /\ IsFiniteSet(NotBefore(home, i) \cup {w})
          /\ Cardinality(NotBefore(home, i) \cup {w}) \in
               {Cardinality(NotBefore(home, i)), Cardinality(NotBefore(home, i)) + 1}
      BY <3>2, FS_AddElement
    <3>4. /\ Cardinality(NotBefore(s, i)') <= Cardinality(NotBefore(home, i) \cup {w})
          /\ IsFiniteSet(NotBefore(s, i)')
      BY <3>1, <3>3, FS_Subset
    <3>5. /\ Cardinality(NotBefore(s, i)') \in Nat /\ Cardinality(NotBefore(home, i)) \in Nat
          /\ Cardinality(NotBefore(home, i)) <= Uses(home)
      BY <2>3, <2>4, <3>2, <3>4, FS_CardinalityType
    <3> QED
      BY <1>4, <3>3, <3>4, <3>5
  <2> QED
    BY <1>4, <1>12, <2>3, <2>4
<1> QED
  BY <1>10, <1>11, <1>12
----------------------------------------------------------------------------
(* The second invariant, action by action.                                 *)
LEMMA RequestKnows ==
  ASSUME IInv, KInv, Served, phase' = phase, RequestsAgree', StatesAgree', VictimsSettled',
         NEW w, Touched(w), NEW gone,
         \A a \in Blocks \ {block, gone} : coherStates'[a] = coherStates[a],
         \A s \in SetNumbers : \A i \in Ways :
           cacheSets[s][i] # NULL /\ ~(s = SetOf(block) /\ i = w)
             => cacheSets[s][i].addr \notin {block, gone}
  PROVE  KInv'
<1>1. /\ Serving /\ serving' = Tail(serving)
      /\ UNCHANGED <<fetchRate, fetches, useRRIP>>
  BY DEF Served, Serving, options, core
<1>2. LinesInUse'
  BY <1>1, LinesStayInUse, ZenonT(40)
<1>3. ServingApart'
  <2>1. serving \in Seq(Blocks) /\ serving # <<>>
    BY <1>1 DEF IInv, TypeOK, Serving
  <2>2. /\ Len(serving) \in Nat /\ Len(serving') = Len(serving) - 1
        /\ \A k \in 1 .. Len(serving) - 1 : serving'[k] = serving[k + 1]
    BY <1>1, <2>1
  <2>3. \A k \in 1 .. Len(serving) - 1 : k + 1 \in 1 .. Len(serving)
    BY <2>2
  <2>4. ASSUME NEW k \in 1 .. Len(serving'), NEW l \in 1 .. Len(serving'),
               SetOf(serving'[k]) = SetOf(serving'[l])
        PROVE  k = l
    <3>1. k + 1 = l + 1
      BY <2>2, <2>3, <2>4, SMTT(20) DEF KInv, ServingApart
    <3> QED
      BY <3>1
  <2>5. fetches' < fetchRate'
    BY <1>1, <2>1 DEF KInv, ServingApart
  <2> QED
    BY <2>4, <2>5 DEF ServingApart
<1> QED
  BY <1>1, <1>2, <1>3 DEF KInv, Slow

LEMMA HitKnows ==
  ASSUME IInv, KInv, Hit
  PROVE  KInv'
<1> DEFINE w == First(HitLines)
<1>1. /\ Served /\ Serving /\ phase' = phase
      /\ UNCHANGED <<victimCache, pendReq, readyPermReq, pendPermReq, coherStates, busQueue>>
  BY DEF Hit, Served, Serving, below
<1>2. Touched(w) /\ Set[w] # NULL /\ Set[w].addr = block
  BY HitTouches
<1>3. /\ SetOf(block) \in SetNumbers /\ Set = cacheSets[SetOf(block)] /\ w \in Ways
  BY <1>1, <1>2, ServedIs DEF Touched
<1>4. \A a \in Blocks : Resident(a)' <=> Resident(a)
  <2> TAKE a \in Blocks
  <2>1. InLine(a)' <=> a = block \/ (InLine(a) /\ a # block)
    BY <1>1, <1>2, LineResidents
  <2>2. InLine(block)
    BY <1>2, <1>3 DEF InLine
  <2>3. InVictims(a)' <=> InVictims(a)
    BY <1>1 DEF InVictims
  <2> QED
    BY <2>1, <2>2, <2>3 DEF Resident
<1> HIDE DEF w
<1>p. PICK gone : gone = block
  OBVIOUS
<1>5. RequestsAgree' /\ StatesAgree'
  BY <1>1, <1>4, NothingAsked DEF KInv
<1>6. VictimsSettled'
  BY <1>1 DEF KInv, VictimsSettled, UnderWay
<1>7. \A s \in SetNumbers : \A i \in Ways :
        cacheSets[s][i] # NULL /\ ~(s = SetOf(block) /\ i = w)
          => cacheSets[s][i].addr \notin {block, gone}
  BY <1>2, <1>3, <1>p DEF IInv, Layout, InItsSet, LinesApart
<1>8. \A a \in Blocks \ {block, gone} : coherStates'[a] = coherStates[a]
  BY <1>1
<1>9. Served /\ phase' = phase /\ Touched(w)
  BY <1>1, <1>2
<1> QED
  BY <1>5, <1>6, <1>7, <1>8, <1>9, RequestKnows

LEMMA FillFreeKnows ==
  ASSUME IInv, KInv, FillFree
  PROVE  KInv' /\ ~Abort
<1> DEFINE w == First(FreeLines)
<1>1. Serving /\ NoHit /\ FreeLines # {}
  BY DEF FillFree, Serving
<1>2. VictimHits = {}
  <2>1. PICK i \in Ways : Set[i] = NULL
    BY <1>1 DEF FreeLines, Ways
  <2>2. Set = cacheSets[SetOf(block)]
    BY <1>1, ServedIs
  <2> QED
    BY <2>1, <2>2 DEF IInv, Layout, VictimsOut, VictimHits, Entries
<1>3. Served /\ phase' = phase /\ phase = "request"
  BY <1>1, <1>2 DEF FillFree, Serving
<1>4. ~Abort
  BY <1>3 DEF Abort
<1>5. /\ PermReq(Pr) /\ Touched(w) /\ Set[w] = NULL
      /\ UNCHANGED <<readyPermReq, pendPermReq, victimCache>>
  BY <1>4, FillFreeKeeps
<1> HIDE DEF w
<1>6. /\ Pr \in PendingRequests /\ Pr.addr = block /\ block \in Blocks
      /\ Set = cacheSets[SetOf(block)] /\ SetOf(block) \in SetNumbers
  BY <1>1, ServedIs
<1>7. ~Resident(block)
  BY <1>1, <1>2, NotThere
<1>8. coherStates[block] = "INVALID"
      /\ block \notin Addrs(readyPermReq) \cup Addrs(pendPermReq)
  BY <1>6, <1>7 DEF KInv, StatesAgree
<1>9. \A a \in Blocks : Resident(a)' <=> Resident(a) \/ a = block
  <2> TAKE a \in Blocks
  <2>1. InLine(a)' <=> a = block \/ InLine(a)
    BY <1>1, <1>5, LineResidents
  <2>2. InVictims(a)' <=> InVictims(a)
    BY <1>5 DEF InVictims
  <2> QED
    BY <2>1, <2>2 DEF Resident
<1> HIDE DEF Pr
<1>10. Addrs(readyPermReq)' = Addrs(readyPermReq) /\ Once(readyPermReq)'
  BY <1>5 DEF Addrs, Once, KInv, RequestsAgree
<1>11. RequestsAgree' /\ StatesAgree'
  BY <1>5, <1>6, <1>8, <1>9, <1>10, AskedAgree DEF KInv
<1>12. \A a \in Blocks \ {block} : coherStates'[a] = coherStates[a]
  BY <1>5, <1>6, <1>8, AskedWaits DEF KInv
<1>13. VictimsSettled'
  <2> SUFFICES ASSUME NEW e \in Entries, victimCache[e] # NULL
               PROVE  coherStates'[victimCache[e].addr] \notin MissStates \cup {"INVALID"}
    BY <1>5 DEF VictimsSettled, UnderWay
  <2>1. victimCache[e].addr \in Blocks \ {block}
    BY <1>7, VictimSet DEF Resident, InVictims
  <2> QED
    BY <1>12, <2>1 DEF KInv, VictimsSettled, UnderWay
<1>p. PICK gone : gone = block
  OBVIOUS
<1>14. \A s \in SetNumbers : \A i \in Ways :
         cacheSets[s][i] # NULL /\ ~(s = SetOf(block) /\ i = w)
           => cacheSets[s][i].addr \notin {block, gone}
  BY <1>7, <1>p DEF Resident, InLine, IInv, Layout, InItsSet
<1>15. \A a \in Blocks \ {block, gone} : coherStates'[a] = coherStates[a]
  BY <1>12, <1>p
<1>16. Served /\ phase' = phase /\ Touched(w)
  BY <1>3, <1>5
<1>17. KInv'
  BY <1>11, <1>13, <1>14, <1>15, <1>16, RequestKnows
<1> QED
  BY <1>4, <1>17

LEMMA ReplacingFacts ==
  ASSUME IInv, KInv, Replacing
  PROVE  LET v == Set[VictimIndex].addr
         IN  /\ Serving /\ Served /\ phase' = phase /\ Touched(VictimIndex)
             /\ v \in Blocks /\ v # block /\ InLine(v) /\ ~InVictims(v) /\ ~UnderWay(v)
             /\ ~InLine(block) /\ block \in Blocks /\ Pr \in PendingRequests /\ Pr.addr = block
             /\ \A s \in SetNumbers : \A i \in Ways :
                  cacheSets[s][i] # NULL /\ ~(s = SetOf(block) /\ i = VictimIndex)
                    => cacheSets[s][i].addr \notin {block, v}
             /\ \A a \in Blocks : InLine(a)' <=> a = block \/ (InLine(a) /\ a # v)
<1> DEFINE w == VictimIndex
           v == Set[w].addr
<1>1. /\ Serving /\ Served /\ phase' = phase /\ NoHit /\ FreeLines = {}
  BY DEF Replacing, Served, Serving
<1>2. Touched(w) /\ (\A i \in Ways : Set[i] # NULL) /\ w \in Ways
  BY ReplaceTouches DEF Touched
<1>3. /\ block \in Blocks /\ Pr \in PendingRequests /\ Pr.addr = block
      /\ Set = cacheSets[SetOf(block)] /\ SetOf(block) \in SetNumbers
  BY <1>1, ServedIs
<1>4. \A i \in Ways : /\ Set[i].addr \in Blocks /\ SetOf(Set[i].addr) = SetOf(block)
                      /\ Set[i].addr # block
  BY <1>1, <1>2, SetIs DEF NoHit
<1>5. ~UnderWay(v)
  BY <1>1, ReplacedSettled
<1>6. \A a \in Blocks : InLine(a)' <=> a = block \/ (InLine(a) /\ a # v)
  BY <1>1, <1>2, LineResidents
<1> HIDE DEF w
<1>7. v \in Blocks /\ v # block /\ SetOf(v) = SetOf(block)
  BY <1>2, <1>4
<1>8. InLine(v) /\ ~InLine(block)
  BY <1>2, <1>3, <1>4, <1>7 DEF InLine
<1>9. ~InVictims(v)
  BY <1>2, <1>3, <1>7 DEF InVictims, IInv, Layout, VictimsOut
<1>10. \A s \in SetNumbers : \A i \in Ways :
         cacheSets[s][i] # NULL /\ ~(s = SetOf(block) /\ i = w)
           => cacheSets[s][i].addr \notin {block, v}
  <2> SUFFICES ASSUME NEW s \in SetNumbers, NEW i \in Ways, cacheSets[s][i] # NULL,
                      ~(s = SetOf(block) /\ i = w)
               PROVE  cacheSets[s][i].addr \notin {block, v}
    OBVIOUS
  <2>1. CASE s = SetOf(block)
    BY <1>2, <1>3, <1>4, <2>1 DEF IInv, Layout, LinesApart
  <2>2. CASE s # SetOf(block)
    BY <1>7, <2>2 DEF IInv, Layout, InItsSet
  <2> QED
    BY <2>1, <2>2
<1> QED
  BY <1>1, <1>2, <1>3, <1>5, <1>6, <1>7, <1>8, <1>9, <1>10 DEF w

(* The line that leaves its set may be a victim.                           *)
LEMMA PlacedSettled ==
  ASSUME IInv, KInv, Replacing, NEW f, Placed(f), NEW gone,
         gone # Set[VictimIndex].addr,
         \A e \in Entries \ {f} : victimCache'[e] # NULL => victimCache'[e].addr # gone,
         \A a \in Blocks \ {block, gone} : coherStates'[a] = coherStates[a]
  PROVE  VictimsSettled'
<1> DEFINE v == Set[VictimIndex].addr
<1>1. v \in Blocks /\ v # block /\ ~UnderWay(v)
  BY ReplacingFacts
<1> HIDE DEF v
<1>2. gone # v
  BY DEF v
<1>3. /\ victimCache'[f] # NULL /\ victimCache'[f].addr = v
      /\ \A e \in Entries \ {f} : victimCache'[e] # NULL =>
           victimCache'[e] = victimCache[e] /\ victimCache[e].addr # block
  BY DEF Placed, v
<1> SUFFICES ASSUME NEW e \in Entries, victimCache'[e] # NULL
             PROVE  coherStates'[victimCache'[e].addr] \notin MissStates \cup {"INVALID"}
  BY DEF VictimsSettled, UnderWay
<1>4. CASE e = f
  BY <1>1, <1>2, <1>3, <1>4 DEF UnderWay
<1>5. CASE e # f
  <2>1. victimCache'[e] = victimCache[e] /\ victimCache[e] # NULL
        /\ victimCache[e].addr \notin {block, gone}
    BY <1>3, <1>5
  <2>2. victimCache[e].addr \in Blocks
    BY <2>1, VictimSet
  <2> QED
    BY <2>1, <2>2 DEF KInv, VictimsSettled, UnderWay
<1> QED
  BY <1>4, <1>5

LEMMA SwapKnows ==
  ASSUME IInv, KInv, Swap
  PROVE  KInv'
<1> DEFINE v == Set[VictimIndex].addr
<1>0. Replacing
  BY DEF Swap
<1>1. PICK f \in Entries : Placed(f)
  BY SwapKeeps
<1>2. /\ InVictims(block)
      /\ UNCHANGED <<pendReq, readyPermReq, pendPermReq, coherStates, busQueue>>
      /\ \A e \in Entries : victimCache[e] # NULL /\ victimCache[e].addr # block =>
           victimCache'[e] = victimCache[e]
  BY SwapKeeps DEF InVictims
<1>3. /\ Served /\ Serving /\ phase' = phase /\ Touched(VictimIndex)
      /\ v \in Blocks /\ v # block /\ InLine(v)
      /\ \A s \in SetNumbers : \A i \in Ways :
           cacheSets[s][i] # NULL /\ ~(s = SetOf(block) /\ i = VictimIndex)
             => cacheSets[s][i].addr \notin {block, v}
      /\ \A a \in Blocks : InLine(a)' <=> a = block \/ (InLine(a) /\ a # v)
  BY <1>0, ReplacingFacts
<1> HIDE DEF v
<1>4. ASSUME NEW a \in Blocks
      PROVE  InVictims(a)' <=> a = v \/ (InVictims(a) /\ a # block)
  <2>1. /\ victimCache'[f] # NULL /\ victimCache'[f].addr = v
        /\ \A e \in Entries \ {f} : victimCache'[e] # NULL =>
             victimCache'[e] = victimCache[e] /\ victimCache[e].addr # block
    BY <1>1 DEF Placed, v
  <2>2. InVictims(a)' <=> \E e \in Entries : victimCache'[e] # NULL /\ victimCache'[e].addr = a
    BY DEF InVictims
  <2>3. InVictims(a)' => a = v \/ (InVictims(a) /\ a # block)
    BY <2>1, <2>2 DEF InVictims
  <2>4. InVictims(a) /\ a # block => InVictims(a)'
    BY <1>2, <2>2 DEF InVictims
  <2>5. a = v => InVictims(a)'
    BY <2>1, <2>2
  <2> QED
    BY <2>3, <2>4, <2>5
<1>5. \A a \in Blocks : Resident(a)' <=> Resident(a)
  BY <1>2, <1>3, <1>4 DEF Resident
<1>6. RequestsAgree' /\ StatesAgree'
  BY <1>2, <1>5, NothingAsked DEF KInv
<1>p. PICK gone : gone = block
  OBVIOUS
<1>g. /\ \A a \in Blocks \ {block, gone} : coherStates'[a] = coherStates[a]
      /\ \A s \in SetNumbers : \A i \in Ways :
           cacheSets[s][i] # NULL /\ ~(s = SetOf(block) /\ i = VictimIndex)
             => cacheSets[s][i].addr \notin {block, gone}
  BY <1>3, <1>p, <1>2
<1>7. VictimsSettled'
  <2>1. \A e \in Entries \ {f} : victimCache'[e] # NULL => victimCache'[e].addr # gone
    BY <1>1, <1>p DEF Placed
  <2> QED
    <3>1. gone # Set[VictimIndex].addr
      BY <1>3, <1>p DEF v
    <3> QED
      BY <1>0, <1>1, <1>g, <2>1, <3>1, PlacedSettled
<1> QED
  BY <1>g, <1>3, <1>6, <1>7, RequestKnows

LEMMA SpillKnows ==
  ASSUME IInv, KInv, Spill
  PROVE  KInv'
<1> DEFINE v == Set[VictimIndex].addr
<1>0. Replacing /\ NoHit /\ VictimHits = {}
  BY DEF Spill, Replacing
<1>1. PICK f \in Entries : Placed(f) /\ victimCache[f] = NULL
  BY SpillKeeps
<1>2. /\ PermReq(Pr) /\ UNCHANGED <<readyPermReq, pendPermReq>>
      /\ \A e \in Entries : victimCache[e] # NULL => victimCache'[e] = victimCache[e]
  BY SpillKeeps
<1>3. /\ Served /\ Serving /\ phase' = phase /\ Touched(VictimIndex)
      /\ v \in Blocks /\ v # block /\ InLine(v)
      /\ block \in Blocks /\ Pr \in PendingRequests /\ Pr.addr = block
      /\ \A s \in SetNumbers : \A i \in Ways :
           cacheSets[s][i] # NULL /\ ~(s = SetOf(block) /\ i = VictimIndex)
             => cacheSets[s][i].addr \notin {block, v}
      /\ \A a \in Blocks : InLine(a)' <=> a = block \/ (InLine(a) /\ a # v)
  BY <1>0, ReplacingFacts
<1> HIDE DEF v, Pr
<1>4. ASSUME NEW a \in Blocks
      PROVE  InVictims(a)' <=> a = v \/ InVictims(a)
  <2>1. /\ victimCache'[f] # NULL /\ victimCache'[f].addr = v
        /\ \A e \in Entries \ {f} : victimCache'[e] # NULL =>
             victimCache'[e] = victimCache[e]
    BY <1>1 DEF Placed, v
  <2>2. InVictims(a)' <=> \E e \in Entries : victimCache'[e] # NULL /\ victimCache'[e].addr = a
    BY DEF InVictims
  <2> QED
    BY <1>2, <2>1, <2>2 DEF InVictims
<1>5. \A a \in Blocks : Resident(a)' <=> Resident(a) \/ a = block
  BY <1>3, <1>4 DEF Resident
<1>6. ~Resident(block)
  BY <1>0, <1>3, NotThere
<1>7. /\ coherStates[block] = "INVALID"
      /\ block \notin Addrs(readyPermReq) \cup Addrs(pendPermReq)
  BY <1>3, <1>6 DEF KInv, StatesAgree
<1>8. Addrs(readyPermReq)' = Addrs(readyPermReq) /\ Once(readyPermReq)'
  BY <1>2 DEF Addrs, Once, KInv, RequestsAgree
<1>9. RequestsAgree' /\ StatesAgree'
  BY <1>2, <1>3, <1>5, <1>7, <1>8, AskedAgree DEF KInv
<1>10. \A a \in Blocks \ {block} : coherStates'[a] = coherStates[a]
  BY <1>2, <1>3, <1>7, AskedWaits DEF KInv
<1>p. PICK gone : gone = block
  OBVIOUS
<1>g. /\ \A a \in Blocks \ {block, gone} : coherStates'[a] = coherStates[a]
      /\ \A s \in SetNumbers : \A i \in Ways :
           cacheSets[s][i] # NULL /\ ~(s = SetOf(block) /\ i = VictimIndex)
             => cacheSets[s][i].addr \notin {block, gone}
  BY <1>3, <1>p, <1>10
<1>11. VictimsSettled'
  <2>1. \A e \in Entries \ {f} : victimCache'[e] # NULL => victimCache'[e].addr # gone
    BY <1>1, <1>p DEF Placed
  <2> QED
    <3>1. gone # Set[VictimIndex].addr
      BY <1>3, <1>p DEF v
    <3> QED
      BY <1>0, <1>1, <1>g, <2>1, <3>1, PlacedSettled
<1> QED
  BY <1>g, <1>3, <1>9, <1>10, <1>11, RequestKnows

LEMMA SpillEvictKnows ==
  ASSUME IInv, KInv, SpillEvict
  PROVE  KInv'
<1> DEFINE v == Set[VictimIndex].addr
<1>0. Replacing /\ NoHit /\ VictimHits = {}
  BY DEF SpillEvict, Replacing
<1>1. PICK f \in Entries :
        /\ Placed(f) /\ victimCache[f] # NULL /\ InvlReq(Pr, victimCache[f].addr)
        /\ \A i \in Entries \ {f} : victimCache'[i] = victimCache[i]
  BY SpillEvictKeeps
<1>2. /\ Served /\ Serving /\ phase' = phase /\ Touched(VictimIndex)
      /\ v \in Blocks /\ v # block /\ InLine(v) /\ ~InVictims(v) /\ ~InLine(block)
      /\ block \in Blocks /\ Pr \in PendingRequests /\ Pr.addr = block
      /\ \A s \in SetNumbers : \A i \in Ways :
           cacheSets[s][i] # NULL /\ ~(s = SetOf(block) /\ i = VictimIndex)
             => cacheSets[s][i].addr \notin {block, v}
      /\ \A a \in Blocks : InLine(a)' <=> a = block \/ (InLine(a) /\ a # v)
  BY <1>0, ReplacingFacts
<1> HIDE DEF v, Pr
<1> PICK b \in Blocks : b = victimCache[f].addr
  BY <1>1, VictimSet
<1>3. InVictims(b) /\ ~UnderWay(b) /\ b # v
  BY <1>1, <1>2 DEF InVictims, KInv, VictimsSettled
<1>4. ~InLine(b)
  BY <1>1 DEF InLine, IInv, Layout, VictimsOut
<1>5. \A i \in Entries \ {f} : victimCache[i] # NULL => victimCache[i].addr # b
  BY <1>1 DEF IInv, Layout, VictimsApart
<1>6. ASSUME NEW a \in Blocks
      PROVE  InVictims(a)' <=> a = v \/ (InVictims(a) /\ a # b)
  <2>1. victimCache'[f] # NULL /\ victimCache'[f].addr = v
    BY <1>1 DEF Placed, v
  <2>2. InVictims(a)' <=> \E e \in Entries : victimCache'[e] # NULL /\ victimCache'[e].addr = a
    BY DEF InVictims
  <2> QED
    BY <1>1, <1>5, <2>1, <2>2 DEF InVictims
<1>7. ~Resident(block)
  BY <1>0, <1>2, NotThere
<1>8. \A a \in Blocks : Resident(a)' <=> (Resident(a) /\ a # b) \/ a = block
  BY <1>2, <1>3, <1>4, <1>6 DEF Resident
<1>9. /\ RequestsAgree' /\ StatesAgree'
      /\ \A a \in Blocks \ {b} : coherStates'[a] = coherStates[a]
  BY <1>1, <1>2, <1>3, <1>7, <1>8, EvictedAgree DEF KInv
<1>10. VictimsSettled'
  <2>1. \A e \in Entries \ {f} : victimCache'[e] # NULL => victimCache'[e].addr # b
    BY <1>1, <1>5
  <2> QED
    BY <1>0, <1>1, <1>3, <1>9, <2>1, PlacedSettled DEF v
<1>11. \A s \in SetNumbers : \A i \in Ways :
         cacheSets[s][i] # NULL /\ ~(s = SetOf(block) /\ i = VictimIndex)
           => cacheSets[s][i].addr \notin {block, b}
  BY <1>2, <1>4 DEF InLine, IInv, Layout, InItsSet
<1> QED
  BY <1>2, <1>9, <1>10, <1>11, RequestKnows

LEMMA EvictKnows ==
  ASSUME IInv, KInv, Evict
  PROVE  KInv'
<1>0. Replacing /\ NoHit /\ VictimHits = {} /\ ~useVictim
  BY DEF Evict, Replacing, VictimHits
<1>1. InvlReq(Pr, Set[VictimIndex].addr) /\ UNCHANGED victimCache
  BY EvictKeeps
<1> PICK v \in Blocks : v = Set[VictimIndex].addr
  BY EvictKeeps
<1>2. /\ Served /\ Serving /\ phase' = phase /\ Touched(VictimIndex)
      /\ v # block /\ InLine(v) /\ ~InVictims(v) /\ ~UnderWay(v)
      /\ block \in Blocks /\ Pr \in PendingRequests /\ Pr.addr = block
      /\ \A s \in SetNumbers : \A i \in Ways :
           cacheSets[s][i] # NULL /\ ~(s = SetOf(block) /\ i = VictimIndex)
             => cacheSets[s][i].addr \notin {block, v}
      /\ \A a \in Blocks : InLine(a)' <=> a = block \/ (InLine(a) /\ a # v)
  BY <1>0, ReplacingFacts
<1> HIDE DEF Pr
<1>3. \A e \in Entries : victimCache[e] = NULL
  BY <1>0 DEF IInv, Layout, VictimsOut
<1>4. \A a \in Blocks : ~InVictims(a) /\ ~InVictims(a)'
  BY <1>1, <1>3 DEF InVictims
<1>5. ~Resident(block)
  BY <1>0, <1>2, NotThere
<1>6. \A a \in Blocks : Resident(a)' <=> (Resident(a) /\ a # v) \/ a = block
  BY <1>2, <1>4 DEF Resident
<1>7. /\ RequestsAgree' /\ StatesAgree'
      /\ \A a \in Blocks \ {v} : coherStates'[a] = coherStates[a]
  BY <1>1, <1>2, <1>5, <1>6, EvictedAgree DEF KInv
<1>8. VictimsSettled'
  BY <1>1, <1>3 DEF VictimsSettled
<1> QED
  BY <1>2, <1>7, <1>8, RequestKnows

(* Steps that leave the cache alone.                                       *)
LEMMA CacheLeft ==
  ASSUME KInv, UNCHANGED <<arrays, lists, coherStates, busQueue>>
  PROVE  /\ RequestsAgree' /\ StatesAgree' /\ VictimsSettled'
         /\ \A a \in Blocks : UnderWay(a)' <=> UnderWay(a)
         /\ \A s \in SetNumbers : \A i \in Ways : NotBefore(s, i)' = NotBefore(s, i)
<1>1. UNCHANGED <<cacheSets, victimCache, pendReq, readyPermReq, pendPermReq, coherStates,
                  busQueue>>
  BY DEF arrays, lists
<1>2. \A a \in Blocks : Resident(a)' <=> Resident(a)
  BY <1>1 DEF Resident, InLine, InVictims
<1>3. RequestsAgree' /\ StatesAgree'
  BY <1>1, <1>2, NothingAsked DEF KInv
<1>4. VictimsSettled'
  BY <1>1 DEF KInv, VictimsSettled, UnderWay
<1> QED
  BY <1>1, <1>3, <1>4 DEF UnderWay, NotBefore

LEMMA FetchKnows ==
  ASSUME IInv, KInv, FetchMemory, Sets > 1
  PROVE  KInv'
<1>1. /\ phase' = "request" /\ serving = <<>> /\ fetches > 0 /\ fetches' = fetches - 1
      /\ UNCHANGED <<useRRIP, fetchRate, cacheSets, coherStates>>
      /\ UNCHANGED <<arrays, lists, coherStates, busQueue>>
  BY FetchKeeps DEF FetchMemory, options, arrays, below
<1>2. fetches \in Nat /\ fetchRate \in Nat /\ fetches <= fetchRate
  BY Sizes DEF IInv, TypeOK
<1>3. /\ RequestsAgree' /\ StatesAgree' /\ VictimsSettled'
      /\ \A s \in SetNumbers : \A i \in Ways : NotBefore(s, i)' = NotBefore(s, i)
  BY <1>1, CacheLeft
<1>4. ServingApart'
  <2>1. PICK x \in Accesses : serving' = BlocksOf(x)
    BY FetchKeeps
  <2>2. /\ serving' \in Seq(Blocks) /\ Len(serving') \in 1 .. 2
        /\ Len(serving') = 2 => serving'[2] = serving'[1] + 1
    BY <2>1, BlocksAre
  <2>3. ASSUME NEW k \in 1 .. Len(serving'), NEW l \in 1 .. Len(serving'),
               SetOf(serving'[k]) = SetOf(serving'[l]), k # l
        PROVE  FALSE
    <3>1. Len(serving') = 2 /\ ((k = 1 /\ l = 2) \/ (k = 2 /\ l = 1))
      <4>1. Len(serving') = 1 \/ Len(serving') = 2
        BY <2>2
      <4>2. \A m \in 1 .. 2 : m = 1 \/ m = 2
        OBVIOUS
      <4>3. \A m \in 1 .. 1 : m = 1
        OBVIOUS
      <4> QED
        BY <2>3, <4>1, <4>2, <4>3
    <3>2. serving'[1] \in Blocks
      <4>1. 1 \in 1 .. Len(serving')
        BY <3>1
      <4> QED
        BY <2>2, <4>1
    <3>3. serving'[1] \in Nat
      BY <3>2, BlocksAre
    <3>4. SetOf(serving'[1]) # SetOf(serving'[1] + 1)
      BY <3>3, NeighboursApart
    <3> QED
      BY <2>2, <2>3, <3>1, <3>4
  <2>4. fetches' < fetchRate'
    BY <1>1, <1>2
  <2> QED
    BY <2>3, <2>4 DEF ServingApart
<1>5. LinesInUse'
  <2> SUFFICES ASSUME NEW s \in SetNumbers, NEW i \in Ways, cacheSets[s][i] # NULL,
                      UnderWay(cacheSets[s][i].addr)
               PROVE  Uses(s)' >= 1 /\ (~useRRIP => Cardinality(NotBefore(s, i)') <= Uses(s)')
    BY <1>1 DEF LinesInUse, UnderWay
  <2>1. Uses(s) >= 1 /\ (~useRRIP => Cardinality(NotBefore(s, i)) <= Uses(s))
    BY <1>1 DEF KInv, LinesInUse
  <2>2. Uses(s) = fetchRate - fetches
    <3>1. ~ \E k \in 1 .. Len(serving) : SetOf(serving[k]) = s
      BY <1>1
    <3> QED
      BY <1>2, <3>1 DEF Uses
  <2>3. Uses(s)' \in {fetchRate - (fetches - 1), fetchRate - (fetches - 1) - 1}
    BY <1>1, <1>2 DEF Uses
  <2>4. IsFiniteSet(NotBefore(s, i))
    <3>1. NotBefore(s, i) \subseteq Ways
      BY DEF NotBefore
    <3>2. IsFiniteSet(Ways)
      BY FS_Interval, Sizes DEF Ways
    <3> QED
      BY <3>1, <3>2, FS_Subset
  <2>5. Cardinality(NotBefore(s, i)) \in Nat /\ NotBefore(s, i)' = NotBefore(s, i)
    BY <1>3, <2>4, FS_CardinalityType
  <2> QED
    BY <1>2, <2>1, <2>2, <2>3, <2>5
<1> QED
  BY <1>1, <1>3, <1>4, <1>5 DEF KInv, Slow

(* Between two calls of the processor nothing has to be kept.              *)
LEMMA Idle ==
  ASSUME serving' = <<>>, fetches' = 0
  PROVE  LinesInUse' /\ ServingApart'
<1>1. LinesInUse'
  BY DEF LinesInUse
<1>2. ServingApart'
  BY DEF ServingApart
<1> QED
  BY <1>1, <1>2

LEMMA PhaseKnows ==
  ASSUME IInv, KInv,
         RequestDone \/ EndTick \/ AllAsked \/ BusCounts \/ Stopped \/ UNCHANGED vars
  PROVE  KInv'
<1>1. /\ UNCHANGED <<arrays, lists, request, coherStates, busQueue, options>>
      /\ phase # "aborted" /\ phase' # "aborted"
  BY PhaseKeeps DEF RequestDone, EndTick, AllAsked, BusCounts, Stopped, vars, KInv, below
<1>2. /\ RequestsAgree' /\ StatesAgree' /\ VictimsSettled'
      /\ \A a \in Blocks : UnderWay(a)' <=> UnderWay(a)
      /\ \A s \in SetNumbers : \A i \in Ways : NotBefore(s, i)' = NotBefore(s, i)
  BY <1>1, CacheLeft
<1>3. UNCHANGED <<cacheSets, coherStates, serving, useRRIP, fetchRate>>
  BY <1>1 DEF arrays, request, options
<1>4. LinesInUse' /\ ServingApart'
  <2>1. CASE EndTick
    <3>1. serving' = <<>> /\ fetches' = 0
      BY <1>3, <2>1 DEF EndTick, IInv, CourseOK
    <3> QED
      BY <3>1, Idle
  <2>2. CASE ~EndTick
    <3>1. UNCHANGED fetches
      BY <2>2 DEF RequestDone, AllAsked, BusCounts, Stopped, vars, core
    <3>2. \A s : Uses(s)' = Uses(s)
      BY <1>3, <3>1 DEF Uses
    <3>3. LinesInUse'
      BY <1>2, <1>3, <3>1, <3>2 DEF KInv, LinesInUse, UnderWay
    <3>4. ServingApart'
      BY <1>3, <3>1 DEF KInv, ServingApart
    <3> QED
      BY <3>3, <3>4
  <2> QED
    BY <2>1, <2>2
<1> QED
  BY <1>1, <1>2, <1>3, <1>4 DEF KInv, Slow

LEMMA AskKnows ==
  ASSUME IInv, KInv, AskPermission
  PROVE  KInv'
<1> DEFINE pr == Head(readyPermReq)
<1>1. /\ PermReq(pr) /\ pr \in PendingRequests /\ readyPermReq # <<>>
      /\ readyPermReq' = Tail(readyPermReq) /\ serving = <<>> /\ fetches = 0
      /\ UNCHANGED <<phase, arrays, request, options, core, pendPermReq>>
  BY AskKeeps
<1>2. readyPermReq \in Seq(PendingRequests)
  BY DEF IInv, TypeOK
<1>3. /\ Once(readyPermReq') /\ Addrs(readyPermReq') = Addrs(readyPermReq) \ {pr.addr}
      /\ pr.addr \in Addrs(readyPermReq)
  BY <1>1, <1>2, TailIs DEF KInv, RequestsAgree
<1> HIDE DEF pr
<1>4. /\ Once(readyPermReq)' /\ Addrs(readyPermReq)' = Addrs(readyPermReq) \ {pr.addr}
  BY <1>3 DEF Once, Addrs
<1>5. pr.addr \in Blocks /\ pr.addr \notin Addrs(pendPermReq)
  BY <1>1, <1>3 DEF PendingRequests, KInv, RequestsAgree
<1>6. Resident(pr.addr) /\ coherStates[pr.addr] = "INVALID"
  BY <1>3, <1>5 DEF KInv, StatesAgree
<1>7. UNCHANGED <<cacheSets, victimCache, serving, fetches, useRRIP, fetchRate, phase>>
  BY <1>1 DEF arrays, request, options, core
<1>8. \A a \in Blocks : Resident(a)' <=> Resident(a) \/ a = pr.addr
  BY <1>6, <1>7 DEF Resident, InLine, InVictims
<1>9. RequestsAgree' /\ StatesAgree'
  BY <1>1, <1>4, <1>5, <1>6, <1>8, AskedAgree DEF KInv
<1>10. \A a \in Blocks \ {pr.addr} : coherStates'[a] = coherStates[a]
  BY <1>1, <1>6, AskedWaits DEF KInv
<1>11. VictimsSettled'
  <2> SUFFICES ASSUME NEW e \in Entries, victimCache[e] # NULL
               PROVE  coherStates'[victimCache[e].addr] \notin MissStates \cup {"INVALID"}
    BY <1>7 DEF VictimsSettled, UnderWay
  <2>1. victimCache[e].addr \in Blocks /\ ~UnderWay(victimCache[e].addr)
    BY VictimSet DEF KInv, VictimsSettled
  <2>2. victimCache[e].addr # pr.addr
    BY <1>6, <2>1 DEF UnderWay
  <2> QED
    BY <1>10, <2>1, <2>2 DEF UnderWay
<1>12. LinesInUse' /\ ServingApart'
  BY <1>1, <1>7, Idle
<1> QED
  BY <1>7, <1>9, <1>11, <1>12 DEF KInv, Slow

LEMMA DeliveryKnows ==
  ASSUME IInv, KInv, BusDelivers
  PROVE  KInv' /\ ~Abort
<1> DEFINE addr == Head(busQueue)
           snoop == SnoopStep("DATA", coherStates[addr])
<1>1. /\ busQueue \in Seq(Blocks) /\ busQueue # <<>>
      /\ pendReq \in Seq(PendingRequests) /\ coherStates \in [Blocks -> CoherenceStates]
  BY DEF IInv, TypeOK, BusCountsRequests, BusDelivers
<1>2. /\ addr \in Blocks /\ addr \in Addrs(pendReq)
      /\ Distinct(Tail(busQueue)) /\ Items(Tail(busQueue)) = Addrs(pendReq) \ {addr}
  <2>1. addr \in Blocks
    BY <1>1
  <2>2. Distinct(busQueue) /\ Items(busQueue) = Addrs(pendReq)
    BY DEF KInv, RequestsAgree, BusAgrees
  <2>3. /\ Distinct(Tail(busQueue)) /\ Items(Tail(busQueue)) = Items(busQueue) \ {addr}
        /\ addr \in Items(busQueue)
    BY <1>1, <2>2, TailBus
  <2> QED
    BY <2>1, <2>2, <2>3
<1> HIDE DEF addr
<1>3. coherStates[addr] \in MissStates
  BY <1>2 DEF KInv, StatesAgree
<1>4. /\ snoop.send = "NO_REQ" /\ snoop.ca = "DATA_RECV"
      /\ snoop.next \notin TransientStates \cup {"INVALID"}
  BY <1>3, MissEnds
<1>5. CallbackAsserts(snoop.ca, addr)
  <2>1. PICK i \in 1 .. Len(pendReq) : pendReq[i].addr = addr
    BY <1>2 DEF Addrs
  <2>2. i \in ForData(addr)
    BY <1>1, <2>1 DEF ForData
  <2> QED
    BY <1>4, <2>2 DEF CallbackAsserts
<1> HIDE DEF snoop
<1>6. ~Abort
  <2>1. phase' = "permissions"
    BY <1>4, <1>5 DEF BusDelivers, addr, snoop
  <2> QED
    BY <2>1 DEF Abort
<1>7. /\ CoherCallback(snoop.ca, addr) /\ fetches = 0 /\ serving = <<>>
      /\ coherStates' = [coherStates EXCEPT ![addr] = snoop.next]
      /\ busQueue' = Tail(busQueue) /\ phase' = "permissions"
      /\ UNCHANGED <<arrays, request, options, core>>
  BY <1>6, DeliveryKeeps DEF addr, snoop
<1>8. PICK i \in 1 .. Len(pendReq) : pendReq[i].addr = addr /\ pendReq' = Without(pendReq, i)
  <2>1. /\ \E i \in 1 .. Len(pendReq) : pendReq[i].addr = addr /\ pendReq' = Without(pendReq, i)
        /\ UNCHANGED <<readyPermReq, pendPermReq>>
    <3>1. /\ ForData(addr) # {} /\ pendReq' = Without(pendReq, First(ForData(addr)))
          /\ UNCHANGED <<readyPermReq, pendPermReq>>
      BY <1>4, <1>5, <1>7 DEF CoherCallback, CallbackAsserts
    <3>2. ForData(addr) \in SUBSET (1 .. Len(pendReq)) /\ Len(pendReq) \in Nat
      BY <1>1 DEF ForData
    <3>3. First(ForData(addr)) \in ForData(addr)
      BY <3>1, <3>2, FirstOf
    <3> QED
      BY <3>1, <3>2, <3>3 DEF ForData
  <2> QED
    BY <2>1
<1>9. UNCHANGED <<readyPermReq, pendPermReq>>
  BY <1>4, <1>7 DEF CoherCallback
<1>10. Once(pendReq') /\ Addrs(pendReq') = Addrs(pendReq) \ {addr}
  BY <1>1, <1>8, WithoutIs DEF KInv, RequestsAgree
<1>11. Once(pendReq)' /\ Addrs(pendReq)' = Addrs(pendReq) \ {addr}
  BY <1>10 DEF Once, Addrs
<1>12. /\ Addrs(readyPermReq)' = Addrs(readyPermReq) /\ Once(readyPermReq)'
       /\ Addrs(pendPermReq)' = Addrs(pendPermReq) /\ Once(pendPermReq)'
  BY <1>9 DEF Once, Addrs, KInv, RequestsAgree
<1>13. BusAgrees'
  <2>1. Distinct(busQueue') /\ Items(busQueue') = Addrs(pendReq) \ {addr}
    BY <1>2, <1>7
  <2>2. Distinct(busQueue)' /\ Items(busQueue)' = Items(busQueue')
    BY <2>1 DEF Distinct, Items
  <2> QED
    BY <1>11, <2>1, <2>2 DEF BusAgrees
<1>14. RequestsAgree'
  BY <1>11, <1>12, <1>13 DEF KInv, RequestsAgree
<1>15. /\ coherStates'[addr] \notin TransientStates \cup {"INVALID"}
       /\ \A a \in Blocks \ {addr} : coherStates'[a] = coherStates[a]
  BY <1>1, <1>2, <1>4, <1>7
<1>16. UNCHANGED <<cacheSets, victimCache, serving, fetches, useRRIP, fetchRate>>
  BY <1>7 DEF arrays, request, options, core
<1>17. \A a \in Blocks : Resident(a)' <=> Resident(a)
  BY <1>16 DEF Resident, InLine, InVictims
<1>18. StatesAgree'
  <2> SUFFICES ASSUME NEW a \in Blocks
               PROVE  /\ coherStates'[a] \in TransientStates => coherStates'[a] \in MissStates
                      /\ a \in Addrs(pendReq)' <=> coherStates'[a] \in TransientStates
                      /\ ~Resident(a)' => coherStates'[a] = "INVALID"
                      /\ a \in Addrs(readyPermReq)' \cup Addrs(pendPermReq)'
                           <=> Resident(a)' /\ coherStates'[a] = "INVALID"
    BY DEF StatesAgree
  <2>1. CASE a = addr
    <3>1. Resident(a) /\ a \notin Addrs(readyPermReq) \cup Addrs(pendPermReq)
      BY <1>3, <2>1, MissStatesAre DEF KInv, StatesAgree
    <3> QED
      BY <1>11, <1>12, <1>15, <1>17, <2>1, <3>1
  <2>2. CASE a # addr
    BY <1>11, <1>12, <1>15, <1>17, <2>2 DEF KInv, StatesAgree
  <2> QED
    BY <2>1, <2>2
<1>19. VictimsSettled'
  <2> SUFFICES ASSUME NEW e \in Entries, victimCache[e] # NULL
               PROVE  coherStates'[victimCache[e].addr] \notin MissStates \cup {"INVALID"}
    BY <1>16 DEF VictimsSettled, UnderWay
  <2>1. victimCache[e].addr \in Blocks /\ ~UnderWay(victimCache[e].addr)
    BY VictimSet DEF KInv, VictimsSettled
  <2> QED
    BY <1>15, <2>1, MissStatesAre DEF UnderWay
<1>20. LinesInUse' /\ ServingApart'
  BY <1>7, <1>16, Idle
<1> QED
  BY <1>6, <1>7, <1>14, <1>16, <1>18, <1>19, <1>20 DEF KInv, Slow

(* The processor is called back when no block is under way.                *)
LEMMA CallbacksKnow ==
  ASSUME IInv, KInv, Callbacks
  PROVE  KInv'
<1>1. /\ serving = <<>> /\ readyPermReq = <<>>
      /\ UNCHANGED <<cacheSets, victimCache, pendReq, readyPermReq, pendPermReq, serving,
                     coherStates, busQueue, useRRIP, fetchRate>>
  BY CallbacksKeeps DEF arrays, request, options
<1>2. /\ phase' = "processor" /\ pendingMem' = (pendingMem /\ ~CalledBack)
      /\ fetches' = IF pendingMem' THEN 0 ELSE fetchRate
  BY DEF Callbacks
<1>3. \A a \in Blocks : Resident(a)' <=> Resident(a)
  BY <1>1 DEF Resident, InLine, InVictims
<1>4. RequestsAgree' /\ StatesAgree'
  BY <1>1, <1>3, NothingAsked DEF KInv
<1>5. VictimsSettled'
  BY <1>1 DEF KInv, VictimsSettled, UnderWay
<1>6. ServingApart'
  BY <1>1 DEF ServingApart
<1>7. LinesInUse'
  <2>1. CASE pendingMem'
    BY <1>1, <1>2, <1>6, <2>1, Idle
  <2>2. CASE ~pendingMem'
    <3>1. pendReq = <<>> /\ pendPermReq = <<>>
      <4>1. pendingMem \in BOOLEAN
        BY DEF IInv, TypeOK
      <4>2. ~pendingMem \/ CalledBack
        BY <1>2, <2>2, <4>1
      <4> QED
        BY <4>2 DEF CalledBack, IInv, CourseOK
    <3>2. Addrs(pendReq) = {} /\ Addrs(readyPermReq) = {} /\ Addrs(pendPermReq) = {}
      BY <1>1, <3>1 DEF Addrs
    <3>3. \A a \in Blocks : Resident(a) => ~UnderWay(a)
      BY <3>2, MissStatesAre DEF KInv, StatesAgree, UnderWay
    <3>4. ASSUME NEW s \in SetNumbers, NEW i \in Ways, cacheSets[s][i] # NULL
          PROVE  ~UnderWay(cacheSets[s][i].addr)
      <4>1. cacheSets[s][i] \in CacheLines
        BY TypeParts DEF IInv, TypeArrays
      <4>2. cacheSets[s][i].addr \in Blocks
        BY <3>4, <4>1, LineIs
      <4>3. Resident(cacheSets[s][i].addr)
        BY <3>4 DEF Resident, InLine, IInv, Layout, InItsSet
      <4> QED
        BY <3>3, <4>2, <4>3
    <3> QED
      BY <1>1, <3>4 DEF LinesInUse, UnderWay
  <2> QED
    BY <2>1, <2>2
<1> QED
  BY <1>1, <1>2, <1>4, <1>5, <1>6, <1>7 DEF KInv, Slow

(* An access fits in one block or in two of different sets, and no more    *)
(* operations are under way than a set keeps lines.                        *)
Spaced == Sets > 1 /\ \A c \in Configurations : Slow(c.useRRIP, c.fetchRate)

LEMMA NextKnows ==
  ASSUME Spaced, IInv, KInv, [Next]_vars
  PROVE  KInv'
<1>1. CASE FetchMemory
  BY <1>1, FetchKnows DEF Spaced
<1>2. CASE CacheRequest
  BY <1>2, HitKnows, FillFreeKnows, SwapKnows, SpillKnows, SpillEvictKnows, EvictKnows
     DEF CacheRequest
<1>3. CASE RequestDone \/ EndTick \/ AllAsked \/ BusCounts \/ Stopped \/ UNCHANGED vars
  BY <1>3, PhaseKnows
<1>4. CASE BusDelivers \/ AskPermission \/ Callbacks
  BY <1>4, DeliveryKnows, AskKnows, CallbacksKnow
<1> QED
  BY <1>1, <1>2, <1>3, <1>4 DEF Next, Tick

LEMMA InitKnows ==
  ASSUME Spaced, Init
  PROVE  KInv
<1>1. phase # "aborted" /\ Slow(useRRIP, fetchRate)
  BY DEF Init, Spaced
<1>2. /\ serving = <<>> /\ fetches = 0 /\ pendReq = <<>> /\ readyPermReq = <<>>
      /\ pendPermReq = <<>> /\ busQueue = <<>>
      /\ \A s \in SetNumbers : \A i \in Ways : cacheSets[s][i] = NULL
      /\ \A e \in Entries : victimCache[e] = NULL
      /\ \A a \in Blocks : coherStates[a] = "INVALID"
  BY DEF Init, SetNumbers, Ways, Entries
<1>3. RequestsAgree
  BY <1>2 DEF RequestsAgree, BusAgrees, Once, Addrs, Distinct, Items
<1>4. StatesAgree
  <2>1. \A a \in Blocks : ~Resident(a)
    <3>1. \A a \in Blocks : SetOf(a) \in SetNumbers
      BY BlocksAre, InSetNumbers
    <3> QED
      BY <1>2, <3>1 DEF Resident, InLine, InVictims
  <2>2. Addrs(pendReq) = {} /\ Addrs(readyPermReq) = {} /\ Addrs(pendPermReq) = {}
    BY <1>2 DEF Addrs
  <2> QED
    BY <1>2, <2>1, <2>2, MissStatesAre DEF StatesAgree
<1>5. VictimsSettled /\ LinesInUse /\ ServingApart
  BY <1>2 DEF VictimsSettled, LinesInUse, ServingApart
<1> QED
  BY <1>1, <1>3, <1>4, <1>5 DEF KInv

LEMMA KnownInvariant ==
  ASSUME Spaced
  PROVE  Spec => [](IInv /\ KInv)
<1>1. Init => IInv /\ KInv
  BY InitIInv, InitKnows
<1>2. IInv /\ KInv /\ [Next]_vars => (IInv /\ KInv)'
  BY NextKeeps, NextKnows
<1> QED
  BY <1>1, <1>2, PTL DEF Spec

(* NoAssertionFails: the assertions of cacheRequest and coherCallback hold *)
(* and no list is searched past its end.                                   *)
THEOREM CacheNoAssertionFails ==
  ASSUME Spaced
  PROVE  Spec => []NoAssertionFails
<1>1. KInv => NoAssertionFails
  BY DEF KInv, NoAssertionFails
<1> QED
  BY <1>1, KnownInvariant, PTL

LEMMA AskingOnce ==
  ASSUME NEW list, Once(list), NEW a
  PROVE  Cardinality(Asking(list, a)) = IF a \in Addrs(list) THEN 1 ELSE 0
<1>1. \A i, j \in Asking(list, a) : i = j
  BY DEF Asking, Once
<1>2. Asking(list, a) # {} <=> a \in Addrs(list)
  BY DEF Asking, Addrs
<1>3. CASE a \in Addrs(list)
  BY <1>1, <1>2, <1>3, AtMostOne
<1>4. CASE a \notin Addrs(list)
  BY <1>2, <1>4, FS_EmptySet
<1> QED
  BY <1>3, <1>4

(* CoherenceKnows: every block that is in the cache has permission or      *)
(* exactly one request that will ask for it or waits for it.               *)
THEOREM CacheCoherenceKnows ==
  ASSUME Spaced
  PROVE  Spec => []CoherenceKnows
<1>1. ASSUME IInv, KInv PROVE CoherenceKnows
  <2> SUFFICES ASSUME NEW a \in Blocks
               PROVE  LET state   == coherStates[a]
                          waiting == Cardinality(Asking(pendReq, a))
                          evicts  == Cardinality(Asking(readyPermReq, a))
                                     + Cardinality(Asking(pendPermReq, a))
                      IN  /\ waiting = (IF state \in TransientStates THEN 1 ELSE 0)
                          /\ waiting = Cardinality({i \in 1 .. Len(busQueue) : busQueue[i] = a})
                          /\ Holding(a) = {} => state = "INVALID" /\ evicts = 0
                          /\ Holding(a) # {} =>
                               evicts = (IF state = "INVALID" THEN 1 ELSE 0)
    BY DEF CoherenceKnows
  <2> DEFINE onBus == {i \in 1 .. Len(busQueue) : busQueue[i] = a}
  <2>1. /\ Cardinality(Asking(pendReq, a)) = IF a \in Addrs(pendReq) THEN 1 ELSE 0
        /\ Cardinality(Asking(readyPermReq, a)) = IF a \in Addrs(readyPermReq) THEN 1 ELSE 0
        /\ Cardinality(Asking(pendPermReq, a)) = IF a \in Addrs(pendPermReq) THEN 1 ELSE 0
    BY <1>1, AskingOnce DEF KInv, RequestsAgree
  <2>2. Cardinality(onBus) = IF a \in Addrs(pendReq) THEN 1 ELSE 0
    <3>1. /\ \A i, j \in onBus : i = j
          /\ onBus # {} <=> a \in Addrs(pendReq)
      BY <1>1 DEF KInv, RequestsAgree, BusAgrees, Distinct, Items
    <3> HIDE DEF onBus
    <3> QED
      BY <3>1, AtMostOne, FS_EmptySet
  <2>3. /\ a \in Addrs(pendReq) <=> coherStates[a] \in TransientStates
        /\ Holding(a) = {} => /\ coherStates[a] = "INVALID"
                              /\ a \notin Addrs(readyPermReq) \cup Addrs(pendPermReq)
        /\ Holding(a) # {} =>
             (a \in Addrs(readyPermReq) \cup Addrs(pendPermReq) <=> coherStates[a] = "INVALID")
    BY <1>1, HeldOnce DEF KInv, StatesAgree
  <2>4. ~(a \in Addrs(readyPermReq) /\ a \in Addrs(pendPermReq))
    BY <1>1 DEF KInv, RequestsAgree
  <2> QED
    BY <2>1, <2>2, <2>3, <2>4
<1> QED
  BY <1>1, KnownInvariant, PTL
=============================================================================
