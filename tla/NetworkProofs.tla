--------------------------- MODULE NetworkProofs ----------------------------
(* The networks: types on the line, the ring and the mesh under every      *)
(* scheme, and the safety of the line under MI and MSI, coherence included,*)
(* for every number of processors, blocks and operations and every latency.*)
(* At the end, the routes of a message on the line and the mesh (Routing). *)
EXTENDS MCNetwork, Routing, CoresProofs, Numbers, FiniteSetTheorems, SequenceTheorems

(* The mesh: the rows are full but for the last one, and the last one is   *)
(* not empty.                                                              *)
LEMMA MeshShape ==
  /\ Cols \in Nat /\ Cols > 1 /\ LastRow \in 1 .. Cols
  /\ FullRows \in Nat /\ FullRows > 0
  /\ FullRows * Cols + LastRow = Size
<1>1. Size \in Nat /\ Size > 2
  BY ProcessorAssumption, TopologyAssumption DEF Size
<1> DEFINE Enough == {c \in 1 .. Size : c * c >= Size}
           Fits(c) == c \in 1 .. Size /\ c * c >= Size /\ (c - 1) * (c - 1) < Size
<1>2. Size \in Enough
  <2>1. Size * Size >= Size
    BY <1>1
  <2> QED
    BY <1>1, <2>1
<1>3. PICK c \in Enough : \A d \in Enough : c <= d
  <2>1. Enough \subseteq Nat /\ Enough # {}
    BY <1>1, <1>2
  <2> QED
    BY <2>1, SmallestOf
<1>4. Fits(c)
  <2>1. CASE c = 1
    BY <1>1, <2>1
  <2>2. CASE c # 1
    <3>1. c - 1 \in 1 .. Size /\ ~(c <= c - 1)
      BY <1>1, <1>3, <2>2
    <3>2. c - 1 \notin Enough
      BY <1>3, <3>1
    <3>3. (c - 1) * (c - 1) \in Int
      OBVIOUS
    <3> QED
      BY <1>1, <3>1, <3>2, <3>3
  <2> QED
    BY <2>1, <2>2
<1>5. Fits(Cols)
  <2>1. Cols = CHOOSE x \in 1 .. Size : x * x >= Size /\ (x - 1) * (x - 1) < Size
    BY DEF Cols
  <2> QED
    BY <1>4, <2>1
<1>6. Cols \in Nat /\ Cols > 1
  <2>1. Cols = 1 => Cols * Cols = 1
    OBVIOUS
  <2> QED
    BY <1>1, <1>5, <2>1
<1>7. /\ Size \div Cols \in Nat /\ Size % Cols \in 0 .. Cols - 1
      /\ Size = (Size \div Cols) * Cols + (Size % Cols)
  BY <1>1, <1>6, Division
<1>8. LastRow \in 1 .. Cols
  BY <1>6, <1>7 DEF LastRow
<1> DEFINE q == Size \div Cols
<1>9. CASE Size % Cols = 0
  <2>1. FullRows = q - 1 /\ LastRow = Cols /\ Size = q * Cols
    BY <1>9, <1>6, <1>7 DEF FullRows, LastRow
  <2>2. q # 0
    BY <1>1, <1>6, <2>1
  <2>3. q # 1
    <3> SUFFICES ASSUME q = 1 PROVE FALSE
      OBVIOUS
    <3>1. Size = Cols
      BY <1>6, <2>1
    <3>2. (Size - 1) * (Size - 1) >= 2 * (Size - 1)
      BY <1>1
    <3> QED
      BY <1>1, <1>5, <3>1, <3>2
  <2>4. (q - 1) * Cols + Cols = q * Cols
    BY <1>6, <1>7
  <2>5. FullRows * Cols + LastRow = Size
    BY <2>1, <2>4
  <2>6. q \in Nat
    BY <1>7
  <2> HIDE DEF q
  <2> QED
    BY <1>6, <1>8, <2>1, <2>2, <2>3, <2>5, <2>6
<1>10. CASE Size % Cols # 0
  <2>1. FullRows = q /\ LastRow = Size % Cols
    BY <1>10 DEF FullRows, LastRow
  <2>2. q # 0
    <3> SUFFICES ASSUME q = 0 PROVE FALSE
      OBVIOUS
    <3>1. Size < Cols
      BY <1>6, <1>7
    <3>2. (Cols - 1) * (Cols - 1) >= 2 * (Cols - 1)
      BY <1>1, <1>6, <3>1
    <3> QED
      BY <1>1, <1>5, <1>6, <3>1, <3>2
  <2> QED
    BY <1>6, <1>7, <1>8, <2>1, <2>2
<1> QED
  BY <1>6, <1>8, <1>9, <1>10

(* Every link joins two different nodes.                                   *)
LEMMA LinkEnds ==
  /\ NumLinks \in Nat \ {0}
  /\ \A l \in LinkIds : Proc1(l) \in Nodes /\ Proc2(l) \in Nodes /\ Proc1(l) # Proc2(l)
<1>1. ProcessorCount \in Nat /\ ProcessorCount > 1
  BY ProcessorAssumption, TopologyAssumption
<1>2. CASE Topology = "line"
  BY <1>1, <1>2 DEF NumLinks, LinkIds, Proc1, Proc2, Nodes
<1>3. CASE Topology = "ring"
  BY <1>1, <1>3 DEF NumLinks, LinkIds, Proc1, Proc2, Nodes
<1>4. CASE Topology = "mesh"
  <2> DEFINE C == Cols
             F == FullRows
             R == LastRow
  <2>1. /\ C \in Nat /\ C > 1 /\ R \in 1 .. C /\ F \in Nat /\ F > 0
        /\ F * C + R = ProcessorCount + 1
    BY MeshShape DEF Size
  <2>2. /\ RowLinks = (C - 1) * F + (R - 1) /\ ColLinks = C * (F - 1) + R
        /\ NumLinks = RowLinks + ColLinks
    BY <1>4 DEF RowLinks, ColLinks, NumLinks
  <2> HIDE DEF C, F, R
  <2>3. (C - 1) * F \in Nat /\ C * (F - 1) \in Nat /\ C * F \in Nat /\ F * C = C * F
    <3>1. C - 1 \in Nat /\ F - 1 \in Nat
      BY <2>1
    <3> QED
      BY <2>1, <3>1
  <2>4. RowLinks \in Nat /\ ColLinks \in Nat /\ ColLinks > 0 /\ NumLinks \in Nat \ {0}
    BY <2>1, <2>2, <2>3
  <2>5. C * (F - 1) + C = C * F
    BY <2>1
  <2>6. ASSUME NEW l \in LinkIds
        PROVE  Proc1(l) \in Nodes /\ Proc2(l) \in Nodes /\ Proc1(l) # Proc2(l)
    <3>1. l \in Nat /\ l < RowLinks + ColLinks
      BY <2>2, <2>4 DEF LinkIds
    <3>2. CASE l < RowLinks
      <4> DEFINE q == l \div (C - 1)
                 r == l % (C - 1)
      <4>1. C - 1 \in Nat \ {0}
        BY <2>1
      <4>2. q \in Nat /\ r \in 0 .. C - 2 /\ l = q * (C - 1) + r
        <5>1. l \div (C - 1) \in Nat /\ l % (C - 1) \in 0 .. (C - 1) - 1
              /\ l = (l \div (C - 1)) * (C - 1) + (l % (C - 1))
          BY <3>1, <4>1, Division
        <5> QED
          BY <2>1, <5>1
      <4>3. Proc1(l) = q * C + r /\ Proc2(l) = q * C + r + 1
        BY <1>4, <3>2 DEF Proc1, Proc2, C
      <4> HIDE DEF q, r
      <4>4. q * C \in Nat /\ q * (C - 1) \in Nat /\ F * (C - 1) = (C - 1) * F
        BY <2>1, <4>1, <4>2
      <4>5. q * C + r + 1 < ProcessorCount + 1
        <5>1. CASE q < F
          <6>1. q * C + C <= F * C
            BY <2>1, <4>2, <5>1, MultipleOrder
          <6> QED
            BY <2>1, <2>3, <4>2, <4>4, <6>1
        <5>2. CASE q = F
          <6>1. r < R - 1
            BY <2>1, <2>2, <2>3, <3>1, <3>2, <4>2, <4>4, <5>2
          <6> QED
            BY <2>1, <2>3, <4>2, <4>4, <5>2, <6>1
        <5>3. CASE q > F
          <6>1. F * (C - 1) + (C - 1) <= q * (C - 1)
            BY <2>1, <4>1, <4>2, <5>3, MultipleOrder
          <6> QED
            BY <2>1, <2>2, <2>3, <3>1, <3>2, <4>2, <4>4, <6>1
        <5> QED
          BY <2>1, <4>2, <5>1, <5>2, <5>3
      <4> QED
        BY <1>1, <4>2, <4>3, <4>4, <4>5 DEF Nodes
    <3>3. CASE ~(l < RowLinks)
      <4>1. Proc1(l) = l - RowLinks /\ Proc2(l) = l - RowLinks + C
        BY <1>4, <3>3 DEF Proc1, Proc2, C
      <4> QED
        BY <1>1, <2>1, <2>2, <2>3, <2>4, <2>5, <3>1, <3>3, <4>1 DEF Nodes
    <3> QED
      BY <3>2, <3>3
  <2> QED
    BY <2>4, <2>6
<1> QED
  BY <1>2, <1>3, <1>4, TopologyAssumption
----------------------------------------------------------------------------
(* Type correctness.  A broadcast and a request to the memory come from a  *)
(* processor, and only the first has a number that is kept.                *)
Good == {m \in Messages : /\ IsBroadcast(m) => m.pSrc \in Procs /\ m.msgNum \in Nat
                          /\ m.brt = "MEMORY" => m.pSrc \in Procs}
Queues == [LinkIds -> [Nodes -> Seq(Good)]]
WellFormed == pendingReq \in [LinkIds -> Good \cup {NULL}] /\ linkQueue \in Queues

(* The type invariant without the cores.                                   *)
TypeLinks ==
  /\ countDown \in [LinkIds -> 0 .. DRAM_FETCH_TICKS]
  /\ p1Sent \in [LinkIds -> BOOLEAN]
TypeActive ==
  /\ activeRequests \in [Procs -> SUBSET ActiveEntries]
  /\ globalMsgCount \in Nat
  /\ last_msgs \in [Nodes -> [Procs -> Nat]]
TypeMemory ==
  /\ memoryRequests \in Seq(MemRequests)
  /\ memoryCountdown \in 0 .. DRAM_FETCH_TICKS
  /\ memRequest \in MemRequests \cup {NULL}
  /\ memCountDown \in 0 .. DRAM_FETCH_TICKS
TypePhase ==
  phase = "interconnect" =>
    turn \in 0 .. (IF Topology = "line" THEN NumLinks - 1 ELSE NumLinks)

Typed == CoresTypeOK /\ TypePhase /\ WellFormed /\ TypeLinks /\ TypeActive /\ TypeMemory

LEMMA TypedIsTypeOK == Typed => TypeOK
<1> SUFFICES ASSUME Typed PROVE TypeOK
  OBVIOUS
<1>1. Good \subseteq Messages
  BY DEF Good
<1>2. pendingReq \in [LinkIds -> Messages \cup {NULL}]
  BY <1>1 DEF Typed, WellFormed
<1>3. \A l \in LinkIds, n \in Nodes : linkQueue[l][n] \in Seq(Messages)
  BY <1>1 DEF Typed, WellFormed, Queues
<1>4. linkQueue \in [LinkIds -> [Nodes -> Seq(Messages)]]
  BY <1>3 DEF Typed, WellFormed, Queues
<1> QED
  BY <1>2, <1>4 DEF Typed, TypePhase, TypeLinks, TypeActive, TypeMemory, TypeOK

LEMMA MemoryIsNode ==
  /\ Memory \in Nodes /\ Memory \notin Procs
  /\ \A n \in Nodes : n # Memory => n \in Procs
  /\ Procs \subseteq Nodes /\ Procs \subseteq Nat /\ 0 \in Procs
  /\ ProcessorCount \in Nat /\ ProcessorCount > 1
BY ProcessorAssumption, TopologyAssumption DEF Memory, Nodes, Procs

(* Whatever the scheme, a cache answers with an ack or not at all.         *)
LEMMA SnoopSends ==
  ASSUME NEW brt, NEW st \in CoherenceStates
  PROVE  SnoopStep(brt, st).send \in {"NO_REQ", "ACK", "DATA", "SHARED", "SHARED_DATA"}
  BY SchemeAssumption
  DEF Schemes, CoherenceStates, SnoopStep, SnoopMI, SnoopMSI, SnoopMESI,
      SnoopMOESI, SnoopMESIF, SnoopOwner, SnoopWritePending, Ack, AckRecv,
      AckInval, AckFor, Snooped, Unsupported

(* A miss is broadcast, or nothing is sent.                                *)
LEMMA PermSends ==
  ASSUME NEW isRead \in BOOLEAN, NEW st \in CoherenceStates
  PROVE  CacheStep(isRead, st).send \in {"NO_REQ", "BUSRD", "BUSWR"}
  BY SchemeAssumption
  DEF Schemes, CoherenceStates, CacheStep, CacheMI, CacheMSI, CacheMESI,
      CacheMOESI, CacheMESIF, CacheShared, Perm, Wait, Miss

LEMMA EnqueuedType ==
  ASSUME NEW queue \in Queues, NEW m \in Good, NEW ls
  PROVE  Enqueued(queue, m, ls) \in Queues
<1>1. m.procNum \in Nodes
  BY DEF Good, Messages
<1>2. \A l \in LinkIds : Append(queue[l][m.procNum], m) \in Seq(Good)
  BY <1>1 DEF Queues
<1>3. \A l \in LinkIds : [queue[l] EXCEPT ![m.procNum] = Append(@, m)] \in [Nodes -> Seq(Good)]
  BY <1>2 DEF Queues
<1> QED
  BY <1>3 DEF Queues, Enqueued

LEMMA SentType ==
  ASSUME NEW queue \in Queues, NEW brt \in BusReqTypes, NEW a \in Addrs,
         NEW p \in Nodes, NEW dest \in Nodes \cup {-1}, NEW num \in Int,
         brt \in {"BUSRD", "BUSWR"} => p \in Procs /\ num \in Nat,
         brt = "MEMORY" => p \in Procs
  PROVE  Sent(queue, brt, a, p, dest, num) \in Queues
<1> DEFINE m == [brt |-> brt, addr |-> a, procNum |-> p, pSrc |-> p, pDest |-> dest,
                 msgNum |-> num]
<1>1. m \in Good
  BY DEF Good, Messages, IsBroadcast
<1> HIDE DEF m
<1>2. Sent(queue, brt, a, p, dest, num) =
        Enqueued(queue, m, IF dest = -1 THEN BroadcastLinks(p) ELSE {FindLink(p, dest)})
  BY DEF Sent, m
<1> QED
  BY <1>1, <1>2, EnqueuedType

LEMMA TypedInit == Init => Typed
<1> SUFFICES ASSUME Init PROVE Typed
  OBVIOUS
<1>1. CoresTypeOK
  <2>1. MaxOps \in 0 .. MaxOps /\ 0 \in Procs
    BY MemoryIsNode, MaxOpsAssumption
  <2>2. coherStates \in [Procs -> [Addrs -> CoherenceStates]]
    BY DEF Init, CoresInit, CoherenceStates
  <2>3. /\ pendingBranch \in [Procs -> 0 .. 1]
        /\ memOpTag \in [Procs -> Nat]
        /\ opsLeft \in [Procs -> 0 .. MaxOps]
        /\ pendingMem \in [Procs -> BOOLEAN]
    BY <2>1 DEF Init, CoresInit
  <2> QED
    BY <2>2, <2>3 DEF Init, CoresInit, CoresTypeOK, Phases
<1>2. TypePhase /\ TypeMemory
  BY TicksAssumption DEF Init, CoresInit, TypePhase, TypeMemory
<1>3. TypeLinks /\ TypeActive
  BY TicksAssumption DEF Init, TypeLinks, TypeActive
<1>4. WellFormed
  BY DEF Init, WellFormed, Queues
<1> QED
  BY <1>1, <1>2, <1>3, <1>4 DEF Typed

LEMMA TypedCrash == Typed /\ Crash => Typed'
  BY DEF Crash, Abort, Typed, CoresTypeOK, TypePhase, WellFormed, TypeLinks, TypeActive,
         TypeMemory, coreVars, linkVars, activeVars, memVars, Phases

(* The end of a tick of the links, and one link further.                   *)
LEMMA TypedGoto ==
  ASSUME CoresTypeOK, UNCHANGED coreVars, NEW next \in {"interconnect", "cache"}, Goto(next)
  PROVE  CoresTypeOK' /\ TypePhase'
<1>1. TypePhase'
  BY LinkEnds DEF Goto, TypePhase
<1> QED
  BY <1>1 DEF Goto, CoresTypeOK, coreVars, Phases

LEMMA TypedNextLink ==
  ASSUME CoresTypeOK, TypePhase, Tick, NextLink
  PROVE  /\ phase' \in {"interconnect", "cache"} /\ turn' \in Nat /\ progress' \in BOOLEAN
         /\ TypePhase' /\ turn \in LinkIds
<1>1. turn \in Nat /\ turn < NumLinks /\ NumLinks \in Nat
  BY LinkEnds DEF Tick, CoresTypeOK
<1>2. turn \in LinkIds
  BY <1>1 DEF LinkIds
<1>3. CASE Topology = "line" /\ turn = NumLinks - 1
  BY <1>1, <1>2, <1>3 DEF NextLink, Goto, CoresTypeOK, TypePhase
<1>4. CASE ~(Topology = "line" /\ turn = NumLinks - 1)
  BY <1>1, <1>2, <1>4 DEF NextLink, Tick, CoresTypeOK, TypePhase
<1> QED
  BY <1>3, <1>4

(* The message that arrives, and where.                                    *)
LEMMA ArrivingType ==
  ASSUME Typed, Arriving
  PROVE  /\ turn \in LinkIds /\ Message \in Good /\ Here \in Nodes
         /\ Message \in Messages
         /\ [Message EXCEPT !.procNum = Here] \in Good
<1>1. turn \in LinkIds
  BY LinkEnds DEF Arriving, Tick, Typed, CoresTypeOK, LinkIds
<1>2. Message \in Good
  BY <1>1 DEF Arriving, Message, Typed, WellFormed
<1>3. Here \in Nodes
  BY <1>1, LinkEnds DEF Here, Other
<1>4. [Message EXCEPT !.procNum = Here] \in Good
  BY <1>2, <1>3 DEF Good, Messages, IsBroadcast
<1> QED
  BY <1>1, <1>2, <1>3, <1>4 DEF Good

LEMMA ForwardedType ==
  ASSUME Typed, Arriving
  PROVE  Forwarded \in Queues
<1>1. linkQueue \in Queues /\ [Message EXCEPT !.procNum = Here] \in Good
  BY ArrivingType DEF Typed, WellFormed
<1> QED
  BY <1>1, EnqueuedType DEF Forwarded

LEMMA LinkFreeType ==
  ASSUME Typed, Arriving, NEW ticks \in 0 .. DRAM_FETCH_TICKS, LinkFree(ticks)
  PROVE  /\ pendingReq' \in [LinkIds -> Good \cup {NULL}]
         /\ TypeLinks' /\ TypePhase' /\ globalMsgCount' = globalMsgCount
         /\ phase' \in Phases /\ phase' # "processor"
         /\ turn' \in Nat /\ progress' \in BOOLEAN
<1>1. /\ phase' \in {"interconnect", "cache"} /\ turn' \in Nat /\ progress' \in BOOLEAN
      /\ TypePhase'
  BY TypedNextLink DEF Typed, Arriving, LinkFree
<1>2. pendingReq' \in [LinkIds -> Good \cup {NULL}]
  BY DEF Typed, WellFormed, LinkFree
<1>3. TypeLinks'
  BY DEF Typed, TypeLinks, LinkFree
<1> QED
  BY <1>1, <1>2, <1>3 DEF LinkFree, Phases

LEMMA SeenType ==
  ASSUME Typed, Arriving, Seen
  PROVE  last_msgs' \in [Nodes -> [Procs -> Nat]]
<1>1. Message \in Good /\ Here \in Nodes
  BY ArrivingType
<1>2. IsBroadcast(Message) => Message.pSrc \in Procs /\ Message.msgNum \in Nat
  BY <1>1 DEF Good
<1> QED
  BY <1>1, <1>2 DEF Seen, Typed, TypeActive

(* A step that leaves the cores alone up to the place in the tick.         *)
LEMMA CoresSame ==
  ASSUME CoresTypeOK, UNCHANGED coreVars, phase' \in Phases, phase' # "processor",
         turn' \in Nat, progress' \in BOOLEAN
  PROVE  CoresTypeOK'
  BY DEF CoresTypeOK, coreVars

LEMMA TypedMemoryTick == Typed /\ MemoryTick => Typed'
<1> SUFFICES ASSUME Typed, MemoryTick PROVE Typed'
  OBVIOUS
<1>1. CoresTypeOK' /\ TypePhase'
  BY TypedGoto DEF MemoryTick, Typed
<1>2. TypeActive' /\ TypeLinks'
  BY DEF MemoryTick, Typed, TypeActive, TypeLinks, activeVars
<1>3. linkQueue' \in Queues
  <2>1. CASE UNCHANGED linkQueue
    BY <2>1 DEF Typed, WellFormed
  <2>2. CASE /\ memRequest # NULL
             /\ linkQueue' = Sent(linkQueue, "DATA", memRequest.addr, Memory,
                                  memRequest.procNum, -2)
    <3>1. memRequest.addr \in Addrs /\ memRequest.procNum \in Nodes
      BY <2>2, MemoryIsNode DEF Typed, TypeMemory, MemRequests
    <3>2. linkQueue \in Queues /\ "DATA" \in BusReqTypes /\ Memory \in Nodes
      BY MemoryIsNode DEF Typed, WellFormed, BusReqTypes
    <3> QED
      BY <2>2, <3>1, <3>2, SentType
  <2> QED
    BY <2>1, <2>2 DEF MemoryTick
<1>4. TypeMemory'
  <2>1. memCountDown \in 0 .. DRAM_FETCH_TICKS /\ DRAM_FETCH_TICKS \in Nat
    BY TicksAssumption DEF Typed, TypeMemory
  <2>2. memCountDown > 1 => memCountDown - 1 \in 0 .. DRAM_FETCH_TICKS
    BY <2>1
  <2>3. 0 \in 0 .. DRAM_FETCH_TICKS
    BY <2>1
  <2> QED
    BY <2>1, <2>2, <2>3 DEF MemoryTick, Typed, TypeMemory
<1> QED
  BY <1>1, <1>2, <1>3, <1>4 DEF MemoryTick, Typed, WellFormed

LEMMA TypedLinkCount == Typed /\ LinkCount => Typed'
<1> SUFFICES ASSUME Typed, LinkCount PROVE Typed'
  OBVIOUS
<1>1. /\ phase' \in {"interconnect", "cache"} /\ turn' \in Nat /\ progress' \in BOOLEAN
      /\ TypePhase' /\ turn \in LinkIds
  BY TypedNextLink DEF Typed, LinkCount
<1>2. CoresTypeOK'
  BY <1>1, CoresSame DEF LinkCount, Typed, Phases
<1>3. TypeLinks'
  <2>1. countDown[turn] - 1 \in 0 .. DRAM_FETCH_TICKS
    BY <1>1, TicksAssumption DEF LinkCount, Typed, TypeLinks
  <2> QED
    BY <2>1 DEF LinkCount, Typed, TypeLinks
<1> QED
  BY <1>1, <1>2, <1>3 DEF LinkCount, Typed, WellFormed, TypeActive, TypeMemory,
                          activeVars, memVars

LEMMA TypedLinkIdle == Typed /\ LinkIdle => Typed'
<1> SUFFICES ASSUME Typed, LinkIdle PROVE Typed'
  OBVIOUS
<1>1. /\ phase' \in {"interconnect", "cache"} /\ turn' \in Nat /\ progress' \in BOOLEAN
      /\ TypePhase' /\ turn \in LinkIds
  BY TypedNextLink DEF Typed, LinkIdle
<1>2. CoresTypeOK'
  BY <1>1, CoresSame DEF LinkIdle, Typed, Phases
<1> QED
  BY <1>1, <1>2 DEF LinkIdle, Typed, WellFormed, TypeLinks, TypeActive, TypeMemory,
                    linkVars, activeVars, memVars

LEMMA SenderIs ==
  ASSUME Typed, LinkSend
  PROVE  /\ turn \in LinkIds /\ Sender(turn) \in Ends(turn) /\ Sender(turn) \in Nodes
         /\ linkQueue[turn][Sender(turn)] \in Seq(Good)
         /\ linkQueue[turn][Sender(turn)] # <<>>
<1>1. turn \in LinkIds
  BY LinkEnds DEF LinkSend, Tick, Typed, CoresTypeOK, LinkIds
<1>2. Proc1(turn) \in Nodes /\ Proc2(turn) \in Nodes
  BY <1>1, LinkEnds
<1>3. Sender(turn) \in Ends(turn) /\ linkQueue[turn][Sender(turn)] # <<>>
  BY DEF Sender, Ends, LinkSend
<1> QED
  BY <1>1, <1>2, <1>3 DEF Ends, Typed, WellFormed, Queues

LEMMA TypedLinkSend == Typed /\ LinkSend => Typed'
<1> SUFFICES ASSUME Typed, LinkSend PROVE Typed'
  OBVIOUS
<1> DEFINE n == Sender(turn)
           m == Head(linkQueue[turn][n])
<1>1. /\ phase' \in {"interconnect", "cache"} /\ turn' \in Nat /\ progress' \in BOOLEAN
      /\ TypePhase' /\ turn \in LinkIds
  BY TypedNextLink DEF Typed, LinkSend
<1>2. CoresTypeOK'
  BY <1>1, CoresSame DEF LinkSend, Typed, Phases
<1>3. m \in Good /\ Tail(linkQueue[turn][n]) \in Seq(Good) /\ n \in Nodes
  BY SenderIs
<1>4. /\ pendingReq' = [pendingReq EXCEPT ![turn] = m]
      /\ linkQueue' = [linkQueue EXCEPT ![turn][n] = Tail(@)]
      /\ p1Sent' = [p1Sent EXCEPT ![turn] = (n = Proc1(turn))]
      /\ activeRequests' = Tracking(m)
      /\ countDown' = [countDown EXCEPT ![turn] = CACHE_DELAY]
  BY DEF LinkSend
<1> HIDE DEF n, m
<1>5. WellFormed'
  BY <1>1, <1>3, <1>4 DEF Typed, WellFormed, Queues
<1>6. TypeLinks'
  BY <1>1, <1>4, TicksAssumption DEF Typed, TypeLinks, CACHE_DELAY
<1>7. TypeActive'
  <2>1. IsBroadcast(m) => /\ m.pSrc \in Procs
                          /\ [msgNum |-> m.msgNum, addr |-> m.addr, numAcks |-> 0,
                              dataAvail |-> FALSE, shared |-> FALSE] \in ActiveEntries
    BY <1>3, MemoryIsNode DEF Good, Messages, ActiveEntries
  <2>2. activeRequests' \in [Procs -> SUBSET ActiveEntries]
    BY <1>4, <2>1 DEF Tracking, Typed, TypeActive
  <2> QED
    BY <2>2 DEF LinkSend, Typed, TypeActive
<1> QED
  BY <1>1, <1>2, <1>5, <1>6, <1>7 DEF LinkSend, Typed, TypeMemory, memVars

LEMMA TypedPassOn == Typed /\ PassOn => Typed'
<1> SUFFICES ASSUME Typed, PassOn PROVE Typed'
  OBVIOUS
<1>1. Arriving /\ LinkFree(0) /\ Seen
  BY DEF PassOn
<1>2. 0 \in 0 .. DRAM_FETCH_TICKS
  BY TicksAssumption
<1>3. /\ pendingReq' \in [LinkIds -> Good \cup {NULL}]
      /\ TypeLinks' /\ TypePhase' /\ globalMsgCount' = globalMsgCount
      /\ phase' \in Phases /\ phase' # "processor"
      /\ turn' \in Nat /\ progress' \in BOOLEAN
  BY <1>1, <1>2, LinkFreeType
<1>4. CoresTypeOK'
  BY <1>3, CoresSame DEF PassOn, Typed
<1>5. WellFormed'
  BY <1>1, <1>3, ForwardedType DEF PassOn, WellFormed
<1>6. TypeActive'
  BY <1>1, <1>3, SeenType DEF PassOn, Typed, TypeActive
<1> QED
  BY <1>3, <1>4, <1>5, <1>6 DEF PassOn, Typed, TypeMemory, memVars

LEMMA TypedSnoopHere == Typed /\ SnoopHere => Typed'
<1> SUFFICES ASSUME Typed, SnoopHere, ~Crash PROVE Typed'
  BY TypedCrash
<1>1. /\ Arriving /\ LinkFree(0) /\ Seen /\ Here # Memory
      /\ Snoop(Message.brt, Message.addr, {Here})
      /\ linkQueue' = IF Reply = "NO_REQ" THEN Forwarded
                      ELSE Sent(Forwarded, Reply, Message.addr, Here,
                                Message.pSrc, Message.msgNum)
      /\ UNCHANGED <<activeRequests, memVars>>
  BY DEF SnoopHere
<1>2. 0 \in 0 .. DRAM_FETCH_TICKS
  BY TicksAssumption
<1>3. /\ pendingReq' \in [LinkIds -> Good \cup {NULL}]
      /\ TypeLinks' /\ TypePhase' /\ globalMsgCount' = globalMsgCount
      /\ phase' \in Phases /\ phase' # "processor"
      /\ turn' \in Nat /\ progress' \in BOOLEAN
  BY <1>1, <1>2, LinkFreeType
<1>4. Here \in Procs /\ Message \in Messages /\ Here \in Nodes
  BY <1>1, ArrivingType, MemoryIsNode
<1>5. Message.addr \in Addrs /\ Message.pSrc \in Nodes /\ Message.msgNum \in Int
  BY <1>4 DEF Messages
<1>6. CoresTypeOK'
  BY <1>1, <1>3, <1>4, <1>5, SnoopKeepsType DEF Typed
<1>7. linkQueue' \in Queues
  <2>1. Forwarded \in Queues
    BY <1>1, ForwardedType
  <2>2. Reply \in {"NO_REQ", "ACK", "DATA", "SHARED", "SHARED_DATA"}
    BY <1>4, <1>5, SnoopSends DEF Reply, SnoopOf, Typed, CoresTypeOK
  <2>3. Reply \in BusReqTypes /\ Reply \notin {"BUSRD", "BUSWR", "MEMORY"}
    BY <2>2 DEF BusReqTypes
  <2>4. Sent(Forwarded, Reply, Message.addr, Here, Message.pSrc, Message.msgNum) \in Queues
    BY <1>4, <1>5, <2>1, <2>3, SentType
  <2> QED
    BY <1>1, <2>1, <2>4
<1>8. TypeActive'
  BY <1>1, <1>3, SeenType DEF Typed, TypeActive
<1> QED
  BY <1>1, <1>3, <1>6, <1>7, <1>8 DEF Typed, WellFormed, TypeMemory, memVars

LEMMA TypedReachMemory == Typed /\ ReachMemory => Typed'
<1> SUFFICES ASSUME Typed, ReachMemory, ~Crash PROVE Typed'
  BY TypedCrash
<1> DEFINE r == [addr |-> Message.addr, procNum |-> Message.pSrc]
<1>1. /\ Arriving /\ Message.brt = "MEMORY"
      /\ \/ /\ memRequest' = r /\ memCountDown' = DRAM_FETCH_TICKS
            /\ LinkFree(DRAM_FETCH_TICKS)
            /\ UNCHANGED memoryRequests
         \/ /\ memoryRequests' = Append(memoryRequests, r)
            /\ LinkFree(0)
            /\ UNCHANGED <<memRequest, memCountDown>>
      /\ UNCHANGED <<coreVars, linkQueue, activeRequests, last_msgs, memoryCountdown>>
  BY DEF ReachMemory
<1>2. 0 \in 0 .. DRAM_FETCH_TICKS /\ DRAM_FETCH_TICKS \in 0 .. DRAM_FETCH_TICKS
  BY TicksAssumption
<1>3. /\ pendingReq' \in [LinkIds -> Good \cup {NULL}]
      /\ TypeLinks' /\ TypePhase' /\ globalMsgCount' = globalMsgCount
      /\ phase' \in Phases /\ phase' # "processor"
      /\ turn' \in Nat /\ progress' \in BOOLEAN
  <2>1. PICK ticks \in 0 .. DRAM_FETCH_TICKS : LinkFree(ticks)
    BY <1>1, <1>2
  <2> QED
    BY <1>1, <2>1, LinkFreeType
<1>4. CoresTypeOK'
  BY <1>1, <1>3, CoresSame DEF Typed
<1>5. r \in MemRequests
  BY <1>1, ArrivingType DEF Good, Messages, MemRequests
<1> HIDE DEF r
<1>6. TypeMemory'
  <2>1. memoryCountdown' = memoryCountdown /\ TypeMemory
    BY <1>1 DEF Typed
  <2>2. \/ /\ memRequest' = r /\ memCountDown' = DRAM_FETCH_TICKS
           /\ memoryRequests' = memoryRequests
        \/ /\ memRequest' = memRequest /\ memCountDown' = memCountDown
           /\ memoryRequests' = Append(memoryRequests, r)
    BY <1>1
  <2>3. Append(memoryRequests, r) \in Seq(MemRequests)
    BY <1>5, <2>1 DEF TypeMemory
  <2>4. memoryRequests' \in Seq(MemRequests)
    BY <2>1, <2>2, <2>3 DEF TypeMemory
  <2>5. memRequest' \in MemRequests \cup {NULL} /\ memCountDown' \in 0 .. DRAM_FETCH_TICKS
    BY <1>2, <1>5, <2>1, <2>2 DEF TypeMemory
  <2> QED
    BY <2>1, <2>4, <2>5 DEF TypeMemory
<1> QED
  BY <1>1, <1>3, <1>4, <1>6 DEF Typed, WellFormed, TypeActive

LEMMA CountedType ==
  ASSUME Typed, NEW e \in ActiveEntries, Counted(e).numAcks <= ProcessorCount - 1
  PROVE  Counted(e) \in ActiveEntries
<1>1. e.numAcks + 1 = Counted(e).numAcks
  BY DEF Counted, ActiveEntries
<1>2. e.numAcks + 1 \in 0 .. ProcessorCount
  BY <1>1, MemoryIsNode DEF ActiveEntries
<1>3. HasData(Message) \in BOOLEAN
  BY DEF HasData
<1> QED
  BY <1>2, <1>3 DEF Counted, ActiveEntries

LEMMA TypedReceiveAck == Typed /\ ReceiveAck => Typed'
<1> SUFFICES ASSUME Typed, ReceiveAck, ~Crash PROVE Typed'
  BY TypedCrash
<1>1. /\ Arriving /\ Here # Memory
      /\ \E e \in activeRequests[Here] : CountAck(e)
  BY DEF ReceiveAck
<1>2. PICK e \in activeRequests[Here] : CountAck(e)
  BY <1>1
<1> DEFINE d == Counted(e)
<1>3. Here \in Procs /\ Here \in Nodes
  BY <1>1, ArrivingType, MemoryIsNode
<1>4. e \in ActiveEntries
  BY <1>3 DEF Typed, TypeActive
<1>5. d.numAcks \in Int /\ d.addr = e.addr /\ e.addr \in Addrs
  BY <1>4 DEF Counted, ActiveEntries
<1>6. 0 \in 0 .. DRAM_FETCH_TICKS
  BY TicksAssumption
<1>7. d.numAcks <= ProcessorCount - 1 /\ LinkFree(0) /\ UNCHANGED <<last_msgs, memVars>>
  BY <1>2, <1>5, MemoryIsNode DEF CountAck
<1>8. /\ pendingReq' \in [LinkIds -> Good \cup {NULL}]
      /\ TypeLinks' /\ TypePhase' /\ globalMsgCount' = globalMsgCount
      /\ phase' \in Phases /\ phase' # "processor"
      /\ turn' \in Nat /\ progress' \in BOOLEAN
  BY <1>1, <1>6, <1>7, LinkFreeType
<1>9. d \in ActiveEntries
  BY <1>4, <1>7, CountedType
<1>10. \/ /\ activeRequests' = [activeRequests EXCEPT ![Here] = (@ \ {e}) \cup {d}]
          /\ UNCHANGED <<coreVars, linkQueue>>
       \/ /\ activeRequests' = [activeRequests EXCEPT ![Here] = @ \ {e}]
          /\ \/ Snoop(Answer(d), d.addr, {Here}) /\ UNCHANGED linkQueue
             \/ /\ linkQueue' = Sent(linkQueue, "MEMORY", d.addr, Here, Memory, -2)
                /\ UNCHANGED coreVars
  BY <1>2 DEF CountAck
<1> HIDE DEF d
<1>11. CoresTypeOK'
  <2>1. CASE UNCHANGED coreVars
    BY <1>8, <2>1, CoresSame DEF Typed
  <2>2. CASE Snoop(Answer(d), d.addr, {Here})
    BY <1>3, <1>5, <1>8, <2>2, SnoopKeepsType DEF Typed
  <2> QED
    BY <1>10, <2>1, <2>2
<1>12. linkQueue' \in Queues
  <2>1. linkQueue \in Queues
    BY DEF Typed, WellFormed
  <2>2. Sent(linkQueue, "MEMORY", d.addr, Here, Memory, -2) \in Queues
    BY <1>3, <1>5, <2>1, MemoryIsNode, SentType DEF BusReqTypes
  <2> QED
    BY <1>10, <2>1, <2>2
<1>13. TypeActive'
  <2>1. activeRequests' \in [Procs -> SUBSET ActiveEntries]
    BY <1>3, <1>9, <1>10 DEF Typed, TypeActive
  <2> QED
    BY <1>7, <1>8, <2>1 DEF Typed, TypeActive
<1> QED
  BY <1>7, <1>8, <1>11, <1>12, <1>13 DEF Typed, WellFormed, TypeMemory, memVars

LEMMA TypedServeMemory == Typed /\ ServeMemory => Typed'
<1> SUFFICES ASSUME Typed, ServeMemory, ~Crash PROVE Typed'
  BY TypedCrash
<1>1. Goto("cache") /\ UNCHANGED <<coreVars, linkVars, activeVars>>
  BY DEF ServeMemory
<1>2. CoresTypeOK' /\ TypePhase'
  BY <1>1, TypedGoto DEF Typed
<1>3. TypeMemory'
  <2>1. memoryRequests # <<>> => /\ Head(memoryRequests) \in MemRequests
                                 /\ Tail(memoryRequests) \in Seq(MemRequests)
    BY DEF Typed, TypeMemory
  <2>2. memoryCountdown \in 0 .. DRAM_FETCH_TICKS
        /\ DRAM_FETCH_TICKS \in 0 .. DRAM_FETCH_TICKS
    BY TicksAssumption DEF Typed, TypeMemory
  <2>3. (IF memoryCountdown > 0 THEN memoryCountdown - 1 ELSE 0) \in 0 .. DRAM_FETCH_TICKS
    BY <2>2, TicksAssumption
  <2> QED
    BY <2>1, <2>2, <2>3 DEF ServeMemory, Typed, TypeMemory
<1> QED
  BY <1>1, <1>2, <1>3 DEF Typed, WellFormed, TypeLinks, TypeActive, linkVars, activeVars

LEMMA TypedFetch == Typed /\ Fetch => Typed'
<1> SUFFICES ASSUME Typed, NEW isRead \in BOOLEAN, NEW a \in Addrs,
                    FetchMemory(isRead, a),
                    LET send == PermOf(isRead, a).send
                    IN  IF send = "NO_REQ"
                        THEN UNCHANGED <<linkQueue, globalMsgCount>>
                        ELSE /\ globalMsgCount' = globalMsgCount + 1
                             /\ linkQueue' = Sent(linkQueue, send, a, turn, -1,
                                                  globalMsgCount'),
                    UNCHANGED <<pendingReq, countDown, p1Sent, activeRequests, last_msgs,
                                memVars>>
             PROVE  Typed'
  BY DEF Fetch
<1>1. CoresTypeOK'
  BY FetchMemoryType DEF Typed
<1>2. phase = "processor" /\ turn \in Procs /\ turn \in Nodes
  BY MemoryIsNode DEF FetchMemory, CanFetch, Typed, CoresTypeOK
<1>3. TypePhase'
  BY <1>2 DEF FetchMemory, NextProcessor, TypePhase
<1>4. PermOf(isRead, a).send \in {"NO_REQ", "BUSRD", "BUSWR"}
  BY <1>2, PermSends DEF PermOf, Typed, CoresTypeOK
<1>5. globalMsgCount' \in Nat
  BY DEF Typed, TypeActive
<1>6. linkQueue' \in Queues
  <2>1. linkQueue \in Queues
    BY DEF Typed, WellFormed
  <2>2. CASE PermOf(isRead, a).send = "NO_REQ"
    BY <2>1, <2>2
  <2>3. CASE PermOf(isRead, a).send # "NO_REQ"
    <3>1. PermOf(isRead, a).send \in BusReqTypes /\ globalMsgCount' \in Int
      BY <1>4, <1>5 DEF BusReqTypes
    <3>2. Sent(linkQueue, PermOf(isRead, a).send, a, turn, -1, globalMsgCount') \in Queues
      BY <1>2, <1>4, <1>5, <2>1, <2>3, <3>1, SentType
    <3> QED
      BY <2>3, <3>2
  <2> QED
    BY <2>2, <2>3
<1> QED
  BY <1>1, <1>3, <1>5, <1>6 DEF Typed, WellFormed, TypeLinks, TypeActive, TypeMemory, memVars

LEMMA TypedCoreStep == Typed /\ CoreStep => Typed'
<1> SUFFICES ASSUME Typed, CoreStep PROVE Typed'
  OBVIOUS
<1>1. CoresTypeOK'
  BY CoresAloneType DEF CoreStep, CoresAlone, Typed
<1>2. TypePhase'
  BY DEF CoreStep, CacheTick, Blocked, TraceEnd, CanFetch, FetchOther, Stopped,
         NextProcessor, controlVars, TypePhase
<1> QED
  BY <1>1, <1>2 DEF CoreStep, Typed, WellFormed, TypeLinks, TypeActive, TypeMemory,
                    linkVars, activeVars, memVars

LEMMA TypedInvariant == Spec => []Typed
<1>1. Typed /\ [Next]_vars => Typed'
  <2>1. Typed /\ UNCHANGED vars => Typed'
    BY DEF vars, controlVars, coreVars, linkVars, activeVars, memVars, Typed, CoresTypeOK,
           TypePhase, WellFormed, TypeLinks, TypeActive, TypeMemory
  <2> QED
    BY <2>1, TypedMemoryTick, TypedLinkCount, TypedLinkIdle, TypedLinkSend, TypedPassOn,
       TypedSnoopHere, TypedReachMemory, TypedReceiveAck, TypedServeMemory, TypedFetch,
       TypedCoreStep
    DEF Next, LineTick, RingTick, MeshTick, LinkTick
<1> QED
  BY TypedInit, <1>1, PTL DEF Spec

(* On every network and under every scheme the variables keep their types: *)
(* what is on a link is a message, the acks counted are no more than there *)
(* are processors, and what is tracked came from a processor (all handlers *)
(* of the links, the memory and the cores).                                *)
THEOREM NetworkTypeCorrect == Spec => []TypeOK
BY TypedInvariant, TypedIsTypeOK, PTL
----------------------------------------------------------------------------
(* The line.  Link l joins the nodes l and l + 1, and a message goes right *)
(* when it came to the link from node l.                                   *)
OnLine == Topology = "line"
LastLink == ProcessorCount - 1

(* Where the messages are, whether carried or queued.                      *)
At(l, m) == [link |-> l, msg |-> m]
Places == [link : LinkIds, msg : Good]
Held(pend, queue, l) ==
  ({pend[l]} \ {NULL})
  \cup UNION {{queue[l][n][i] : i \in 1 .. Len(queue[l][n])} : n \in Ends(l)}
NetOf(pend, queue) == UNION {{At(l, m) : m \in Held(pend, queue, l)} : l \in LinkIds}
Net == NetOf(pendingReq, linkQueue)

(* Each message is in one place of its link, and waits with its sender.    *)
QueueOK(pend, queue, l, n) ==
  /\ n \notin Ends(l) => queue[l][n] = <<>>
  /\ \A i \in 1 .. Len(queue[l][n]) :
       /\ queue[l][n][i].procNum = n
       /\ queue[l][n][i] # pend[l]
       /\ \A j \in 1 .. Len(queue[l][n]) : queue[l][n][i] = queue[l][n][j] => i = j
Orderly(pend, queue) ==
  /\ \A l \in LinkIds, n \in Nodes : QueueOK(pend, queue, l, n)
  /\ \A l \in LinkIds : pend[l] # NULL => pend[l].procNum \in Ends(l)

(* The four kinds of messages.                                             *)
IsReply(m) == m.brt \in {"ACK", "DATA"} /\ m.pSrc \in Procs
ToMemory(m) == m.brt = "MEMORY"
FromMemory(m) == m.pSrc = Memory
KindOK(m, count) ==
  \/ IsBroadcast(m) /\ m.pSrc \in Procs /\ m.pDest = -1 /\ m.msgNum \in 1 .. count
  \/ IsReply(m) /\ m.pDest \in Procs /\ m.msgNum \in 1 .. count
  \/ ToMemory(m) /\ m.pSrc \in Procs /\ m.pDest = Memory /\ m.msgNum = -2
  \/ m.brt = "DATA" /\ FromMemory(m) /\ m.pDest \in Procs /\ m.msgNum = -2

(* A message leaves its source behind, and has its destination ahead.      *)
RightGoing(x) == x.msg.procNum = x.link
OnItsWay(x) ==
  /\ IF RightGoing(x) THEN /\ x.msg.pSrc <= x.link
                           /\ x.msg.pDest # -1 => x.link < x.msg.pDest
                      ELSE /\ x.msg.procNum = x.link + 1
                           /\ x.link < x.msg.pSrc /\ x.msg.pDest <= x.link
  /\ x.msg.pDest = -1 => x.link # LastLink

MessagesOK(net, count) == \A x \in net : x \in Places /\ KindOK(x.msg, count) /\ OnItsWay(x)

(* No message is doubled: a broadcast has one copy in each direction.      *)
Alike(x, y) ==
  /\ x.msg.pSrc = y.msg.pSrc /\ x.msg.pDest = y.msg.pDest /\ x.msg.msgNum = y.msg.msgNum
  /\ RightGoing(x) <=> RightGoing(y)
Single(net) == \A x, y \in net : Alike(x, y) => x = y

(* What is left of broadcast num of p: the processors that it will reach,  *)
(* and those whose reply is on its way.                                    *)
CopyOf(x, p, num) == IsBroadcast(x.msg) /\ x.msg.pSrc = p /\ x.msg.msgNum = num
ReplyTo(x, p, num) == IsReply(x.msg) /\ x.msg.pDest = p /\ x.msg.msgNum = num
Ahead(x) == IF RightGoing(x) THEN {q \in Procs : q > x.link} ELSE {q \in Procs : q <= x.link}
Missing(net, p, num) == {q \in Procs : \E x \in net : CopyOf(x, p, num) /\ q \in Ahead(x)}
Replying(net, p, num) == {q \in Procs : \E x \in net : ReplyTo(x, p, num) /\ x.msg.pSrc = q}

TrackedIn(act, p, num) == \E e \in act[p] : e.msgNum = num

(* Until its first copy is sent a broadcast is at its source, whole.       *)
CopiesOK(net, act) ==
  \A x \in net : IsBroadcast(x.msg) =>
    IF TrackedIn(act, x.msg.pSrc, x.msg.msgNum)
    THEN \A e \in act[x.msg.pSrc] : e.addr = x.msg.addr
    ELSE /\ x.msg.procNum = x.msg.pSrc
         /\ Missing(net, x.msg.pSrc, x.msg.msgNum) = Procs \ {x.msg.pSrc}

(* A reply goes to an entry that waits for it, from a processor that the   *)
(* broadcast has reached.                                                  *)
RepliesOK(net, act) ==
  \A x \in net : IsReply(x.msg) =>
    /\ \E e \in act[x.msg.pDest] : e.msgNum = x.msg.msgNum /\ e.addr = x.msg.addr
    /\ x.msg.pSrc \notin Missing(net, x.msg.pDest, x.msg.msgNum)

(* Every other processor has been counted, has replied or will be reached. *)
Sums(net, p, e) ==
  e.numAcks + Cardinality(Replying(net, p, e.msgNum))
            + Cardinality(Missing(net, p, e.msgNum)) = LastLink
EntriesOK(net, act, count) ==
  \A p \in Procs : \A e \in act[p] :
    /\ e.msgNum \in 1 .. count /\ ~e.shared
    /\ Sums(net, p, e)
    /\ \A f \in act[p] : e = f

(* What is under way for a processor: a broadcast that is not tracked, the *)
(* acks of one that is, or one of the three stages of a request to memory. *)
Errand(stage, num, a) == [stage |-> stage, num |-> num, addr |-> a]
Announcing(net, act, p) ==
  {Errand("broadcast", x.msg.msgNum, x.msg.addr) :
     x \in {y \in net : IsBroadcast(y.msg) /\ y.msg.pSrc = p
                        /\ ~TrackedIn(act, p, y.msg.msgNum)}}
Collecting(act, p) == {Errand("acks", e.msgNum, e.addr) : e \in act[p]}
Asking(net, p) ==
  {Errand("asking", 0, x.msg.addr) : x \in {y \in net : ToMemory(y.msg) /\ y.msg.pSrc = p}}
Waited(mem, p) == IF mem # NULL /\ mem.procNum = p THEN {Errand("memory", 0, mem.addr)} ELSE {}
Returning(net, p) ==
  {Errand("answer", 0, x.msg.addr) : x \in {y \in net : FromMemory(y.msg) /\ y.msg.pDest = p}}
Errands(net, act, mem, p) ==
  Announcing(net, act, p) \cup Collecting(act, p) \cup Asking(net, p) \cup Waited(mem, p)
  \cup Returning(net, p)

(* There is one for each block that is awaited, and one per processor.     *)
ErrandsOK(net, act, mem, waits) ==
  \A p \in Procs :
    /\ \A s, t \in Errands(net, act, mem, p) : s = t
    /\ waits[p] = {s.addr : s \in Errands(net, act, mem, p)}

Accounts(net, act, count, mem, waits) ==
  /\ act \in [Procs -> SUBSET ActiveEntries] /\ count \in Nat
  /\ mem \in MemRequests \cup {NULL} /\ waits \in [Procs -> SUBSET Addrs]
  /\ MessagesOK(net, count) /\ Single(net)
  /\ CopiesOK(net, act) /\ RepliesOK(net, act) /\ EntriesOK(net, act, count)
  /\ ErrandsOK(net, act, mem, waits)

Awaits == [p \in Procs |-> {a \in Addrs : Transient(p, a)}]

(* What is carried is tracked, and stays for one tick.                     *)
CarriedOK ==
  \A l \in LinkIds : pendingReq[l] # NULL =>
    /\ countDown[l] = CACHE_DELAY
    /\ IsBroadcast(pendingReq[l]) => Tracked(pendingReq[l].pSrc, pendingReq[l].msgNum)

(* The last link is blocked as long as the memory works.                   *)
MemoryInStep ==
  /\ memoryRequests = <<>>
  /\ memRequest # NULL =>
       /\ pendingReq[LastLink] = NULL
       /\ memCountDown > 0
       /\ countDown[LastLink] = memCountDown + IF phase = "interconnect" THEN 1 ELSE 0

LInv == /\ Typed /\ phase # "aborted" /\ StatesUsed /\ RequestsMatch
        /\ Orderly(pendingReq, linkQueue) /\ CarriedOK
        /\ Accounts(Net, activeRequests, globalMsgCount, memRequest, Awaits)
        /\ MemoryInStep
----------------------------------------------------------------------------
LEMMA LineIs ==
  ASSUME OnLine
  PROVE  /\ ProcessorCount \in Nat /\ ProcessorCount > 1 /\ NumLinks = ProcessorCount
         /\ LinkIds = 0 .. ProcessorCount - 1 /\ LastLink \in LinkIds /\ LastLink \in Nat
         /\ Procs = 0 .. ProcessorCount - 1 /\ Nodes = 0 .. ProcessorCount
         /\ \A l \in LinkIds : Proc1(l) = l /\ Proc2(l) = l + 1 /\ Ends(l) = {l, l + 1}
  BY MemoryIsNode DEF OnLine, NumLinks, LinkIds, LastLink, Procs, Nodes, Ends, Proc1, Proc2

LEMMA ProcsCounted == IsFiniteSet(Procs) /\ Cardinality(Procs) = ProcessorCount
<1>1. ProcessorCount - 1 \in Int /\ 0 \in Int /\ ProcessorCount \in Nat
  BY MemoryIsNode
<1>2. /\ IsFiniteSet(0 .. ProcessorCount - 1)
      /\ Cardinality(0 .. ProcessorCount - 1) =
           IF 0 > ProcessorCount - 1 THEN 0 ELSE (ProcessorCount - 1) - 0 + 1
  BY <1>1, FS_Interval
<1> QED
  BY <1>1, <1>2, MemoryIsNode DEF Procs

(* A set of processors, counted, and with one processor more or less.      *)
LEMMA Counted0 ==
  ASSUME NEW S \in SUBSET Procs
  PROVE  /\ IsFiniteSet(S) /\ Cardinality(S) \in Nat
         /\ Cardinality(S) = 0 <=> S = {}
         /\ \A p \in S : Cardinality(S \ {p}) = Cardinality(S) - 1
         /\ \A p \in Procs \ S : Cardinality(S \cup {p}) = Cardinality(S) + 1
<1>1. IsFiniteSet(S)
  BY ProcsCounted, FS_Subset
<1>2. Cardinality(S) \in Nat /\ (Cardinality(S) = 0 <=> S = {})
  BY <1>1, FS_CardinalityType, FS_EmptySet
<1>3. ASSUME NEW p \in S PROVE Cardinality(S \ {p}) = Cardinality(S) - 1
  BY <1>1, FS_RemoveElement
<1>4. ASSUME NEW p \in Procs \ S PROVE Cardinality(S \cup {p}) = Cardinality(S) + 1
  BY <1>1, FS_AddElement
<1> QED
  BY <1>1, <1>2, <1>3, <1>4

(* A broadcast never comes back to its source, its two copies go to        *)
(* different processors, and a copy that is on its way reaches somebody.   *)
LEMMA AheadIs ==
  ASSUME OnLine, NEW net, NEW count, MessagesOK(net, count), NEW x \in net, IsBroadcast(x.msg)
  PROVE  /\ Ahead(x) \subseteq Procs /\ Ahead(x) # {}
         /\ \A q \in Ahead(x) : IF RightGoing(x) THEN q > x.msg.pSrc ELSE q < x.msg.pSrc
<1>1. /\ x \in Places /\ OnItsWay(x) /\ KindOK(x.msg, count)
  BY DEF MessagesOK
<1>2. x.link \in 0 .. ProcessorCount - 1 /\ x.msg.pSrc \in 0 .. ProcessorCount - 1
      /\ x.msg.pDest = -1 /\ ProcessorCount \in Nat
  BY <1>1, LineIs, MemoryIsNode
  DEF Places, KindOK, IsBroadcast, IsReply, ToMemory, FromMemory, Memory, Procs
<1>3. x.link # ProcessorCount - 1
  BY <1>1, <1>2 DEF OnItsWay, LastLink
<1>4. Procs = 0 .. ProcessorCount - 1
  BY LineIs
<1>5. CASE RightGoing(x)
  <2>1. Ahead(x) = {q \in Procs : q > x.link} /\ x.msg.pSrc <= x.link
    BY <1>1, <1>5 DEF Ahead, OnItsWay
  <2>2. x.link + 1 \in Ahead(x)
    BY <1>2, <1>3, <1>4, <2>1
  <2>3. \A q \in Ahead(x) : q > x.msg.pSrc
    BY <1>2, <1>4, <2>1
  <2> QED
    BY <1>5, <2>1, <2>2, <2>3
<1>6. CASE ~RightGoing(x)
  <2>1. Ahead(x) = {q \in Procs : q <= x.link} /\ x.link < x.msg.pSrc
    BY <1>1, <1>6 DEF Ahead, OnItsWay
  <2>2. x.link \in Ahead(x)
    BY <1>2, <1>3, <1>4, <2>1
  <2>3. \A q \in Ahead(x) : q < x.msg.pSrc
    BY <1>2, <1>4, <2>1
  <2> QED
    BY <1>6, <2>1, <2>2, <2>3
<1> QED
  BY <1>5, <1>6

(* Each processor ahead is ahead of one copy only.                         *)
LEMMA AheadOfOne ==
  ASSUME OnLine, NEW net, NEW count, MessagesOK(net, count), Single(net),
         NEW p, NEW num, NEW x \in net, NEW y \in net, CopyOf(x, p, num), CopyOf(y, p, num),
         NEW q, q \in Ahead(x), q \in Ahead(y)
  PROVE  x = y
<1>1. IsBroadcast(x.msg) /\ IsBroadcast(y.msg) /\ x.msg.pSrc = p /\ y.msg.pSrc = p
      /\ x.msg.msgNum = y.msg.msgNum
  BY DEF CopyOf
<1>2. x.msg.pDest = -1 /\ y.msg.pDest = -1 /\ p \in Procs
  BY <1>1, MemoryIsNode
  DEF MessagesOK, KindOK, IsBroadcast, IsReply, ToMemory, FromMemory
<1>3. q \in Procs /\ (IF RightGoing(x) THEN q > p ELSE q < p)
  BY <1>1, AheadIs
<1>4. IF RightGoing(y) THEN q > p ELSE q < p
  BY <1>1, AheadIs
<1>5. RightGoing(x) <=> RightGoing(y)
  BY <1>2, <1>3, <1>4, LineIs
<1> QED
  BY <1>1, <1>2, <1>5 DEF Single, Alike

LEMMA MissingSame ==
  ASSUME NEW net, NEW net2, NEW p, NEW num,
         \A x : CopyOf(x, p, num) => (x \in net <=> x \in net2)
  PROVE  Missing(net2, p, num) = Missing(net, p, num)
  BY DEF Missing

LEMMA ReplyingSame ==
  ASSUME NEW net, NEW net2, NEW p, NEW num,
         \A x : ReplyTo(x, p, num) => (x \in net <=> x \in net2)
  PROVE  Replying(net2, p, num) = Replying(net, p, num)
  BY DEF Replying

LEMMA AnnouncingWithin ==
  ASSUME NEW net, NEW act, NEW net2, NEW act2, NEW p,
         \A y \in net2 : IsBroadcast(y.msg) /\ y.msg.pSrc = p
                         /\ ~TrackedIn(act2, p, y.msg.msgNum) =>
           \E x \in net : /\ IsBroadcast(x.msg) /\ x.msg.pSrc = p
                          /\ ~TrackedIn(act, p, x.msg.msgNum)
                          /\ x.msg.msgNum = y.msg.msgNum /\ x.msg.addr = y.msg.addr
  PROVE  Announcing(net2, act2, p) \subseteq Announcing(net, act, p)
<1> SUFFICES ASSUME NEW s \in Announcing(net2, act2, p) PROVE s \in Announcing(net, act, p)
  OBVIOUS
<1>1. PICK y \in net2 : /\ IsBroadcast(y.msg) /\ y.msg.pSrc = p
                        /\ ~TrackedIn(act2, p, y.msg.msgNum)
                        /\ s = Errand("broadcast", y.msg.msgNum, y.msg.addr)
  BY DEF Announcing
<1> QED
  BY <1>1 DEF Announcing

LEMMA AskingWithin ==
  ASSUME NEW net, NEW net2, NEW p,
         \A y \in net2 : ToMemory(y.msg) /\ y.msg.pSrc = p =>
           \E x \in net : ToMemory(x.msg) /\ x.msg.pSrc = p /\ x.msg.addr = y.msg.addr
  PROVE  Asking(net2, p) \subseteq Asking(net, p)
<1> SUFFICES ASSUME NEW s \in Asking(net2, p) PROVE s \in Asking(net, p)
  OBVIOUS
<1>1. PICK y \in net2 : /\ ToMemory(y.msg) /\ y.msg.pSrc = p
                        /\ s = Errand("asking", 0, y.msg.addr)
  BY DEF Asking
<1> QED
  BY <1>1 DEF Asking

LEMMA ReturningWithin ==
  ASSUME NEW net, NEW net2, NEW p,
         \A y \in net2 : FromMemory(y.msg) /\ y.msg.pDest = p =>
           \E x \in net : FromMemory(x.msg) /\ x.msg.pDest = p /\ x.msg.addr = y.msg.addr
  PROVE  Returning(net2, p) \subseteq Returning(net, p)
<1> SUFFICES ASSUME NEW s \in Returning(net2, p) PROVE s \in Returning(net, p)
  OBVIOUS
<1>1. PICK y \in net2 : /\ FromMemory(y.msg) /\ y.msg.pDest = p
                        /\ s = Errand("answer", 0, y.msg.addr)
  BY DEF Returning
<1> QED
  BY <1>1 DEF Returning

LEMMA Kinds ==
  ASSUME NEW net, NEW count, MessagesOK(net, count), NEW x \in net
  PROVE  /\ x \in Places /\ x.msg \in Messages /\ x.msg.addr \in Addrs /\ x.link \in LinkIds
         /\ \/ /\ IsBroadcast(x.msg) /\ x.msg.pSrc \in Procs /\ x.msg.pDest = -1
               /\ x.msg.msgNum \in 1 .. count
               /\ ~IsReply(x.msg) /\ ~ToMemory(x.msg) /\ ~FromMemory(x.msg)
            \/ /\ IsReply(x.msg) /\ x.msg.pSrc \in Procs /\ x.msg.pDest \in Procs
               /\ x.msg.msgNum \in 1 .. count
               /\ ~IsBroadcast(x.msg) /\ ~ToMemory(x.msg) /\ ~FromMemory(x.msg)
            \/ /\ ToMemory(x.msg) /\ x.msg.pSrc \in Procs /\ x.msg.pDest = Memory
               /\ x.msg.msgNum = -2
               /\ ~IsReply(x.msg) /\ ~IsBroadcast(x.msg) /\ ~FromMemory(x.msg)
            \/ /\ FromMemory(x.msg) /\ x.msg.brt = "DATA" /\ x.msg.pDest \in Procs
               /\ x.msg.msgNum = -2
               /\ ~IsReply(x.msg) /\ ~ToMemory(x.msg) /\ ~IsBroadcast(x.msg)
<1>1. x \in Places /\ KindOK(x.msg, count)
  BY DEF MessagesOK
<1>2. x.msg \in Messages /\ x.msg.addr \in Addrs /\ x.link \in LinkIds
  BY <1>1 DEF Places, Good, Messages
<1> QED
  BY <1>1, <1>2, MemoryIsNode DEF KindOK, IsBroadcast, IsReply, ToMemory, FromMemory

(* Some messages go, others come.                                          *)
Exchange(net, gone, new) == (net \ gone) \cup new

LEMMA MessagesKept ==
  ASSUME NEW net, NEW gone, NEW new, NEW count,
         MessagesOK(net, count), MessagesOK(new, count), Single(net), Single(new),
         \A y \in new, z \in net : Alike(y, z) => z \in gone
  PROVE  MessagesOK(Exchange(net, gone, new), count) /\ Single(Exchange(net, gone, new))
<1>1. MessagesOK(Exchange(net, gone, new), count)
  BY DEF MessagesOK, Exchange
<1>2. \A y, z : Alike(y, z) => Alike(z, y)
  BY DEF Alike
<1>3. Single(Exchange(net, gone, new))
  BY <1>2 DEF Single, Exchange
<1> QED
  BY <1>1, <1>3

(* A step that leaves broadcasts alone, and of the replies the accounts.   *)
LEMMA Quiet ==
  ASSUME NEW net, NEW act, NEW count, NEW net2,
         CopiesOK(net, act), RepliesOK(net, act), EntriesOK(net, act, count),
         \A x : IsBroadcast(x.msg) => (x \in net2 <=> x \in net),
         \A p, num : Replying(net2, p, num) = Replying(net, p, num),
         \A y \in net2 : IsReply(y.msg) =>
           \E x \in net : /\ IsReply(x.msg) /\ x.msg.pDest = y.msg.pDest
                          /\ x.msg.pSrc = y.msg.pSrc /\ x.msg.msgNum = y.msg.msgNum
                          /\ x.msg.addr = y.msg.addr
  PROVE  CopiesOK(net2, act) /\ RepliesOK(net2, act) /\ EntriesOK(net2, act, count)
<1>1. \A p, num : Missing(net2, p, num) = Missing(net, p, num)
  BY MissingSame DEF CopyOf
<1>2. CopiesOK(net2, act)
  BY <1>1 DEF CopiesOK
<1>3. RepliesOK(net2, act)
  <2> SUFFICES ASSUME NEW y \in net2, IsReply(y.msg)
               PROVE  /\ \E e \in act[y.msg.pDest] : e.msgNum = y.msg.msgNum
                                                     /\ e.addr = y.msg.addr
                      /\ y.msg.pSrc \notin Missing(net2, y.msg.pDest, y.msg.msgNum)
    BY DEF RepliesOK
  <2>1. PICK x \in net : /\ IsReply(x.msg) /\ x.msg.pDest = y.msg.pDest
                         /\ x.msg.pSrc = y.msg.pSrc /\ x.msg.msgNum = y.msg.msgNum
                         /\ x.msg.addr = y.msg.addr
    OBVIOUS
  <2>2. /\ \E e \in act[x.msg.pDest] : e.msgNum = x.msg.msgNum /\ e.addr = x.msg.addr
        /\ x.msg.pSrc \notin Missing(net, x.msg.pDest, x.msg.msgNum)
    BY <2>1 DEF RepliesOK
  <2> QED
    BY <1>1, <2>1, <2>2
<1>4. EntriesOK(net2, act, count)
  BY <1>1 DEF EntriesOK, Sums
<1> QED
  BY <1>2, <1>3, <1>4

(* The errands and the blocks awaited of a processor, before and after.    *)
Onward(E, W, E2, W2) ==
  \/ E2 = E /\ W2 = W
  \/ E2 = {} /\ W2 = {}
  \/ \E s : E2 = {s} /\ W2 = {s.addr}

LEMMA ErrandsKept ==
  ASSUME NEW net, NEW act, NEW mem, NEW waits, NEW net2, NEW act2, NEW mem2, NEW waits2,
         ErrandsOK(net, act, mem, waits),
         \A p \in Procs : Onward(Errands(net, act, mem, p), waits[p],
                                 Errands(net2, act2, mem2, p), waits2[p])
  PROVE  ErrandsOK(net2, act2, mem2, waits2)
<1> SUFFICES ASSUME NEW p \in Procs
             PROVE  /\ \A s, t \in Errands(net2, act2, mem2, p) : s = t
                    /\ waits2[p] = {s.addr : s \in Errands(net2, act2, mem2, p)}
  BY DEF ErrandsOK
<1>1. CASE /\ Errands(net2, act2, mem2, p) = Errands(net, act, mem, p)
           /\ waits2[p] = waits[p]
  BY <1>1 DEF ErrandsOK
<1>2. CASE Errands(net2, act2, mem2, p) = {} /\ waits2[p] = {}
  BY <1>2
<1>3. ASSUME NEW s, Errands(net2, act2, mem2, p) = {s}, waits2[p] = {s.addr}
      PROVE  /\ \A u, t \in Errands(net2, act2, mem2, p) : u = t
             /\ waits2[p] = {t.addr : t \in Errands(net2, act2, mem2, p)}
  BY <1>3
<1> QED
  BY <1>1, <1>2, <1>3 DEF Onward

LEMMA WaitedFor ==
  ASSUME NEW mem \in MemRequests, NEW p
  PROVE  /\ Waited(NULL, p) = {}
         /\ mem.procNum = p => Waited(mem, p) = {Errand("memory", 0, mem.addr)}
         /\ mem.procNum # p => Waited(mem, p) = {}
  BY NullAssumption DEF Waited

(* A message that is no broadcast goes on to the next link.                *)
LEMMA Moved ==
  ASSUME NEW net, NEW act, NEW count, NEW mem, NEW waits,
         Accounts(net, act, count, mem, waits),
         NEW x \in net, ~IsBroadcast(x.msg),
         NEW y \in Places, OnItsWay(y), Alike(y, x),
         y.msg.brt = x.msg.brt, y.msg.addr = x.msg.addr
  PROVE  Accounts(Exchange(net, {x}, {y}), act, count, mem, waits)
<1> DEFINE net2 == Exchange(net, {x}, {y})
<1>1. MessagesOK(net, count) /\ Single(net)
  BY DEF Accounts
<1>2. /\ y.msg.pSrc = x.msg.pSrc /\ y.msg.pDest = x.msg.pDest /\ y.msg.msgNum = x.msg.msgNum
  BY DEF Alike
<1>3. KindOK(x.msg, count)
  BY <1>1 DEF MessagesOK
<1>4. /\ IsReply(y.msg) <=> IsReply(x.msg)
      /\ ToMemory(y.msg) <=> ToMemory(x.msg)
      /\ FromMemory(y.msg) <=> FromMemory(x.msg)
      /\ ~IsBroadcast(y.msg) /\ KindOK(y.msg, count)
  BY <1>2, <1>3 DEF IsReply, ToMemory, FromMemory, IsBroadcast, KindOK
<1>5. MessagesOK({y}, count) /\ Single({y})
  BY <1>4 DEF MessagesOK, Single
<1>6. \A z \in net : Alike(y, z) => z \in {x}
  BY <1>1 DEF Single, Alike
<1>7. MessagesOK(net2, count) /\ Single(net2)
  BY <1>1, <1>5, <1>6, MessagesKept
<1>8. \A z : z \in net2 <=> (z \in net /\ z # x) \/ z = y
  BY DEF Exchange
<1> HIDE DEF net2
<1>9. ASSUME NEW p, NEW num
      PROVE  Replying(net2, p, num) = Replying(net, p, num)
  <2>1. ReplyTo(y, p, num) <=> ReplyTo(x, p, num)
    BY <1>2, <1>4 DEF ReplyTo
  <2> QED
    BY <1>2, <1>8, <2>1 DEF Replying
<1>10. CopiesOK(net2, act) /\ RepliesOK(net2, act) /\ EntriesOK(net2, act, count)
  <2>1. \A z : IsBroadcast(z.msg) => (z \in net2 <=> z \in net)
    BY <1>4, <1>8
  <2>2. CopiesOK(net, act) /\ RepliesOK(net, act) /\ EntriesOK(net, act, count)
    BY DEF Accounts
  <2> QED
    BY <1>2, <1>4, <1>8, <1>9, <2>1, <2>2, Quiet
<1>11. ASSUME NEW p \in Procs
       PROVE  Errands(net2, act, mem, p) = Errands(net, act, mem, p)
  <2>1. Announcing(net2, act, p) = Announcing(net, act, p)
    <3>1. Announcing(net2, act, p) \subseteq Announcing(net, act, p)
      BY <1>4, <1>8, AnnouncingWithin
    <3>2. Announcing(net, act, p) \subseteq Announcing(net2, act, p)
      BY <1>8, AnnouncingWithin
    <3> QED
      BY <3>1, <3>2
  <2>2. Asking(net2, p) = Asking(net, p)
    <3>1. Asking(net2, p) \subseteq Asking(net, p)
      BY <1>2, <1>4, <1>8, AskingWithin
    <3>2. Asking(net, p) \subseteq Asking(net2, p)
      BY <1>2, <1>4, <1>8, AskingWithin
    <3> QED
      BY <3>1, <3>2
  <2>3. Returning(net2, p) = Returning(net, p)
    <3>1. Returning(net2, p) \subseteq Returning(net, p)
      BY <1>2, <1>4, <1>8, ReturningWithin
    <3>2. Returning(net, p) \subseteq Returning(net2, p)
      BY <1>2, <1>4, <1>8, ReturningWithin
    <3> QED
      BY <3>1, <3>2
  <2> QED
    BY <2>1, <2>2, <2>3 DEF Errands
<1>12. ErrandsOK(net2, act, mem, waits)
  BY <1>11 DEF Accounts, ErrandsOK
<1>13. Accounts(net2, act, count, mem, waits)
  BY <1>7, <1>10, <1>12 DEF Accounts
<1> QED
  BY <1>13 DEF net2

(* A message that is no broadcast has one way to go, so it is known by its *)
(* source, destination and number.                                         *)
LEMMA OneWay ==
  ASSUME OnLine, NEW net, NEW count, MessagesOK(net, count), NEW x \in net,
         ~IsBroadcast(x.msg)
  PROVE  RightGoing(x) <=> x.msg.pSrc < x.msg.pDest
<1>1. OnItsWay(x) /\ x.link \in Nat /\ x.msg.pSrc \in Nat /\ x.msg.pDest \in Nat
  <2>1. x.link \in Nat /\ Memory \in Nat
    BY Kinds, LineIs, MemoryIsNode DEF Memory
  <2>2. x.msg.pSrc \in Nat /\ x.msg.pDest \in Nat
    BY <2>1, Kinds, MemoryIsNode DEF FromMemory
  <2> QED
    BY <2>1, <2>2 DEF MessagesOK
<1> QED
  BY <1>1 DEF OnItsWay

LEMMA OneSuch ==
  ASSUME OnLine, NEW net, NEW count, MessagesOK(net, count), Single(net),
         NEW x \in net, NEW y \in net, ~IsBroadcast(x.msg), ~IsBroadcast(y.msg),
         x.msg.pSrc = y.msg.pSrc, x.msg.pDest = y.msg.pDest, x.msg.msgNum = y.msg.msgNum
  PROVE  x = y
  BY OneWay DEF Single, Alike

(* The errand of a processor is its only one.                              *)
LEMMA Alone ==
  ASSUME NEW net, NEW act, NEW mem, NEW waits, ErrandsOK(net, act, mem, waits),
         NEW p \in Procs, NEW s \in Errands(net, act, mem, p)
  PROVE  /\ s.stage # "broadcast" => Announcing(net, act, p) = {}
         /\ s.stage # "acks" => Collecting(act, p) = {}
         /\ s.stage # "asking" => Asking(net, p) = {}
         /\ s.stage # "memory" => Waited(mem, p) = {}
         /\ s.stage # "answer" => Returning(net, p) = {}
         /\ waits[p] = {s.addr}
<1>1. \A t \in Errands(net, act, mem, p) : t = s
  BY DEF ErrandsOK
<1>2. \A t \in Announcing(net, act, p) : t.stage = "broadcast"
  BY DEF Announcing, Errand
<1>3. \A t \in Collecting(act, p) : t.stage = "acks"
  BY DEF Collecting, Errand
<1>4. \A t \in Asking(net, p) : t.stage = "asking"
  BY DEF Asking, Errand
<1>5. \A t \in Waited(mem, p) : t.stage = "memory"
  BY DEF Waited, Errand
<1>6. \A t \in Returning(net, p) : t.stage = "answer"
  BY DEF Returning, Errand
<1>7. waits[p] = {s.addr}
  BY <1>1 DEF ErrandsOK
<1> QED
  BY <1>1, <1>2, <1>3, <1>4, <1>5, <1>6, <1>7 DEF Errands

(* The request to the memory reaches it.                                   *)
LEMMA Asked ==
  ASSUME OnLine, NEW net, NEW act, NEW count, NEW mem2, NEW waits,
         Accounts(net, act, count, NULL, waits),
         NEW x \in net, ToMemory(x.msg),
         mem2 = [addr |-> x.msg.addr, procNum |-> x.msg.pSrc]
  PROVE  Accounts(Exchange(net, {x}, {}), act, count, mem2, waits)
<1> DEFINE net2 == Exchange(net, {x}, {})
           p0 == x.msg.pSrc
<1>1. /\ MessagesOK(net, count) /\ Single(net) /\ ErrandsOK(net, act, NULL, waits)
      /\ CopiesOK(net, act) /\ RepliesOK(net, act) /\ EntriesOK(net, act, count)
  BY DEF Accounts
<1>2. /\ ~IsBroadcast(x.msg) /\ ~IsReply(x.msg) /\ ~FromMemory(x.msg)
      /\ p0 \in Procs /\ x.msg.addr \in Addrs
      /\ \A z \in net : ToMemory(z.msg) => ~IsBroadcast(z.msg) /\ z.msg.pDest = Memory
                                           /\ z.msg.msgNum = -2
  BY <1>1, Kinds
<1>3. mem2 \in MemRequests /\ mem2.procNum = p0 /\ mem2.addr = x.msg.addr
  BY <1>2 DEF MemRequests
<1>4. MessagesOK(net2, count) /\ Single(net2)
  BY <1>1 DEF MessagesOK, Single, Exchange
<1>5. \A z : z \in net2 <=> z \in net /\ z # x
  BY DEF Exchange
<1> HIDE DEF net2
<1>6. CopiesOK(net2, act) /\ RepliesOK(net2, act) /\ EntriesOK(net2, act, count)
  <2>1. \A p, num : Replying(net2, p, num) = Replying(net, p, num)
    BY <1>2, <1>5, ReplyingSame DEF ReplyTo
  <2> QED
    BY <1>1, <1>2, <1>5, <2>1, Quiet
<1>7. ASSUME NEW p \in Procs
      PROVE  /\ Announcing(net2, act, p) = Announcing(net, act, p)
             /\ Returning(net2, p) = Returning(net, p)
  <2>1. Announcing(net2, act, p) \subseteq Announcing(net, act, p)
    BY <1>5, AnnouncingWithin
  <2>2. Announcing(net, act, p) \subseteq Announcing(net2, act, p)
    BY <1>2, <1>5, AnnouncingWithin
  <2>3. Returning(net2, p) \subseteq Returning(net, p)
    BY <1>5, ReturningWithin
  <2>4. Returning(net, p) \subseteq Returning(net2, p)
    BY <1>2, <1>5, ReturningWithin
  <2> QED
    BY <2>1, <2>2, <2>3, <2>4
<1>8. ASSUME NEW p \in Procs, p # p0
      PROVE  Errands(net2, act, mem2, p) = Errands(net, act, NULL, p)
  <2>1. Asking(net2, p) \subseteq Asking(net, p)
    BY <1>5, AskingWithin
  <2>2. Asking(net, p) \subseteq Asking(net2, p)
    BY <1>5, <1>8, AskingWithin
  <2>3. Waited(mem2, p) = {} /\ Waited(NULL, p) = {}
    BY <1>3, <1>8, WaitedFor
  <2> QED
    BY <1>7, <2>1, <2>2, <2>3 DEF Errands
<1>9. Errands(net2, act, mem2, p0) = {Errand("memory", 0, x.msg.addr)}
      /\ waits[p0] = {x.msg.addr}
  <2> DEFINE s == Errand("asking", 0, x.msg.addr)
  <2>1. s \in Errands(net, act, NULL, p0)
    BY <1>2 DEF Errands, Asking
  <2>2. s.stage = "asking" /\ s.addr = x.msg.addr
    BY DEF Errand
  <2> HIDE DEF s
  <2>3. /\ Announcing(net, act, p0) = {} /\ Collecting(act, p0) = {}
        /\ Returning(net, p0) = {} /\ waits[p0] = {x.msg.addr}
    BY <1>1, <1>2, <2>1, <2>2, Alone
  <2>4. Asking(net2, p0) = {}
    <3>1. \A z \in net2 : ~(ToMemory(z.msg) /\ z.msg.pSrc = p0)
      BY <1>1, <1>2, <1>5, OneSuch
    <3> QED
      BY <3>1 DEF Asking
  <2>5. Waited(mem2, p0) = {Errand("memory", 0, x.msg.addr)}
    BY <1>3, WaitedFor
  <2> QED
    BY <1>2, <1>7, <2>3, <2>4, <2>5 DEF Errands
<1>10. ErrandsOK(net2, act, mem2, waits)
  <2>1. Errand("memory", 0, x.msg.addr).addr = x.msg.addr
    BY DEF Errand
  <2>2. ASSUME NEW p \in Procs
        PROVE  Onward(Errands(net, act, NULL, p), waits[p],
                      Errands(net2, act, mem2, p), waits[p])
    BY <1>8, <1>9, <2>1 DEF Onward
  <2> QED
    BY <1>1, <2>2, ErrandsKept
<1>11. Accounts(net2, act, count, mem2, waits)
  BY <1>3, <1>4, <1>6, <1>10 DEF Accounts
<1> QED
  BY <1>11 DEF net2

(* The memory answers.                                                     *)
LEMMA Served ==
  ASSUME OnLine, NEW net, NEW act, NEW count, NEW mem \in MemRequests, NEW waits,
         Accounts(net, act, count, mem, waits),
         NEW y \in Places, OnItsWay(y), y.msg.brt = "DATA", y.msg.addr = mem.addr,
         y.msg.pSrc = Memory, y.msg.pDest = mem.procNum, y.msg.msgNum = -2
  PROVE  /\ \A z \in net : ~Alike(y, z)
         /\ Accounts(Exchange(net, {}, {y}), act, count, NULL, waits)
<1> DEFINE net2 == Exchange(net, {}, {y})
           p0 == mem.procNum
<1>1. /\ MessagesOK(net, count) /\ Single(net) /\ ErrandsOK(net, act, mem, waits)
      /\ CopiesOK(net, act) /\ RepliesOK(net, act) /\ EntriesOK(net, act, count)
  BY DEF Accounts
<1>2. /\ ~IsBroadcast(y.msg) /\ ~IsReply(y.msg) /\ FromMemory(y.msg) /\ ~ToMemory(y.msg)
      /\ p0 \in Procs /\ y.msg.addr \in Addrs /\ KindOK(y.msg, count) /\ mem # NULL
  BY MemoryIsNode, NullAssumption
  DEF IsBroadcast, IsReply, FromMemory, ToMemory, MemRequests, KindOK
<1>3. /\ Announcing(net, act, p0) = {} /\ Collecting(act, p0) = {}
      /\ Asking(net, p0) = {} /\ Returning(net, p0) = {} /\ waits[p0] = {y.msg.addr}
  <2> DEFINE s == Errand("memory", 0, mem.addr)
  <2>1. s \in Errands(net, act, mem, p0)
    BY WaitedFor DEF Errands
  <2>2. s.stage = "memory" /\ s.addr = y.msg.addr
    BY DEF Errand
  <2> HIDE DEF s
  <2> QED
    BY <1>1, <1>2, <2>1, <2>2, Alone
<1>4. \A z \in net : ~Alike(y, z)
  <2> SUFFICES ASSUME NEW z \in net, Alike(y, z) PROVE FALSE
    OBVIOUS
  <2>1. FromMemory(z.msg) /\ z.msg.pDest = p0
    BY DEF Alike, FromMemory
  <2> QED
    BY <1>3, <2>1 DEF Returning
<1>5. MessagesOK(net2, count) /\ Single(net2)
  <2>1. MessagesOK({y}, count) /\ Single({y})
    BY <1>2 DEF MessagesOK, Single
  <2> QED
    BY <1>1, <1>4, <2>1, MessagesKept
<1>6. \A z : z \in net2 <=> z \in net \/ z = y
  BY DEF Exchange
<1> HIDE DEF net2
<1>7. CopiesOK(net2, act) /\ RepliesOK(net2, act) /\ EntriesOK(net2, act, count)
  <2>1. \A p, num : Replying(net2, p, num) = Replying(net, p, num)
    BY <1>2, <1>6, ReplyingSame DEF ReplyTo
  <2> QED
    BY <1>1, <1>2, <1>6, <2>1, Quiet
<1>8. ASSUME NEW p \in Procs
      PROVE  /\ Announcing(net2, act, p) = Announcing(net, act, p)
             /\ Asking(net2, p) = Asking(net, p)
  <2>1. Announcing(net2, act, p) \subseteq Announcing(net, act, p)
    BY <1>2, <1>6, AnnouncingWithin
  <2>2. Announcing(net, act, p) \subseteq Announcing(net2, act, p)
    BY <1>6, AnnouncingWithin
  <2>3. Asking(net2, p) \subseteq Asking(net, p)
    BY <1>2, <1>6, AskingWithin
  <2>4. Asking(net, p) \subseteq Asking(net2, p)
    BY <1>6, AskingWithin
  <2> QED
    BY <2>1, <2>2, <2>3, <2>4
<1>9. ASSUME NEW p \in Procs, p # p0
      PROVE  Errands(net2, act, NULL, p) = Errands(net, act, mem, p)
  <2>1. Returning(net2, p) \subseteq Returning(net, p)
    BY <1>6, <1>9, ReturningWithin
  <2>2. Returning(net, p) \subseteq Returning(net2, p)
    BY <1>6, ReturningWithin
  <2>3. Waited(mem, p) = {} /\ Waited(NULL, p) = {}
    BY <1>9, WaitedFor
  <2> QED
    BY <1>8, <2>1, <2>2, <2>3 DEF Errands
<1>10. Errands(net2, act, NULL, p0) = {Errand("answer", 0, y.msg.addr)}
  <2>1. Returning(net2, p0) = {Errand("answer", 0, y.msg.addr)}
    <3>1. \A z \in net2 : FromMemory(z.msg) /\ z.msg.pDest = p0 <=> z = y
      BY <1>2, <1>3, <1>6 DEF Returning
    <3>2. y \in net2
      BY <1>6
    <3> QED
      BY <3>1, <3>2 DEF Returning
  <2>2. Waited(NULL, p0) = {}
    BY DEF Waited
  <2> QED
    BY <1>2, <1>3, <1>8, <2>1, <2>2 DEF Errands
<1>11. ErrandsOK(net2, act, NULL, waits)
  <2>1. Errand("answer", 0, y.msg.addr).addr = y.msg.addr
    BY DEF Errand
  <2>2. ASSUME NEW p \in Procs
        PROVE  Onward(Errands(net, act, mem, p), waits[p],
                      Errands(net2, act, NULL, p), waits[p])
    BY <1>3, <1>9, <1>10, <2>1 DEF Onward
  <2> QED
    BY <1>1, <2>2, ErrandsKept
<1>12. Accounts(net2, act, count, NULL, waits)
  BY <1>5, <1>7, <1>11 DEF Accounts
<1> QED
  BY <1>4, <1>12 DEF net2

(* The answer of the memory reaches the processor.                         *)
LEMMA Returned ==
  ASSUME OnLine, NEW net, NEW act, NEW count, NEW mem, NEW waits, NEW waits2,
         Accounts(net, act, count, mem, waits),
         NEW x \in net, FromMemory(x.msg),
         waits2 = [waits EXCEPT ![x.msg.pDest] = @ \ {x.msg.addr}]
  PROVE  /\ x.msg.addr \in waits[x.msg.pDest]
         /\ Accounts(Exchange(net, {x}, {}), act, count, mem, waits2)
<1> DEFINE net2 == Exchange(net, {x}, {})
           p0 == x.msg.pDest
<1>1. /\ MessagesOK(net, count) /\ Single(net) /\ ErrandsOK(net, act, mem, waits)
      /\ CopiesOK(net, act) /\ RepliesOK(net, act) /\ EntriesOK(net, act, count)
  BY DEF Accounts
<1>2. /\ ~IsBroadcast(x.msg) /\ ~IsReply(x.msg) /\ ~ToMemory(x.msg)
      /\ p0 \in Procs /\ x.msg.addr \in Addrs
      /\ \A z \in net : FromMemory(z.msg) => ~IsBroadcast(z.msg) /\ z.msg.msgNum = -2
  BY <1>1, Kinds
<1>3. MessagesOK(net2, count) /\ Single(net2)
  BY <1>1 DEF MessagesOK, Single, Exchange
<1>4. \A z : z \in net2 <=> z \in net /\ z # x
  BY DEF Exchange
<1> HIDE DEF net2
<1>5. CopiesOK(net2, act) /\ RepliesOK(net2, act) /\ EntriesOK(net2, act, count)
  <2>1. \A p, num : Replying(net2, p, num) = Replying(net, p, num)
    BY <1>2, <1>4, ReplyingSame DEF ReplyTo
  <2> QED
    BY <1>1, <1>2, <1>4, <2>1, Quiet
<1>6. ASSUME NEW p \in Procs
      PROVE  /\ Announcing(net2, act, p) = Announcing(net, act, p)
             /\ Asking(net2, p) = Asking(net, p)
  <2>1. Announcing(net2, act, p) \subseteq Announcing(net, act, p)
    BY <1>4, AnnouncingWithin
  <2>2. Announcing(net, act, p) \subseteq Announcing(net2, act, p)
    BY <1>2, <1>4, AnnouncingWithin
  <2>3. Asking(net2, p) \subseteq Asking(net, p)
    BY <1>4, AskingWithin
  <2>4. Asking(net, p) \subseteq Asking(net2, p)
    BY <1>2, <1>4, AskingWithin
  <2> QED
    BY <2>1, <2>2, <2>3, <2>4
<1>7. waits \in [Procs -> SUBSET Addrs]
  BY DEF Accounts
<1>8. ASSUME NEW p \in Procs, p # p0
      PROVE  Errands(net2, act, mem, p) = Errands(net, act, mem, p) /\ waits2[p] = waits[p]
  <2>1. Returning(net2, p) \subseteq Returning(net, p)
    BY <1>4, ReturningWithin
  <2>2. Returning(net, p) \subseteq Returning(net2, p)
    BY <1>4, <1>8, ReturningWithin
  <2> QED
    BY <1>6, <1>7, <1>8, <2>1, <2>2 DEF Errands
<1>9. Errands(net2, act, mem, p0) = {} /\ waits[p0] = {x.msg.addr}
  <2> DEFINE s == Errand("answer", 0, x.msg.addr)
  <2>1. s \in Errands(net, act, mem, p0)
    BY DEF Errands, Returning
  <2>2. s.stage = "answer" /\ s.addr = x.msg.addr
    BY DEF Errand
  <2> HIDE DEF s
  <2>3. /\ Announcing(net, act, p0) = {} /\ Collecting(act, p0) = {}
        /\ Asking(net, p0) = {} /\ Waited(mem, p0) = {} /\ waits[p0] = {x.msg.addr}
    BY <1>1, <1>2, <2>1, <2>2, Alone
  <2>4. Returning(net2, p0) = {}
    <3>1. \A z \in net2 : ~(FromMemory(z.msg) /\ z.msg.pDest = p0)
      BY <1>1, <1>2, <1>4, OneSuch DEF FromMemory
    <3> QED
      BY <3>1 DEF Returning
  <2> QED
    BY <1>2, <1>6, <2>3, <2>4 DEF Errands
<1>10. waits2 \in [Procs -> SUBSET Addrs] /\ waits2[p0] = {}
  BY <1>2, <1>7, <1>9
<1>11. ErrandsOK(net2, act, mem, waits2)
  <2>1. ASSUME NEW p \in Procs
        PROVE  Onward(Errands(net, act, mem, p), waits[p],
                      Errands(net2, act, mem, p), waits2[p])
    BY <1>8, <1>9, <1>10 DEF Onward
  <2> QED
    BY <1>1, <2>1, ErrandsKept
<1>12. Accounts(net2, act, count, mem, waits2)
  BY <1>3, <1>5, <1>10, <1>11 DEF Accounts
<1> QED
  BY <1>9, <1>12 DEF net2

(* A broadcast reaches the next processor, which replies, and goes on.     *)
LEMMA Spread ==
  ASSUME OnLine, NEW net, NEW act, NEW count, NEW mem, NEW waits,
         Accounts(net, act, count, mem, waits),
         NEW x \in net, IsBroadcast(x.msg), TrackedIn(act, x.msg.pSrc, x.msg.msgNum),
         NEW here \in Ahead(x), NEW fwd, Single(fwd),
         \A y \in fwd : /\ y \in Places /\ OnItsWay(y) /\ Alike(y, x)
                        /\ y.msg.brt = x.msg.brt /\ y.msg.addr = x.msg.addr,
         \A q \in Procs : (\E y \in fwd : q \in Ahead(y)) <=> q \in Ahead(x) /\ q # here,
         NEW r \in Places, OnItsWay(r), r.msg.brt \in {"ACK", "DATA"},
         r.msg.addr = x.msg.addr, r.msg.pSrc = here, r.msg.pDest = x.msg.pSrc,
         r.msg.msgNum = x.msg.msgNum
  PROVE  /\ \A z \in net : ~Alike(r, z)
         /\ Accounts(Exchange(net, {x}, fwd \cup {r}), act, count, mem, waits)
<1> DEFINE net2 == Exchange(net, {x}, fwd \cup {r})
           p0 == x.msg.pSrc
           n0 == x.msg.msgNum
<1>1. /\ MessagesOK(net, count) /\ Single(net) /\ ErrandsOK(net, act, mem, waits)
      /\ CopiesOK(net, act) /\ RepliesOK(net, act) /\ EntriesOK(net, act, count)
  BY DEF Accounts
<1>2. /\ p0 \in Procs /\ n0 \in 1 .. count /\ x.msg.pDest = -1 /\ x.msg.addr \in Addrs
      /\ here \in Procs /\ KindOK(x.msg, count)
  BY <1>1, Kinds DEF Ahead, MessagesOK
<1>3. /\ IsReply(r.msg) /\ ~IsBroadcast(r.msg) /\ ~ToMemory(r.msg) /\ ~FromMemory(r.msg)
      /\ KindOK(r.msg, count)
  BY <1>2, MemoryIsNode DEF IsReply, IsBroadcast, ToMemory, FromMemory, KindOK
<1>4. ASSUME NEW y \in fwd
      PROVE  /\ IsBroadcast(y.msg) /\ ~IsReply(y.msg) /\ ~ToMemory(y.msg) /\ ~FromMemory(y.msg)
             /\ y.msg.pSrc = p0 /\ y.msg.msgNum = n0 /\ y.msg.pDest = -1
             /\ KindOK(y.msg, count)
  BY <1>2, MemoryIsNode DEF Alike, IsReply, IsBroadcast, ToMemory, FromMemory, KindOK
<1>5. CopyOf(x, p0, n0) /\ here \in Missing(net, p0, n0)
  BY <1>2 DEF CopyOf, Missing
<1>6. here \notin Replying(net, p0, n0)
  BY <1>1, <1>5 DEF Replying, ReplyTo, RepliesOK
<1>7. \A z \in net : ~Alike(r, z)
  <2> SUFFICES ASSUME NEW z \in net, Alike(r, z) PROVE FALSE
    OBVIOUS
  <2>1. z.msg.pSrc = here /\ z.msg.pDest = p0 /\ z.msg.msgNum = n0
    BY DEF Alike
  <2>2. IsReply(z.msg)
    BY <1>1, <1>2, <2>1, Kinds, MemoryIsNode DEF FromMemory
  <2> QED
    BY <1>2, <1>6, <2>1, <2>2 DEF Replying, ReplyTo
<1>8. MessagesOK(net2, count) /\ Single(net2)
  <2>1. MessagesOK(fwd \cup {r}, count)
    BY <1>3, <1>4 DEF MessagesOK
  <2>2. Single(fwd \cup {r})
    <3>1. \A y \in fwd : ~Alike(y, r) /\ ~Alike(r, y)
      BY <1>2, <1>4, MemoryIsNode DEF Alike
    <3> QED
      BY <3>1 DEF Single
  <2>3. \A y \in fwd \cup {r}, z \in net : Alike(y, z) => z \in {x}
    BY <1>1, <1>7 DEF Single, Alike
  <2> QED
    BY <1>1, <2>1, <2>2, <2>3, MessagesKept
<1>9. \A z : z \in net2 <=> (z \in net /\ z # x) \/ z \in fwd \/ z = r
  BY DEF Exchange
<1> HIDE DEF net2
<1>10. Missing(net2, p0, n0) = Missing(net, p0, n0) \ {here}
  <2>1. ASSUME NEW q \in Procs, NEW z \in net2, CopyOf(z, p0, n0), q \in Ahead(z)
        PROVE  q \in Missing(net, p0, n0) /\ q # here
    <3>1. z # r
      BY <1>3, <2>1 DEF CopyOf
    <3>2. CASE z \in fwd
      BY <1>5, <2>1, <3>2 DEF Missing
    <3>3. CASE z \in net /\ z # x
      BY <1>1, <1>5, <2>1, <3>3, AheadOfOne DEF Missing
    <3> QED
      BY <1>9, <3>1, <3>2, <3>3
  <2>2. ASSUME NEW q \in Procs, NEW z \in net, CopyOf(z, p0, n0), q \in Ahead(z), q # here
        PROVE  q \in Missing(net2, p0, n0)
    <3>1. CASE z = x
      <4>1. PICK y \in fwd : q \in Ahead(y)
        BY <2>2, <3>1
      <4> QED
        BY <1>4, <1>9, <4>1 DEF Missing, CopyOf
    <3>2. CASE z # x
      BY <1>9, <2>2, <3>2 DEF Missing
    <3> QED
      BY <3>1, <3>2
  <2> QED
    BY <2>1, <2>2 DEF Missing
<1>11. ASSUME NEW p, NEW num, ~(p = p0 /\ num = n0)
       PROVE  /\ Missing(net2, p, num) = Missing(net, p, num)
              /\ Replying(net2, p, num) = Replying(net, p, num)
  <2>1. \A z : CopyOf(z, p, num) => (z \in net <=> z \in net2)
    BY <1>3, <1>4, <1>9, <1>11 DEF CopyOf
  <2>2. \A z : ReplyTo(z, p, num) => (z \in net <=> z \in net2)
    <3>1. ~ReplyTo(x, p, num)
      BY <1>1, Kinds DEF ReplyTo
    <3>2. ~ReplyTo(r, p, num)
      BY <1>11 DEF ReplyTo
    <3> QED
      BY <1>4, <1>9, <3>1, <3>2 DEF ReplyTo
  <2> QED
    BY <2>1, <2>2, MissingSame, ReplyingSame
<1>12. Replying(net2, p0, n0) = Replying(net, p0, n0) \cup {here}
  <2>1. ReplyTo(r, p0, n0) /\ ~ReplyTo(x, p0, n0)
    BY <1>1, <1>3, Kinds DEF ReplyTo
  <2>2. \A y \in fwd : ~ReplyTo(y, p0, n0)
    BY <1>4 DEF ReplyTo
  <2> QED
    BY <1>2, <1>9, <2>1, <2>2 DEF Replying
<1>13. CopiesOK(net2, act)
  <2> SUFFICES ASSUME NEW z \in net2, IsBroadcast(z.msg)
               PROVE  IF TrackedIn(act, z.msg.pSrc, z.msg.msgNum)
                      THEN \A e \in act[z.msg.pSrc] : e.addr = z.msg.addr
                      ELSE /\ z.msg.procNum = z.msg.pSrc
                           /\ Missing(net2, z.msg.pSrc, z.msg.msgNum) = Procs \ {z.msg.pSrc}
    BY DEF CopiesOK
  <2>1. CASE z \in fwd
    <3>1. z.msg.pSrc = p0 /\ z.msg.msgNum = n0 /\ z.msg.addr = x.msg.addr
      BY <1>4, <2>1
    <3>2. \A e \in act[p0] : e.addr = x.msg.addr
      BY <1>1 DEF CopiesOK
    <3> QED
      BY <3>1, <3>2
  <2>2. CASE z \in net /\ TrackedIn(act, z.msg.pSrc, z.msg.msgNum)
    BY <1>1, <2>2 DEF CopiesOK
  <2>3. CASE z \in net /\ ~TrackedIn(act, z.msg.pSrc, z.msg.msgNum)
    <3>1. ~(z.msg.pSrc = p0 /\ z.msg.msgNum = n0)
      BY <2>3
    <3> QED
      BY <1>1, <1>11, <2>3, <3>1 DEF CopiesOK
  <2> QED
    BY <1>3, <1>9, <2>1, <2>2, <2>3
<1>14. \A p, num : Missing(net2, p, num) \subseteq Missing(net, p, num)
  BY <1>10, <1>11
<1>15. RepliesOK(net2, act)
  <2> SUFFICES ASSUME NEW z \in net2, IsReply(z.msg)
               PROVE  /\ \E e \in act[z.msg.pDest] : e.msgNum = z.msg.msgNum
                                                     /\ e.addr = z.msg.addr
                      /\ z.msg.pSrc \notin Missing(net2, z.msg.pDest, z.msg.msgNum)
    BY DEF RepliesOK
  <2>1. CASE z = r
    <3>1. PICK e \in act[p0] : e.msgNum = n0
      BY DEF TrackedIn
    <3>2. e.addr = x.msg.addr
      BY <1>1 DEF CopiesOK
    <3> QED
      BY <1>10, <2>1, <3>1, <3>2
  <2>2. CASE z \in net
    BY <1>1, <1>14, <2>2 DEF RepliesOK
  <2> QED
    BY <1>4, <1>9, <2>1, <2>2
<1>16. EntriesOK(net2, act, count)
  <2> SUFFICES ASSUME NEW p \in Procs, NEW e \in act[p]
               PROVE  Sums(net2, p, e)
    BY <1>1 DEF EntriesOK
  <2>1. Sums(net, p, e) /\ e.numAcks \in Nat
    BY <1>1 DEF EntriesOK, Accounts, ActiveEntries
  <2>2. CASE p = p0 /\ e.msgNum = n0
    <3> DEFINE M == Missing(net, p0, n0)
               R == Replying(net, p0, n0)
    <3>1. M \subseteq Procs /\ R \subseteq Procs
      BY DEF Missing, Replying
    <3> HIDE DEF M, R
    <3>2. /\ Cardinality(M) \in Nat /\ Cardinality(R) \in Nat
          /\ Cardinality(M \ {here}) = Cardinality(M) - 1
          /\ Cardinality(R \cup {here}) = Cardinality(R) + 1
      BY <1>2, <1>5, <1>6, <3>1, Counted0 DEF M, R
    <3>3. e.numAcks + Cardinality(R) + Cardinality(M) = LastLink
      BY <2>1, <2>2 DEF Sums, M, R
    <3>4. e.numAcks + Cardinality(R \cup {here}) + Cardinality(M \ {here}) = LastLink
      BY <2>1, <3>2, <3>3
    <3> QED
      BY <1>10, <1>12, <2>2, <3>4 DEF Sums, M, R
  <2>3. CASE ~(p = p0 /\ e.msgNum = n0)
    BY <1>11, <2>1, <2>3 DEF Sums
  <2> QED
    BY <2>2, <2>3
<1>17. ASSUME NEW p \in Procs
       PROVE  Errands(net2, act, mem, p) = Errands(net, act, mem, p)
  <2>1. Announcing(net2, act, p) \subseteq Announcing(net, act, p)
    BY <1>3, <1>4, <1>9, AnnouncingWithin
  <2>2. Announcing(net, act, p) \subseteq Announcing(net2, act, p)
    BY <1>9, AnnouncingWithin
  <2>3. Asking(net2, p) \subseteq Asking(net, p)
    BY <1>3, <1>4, <1>9, AskingWithin
  <2>4. Asking(net, p) \subseteq Asking(net2, p)
    <3>1. ~ToMemory(x.msg)
      BY <1>1, Kinds
    <3> QED
      BY <1>9, <3>1, AskingWithin
  <2>5. Returning(net2, p) \subseteq Returning(net, p)
    BY <1>3, <1>4, <1>9, ReturningWithin
  <2>6. Returning(net, p) \subseteq Returning(net2, p)
    <3>1. ~FromMemory(x.msg)
      BY <1>1, Kinds
    <3> QED
      BY <1>9, <3>1, ReturningWithin
  <2> QED
    BY <2>1, <2>2, <2>3, <2>4, <2>5, <2>6 DEF Errands
<1>18. ErrandsOK(net2, act, mem, waits)
  BY <1>17 DEF Accounts, ErrandsOK
<1>19. Accounts(net2, act, count, mem, waits)
  BY <1>8, <1>13, <1>15, <1>16, <1>18 DEF Accounts
<1> QED
  BY <1>7, <1>19 DEF net2

(* A reply comes to the one entry of its destination, and there is room    *)
(* for it; when it is the last one, nobody is left to be reached or heard. *)
LEMMA ReplyFits ==
  ASSUME OnLine, NEW net, NEW act, NEW count, NEW mem, NEW waits,
         Accounts(net, act, count, mem, waits),
         NEW x \in net, IsReply(x.msg),
         NEW e \in act[x.msg.pDest], e.msgNum = x.msg.msgNum
  PROVE  /\ act[x.msg.pDest] = {e} /\ x.msg.pDest \in Procs /\ x.msg.pSrc \in Procs
         /\ e \in ActiveEntries /\ ~e.shared /\ e.numAcks + 1 <= LastLink
         /\ e.addr = x.msg.addr /\ waits[x.msg.pDest] = {e.addr}
         /\ x.msg.pSrc \in Replying(net, x.msg.pDest, x.msg.msgNum)
         /\ e.numAcks + 1 = LastLink =>
              /\ \A z : z \in net => ~CopyOf(z, x.msg.pDest, x.msg.msgNum)
              /\ \A z \in net : ReplyTo(z, x.msg.pDest, x.msg.msgNum) => z = x
<1> DEFINE p0 == x.msg.pDest
           n0 == x.msg.msgNum
           M == Missing(net, p0, n0)
           R == Replying(net, p0, n0)
<1>1. /\ MessagesOK(net, count) /\ Single(net) /\ ErrandsOK(net, act, mem, waits)
      /\ CopiesOK(net, act) /\ RepliesOK(net, act) /\ EntriesOK(net, act, count)
      /\ act \in [Procs -> SUBSET ActiveEntries]
  BY DEF Accounts
<1>2. p0 \in Procs /\ x.msg.pSrc \in Procs
  BY <1>1, Kinds
<1>3. act[p0] = {e} /\ ~e.shared /\ Sums(net, p0, e) /\ e \in ActiveEntries
  BY <1>1, <1>2 DEF EntriesOK
<1>4. x.msg.pSrc \in R
  BY <1>2 DEF Replying, ReplyTo
<1>5. e.addr = x.msg.addr
  BY <1>1, <1>3 DEF RepliesOK
<1>6. waits[p0] = {e.addr}
  <2> DEFINE s == Errand("acks", n0, e.addr)
  <2>1. s \in Errands(net, act, mem, p0)
    BY DEF Errands, Collecting
  <2>2. s.addr = e.addr
    BY DEF Errand
  <2> HIDE DEF s
  <2> QED
    BY <1>1, <1>2, <2>1, <2>2, Alone
<1>7. M \subseteq Procs /\ R \subseteq Procs
  BY DEF Missing, Replying
<1>8. e.numAcks + Cardinality(R) + Cardinality(M) = LastLink /\ e.numAcks \in Nat
  BY <1>3 DEF Sums, ActiveEntries
<1> HIDE DEF M, R
<1>9. /\ Cardinality(M) \in Nat /\ Cardinality(R) \in Nat
      /\ Cardinality(M) = 0 <=> M = {}
      /\ Cardinality(R \ {x.msg.pSrc}) = Cardinality(R) - 1
      /\ Cardinality(R \ {x.msg.pSrc}) \in Nat
      /\ Cardinality(R \ {x.msg.pSrc}) = 0 <=> R \ {x.msg.pSrc} = {}
  <2>1. R \ {x.msg.pSrc} \subseteq Procs
    BY <1>7
  <2> QED
    BY <1>4, <1>7, <2>1, Counted0
<1>10. e.numAcks + 1 <= LastLink
  BY <1>8, <1>9, LineIs, SMTT(30)
<1>11. ASSUME e.numAcks + 1 = LastLink
       PROVE  /\ \A z : z \in net => ~CopyOf(z, p0, n0)
              /\ \A z \in net : ReplyTo(z, p0, n0) => z = x
  <2>1. Cardinality(M) = 0 /\ Cardinality(R \ {x.msg.pSrc}) = 0
    BY <1>8, <1>9, <1>11, LineIs, SMTT(30)
  <2>2. M = {} /\ R \ {x.msg.pSrc} = {}
    BY <1>9, <2>1
  <2>3. ASSUME NEW z \in net PROVE ~CopyOf(z, p0, n0)
    <3> SUFFICES ASSUME CopyOf(z, p0, n0) PROVE FALSE
      OBVIOUS
    <3>1. PICK q \in Ahead(z) : q \in Procs
      BY <1>1, AheadIs DEF CopyOf
    <3> QED
      BY <2>2, <3>1 DEF M, Missing
  <2>4. ASSUME NEW z \in net, ReplyTo(z, p0, n0) PROVE z = x
    <3>1. z.msg.pSrc \in R
      BY <1>1, <2>4, Kinds DEF R, Replying, ReplyTo
    <3>2. z.msg.pSrc = x.msg.pSrc
      BY <2>2, <3>1
    <3>3. ~IsBroadcast(x.msg) /\ ~IsBroadcast(z.msg)
      BY <2>4 DEF ReplyTo, IsReply, IsBroadcast
    <3> QED
      BY <1>1, <2>4, <3>2, <3>3, OneSuch DEF ReplyTo
  <2> QED
    BY <2>3, <2>4
<1> QED
  BY <1>2, <1>3, <1>4, <1>5, <1>6, <1>10, <1>11 DEF R

(* A reply that is not the last one is counted.                            *)
LEMMA ReplyCounted ==
  ASSUME OnLine, NEW net, NEW act, NEW count, NEW mem, NEW waits, NEW act2,
         Accounts(net, act, count, mem, waits),
         NEW x \in net, IsReply(x.msg),
         NEW e \in act[x.msg.pDest], e.msgNum = x.msg.msgNum,
         NEW d \in ActiveEntries, d.msgNum = e.msgNum, d.addr = e.addr, ~d.shared,
         d.numAcks = e.numAcks + 1,
         act2 = [act EXCEPT ![x.msg.pDest] = (@ \ {e}) \cup {d}]
  PROVE  Accounts(Exchange(net, {x}, {}), act2, count, mem, waits)
<1> DEFINE net2 == Exchange(net, {x}, {})
           p0 == x.msg.pDest
           n0 == x.msg.msgNum
<1>1. /\ MessagesOK(net, count) /\ Single(net) /\ ErrandsOK(net, act, mem, waits)
      /\ CopiesOK(net, act) /\ RepliesOK(net, act) /\ EntriesOK(net, act, count)
      /\ act \in [Procs -> SUBSET ActiveEntries]
  BY DEF Accounts
<1>2. /\ act[p0] = {e} /\ p0 \in Procs /\ x.msg.pSrc \in Procs /\ e \in ActiveEntries
      /\ x.msg.pSrc \in Replying(net, p0, n0)
  BY ReplyFits
<1>3. act2[p0] = {d} /\ \A p \in Procs : p # p0 => act2[p] = act[p]
  BY <1>1, <1>2
<1>4. act2 \in [Procs -> SUBSET ActiveEntries]
  BY <1>1, <1>2, <1>3
<1>5. \A p \in Procs : \A num : TrackedIn(act2, p, num) <=> TrackedIn(act, p, num)
  BY <1>2, <1>3 DEF TrackedIn
<1>6. ~IsBroadcast(x.msg) /\ ~ToMemory(x.msg) /\ ~FromMemory(x.msg)
  BY <1>1, Kinds
<1>7. MessagesOK(net2, count) /\ Single(net2)
  BY <1>1 DEF MessagesOK, Single, Exchange
<1>8. \A z : z \in net2 <=> z \in net /\ z # x
  BY DEF Exchange
<1> HIDE DEF net2
<1>9. \A p, num : Missing(net2, p, num) = Missing(net, p, num)
  BY <1>6, <1>8, MissingSame DEF CopyOf
<1>10. ASSUME NEW p, NEW num, ~(p = p0 /\ num = n0)
       PROVE  Replying(net2, p, num) = Replying(net, p, num)
  <2>1. ~ReplyTo(x, p, num)
    BY <1>10 DEF ReplyTo
  <2> QED
    BY <1>8, <2>1, ReplyingSame
<1>11. Replying(net2, p0, n0) = Replying(net, p0, n0) \ {x.msg.pSrc}
  <2>1. ASSUME NEW z \in net, ReplyTo(z, p0, n0), z.msg.pSrc = x.msg.pSrc PROVE z = x
    <3>1. ~IsBroadcast(z.msg)
      BY <2>1 DEF ReplyTo, IsReply, IsBroadcast
    <3> QED
      BY <1>1, <1>6, <2>1, <3>1, OneSuch DEF ReplyTo
  <2> QED
    BY <1>8, <2>1 DEF Replying
<1>12. CopiesOK(net2, act2)
  <2> SUFFICES ASSUME NEW z \in net2, IsBroadcast(z.msg)
               PROVE  IF TrackedIn(act2, z.msg.pSrc, z.msg.msgNum)
                      THEN \A f \in act2[z.msg.pSrc] : f.addr = z.msg.addr
                      ELSE /\ z.msg.procNum = z.msg.pSrc
                           /\ Missing(net2, z.msg.pSrc, z.msg.msgNum) = Procs \ {z.msg.pSrc}
    BY DEF CopiesOK
  <2>1. z \in net /\ z.msg.pSrc \in Procs
    BY <1>1, <1>8, Kinds
  <2>2. \A f \in act2[z.msg.pSrc] : \E g \in act[z.msg.pSrc] : f.addr = g.addr
    BY <1>2, <1>3, <2>1
  <2> QED
    BY <1>1, <1>5, <1>9, <2>1, <2>2, ZenonT(30) DEF CopiesOK
<1>13. RepliesOK(net2, act2)
  <2> SUFFICES ASSUME NEW z \in net2, IsReply(z.msg)
               PROVE  /\ \E f \in act2[z.msg.pDest] : f.msgNum = z.msg.msgNum
                                                      /\ f.addr = z.msg.addr
                      /\ z.msg.pSrc \notin Missing(net2, z.msg.pDest, z.msg.msgNum)
    BY DEF RepliesOK
  <2>1. z \in net /\ z.msg.pDest \in Procs
    BY <1>1, <1>8, Kinds
  <2>2. \E f \in act[z.msg.pDest] : f.msgNum = z.msg.msgNum /\ f.addr = z.msg.addr
    BY <1>1, <2>1 DEF RepliesOK
  <2>3. \E f \in act2[z.msg.pDest] : f.msgNum = z.msg.msgNum /\ f.addr = z.msg.addr
    BY <1>2, <1>3, <2>1, <2>2
  <2> QED
    BY <1>1, <1>9, <2>1, <2>3 DEF RepliesOK
<1>14. EntriesOK(net2, act2, count)
  <2> SUFFICES ASSUME NEW p \in Procs, NEW f \in act2[p]
               PROVE  /\ f.msgNum \in 1 .. count /\ ~f.shared
                      /\ Sums(net2, p, f)
                      /\ \A g \in act2[p] : f = g
    BY DEF EntriesOK
  <2>1. CASE p = p0
    <3> DEFINE M == Missing(net, p0, n0)
               R == Replying(net, p0, n0)
    <3>1. f = d
      BY <1>3, <2>1
    <3>2. M \subseteq Procs /\ R \subseteq Procs
      BY DEF Missing, Replying
    <3>3. e.numAcks + Cardinality(R) + Cardinality(M) = LastLink
          /\ e.numAcks \in Nat /\ e.msgNum \in 1 .. count
      BY <1>1, <1>2 DEF EntriesOK, Sums, ActiveEntries
    <3> HIDE DEF M, R
    <3>4. /\ Cardinality(M) \in Nat /\ Cardinality(R) \in Nat
          /\ Cardinality(R \ {x.msg.pSrc}) = Cardinality(R) - 1
      BY <1>2, <3>2, Counted0 DEF R
    <3>5. d.numAcks + Cardinality(R \ {x.msg.pSrc}) + Cardinality(M) = LastLink
      BY <3>3, <3>4
    <3>6. Sums(net2, p0, d)
      BY <1>9, <1>11, <3>5 DEF Sums, M, R
    <3> QED
      BY <1>3, <2>1, <3>1, <3>3, <3>6
  <2>2. CASE p # p0
    <3>1. f \in act[p] /\ act2[p] = act[p]
      BY <1>3, <2>2
    <3> QED
      BY <1>1, <1>9, <1>10, <2>2, <3>1 DEF EntriesOK, Sums
  <2> QED
    BY <2>1, <2>2
<1>15. ASSUME NEW p \in Procs
       PROVE  Errands(net2, act2, mem, p) = Errands(net, act, mem, p)
  <2>1. Announcing(net2, act2, p) \subseteq Announcing(net, act, p)
    <3>1. \A y \in net2 : IsBroadcast(y.msg) /\ y.msg.pSrc = p
                           /\ ~TrackedIn(act2, p, y.msg.msgNum) =>
             y \in net /\ ~TrackedIn(act, p, y.msg.msgNum)
      BY <1>5, <1>8
    <3> QED
      BY <3>1, AnnouncingWithin
  <2>2. Announcing(net, act, p) \subseteq Announcing(net2, act2, p)
    <3>1. \A y \in net : IsBroadcast(y.msg) /\ y.msg.pSrc = p
                          /\ ~TrackedIn(act, p, y.msg.msgNum) =>
             y \in net2 /\ ~TrackedIn(act2, p, y.msg.msgNum)
      BY <1>5, <1>6, <1>8
    <3> QED
      BY <3>1, AnnouncingWithin
  <2>3. Asking(net2, p) \subseteq Asking(net, p)
    BY <1>8, AskingWithin
  <2>4. Asking(net, p) \subseteq Asking(net2, p)
    BY <1>6, <1>8, AskingWithin
  <2>5. Returning(net2, p) \subseteq Returning(net, p)
    BY <1>8, ReturningWithin
  <2>6. Returning(net, p) \subseteq Returning(net2, p)
    BY <1>6, <1>8, ReturningWithin
  <2>7. Collecting(act2, p) = Collecting(act, p)
    <3>1. CASE p = p0
      <4>1. act[p] = {e} /\ act2[p] = {d}
        BY <1>2, <1>3, <3>1
      <4> QED
        BY <4>1 DEF Collecting
    <3>2. CASE p # p0
      BY <1>3, <3>2 DEF Collecting
    <3> QED
      BY <3>1, <3>2
  <2> QED
    BY <2>1, <2>2, <2>3, <2>4, <2>5, <2>6, <2>7 DEF Errands
<1>16. ErrandsOK(net2, act2, mem, waits)
  BY <1>15 DEF Accounts, ErrandsOK
<1>17. Accounts(net2, act2, count, mem, waits)
  BY <1>4, <1>7, <1>12, <1>13, <1>14, <1>16 DEF Accounts
<1> QED
  BY <1>17 DEF net2

(* The last reply: the entry goes, and the block is there or the memory is *)
(* asked.                                                                  *)
ThereOrAsked(p, a, waits, waits2, new) ==
  \/ new = {} /\ waits2 = [waits EXCEPT ![p] = @ \ {a}]
  \/ /\ waits2 = waits
     /\ \E y \in Places :
          /\ new = {y} /\ OnItsWay(y) /\ ToMemory(y.msg) /\ y.msg.addr = a
          /\ y.msg.pSrc = p /\ y.msg.pDest = Memory /\ y.msg.msgNum = -2

LEMMA LastReply ==
  ASSUME OnLine, NEW net, NEW act, NEW count, NEW mem, NEW waits, NEW act2, NEW new, NEW waits2,
         Accounts(net, act, count, mem, waits),
         NEW x \in net, IsReply(x.msg),
         NEW e \in act[x.msg.pDest], e.msgNum = x.msg.msgNum, e.numAcks + 1 = LastLink,
         act2 = [act EXCEPT ![x.msg.pDest] = @ \ {e}],
         ThereOrAsked(x.msg.pDest, e.addr, waits, waits2, new)
  PROVE  /\ \A y \in new, z \in net : ~Alike(y, z)
         /\ Accounts(Exchange(net, {x}, new), act2, count, mem, waits2)
<1> DEFINE net2 == Exchange(net, {x}, new)
           p0 == x.msg.pDest
           n0 == x.msg.msgNum
<1>1. /\ MessagesOK(net, count) /\ Single(net) /\ ErrandsOK(net, act, mem, waits)
      /\ CopiesOK(net, act) /\ RepliesOK(net, act) /\ EntriesOK(net, act, count)
      /\ act \in [Procs -> SUBSET ActiveEntries] /\ waits \in [Procs -> SUBSET Addrs]
  BY DEF Accounts
<1>0. \/ new = {} /\ waits2 = [waits EXCEPT ![x.msg.pDest] = @ \ {e.addr}]
      \/ /\ waits2 = waits
         /\ \E y \in Places :
              /\ new = {y} /\ OnItsWay(y) /\ ToMemory(y.msg) /\ y.msg.addr = e.addr
              /\ y.msg.pSrc = x.msg.pDest /\ y.msg.pDest = Memory /\ y.msg.msgNum = -2
  BY DEF ThereOrAsked
<1>2. /\ act[p0] = {e} /\ p0 \in Procs /\ e \in ActiveEntries /\ waits[p0] = {e.addr}
  BY ReplyFits
<1>3. /\ \A z \in net : ~CopyOf(z, p0, n0)
      /\ \A z \in net : ReplyTo(z, p0, n0) => z = x
  BY ReplyFits
<1>4. act2[p0] = {} /\ \A p \in Procs : p # p0 => act2[p] = act[p]
  BY <1>1, <1>2
<1>5. act2 \in [Procs -> SUBSET ActiveEntries]
  BY <1>1, <1>2
<1>6. ~IsBroadcast(x.msg) /\ ~ToMemory(x.msg) /\ ~FromMemory(x.msg)
  BY <1>1, Kinds
<1>7. ASSUME NEW y \in new
      PROVE  /\ ToMemory(y.msg) /\ ~IsBroadcast(y.msg) /\ ~IsReply(y.msg) /\ ~FromMemory(y.msg)
             /\ y \in Places /\ OnItsWay(y) /\ KindOK(y.msg, count) /\ y.msg.addr = e.addr
             /\ y.msg.pSrc = p0 /\ y.msg.pDest = Memory /\ y.msg.msgNum = -2
             /\ new = {y}
  <2>1. PICK u \in Places :
                 /\ new = {u} /\ OnItsWay(u) /\ ToMemory(u.msg) /\ u.msg.addr = e.addr
                 /\ u.msg.pSrc = x.msg.pDest /\ u.msg.pDest = Memory /\ u.msg.msgNum = -2
    BY <1>0
  <2>2. y = u
    BY <2>1
  <2> QED
    BY <1>2, <2>1, <2>2, MemoryIsNode DEF ToMemory, IsBroadcast, IsReply, FromMemory, KindOK
<1>8. /\ Announcing(net, act, p0) = {} /\ Asking(net, p0) = {} /\ Waited(mem, p0) = {}
      /\ Returning(net, p0) = {}
  <2> DEFINE s == Errand("acks", n0, e.addr)
  <2>1. s \in Errands(net, act, mem, p0)
    BY DEF Errands, Collecting
  <2>2. s.stage = "acks"
    BY DEF Errand
  <2> HIDE DEF s
  <2> QED
    BY <1>1, <1>2, <2>1, <2>2, Alone
<1>9. \A y \in new, z \in net : ~Alike(y, z)
  <2> SUFFICES ASSUME NEW y \in new, NEW z \in net, Alike(y, z) PROVE FALSE
    OBVIOUS
  <2>1. z.msg.pSrc = p0 /\ z.msg.pDest = Memory
    BY <1>7 DEF Alike
  <2>2. ToMemory(z.msg)
    BY <1>1, <2>1, Kinds, MemoryIsNode DEF Memory
  <2> QED
    BY <1>8, <2>1, <2>2 DEF Asking
<1>10. MessagesOK(net2, count) /\ Single(net2)
  <2>1. MessagesOK(new, count) /\ Single(new)
    BY <1>7 DEF MessagesOK, Single
  <2> QED
    BY <1>1, <1>9, <2>1, MessagesKept
<1>11. \A z : z \in net2 <=> (z \in net /\ z # x) \/ z \in new
  BY DEF Exchange
<1> HIDE DEF net2
<1>12. \A p, num : Missing(net2, p, num) = Missing(net, p, num)
  BY <1>6, <1>7, <1>11, MissingSame DEF CopyOf
<1>13. ASSUME NEW p, NEW num, p # p0
       PROVE  Replying(net2, p, num) = Replying(net, p, num)
  <2>1. ~ReplyTo(x, p, num) /\ \A y \in new : ~ReplyTo(y, p, num)
    BY <1>7, <1>13 DEF ReplyTo
  <2> QED
    BY <1>11, <2>1, ReplyingSame
<1>14. CopiesOK(net2, act2)
  <2> SUFFICES ASSUME NEW z \in net2, IsBroadcast(z.msg)
               PROVE  IF TrackedIn(act2, z.msg.pSrc, z.msg.msgNum)
                      THEN \A f \in act2[z.msg.pSrc] : f.addr = z.msg.addr
                      ELSE /\ z.msg.procNum = z.msg.pSrc
                           /\ Missing(net2, z.msg.pSrc, z.msg.msgNum) = Procs \ {z.msg.pSrc}
    BY DEF CopiesOK
  <2>1. z \in net /\ z.msg.pSrc \in Procs
    BY <1>1, <1>7, <1>11, Kinds
  <2>2. CASE z.msg.pSrc = p0
    <3>1. z.msg.msgNum # n0
      BY <1>3, <2>1, <2>2 DEF CopyOf
    <3>2. ~TrackedIn(act, p0, z.msg.msgNum)
      BY <1>2, <3>1 DEF TrackedIn
    <3>3. ~TrackedIn(act2, p0, z.msg.msgNum)
      BY <1>4 DEF TrackedIn
    <3> QED
      BY <1>1, <1>12, <2>1, <2>2, <3>2, <3>3 DEF CopiesOK
  <2>3. CASE z.msg.pSrc # p0
    <3>1. act2[z.msg.pSrc] = act[z.msg.pSrc]
      BY <1>4, <2>1, <2>3
    <3> QED
      BY <1>1, <1>12, <2>1, <3>1 DEF CopiesOK, TrackedIn
  <2> QED
    BY <2>2, <2>3
<1>15. RepliesOK(net2, act2)
  <2> SUFFICES ASSUME NEW z \in net2, IsReply(z.msg)
               PROVE  /\ \E f \in act2[z.msg.pDest] : f.msgNum = z.msg.msgNum
                                                      /\ f.addr = z.msg.addr
                      /\ z.msg.pSrc \notin Missing(net2, z.msg.pDest, z.msg.msgNum)
    BY DEF RepliesOK
  <2>1. z \in net /\ z # x /\ z.msg.pDest \in Procs
    BY <1>1, <1>7, <1>11, Kinds
  <2>2. \E f \in act[z.msg.pDest] : f.msgNum = z.msg.msgNum /\ f.addr = z.msg.addr
    BY <1>1, <2>1 DEF RepliesOK
  <2>3. z.msg.pDest # p0
    BY <1>2, <1>3, <2>1, <2>2 DEF ReplyTo
  <2>4. act2[z.msg.pDest] = act[z.msg.pDest]
    BY <1>4, <2>1, <2>3
  <2> QED
    BY <1>1, <1>12, <2>1, <2>2, <2>4 DEF RepliesOK
<1>16. EntriesOK(net2, act2, count)
  <2> SUFFICES ASSUME NEW p \in Procs, NEW f \in act2[p]
               PROVE  /\ f.msgNum \in 1 .. count /\ ~f.shared
                      /\ Sums(net2, p, f)
                      /\ \A g \in act2[p] : f = g
    BY DEF EntriesOK
  <2>1. p # p0 /\ act2[p] = act[p]
    BY <1>4
  <2> QED
    BY <1>1, <1>12, <1>13, <2>1 DEF EntriesOK, Sums
<1>17. ASSUME NEW p \in Procs
       PROVE  Returning(net2, p) = Returning(net, p)
  <2>1. Returning(net2, p) \subseteq Returning(net, p)
    BY <1>7, <1>11, ReturningWithin
  <2>2. Returning(net, p) \subseteq Returning(net2, p)
    BY <1>6, <1>11, ReturningWithin
  <2> QED
    BY <2>1, <2>2
<1>18. ASSUME NEW p \in Procs, p # p0
       PROVE  Errands(net2, act2, mem, p) = Errands(net, act, mem, p) /\ waits2[p] = waits[p]
  <2>8. waits2[p] = waits[p]
    BY <1>1, <1>18, <1>0
  <2>1. act2[p] = act[p] /\ waits2[p] = waits[p]
    BY <1>4, <1>18, <2>8
  <2>2. Announcing(net2, act2, p) \subseteq Announcing(net, act, p)
    <3>1. \A y \in net2 : IsBroadcast(y.msg) /\ y.msg.pSrc = p
                           /\ ~TrackedIn(act2, p, y.msg.msgNum) =>
             y \in net /\ ~TrackedIn(act, p, y.msg.msgNum)
      BY <1>7, <1>11, <2>1 DEF TrackedIn
    <3> QED
      BY <3>1, AnnouncingWithin
  <2>3. Announcing(net, act, p) \subseteq Announcing(net2, act2, p)
    <3>1. \A y \in net : IsBroadcast(y.msg) /\ y.msg.pSrc = p
                          /\ ~TrackedIn(act, p, y.msg.msgNum) =>
             y \in net2 /\ ~TrackedIn(act2, p, y.msg.msgNum)
      BY <1>6, <1>11, <2>1 DEF TrackedIn
    <3> QED
      BY <3>1, AnnouncingWithin
  <2>4. Asking(net2, p) \subseteq Asking(net, p)
    BY <1>7, <1>11, <1>18, AskingWithin
  <2>5. Asking(net, p) \subseteq Asking(net2, p)
    BY <1>6, <1>11, AskingWithin
  <2>6. Collecting(act2, p) = Collecting(act, p)
    BY <2>1 DEF Collecting
  <2> QED
    BY <1>17, <2>1, <2>2, <2>3, <2>4, <2>5, <2>6 DEF Errands
<1>19. Announcing(net2, act2, p0) = {}
  <2>1. ASSUME NEW z \in net2, IsBroadcast(z.msg), z.msg.pSrc = p0 PROVE FALSE
    <3>1. z \in net
      BY <1>7, <1>11, <2>1
    <3>2. TrackedIn(act, p0, z.msg.msgNum)
      BY <1>8, <2>1, <3>1 DEF Announcing
    <3>3. z.msg.msgNum = n0
      BY <1>2, <3>2 DEF TrackedIn
    <3> QED
      BY <1>3, <2>1, <3>1, <3>3 DEF CopyOf
  <2> QED
    BY <2>1 DEF Announcing
<1>20. Collecting(act2, p0) = {}
  BY <1>4 DEF Collecting
<1>21. /\ \A z \in net : ~(ToMemory(z.msg) /\ z.msg.pSrc = p0)
       /\ \A z \in net2 : ToMemory(z.msg) /\ z.msg.pSrc = p0 => z \in new
  BY <1>8, <1>11 DEF Asking
<1>22. ASSUME new = {}, waits2 = [waits EXCEPT ![p0] = @ \ {e.addr}]
       PROVE  Accounts(net2, act2, count, mem, waits2)
  <2>1. Errands(net2, act2, mem, p0) = {}
    <3>1. Asking(net2, p0) = {}
      BY <1>21, <1>22 DEF Asking
    <3> QED
      BY <1>2, <1>8, <1>17, <1>19, <1>20, <3>1 DEF Errands
  <2>2. waits2 \in [Procs -> SUBSET Addrs] /\ waits2[p0] = {}
    BY <1>1, <1>2, <1>22
  <2>3. ASSUME NEW p \in Procs
        PROVE  Onward(Errands(net, act, mem, p), waits[p],
                      Errands(net2, act2, mem, p), waits2[p])
    BY <1>18, <2>1, <2>2 DEF Onward
  <2>4. ErrandsOK(net2, act2, mem, waits2)
    BY <1>1, <2>3, ErrandsKept
  <2>5. Accounts(net2, act2, count, mem, waits2)
    BY <1>5, <1>10, <1>14, <1>15, <1>16, <2>2, <2>4 DEF Accounts
  <2> QED
    BY <2>5
<1>23. ASSUME NEW y \in new, waits2 = waits
       PROVE  Accounts(net2, act2, count, mem, waits2)
  <2>1. Asking(net2, p0) = {Errand("asking", 0, e.addr)}
    <3>1. \A z \in net2 : ToMemory(z.msg) /\ z.msg.pSrc = p0 <=> z = y
      BY <1>7, <1>21, <1>23
    <3>2. y \in net2 /\ y.msg.addr = e.addr
      BY <1>7, <1>11, <1>23
    <3> QED
      BY <3>1, <3>2 DEF Asking
  <2>2. Errands(net2, act2, mem, p0) = {Errand("asking", 0, e.addr)}
    BY <1>2, <1>8, <1>17, <1>19, <1>20, <2>1 DEF Errands
  <2>3. Errand("asking", 0, e.addr).addr = e.addr
    BY DEF Errand
  <2>4. ASSUME NEW p \in Procs
        PROVE  Onward(Errands(net, act, mem, p), waits[p],
                      Errands(net2, act2, mem, p), waits2[p])
    BY <1>2, <1>18, <1>23, <2>2, <2>3 DEF Onward
  <2>5. ErrandsOK(net2, act2, mem, waits2)
    BY <1>1, <2>4, ErrandsKept
  <2> QED
    BY <1>1, <1>5, <1>10, <1>14, <1>15, <1>16, <1>23, <2>5 DEF Accounts
<1>24. \/ waits2 = waits /\ \E y : y \in new
       \/ new = {} /\ waits2 = [waits EXCEPT ![p0] = @ \ {e.addr}]
  BY <1>0
<1>25. Accounts(net2, act2, count, mem, waits2)
  BY <1>22, <1>23, <1>24
<1> QED
  BY <1>9, <1>25 DEF net2

(* A miss: the broadcast gets a number of its own and leaves its source,   *)
(* which waits for nothing else.                                           *)
Announced(new, p, a, num) ==
  /\ Single(new)
  /\ \A y \in new : /\ y \in Places /\ OnItsWay(y) /\ IsBroadcast(y.msg)
                    /\ y.msg.pSrc = p /\ y.msg.procNum = p /\ y.msg.pDest = -1
                    /\ y.msg.msgNum = num /\ y.msg.addr = a
  /\ \A q \in Procs : (\E y \in new : q \in Ahead(y)) <=> q # p

LEMMA Fetched ==
  ASSUME OnLine, NEW net, NEW act, NEW count, NEW mem, NEW waits, NEW waits2,
         Accounts(net, act, count, mem, waits),
         NEW p0 \in Procs, waits[p0] = {}, NEW a \in Addrs, NEW new,
         Announced(new, p0, a, count + 1),
         waits2 = [waits EXCEPT ![p0] = {a}]
  PROVE  /\ \A y \in new, z \in net : ~Alike(y, z)
         /\ Accounts(Exchange(net, {}, new), act, count + 1, mem, waits2)
<1>0. /\ Single(new)
      /\ \A y \in new : /\ y \in Places /\ OnItsWay(y) /\ IsBroadcast(y.msg)
                        /\ y.msg.pSrc = p0 /\ y.msg.procNum = p0 /\ y.msg.pDest = -1
                        /\ y.msg.msgNum = count + 1 /\ y.msg.addr = a
      /\ \A q \in Procs : (\E y \in new : q \in Ahead(y)) <=> q # p0
  BY DEF Announced
<1>31. \A q \in Procs : (\E y \in new : q \in Ahead(y)) <=> q # p0
  BY DEF Announced
<1> DEFINE net2 == Exchange(net, {}, new)
           n0 == count + 1
<1>1. /\ MessagesOK(net, count) /\ Single(net) /\ ErrandsOK(net, act, mem, waits)
      /\ CopiesOK(net, act) /\ RepliesOK(net, act) /\ EntriesOK(net, act, count)
      /\ act \in [Procs -> SUBSET ActiveEntries] /\ waits \in [Procs -> SUBSET Addrs]
      /\ count \in Nat
  BY DEF Accounts
<1>2. n0 \in Nat /\ n0 \notin 1 .. count /\ n0 \in 1 .. n0 /\ 1 .. count \subseteq 1 .. n0
  BY <1>1
<1> HIDE DEF n0
<1>3. ASSUME NEW y \in new
      PROVE  /\ IsBroadcast(y.msg) /\ ~IsReply(y.msg) /\ ~ToMemory(y.msg) /\ ~FromMemory(y.msg)
             /\ y.msg.pSrc = p0 /\ y.msg.procNum = p0 /\ y.msg.pDest = -1
             /\ y.msg.msgNum = n0 /\ y.msg.addr = a /\ KindOK(y.msg, n0)
             /\ y \in Places /\ OnItsWay(y)
  BY <1>2, <1>0, MemoryIsNode DEF IsReply, IsBroadcast, ToMemory, FromMemory, KindOK, n0
<1>4. Errands(net, act, mem, p0) = {}
  <2>1. waits[p0] = {s.addr : s \in Errands(net, act, mem, p0)}
    BY <1>1 DEF ErrandsOK
  <2> QED
    BY <2>1
<1>5. Announcing(net, act, p0) = {} /\ Asking(net, p0) = {} /\ Waited(mem, p0) = {}
      /\ Returning(net, p0) = {} /\ act[p0] = {} /\ Collecting(act, p0) = {}
  BY <1>4 DEF Errands, Collecting
<1>6. \A num : ~TrackedIn(act, p0, num)
  BY <1>5 DEF TrackedIn
<1>7. \A z \in net : z.msg.msgNum # n0
  <2> SUFFICES ASSUME NEW z \in net PROVE z.msg.msgNum # n0
    OBVIOUS
  <2>1. z.msg.msgNum \in 1 .. count \/ z.msg.msgNum = -2
    BY <1>1, Kinds
  <2> QED
    BY <1>2, <2>1
<1>8. \A y \in new, z \in net : ~Alike(y, z)
  BY <1>3, <1>7 DEF Alike
<1>9. MessagesOK(net2, n0) /\ Single(net2)
  <2>1. MessagesOK(new, n0)
    BY <1>3 DEF MessagesOK
  <2>2. MessagesOK(net, n0)
    BY <1>1, <1>2 DEF MessagesOK, KindOK
  <2> QED
    BY <1>1, <1>0, <1>8, <2>1, <2>2, MessagesKept
<1>10. \A z : z \in net2 <=> z \in net \/ z \in new
  BY DEF Exchange
<1> HIDE DEF net2
<1>11. ASSUME NEW p, NEW num, num # n0
       PROVE  Missing(net2, p, num) = Missing(net, p, num)
  <2>1. \A z : CopyOf(z, p, num) => (z \in net <=> z \in net2)
    BY <1>3, <1>10, <1>11 DEF CopyOf
  <2> QED
    BY <2>1, MissingSame
<1>12. Missing(net2, p0, n0) = Procs \ {p0}
  <2>1. \A z : z \in net2 /\ CopyOf(z, p0, n0) <=> z \in new
    BY <1>3, <1>7, <1>10 DEF CopyOf
  <2>2. ASSUME NEW q \in Procs
        PROVE  q \in Missing(net2, p0, n0) <=> q # p0
    <3>1. q \in Missing(net2, p0, n0) <=> \E z \in net2 : CopyOf(z, p0, n0) /\ q \in Ahead(z)
      BY DEF Missing
    <3>2. (\E z \in net2 : CopyOf(z, p0, n0) /\ q \in Ahead(z)) <=> \E z \in new : q \in Ahead(z)
      BY <2>1
    <3> QED
      BY <1>31, <3>1, <3>2
  <2>3. Missing(net2, p0, n0) \subseteq Procs
    BY DEF Missing
  <2> QED
    BY <2>2, <2>3
<1>13. \A p, num : Replying(net2, p, num) = Replying(net, p, num)
  BY <1>3, <1>10, ReplyingSame DEF ReplyTo
<1>14. CopiesOK(net2, act)
  <2> SUFFICES ASSUME NEW z \in net2, IsBroadcast(z.msg)
               PROVE  IF TrackedIn(act, z.msg.pSrc, z.msg.msgNum)
                      THEN \A f \in act[z.msg.pSrc] : f.addr = z.msg.addr
                      ELSE /\ z.msg.procNum = z.msg.pSrc
                           /\ Missing(net2, z.msg.pSrc, z.msg.msgNum) = Procs \ {z.msg.pSrc}
    BY DEF CopiesOK
  <2>1. CASE z \in new
    BY <1>3, <1>6, <1>12, <2>1
  <2>2. CASE z \in net
    BY <1>1, <1>7, <1>11, <2>2 DEF CopiesOK
  <2> QED
    BY <1>10, <2>1, <2>2
<1>15. RepliesOK(net2, act)
  <2> SUFFICES ASSUME NEW z \in net2, IsReply(z.msg)
               PROVE  /\ \E f \in act[z.msg.pDest] : f.msgNum = z.msg.msgNum
                                                      /\ f.addr = z.msg.addr
                      /\ z.msg.pSrc \notin Missing(net2, z.msg.pDest, z.msg.msgNum)
    BY DEF RepliesOK
  <2>1. z \in net
    BY <1>3, <1>10
  <2> QED
    BY <1>1, <1>7, <1>11, <2>1 DEF RepliesOK
<1>16. EntriesOK(net2, act, n0)
  <2> SUFFICES ASSUME NEW p \in Procs, NEW f \in act[p]
               PROVE  /\ f.msgNum \in 1 .. n0 /\ ~f.shared
                      /\ Sums(net2, p, f)
                      /\ \A g \in act[p] : f = g
    BY DEF EntriesOK
  <2>1. f.msgNum \in 1 .. count /\ ~f.shared /\ Sums(net, p, f) /\ \A g \in act[p] : f = g
    BY <1>1 DEF EntriesOK
  <2>2. f.msgNum # n0 /\ f.msgNum \in 1 .. n0
    BY <1>2, <2>1
  <2> QED
    BY <1>11, <1>13, <2>1, <2>2 DEF Sums
<1>17. ASSUME NEW p \in Procs
       PROVE  Asking(net2, p) = Asking(net, p) /\ Returning(net2, p) = Returning(net, p)
  <2>1. Asking(net2, p) \subseteq Asking(net, p)
    BY <1>3, <1>10, AskingWithin
  <2>2. Asking(net, p) \subseteq Asking(net2, p)
    BY <1>10, AskingWithin
  <2>3. Returning(net2, p) \subseteq Returning(net, p)
    BY <1>3, <1>10, ReturningWithin
  <2>4. Returning(net, p) \subseteq Returning(net2, p)
    BY <1>10, ReturningWithin
  <2> QED
    BY <2>1, <2>2, <2>3, <2>4
<1>18. ASSUME NEW p \in Procs, p # p0
       PROVE  Errands(net2, act, mem, p) = Errands(net, act, mem, p) /\ waits2[p] = waits[p]
  <2>1. Announcing(net2, act, p) \subseteq Announcing(net, act, p)
    BY <1>3, <1>10, <1>18, AnnouncingWithin
  <2>2. Announcing(net, act, p) \subseteq Announcing(net2, act, p)
    BY <1>10, AnnouncingWithin
  <2> QED
    BY <1>1, <1>17, <1>18, <2>1, <2>2 DEF Errands
<1>19. Errands(net2, act, mem, p0) = {Errand("broadcast", n0, a)}
  <2>1. PICK y \in new : TRUE
    <3>1. 0 \in Procs /\ 1 \in Procs
      BY MemoryIsNode DEF Procs
    <3>2. PICK q \in Procs : q # p0
      BY <3>1
    <3> QED
      BY <1>31, <3>2
  <2>2. \A z \in net2 : IsBroadcast(z.msg) /\ z.msg.pSrc = p0
                         /\ ~TrackedIn(act, p0, z.msg.msgNum) => z \in new
    BY <1>5, <1>10 DEF Announcing
  <2>3. Announcing(net2, act, p0) \subseteq {Errand("broadcast", n0, a)}
    BY <1>3, <2>2 DEF Announcing
  <2>4. Errand("broadcast", n0, a) \in Announcing(net2, act, p0)
    BY <1>3, <1>6, <1>10, <2>1 DEF Announcing
  <2> QED
    BY <1>5, <1>17, <2>3, <2>4 DEF Errands
<1>20. ErrandsOK(net2, act, mem, waits2) /\ waits2 \in [Procs -> SUBSET Addrs]
  <2>1. Errand("broadcast", n0, a).addr = a /\ waits2[p0] = {a}
    BY <1>1 DEF Errand
  <2>2. ASSUME NEW p \in Procs
        PROVE  Onward(Errands(net, act, mem, p), waits[p],
                      Errands(net2, act, mem, p), waits2[p])
    BY <1>18, <1>19, <2>1 DEF Onward
  <2> QED
    BY <1>1, <2>2, ErrandsKept
<1>21. Accounts(net2, act, n0, mem, waits2)
  BY <1>2, <1>9, <1>14, <1>15, <1>16, <1>20 DEF Accounts
<1> QED
  BY <1>8, <1>21 DEF net2, n0

(* The first copy of a broadcast leaves its source, and is tracked.        *)
LEMMA Begun ==
  ASSUME OnLine, NEW net, NEW act, NEW count, NEW mem, NEW waits, NEW act2,
         Accounts(net, act, count, mem, waits),
         NEW x \in net, IsBroadcast(x.msg), ~TrackedIn(act, x.msg.pSrc, x.msg.msgNum),
         NEW d \in ActiveEntries, d.msgNum = x.msg.msgNum, d.addr = x.msg.addr,
         d.numAcks = 0, ~d.shared,
         act2 = [act EXCEPT ![x.msg.pSrc] = @ \cup {d}]
  PROVE  Accounts(net, act2, count, mem, waits)
<1> DEFINE p0 == x.msg.pSrc
           n0 == x.msg.msgNum
<1>1. /\ MessagesOK(net, count) /\ Single(net) /\ ErrandsOK(net, act, mem, waits)
      /\ CopiesOK(net, act) /\ RepliesOK(net, act) /\ EntriesOK(net, act, count)
      /\ act \in [Procs -> SUBSET ActiveEntries]
  BY DEF Accounts
<1>2. p0 \in Procs /\ n0 \in 1 .. count
  BY <1>1, Kinds
<1> DEFINE s == Errand("broadcast", n0, x.msg.addr)
<1>3. s \in Announcing(net, act, p0) /\ s.stage = "broadcast" /\ s.addr = x.msg.addr
      /\ s.num = n0
  BY DEF Announcing, Errand
<1> HIDE DEF s
<1>4. s \in Errands(net, act, mem, p0)
  BY <1>3 DEF Errands
<1>5. /\ Collecting(act, p0) = {} /\ Asking(net, p0) = {} /\ Waited(mem, p0) = {}
      /\ Returning(net, p0) = {} /\ waits[p0] = {x.msg.addr}
  BY <1>1, <1>2, <1>3, <1>4, Alone
<1>6. act[p0] = {}
  BY <1>5 DEF Collecting
<1>7. act2[p0] = {d} /\ \A p \in Procs : p # p0 => act2[p] = act[p]
  BY <1>1, <1>2, <1>6
<1>8. act2 \in [Procs -> SUBSET ActiveEntries]
  BY <1>1, <1>2, <1>6
<1>9. ASSUME NEW z \in net, IsBroadcast(z.msg), z.msg.pSrc = p0
      PROVE  z.msg.msgNum = n0 /\ z.msg.addr = x.msg.addr
  <2> DEFINE t == Errand("broadcast", z.msg.msgNum, z.msg.addr)
  <2>1. ~TrackedIn(act, p0, z.msg.msgNum)
    BY <1>6 DEF TrackedIn
  <2>2. t \in Announcing(net, act, p0)
    BY <1>9, <2>1 DEF Announcing
  <2>3. t \in Errands(net, act, mem, p0)
    BY <2>2 DEF Errands
  <2>4. t.num = z.msg.msgNum /\ t.addr = z.msg.addr
    BY DEF Errand
  <2> HIDE DEF t
  <2>5. t = s
    BY <1>1, <1>2, <1>4, <2>3 DEF ErrandsOK
  <2> QED
    BY <1>3, <2>4, <2>5
<1>10. CopiesOK(net, act2)
  <2> SUFFICES ASSUME NEW z \in net, IsBroadcast(z.msg)
               PROVE  IF TrackedIn(act2, z.msg.pSrc, z.msg.msgNum)
                      THEN \A f \in act2[z.msg.pSrc] : f.addr = z.msg.addr
                      ELSE /\ z.msg.procNum = z.msg.pSrc
                           /\ Missing(net, z.msg.pSrc, z.msg.msgNum) = Procs \ {z.msg.pSrc}
    BY DEF CopiesOK
  <2>1. CASE z.msg.pSrc = p0
    BY <1>7, <1>9, <2>1 DEF TrackedIn
  <2>2. CASE z.msg.pSrc # p0
    <3>1. act2[z.msg.pSrc] = act[z.msg.pSrc]
      BY <1>1, <1>7, <2>2, Kinds
    <3> QED
      BY <1>1, <3>1 DEF CopiesOK, TrackedIn
  <2> QED
    BY <2>1, <2>2
<1>11. \A z \in net : IsReply(z.msg) => z.msg.pDest # p0 /\ z.msg.pDest \in Procs
  BY <1>1, <1>6, Kinds DEF RepliesOK
<1>12. RepliesOK(net, act2)
  BY <1>1, <1>7, <1>11 DEF RepliesOK
<1>13. EntriesOK(net, act2, count)
  <2> SUFFICES ASSUME NEW p \in Procs, NEW f \in act2[p]
               PROVE  /\ f.msgNum \in 1 .. count /\ ~f.shared
                      /\ Sums(net, p, f)
                      /\ \A g \in act2[p] : f = g
    BY DEF EntriesOK
  <2>1. CASE p = p0
    <3>1. f = d
      BY <1>7, <2>1
    <3>2. Replying(net, p0, n0) = {}
      BY <1>11 DEF Replying, ReplyTo
    <3>3. Missing(net, p0, n0) = Procs \ {p0}
      BY <1>1 DEF CopiesOK
    <3>4. Cardinality(Procs \ {p0}) = LastLink
      BY <1>2, Counted0, ProcsCounted DEF LastLink
    <3>5. Cardinality({}) = 0
      BY Counted0
    <3>6. Sums(net, p0, d)
      <4>1. 0 + 0 + LastLink = LastLink
        BY LineIs
      <4> QED
        BY <3>2, <3>3, <3>4, <3>5, <4>1 DEF Sums
    <3> QED
      BY <1>2, <1>7, <2>1, <3>1, <3>6
  <2>2. CASE p # p0
    <3>1. act2[p] = act[p]
      BY <1>7, <2>2
    <3> QED
      BY <1>1, <3>1 DEF EntriesOK
  <2> QED
    BY <2>1, <2>2
<1>14. ASSUME NEW p \in Procs, p # p0
       PROVE  Errands(net, act2, mem, p) = Errands(net, act, mem, p)
  <2>1. act2[p] = act[p]
    BY <1>7, <1>14
  <2> QED
    BY <2>1 DEF Errands, Announcing, Collecting, TrackedIn
<1>15. Errands(net, act2, mem, p0) = {Errand("acks", n0, x.msg.addr)}
  <2>1. Announcing(net, act2, p0) = {}
    <3>1. \A z \in net : IsBroadcast(z.msg) /\ z.msg.pSrc = p0 =>
                         TrackedIn(act2, p0, z.msg.msgNum)
      BY <1>7, <1>9 DEF TrackedIn
    <3> QED
      BY <3>1 DEF Announcing
  <2>2. Collecting(act2, p0) = {Errand("acks", n0, x.msg.addr)}
    BY <1>7 DEF Collecting
  <2> QED
    BY <1>5, <2>1, <2>2 DEF Errands
<1>16. ErrandsOK(net, act2, mem, waits)
  <2>1. Errand("acks", n0, x.msg.addr).addr = x.msg.addr
    BY DEF Errand
  <2>2. ASSUME NEW p \in Procs
        PROVE  Onward(Errands(net, act, mem, p), waits[p],
                      Errands(net, act2, mem, p), waits[p])
    BY <1>5, <1>14, <1>15, <2>1 DEF Onward
  <2> QED
    BY <1>1, <2>2, ErrandsKept
<1> QED
  BY <1>8, <1>10, <1>12, <1>13, <1>16 DEF Accounts
----------------------------------------------------------------------------
(* The ways on the line.                                                   *)

LEMMA FirstOf == ASSUME NEW k \in Int PROVE First({k}) = k
<1>1. \E l \in {k} : \A j \in {k} : l <= j
  OBVIOUS
<1>2. First({k}) \in {k}
  BY <1>1 DEF First
<1> QED
  BY <1>2

LEMMA LinksOfLine ==
  ASSUME OnLine, NEW p \in Nodes
  PROVE  LinksAt(p) = {p - 1, p} \cap LinkIds
  BY LineIs, MemoryIsNode DEF LinksAt, Nodes

LEMMA AwayOnLine ==
  ASSUME OnLine, NEW l \in LinkIds
  PROVE  /\ Away(l + 1, l) = {l + 1} \cap LinkIds
         /\ Away(l, l + 1) = {l - 1} \cap LinkIds
<1>1. l \in Nodes /\ l + 1 \in Nodes /\ l \in Int
  BY LineIs
<1>2. LinksAt(l) = {l - 1, l} \cap LinkIds /\ LinksAt(l + 1) = {l, l + 1} \cap LinkIds
  <2>1. LinksAt(l + 1) = {(l + 1) - 1, l + 1} \cap LinkIds /\ (l + 1) - 1 = l
    BY <1>1, LinksOfLine
  <2> QED
    BY <1>1, <2>1, LinksOfLine
<1>3. Other(l, l) = l + 1 /\ Other(l, l + 1) = l
  BY <1>1, LineIs DEF Other
<1>4. l + 1 \in LinkIds => Other(l + 1, l + 1) = l + 2
  BY <1>1, LineIs DEF Other
<1>5. l - 1 \in LinkIds => Other(l - 1, l) = l - 1
  BY <1>1, LineIs DEF Other
<1> QED
  BY <1>1, <1>2, <1>3, <1>4, <1>5 DEF Away

(* Towards its destination, a message leaves on the link between.          *)
LEMMA FindOnLine ==
  ASSUME OnLine, NEW p \in Nodes, NEW dest \in Nodes, p # dest
  PROVE  FindLink(p, dest) = IF p < dest THEN p ELSE p - 1
<1>1. p \in 0 .. ProcessorCount /\ dest \in 0 .. ProcessorCount /\ ProcessorCount \in Nat
  BY LineIs
<1> DEFINE k == IF p < dest THEN p ELSE p - 1
<1>2. {l \in LinkIds : \/ p = Proc1(l) /\ dest >= Proc2(l)
                       \/ p = Proc2(l) /\ dest <= Proc1(l)} = {k}
  BY <1>1, LineIs
<1>3. FindLink(p, dest) = FindLinkLine(p, dest)
  BY DEF FindLink, OnLine
<1>4. k \in Int
  BY <1>1
<1> HIDE DEF k
<1>5. FindLinkLine(p, dest) = k
  BY <1>2, <1>4, FirstOf DEF FindLinkLine
<1> QED
  BY <1>3, <1>5 DEF k

(* Where a message arrives, and where it goes next.                        *)
Arrival(x) == Other(x.link, x.msg.procNum)
NextLinks(x) ==
  ForwardLinks(Arrival(x), x.msg.procNum, IsBroadcast(x.msg), x.msg.pDest, ToMemory(x.msg))
Passed(x, k) == At(k, [x.msg EXCEPT !.procNum = Arrival(x)])

LEMMA ArrivalIs ==
  ASSUME OnLine, NEW x \in Places, OnItsWay(x)
  PROVE  /\ x.link \in LinkIds /\ x.link \in Nat /\ Arrival(x) \in Nodes
         /\ RightGoing(x) => x.msg.procNum = x.link /\ Arrival(x) = x.link + 1
         /\ ~RightGoing(x) => x.msg.procNum = x.link + 1 /\ Arrival(x) = x.link
<1>1. x.link \in LinkIds
  BY DEF Places
<1> QED
  BY <1>1, LineIs DEF Arrival, Other, OnItsWay, RightGoing

LEMMA NextLinksAre ==
  ASSUME OnLine, NEW x \in Places, OnItsWay(x)
  PROVE  NextLinks(x) =
           IF ~IsBroadcast(x.msg) /\ x.msg.pDest = Arrival(x) THEN {}
           ELSE IF RightGoing(x)
           THEN IF x.link + 1 < LastLink \/ (x.link + 1 = LastLink /\ ToMemory(x.msg))
                THEN {x.link + 1} ELSE {}
           ELSE IF x.link > 0 THEN {x.link - 1} ELSE {}
<1> DEFINE l == x.link
           from == x.msg.procNum
           ways == Away(Arrival(x), from)
           line == IF ToMemory(x.msg) THEN ways ELSE ways \ {ProcessorCount - 1}
<1>1. l \in LinkIds /\ l \in 0 .. ProcessorCount - 1 /\ ProcessorCount \in Nat
  BY ArrivalIs, LineIs
<1>2. NextLinks(x) =
        IF ~IsBroadcast(x.msg) /\ x.msg.pDest = Arrival(x) THEN {}
        ELSE IF line = {} THEN {} ELSE {First(line)}
  BY DEF NextLinks, ForwardLinks, OnLine
<1>3. CASE RightGoing(x)
  <2>1. ways = {l + 1} \cap LinkIds
    BY <1>1, <1>3, ArrivalIs, AwayOnLine
  <2>2. line = IF l + 1 < LastLink \/ (l + 1 = LastLink /\ ToMemory(x.msg))
               THEN {l + 1} ELSE {}
    <3>1. \A k : k \in ways <=> k = l + 1 /\ k \in 0 .. ProcessorCount - 1
      BY <2>1, LineIs
    <3> HIDE DEF ways
    <3>2. LastLink = ProcessorCount - 1
      BY DEF LastLink
    <3>3. \A k : k \in line <=> k \in ways /\ (ToMemory(x.msg) \/ k # ProcessorCount - 1)
      OBVIOUS
    <3> HIDE DEF line, l
    <3> QED
      BY <1>1, <3>1, <3>2, <3>3
  <2>3. First({l + 1}) = l + 1
    BY <1>1, FirstOf
  <2> HIDE DEF line
  <2> QED
    BY <1>2, <1>3, <2>2, <2>3
<1>4. CASE ~RightGoing(x)
  <2>1. ways = {l - 1} \cap LinkIds
    BY <1>1, <1>4, ArrivalIs, AwayOnLine
  <2>2. line = IF l > 0 THEN {l - 1} ELSE {}
    <3>1. \A k : k \in ways <=> k = l - 1 /\ k \in 0 .. ProcessorCount - 1
      BY <2>1, LineIs
    <3> HIDE DEF ways
    <3>2. LastLink = ProcessorCount - 1
      BY DEF LastLink
    <3>3. \A k : k \in line <=> k \in ways /\ (ToMemory(x.msg) \/ k # ProcessorCount - 1)
      OBVIOUS
    <3> HIDE DEF line, l
    <3> QED
      BY <1>1, <3>1, <3>2, <3>3
  <2>3. First({l - 1}) = l - 1
    BY <1>1, FirstOf
  <2> HIDE DEF line
  <2> QED
    BY <1>2, <1>4, <2>2, <2>3
<1> QED
  BY <1>3, <1>4

LEMMA PassedIs ==
  ASSUME OnLine, NEW x \in Places, NEW k \in LinkIds, Arrival(x) \in Nodes
  PROVE  LET y == Passed(x, k) IN
         /\ y.link = k /\ y.msg.procNum = Arrival(x) /\ y.msg.brt = x.msg.brt
         /\ y.msg.addr = x.msg.addr /\ y.msg.pSrc = x.msg.pSrc /\ y.msg.pDest = x.msg.pDest
         /\ y.msg.msgNum = x.msg.msgNum /\ y \in Places
<1>1. x.msg \in Good /\ x.msg \in Messages
  BY DEF Places, Good
<1> DEFINE m == [x.msg EXCEPT !.procNum = Arrival(x)]
<1>2. /\ m.procNum = Arrival(x) /\ m.brt = x.msg.brt /\ m.addr = x.msg.addr
      /\ m.pSrc = x.msg.pSrc /\ m.pDest = x.msg.pDest /\ m.msgNum = x.msg.msgNum
      /\ m \in Messages
  BY <1>1 DEF Messages
<1>3. m \in Good
  BY <1>1, <1>2 DEF Good, IsBroadcast
<1> HIDE DEF m
<1>4. At(k, m).link = k /\ At(k, m).msg = m /\ At(k, m) \in Places
  BY <1>3 DEF At, Places
<1> QED
  BY <1>2, <1>4 DEF Passed, m

(* On the next link a message is still on its way, in the same direction.  *)
LEMMA WayOn ==
  ASSUME OnLine, NEW count, NEW x \in Places, OnItsWay(x), KindOK(x.msg, count),
         NEW k \in NextLinks(x)
  PROVE  /\ k \in LinkIds /\ Arrival(x) \in Ends(k)
         /\ Passed(x, k) \in Places /\ OnItsWay(Passed(x, k)) /\ Alike(Passed(x, k), x)
         /\ k = IF RightGoing(x) THEN x.link + 1 ELSE x.link - 1
<1>1. /\ x.link \in 0 .. ProcessorCount - 1 /\ ProcessorCount \in Nat
      /\ LastLink = ProcessorCount - 1
  BY ArrivalIs, LineIs DEF LastLink
<1>2. k \in LinkIds /\ k = IF RightGoing(x) THEN x.link + 1 ELSE x.link - 1
  BY <1>1, NextLinksAre, LineIs
<1>3. Arrival(x) = (IF RightGoing(x) THEN k ELSE k + 1) /\ Arrival(x) \in Nodes
  BY <1>1, <1>2, ArrivalIs
<1>4. Arrival(x) \in Ends(k)
  BY <1>2, <1>3, LineIs
<1> DEFINE y == Passed(x, k)
<1>5. /\ y.link = k /\ y.msg.procNum = Arrival(x) /\ y.msg.brt = x.msg.brt
      /\ y.msg.addr = x.msg.addr /\ y.msg.pSrc = x.msg.pSrc /\ y.msg.pDest = x.msg.pDest
      /\ y.msg.msgNum = x.msg.msgNum /\ y \in Places
  BY <1>2, <1>3, PassedIs
<1> HIDE DEF y
<1>6. RightGoing(y) <=> RightGoing(x)
  BY <1>1, <1>2, <1>3, <1>5 DEF RightGoing
<1>7. Alike(y, x)
  BY <1>5, <1>6 DEF Alike
<1>8. /\ x.msg.pSrc \in Nat /\ x.msg.pDest \in Int
      /\ x.msg.pDest # -1 => x.msg.pDest \in 0 .. ProcessorCount
      /\ x.msg.pDest = -1 <=> IsBroadcast(x.msg)
  <2>1. x.msg \in Messages
    BY DEF Places, Good
  <2>2. x.msg.pSrc \in Nodes /\ x.msg.pDest \in Nodes \cup {-1}
    BY <2>1 DEF Messages
  <2>3. x.msg.pDest = -1 <=> IsBroadcast(x.msg)
    BY MemoryIsNode DEF KindOK, IsBroadcast, IsReply, ToMemory, FromMemory, Memory
  <2> QED
    BY <2>2, <2>3, LineIs
<1>9. OnItsWay(y)
  <2>1. CASE RightGoing(x)
    <3>1. k = x.link + 1 /\ x.msg.pSrc <= x.link /\ (x.msg.pDest # -1 => x.link < x.msg.pDest)
      BY <1>2, <2>1 DEF OnItsWay
    <3>2. x.msg.pDest # -1 => x.msg.pDest # x.link + 1
      BY <1>8, <2>1, ArrivalIs, NextLinksAre
    <3>3. x.msg.pDest = -1 => x.link + 1 < LastLink
      <4>1. x.msg.pDest = -1 => ~ToMemory(x.msg)
        BY <1>8 DEF IsBroadcast, ToMemory
      <4> QED
        BY <1>8, <2>1, <4>1, NextLinksAre
    <3> QED
      BY <1>1, <1>5, <1>6, <1>8, <2>1, <3>1, <3>2, <3>3 DEF OnItsWay
  <2>2. CASE ~RightGoing(x)
    <3>1. k = x.link - 1 /\ x.link < x.msg.pSrc /\ x.msg.pDest <= x.link
      BY <1>2, <2>2 DEF OnItsWay
    <3>2. x.msg.pDest # -1 => x.msg.pDest # x.link
      BY <1>8, <2>2, ArrivalIs, NextLinksAre
    <3>3. k # LastLink /\ y.msg.procNum = k + 1
      BY <1>1, <1>3, <1>5, <2>2, <3>1
    <3> QED
      BY <1>1, <1>5, <1>6, <1>8, <2>2, <3>1, <3>2, <3>3 DEF OnItsWay
  <2> QED
    BY <2>1, <2>2
<1> QED
  BY <1>2, <1>4, <1>5, <1>7, <1>9 DEF y
----------------------------------------------------------------------------
(* What is on the links, as messages are sent, carried and taken.          *)
Carried == [LinkIds -> Good \cup {NULL}]

Queued(queue, l, m) ==
  \E n \in Ends(l) : \E i \in 1 .. Len(queue[l][n]) : m = queue[l][n][i]

LEMMA OnNet ==
  ASSUME NEW pend, NEW queue, NEW l, NEW m
  PROVE  At(l, m) \in NetOf(pend, queue) <=>
           /\ l \in LinkIds
           /\ (m = pend[l] /\ m # NULL) \/ Queued(queue, l, m)
<1>1. m \in Held(pend, queue, l) <=> (m = pend[l] /\ m # NULL) \/ Queued(queue, l, m)
  BY DEF Held, Queued
<1>2. \A k, z : At(l, m) = At(k, z) <=> l = k /\ m = z
  <2> SUFFICES ASSUME NEW k, NEW z, At(l, m) = At(k, z) PROVE l = k /\ m = z
    OBVIOUS
  <2>1. At(l, m).link = l /\ At(l, m).msg = m /\ At(k, z).link = k /\ At(k, z).msg = z
    BY DEF At
  <2> QED
    BY <2>1
<1>3. At(l, m) \in NetOf(pend, queue) <=> l \in LinkIds /\ m \in Held(pend, queue, l)
  BY <1>2 DEF NetOf
<1> QED
  BY <1>1, <1>3

LEMMA NetIsAt ==
  ASSUME NEW pend, NEW queue, NEW x \in NetOf(pend, queue)
  PROVE  x = At(x.link, x.msg) /\ x.link \in LinkIds
<1>1. PICK l \in LinkIds : x \in {At(l, m) : m \in Held(pend, queue, l)}
  BY DEF NetOf
<1>2. PICK m \in Held(pend, queue, l) : x = At(l, m)
  BY <1>1
<1> QED
  BY <1>1, <1>2 DEF At

LEMMA NetPlaces ==
  ASSUME NEW pend \in Carried, NEW queue \in Queues
  PROVE  NetOf(pend, queue) \subseteq Places
<1> SUFFICES ASSUME NEW l \in LinkIds, NEW m \in Held(pend, queue, l)
             PROVE  At(l, m) \in Places
  BY DEF NetOf
<1>1. m \in Good
  <2>1. CASE m \in {pend[l]} \ {NULL}
    BY <2>1 DEF Carried
  <2>2. ASSUME NEW n \in Ends(l), NEW i \in 1 .. Len(queue[l][n]), m = queue[l][n][i]
        PROVE  m \in Good
    <3>1. n \in Nodes
      BY LinkEnds DEF Ends
    <3>2. queue[l][n] \in Seq(Good)
      BY <3>1 DEF Queues
    <3> QED
      BY <2>2, <3>2
  <2> QED
    BY <2>1, <2>2 DEF Held
<1> QED
  BY <1>1 DEF At, Places

LEMMA AppendIs ==
  ASSUME NEW S, NEW s \in Seq(S), NEW m \in S
  PROVE  /\ Len(s) \in Nat /\ Len(Append(s, m)) = Len(s) + 1
         /\ \A i \in 1 .. Len(s) : Append(s, m)[i] = s[i]
         /\ Append(s, m)[Len(s) + 1] = m
         /\ \A i \in 1 .. Len(s) + 1 : i \in 1 .. Len(s) \/ i = Len(s) + 1
         /\ 1 .. Len(s) \subseteq 1 .. Len(s) + 1 /\ Len(s) + 1 \in 1 .. Len(s) + 1
<1>1. Len(s) \in Nat
  OBVIOUS
<1>2. /\ Len(Append(s, m)) = Len(s) + 1
      /\ \A i \in 1 .. Len(s) : Append(s, m)[i] = s[i]
      /\ Append(s, m)[Len(s) + 1] = m
  BY <1>1
<1>3. /\ \A i \in 1 .. Len(s) + 1 : i \in 1 .. Len(s) \/ i = Len(s) + 1
      /\ 1 .. Len(s) \subseteq 1 .. Len(s) + 1 /\ Len(s) + 1 \in 1 .. Len(s) + 1
  BY <1>1
<1> QED
  BY <1>1, <1>2, <1>3

(* A message that is not on these links is queued there.                   *)
LEMMA EnqueuedNet ==
  ASSUME OnLine, NEW pend \in Carried, NEW queue \in Queues, NEW m \in Good,
         NEW ls \in SUBSET LinkIds, \A l \in ls : m.procNum \in Ends(l),
         Orderly(pend, queue), \A l \in ls : At(l, m) \notin NetOf(pend, queue)
  PROVE  /\ Orderly(pend, Enqueued(queue, m, ls))
         /\ NetOf(pend, Enqueued(queue, m, ls)) =
              Exchange(NetOf(pend, queue), {}, {At(l, m) : l \in ls})
<1> DEFINE q2 == Enqueued(queue, m, ls)
           n0 == m.procNum
<1>1. n0 \in Nodes
  BY DEF Good, Messages
<1>2. ASSUME NEW l \in LinkIds, l \notin ls PROVE q2[l] = queue[l]
  BY <1>2 DEF Enqueued
<1>3. ASSUME NEW l \in ls
      PROVE  /\ q2[l][n0] = Append(queue[l][n0], m)
             /\ \A n \in Nodes : n # n0 => q2[l][n] = queue[l][n]
  BY <1>1 DEF Enqueued, Queues
<1>4. \A l \in LinkIds, n \in Nodes : queue[l][n] \in Seq(Good)
  BY DEF Queues
<1> HIDE DEF q2
<1>5. ASSUME NEW l \in ls
      PROVE  /\ Len(q2[l][n0]) = Len(queue[l][n0]) + 1
             /\ \A i \in 1 .. Len(queue[l][n0]) : q2[l][n0][i] = queue[l][n0][i]
             /\ q2[l][n0][Len(queue[l][n0]) + 1] = m
             /\ \A i \in 1 .. Len(q2[l][n0]) :
                  i \in 1 .. Len(queue[l][n0]) \/ i = Len(queue[l][n0]) + 1
             /\ 1 .. Len(queue[l][n0]) \subseteq 1 .. Len(q2[l][n0])
             /\ Len(queue[l][n0]) + 1 \in 1 .. Len(q2[l][n0])
  <2> DEFINE s == queue[l][n0]
  <2>1. s \in Seq(Good)
    BY <1>1, <1>4
  <2>2. q2[l][n0] = Append(s, m)
    BY <1>3
  <2> HIDE DEF s
  <2>3. /\ Len(s) \in Nat /\ Len(Append(s, m)) = Len(s) + 1
        /\ \A i \in 1 .. Len(s) : Append(s, m)[i] = s[i]
        /\ Append(s, m)[Len(s) + 1] = m
        /\ \A i \in 1 .. Len(s) + 1 : i \in 1 .. Len(s) \/ i = Len(s) + 1
        /\ 1 .. Len(s) \subseteq 1 .. Len(s) + 1 /\ Len(s) + 1 \in 1 .. Len(s) + 1
    BY <2>1, AppendIs
  <2>4. /\ Len(q2[l][n0]) = Len(s) + 1
        /\ \A i \in 1 .. Len(s) : q2[l][n0][i] = s[i]
        /\ q2[l][n0][Len(s) + 1] = m
        /\ \A i \in 1 .. Len(q2[l][n0]) : i \in 1 .. Len(s) \/ i = Len(s) + 1
        /\ 1 .. Len(s) \subseteq 1 .. Len(q2[l][n0])
        /\ Len(s) + 1 \in 1 .. Len(q2[l][n0])
    BY <2>2, <2>3
  <2> QED
    BY <2>4 DEF s
<1>6. \A l \in LinkIds : Ends(l) \subseteq Nodes
  BY LinkEnds DEF Ends
<1>7. ASSUME NEW l \in ls, NEW z
      PROVE  Queued(q2, l, z) <=> Queued(queue, l, z) \/ z = m
  <2>3. n0 \in Ends(l)
    OBVIOUS
  <2>4. \A n \in Ends(l) : n # n0 => q2[l][n] = queue[l][n]
    BY <1>3, <1>6
  <2>5. (\E i \in 1 .. Len(q2[l][n0]) : z = q2[l][n0][i]) <=>
          (\E i \in 1 .. Len(queue[l][n0]) : z = queue[l][n0][i]) \/ z = m
    BY <1>5, ZenonT(30)
  <2> QED
    BY <2>3, <2>4, <2>5 DEF Queued
<1>8. ASSUME NEW l \in LinkIds, NEW n \in Nodes PROVE QueueOK(pend, q2, l, n)
  <2>1. QueueOK(pend, queue, l, n)
    BY DEF Orderly
  <2>2. CASE ~(l \in ls /\ n = n0)
    <3>1. q2[l][n] = queue[l][n]
      BY <1>2, <1>3, <2>2
    <3> QED
      BY <2>1, <3>1 DEF QueueOK
  <2>3. CASE l \in ls /\ n = n0
    <3>1. n0 \in Ends(l)
      BY <2>3
    <3>2. ~((m = pend[l] /\ m # NULL) \/ Queued(queue, l, m))
      BY <2>3, OnNet
    <3>3. m # NULL
      BY NullAssumption DEF Good
    <3>4. m # pend[l] /\ \A i \in 1 .. Len(queue[l][n0]) : queue[l][n0][i] # m
      BY <3>1, <3>2, <3>3 DEF Queued
    <3>5. \A i \in 1 .. Len(queue[l][n0]) :
            /\ queue[l][n0][i].procNum = n0 /\ queue[l][n0][i] # pend[l]
            /\ \A j \in 1 .. Len(queue[l][n0]) : queue[l][n0][i] = queue[l][n0][j] => i = j
      BY <2>1, <2>3 DEF QueueOK
    <3> DEFINE w == q2[l][n0]
               v == queue[l][n0]
               last == Len(v) + 1
    <3>6. /\ \A i \in 1 .. Len(v) : w[i] = v[i]
          /\ w[last] = m
          /\ \A i \in 1 .. Len(w) : i \in 1 .. Len(v) \/ i = last
      BY <1>5, <2>3
    <3>8. /\ m.procNum = n0 /\ m # pend[l] /\ \A i \in 1 .. Len(v) : v[i] # m
          /\ \A i \in 1 .. Len(v) :
               /\ v[i].procNum = n0 /\ v[i] # pend[l]
               /\ \A j \in 1 .. Len(v) : v[i] = v[j] => i = j
      BY <3>4, <3>5
    <3> HIDE DEF w, v, last
    <3>9. \A i \in 1 .. Len(w) :
            /\ w[i].procNum = n0 /\ w[i] # pend[l]
            /\ \A j \in 1 .. Len(w) : w[i] = w[j] => i = j
      <4> SUFFICES ASSUME NEW i \in 1 .. Len(w)
                   PROVE  /\ w[i].procNum = n0 /\ w[i] # pend[l]
                          /\ \A j \in 1 .. Len(w) : w[i] = w[j] => i = j
        OBVIOUS
      <4>1. CASE i \in 1 .. Len(v)
        BY <3>6, <3>8, <4>1
      <4>2. CASE i = last
        BY <3>6, <3>8, <4>2
      <4> QED
        BY <3>6, <4>1, <4>2
    <3>7. \A i \in 1 .. Len(q2[l][n0]) :
            /\ q2[l][n0][i].procNum = n0 /\ q2[l][n0][i] # pend[l]
            /\ \A j \in 1 .. Len(q2[l][n0]) : q2[l][n0][i] = q2[l][n0][j] => i = j
      BY <3>9 DEF w
    <3> QED
      BY <2>3, <3>1, <3>7 DEF QueueOK
  <2> QED
    BY <2>2, <2>3
<1>9. Orderly(pend, q2)
  BY <1>8 DEF Orderly
<1>10. ASSUME NEW l, NEW z
       PROVE  At(l, z) \in NetOf(pend, q2) <=>
                At(l, z) \in NetOf(pend, queue) \/ (l \in ls /\ z = m)
  <2>1. l \in LinkIds /\ l \notin ls => (Queued(q2, l, z) <=> Queued(queue, l, z))
    BY <1>2 DEF Queued
  <2> QED
    BY <1>7, <2>1, OnNet
<1>11. \A l, z, k : At(l, z) = At(k, m) <=> l = k /\ z = m
  <2> SUFFICES ASSUME NEW l, NEW z, NEW k, At(l, z) = At(k, m) PROVE l = k /\ z = m
    OBVIOUS
  <2>1. At(l, z).link = l /\ At(l, z).msg = z /\ At(k, m).link = k /\ At(k, m).msg = m
    BY DEF At
  <2> QED
    BY <2>1
<1> DEFINE A == {At(l, m) : l \in ls}
<1>12. ASSUME NEW x PROVE x \in NetOf(pend, q2) <=> x \in NetOf(pend, queue) \/ x \in A
  <2>1. ASSUME x \in NetOf(pend, q2) PROVE x \in NetOf(pend, queue) \/ x \in A
    <3>1. x = At(x.link, x.msg)
      BY <2>1, NetIsAt
    <3> QED
      BY <1>10, <2>1, <3>1
  <2>2. ASSUME x \in NetOf(pend, queue) PROVE x \in NetOf(pend, q2)
    <3>1. x = At(x.link, x.msg)
      BY <2>2, NetIsAt
    <3> QED
      BY <1>10, <2>2, <3>1
  <2>3. ASSUME x \in A PROVE x \in NetOf(pend, q2)
    BY <1>10, <2>3
  <2> QED
    BY <2>1, <2>2, <2>3
<1> HIDE DEF A
<1>13. NetOf(pend, q2) = Exchange(NetOf(pend, queue), {}, A)
  BY <1>12 DEF Exchange
<1> QED
  BY <1>9, <1>13 DEF q2, A

(* The message carried is taken from its link.                             *)
LEMMA FreedNet ==
  ASSUME OnLine, NEW pend \in Carried, NEW queue \in Queues, NEW t \in LinkIds,
         pend[t] # NULL, Orderly(pend, queue), NEW pend2,
         pend2 = [pend EXCEPT ![t] = NULL]
  PROVE  /\ pend2 \in Carried /\ Orderly(pend2, queue)
         /\ At(t, pend[t]) \in NetOf(pend, queue)
         /\ NetOf(pend2, queue) = Exchange(NetOf(pend, queue), {At(t, pend[t])}, {})
<1> DEFINE m == pend[t]
<1>1. /\ pend2 \in Carried /\ pend2[t] = NULL
      /\ \A l \in LinkIds : l # t => pend2[l] = pend[l]
  BY DEF Carried
<1>2. ASSUME NEW l \in LinkIds, NEW n \in Nodes PROVE QueueOK(pend2, queue, l, n)
  <2>1. QueueOK(pend, queue, l, n)
    BY DEF Orderly
  <2>2. queue[l][n] \in Seq(Good)
    BY DEF Queues
  <2>3. \A i \in 1 .. Len(queue[l][n]) : queue[l][n][i] # NULL
    BY <2>2, NullAssumption DEF Good
  <2> QED
    BY <1>1, <2>1, <2>3 DEF QueueOK
<1>3. Orderly(pend2, queue)
  BY <1>1, <1>2 DEF Orderly
<1>4. At(t, m) \in NetOf(pend, queue)
  BY OnNet
<1>5. ~Queued(queue, t, m)
  <2>1. \A n \in Ends(t) : QueueOK(pend, queue, t, n)
    BY LinkEnds DEF Orderly, Ends
  <2> QED
    BY <2>1 DEF Queued, QueueOK
<1>6. ASSUME NEW l, NEW z
      PROVE  At(l, z) \in NetOf(pend2, queue) <=>
               At(l, z) \in NetOf(pend, queue) /\ ~(l = t /\ z = m)
  BY <1>1, <1>5, OnNet
<1>7. At(t, m).link = t /\ At(t, m).msg = m
  BY DEF At
<1>8. ASSUME NEW x
      PROVE  x \in NetOf(pend2, queue) <=> x \in NetOf(pend, queue) /\ x # At(t, m)
  <2>1. ASSUME x \in NetOf(pend2, queue) PROVE x \in NetOf(pend, queue) /\ x # At(t, m)
    <3>1. x = At(x.link, x.msg)
      BY <2>1, NetIsAt
    <3> QED
      BY <1>6, <1>7, <2>1, <3>1
  <2>2. ASSUME x \in NetOf(pend, queue), x # At(t, m) PROVE x \in NetOf(pend2, queue)
    <3>1. x = At(x.link, x.msg)
      BY <2>2, NetIsAt
    <3> QED
      BY <1>6, <2>2, <3>1
  <2> QED
    BY <2>1, <2>2
<1>9. NetOf(pend2, queue) = Exchange(NetOf(pend, queue), {At(t, m)}, {})
  BY <1>8 DEF Exchange
<1> QED
  BY <1>1, <1>3, <1>4, <1>9

(* The first of a queue is carried: it stays on its link.                  *)
TakesFirst(pend, queue, t, n, pend2, queue2) ==
  /\ pend[t] = NULL /\ n \in Ends(t) /\ queue[t][n] # <<>>
  /\ pend2 = [pend EXCEPT ![t] = Head(queue[t][n])]
  /\ queue2 = [queue EXCEPT ![t][n] = Tail(@)]

LEMMA SentNet ==
  ASSUME OnLine, NEW pend \in Carried, NEW queue \in Queues, NEW t \in LinkIds,
         NEW n \in Nodes, Orderly(pend, queue), NEW pend2, NEW queue2,
         TakesFirst(pend, queue, t, n, pend2, queue2)
  PROVE  /\ Orderly(pend2, queue2) /\ NetOf(pend2, queue2) = NetOf(pend, queue)
         /\ Head(queue[t][n]).procNum = n /\ Head(queue[t][n]) \in Good
<1> DEFINE m == Head(queue[t][n])
           s == queue[t][n]
<1>1. n \in Nodes /\ Ends(t) \subseteq Nodes
  BY LinkEnds DEF Ends
<1>14. /\ pend[t] = NULL /\ n \in Ends(t) /\ queue[t][n] # <<>>
       /\ pend2 = [pend EXCEPT ![t] = Head(queue[t][n])]
       /\ queue2 = [queue EXCEPT ![t][n] = Tail(@)]
  BY DEF TakesFirst
<1>2. s \in Seq(Good)
  BY <1>1 DEF Queues
<1>3. /\ Len(s) \in Nat \ {0} /\ m = s[1] /\ m \in Good
      /\ Len(Tail(s)) = Len(s) - 1
      /\ \A i \in 1 .. Len(s) - 1 : Tail(s)[i] = s[i + 1]
  BY <1>2, <1>14
<1>4. /\ pend2[t] = m /\ \A l \in LinkIds : l # t => pend2[l] = pend[l]
      /\ m # NULL
  BY <1>3, <1>14, NullAssumption DEF Carried, Good
<1>5. /\ queue2[t][n] = Tail(s)
      /\ \A k \in Nodes : k # n => queue2[t][k] = queue[t][k]
      /\ \A l \in LinkIds : l # t => queue2[l] = queue[l]
  BY <1>1, <1>14 DEF Queues
<1>6. QueueOK(pend, queue, t, n)
  BY <1>1 DEF Orderly
<1> HIDE DEF s, m
<1>7. /\ \A i \in 1 .. Len(s) : s[i].procNum = n
      /\ \A i \in 1 .. Len(s), j \in 1 .. Len(s) : s[i] = s[j] => i = j
  BY <1>6 DEF QueueOK, s
<1>8. m.procNum = n
  BY <1>3, <1>7
<1>9. ASSUME NEW l \in LinkIds, NEW k \in Nodes PROVE QueueOK(pend2, queue2, l, k)
  <2>1. QueueOK(pend, queue, l, k)
    BY DEF Orderly
  <2>2. CASE l # t
    BY <1>4, <1>5, <2>1, <2>2 DEF QueueOK
  <2>3. CASE l = t /\ k # n
    <3>1. queue2[t][k] = queue[t][k] /\ k # m.procNum
      BY <1>5, <1>8, <2>3
    <3> QED
      BY <1>4, <2>1, <2>3, <3>1 DEF QueueOK
  <2>4. CASE l = t /\ k = n
    <3>1. \A i \in 1 .. Len(s) - 1 :
             i + 1 \in 1 .. Len(s) /\ 1 \in 1 .. Len(s) /\ i + 1 # 1
      BY <1>3
    <3>2. \A i \in 1 .. Len(s) - 1, j \in 1 .. Len(s) - 1 : i + 1 = j + 1 => i = j
      OBVIOUS
    <3>3. \A i \in 1 .. Len(s) - 1 :
            /\ Tail(s)[i].procNum = n /\ Tail(s)[i] # m
            /\ \A j \in 1 .. Len(s) - 1 : Tail(s)[i] = Tail(s)[j] => i = j
      BY <1>3, <1>7, <3>1, <3>2
    <3>4. /\ queue2[l][k] = Tail(s) /\ Len(queue2[l][k]) = Len(s) - 1 /\ pend2[l] = m
          /\ k \in Ends(l)
      <4>1. n \in Ends(t)
        BY <1>14
      <4>2. queue2[t][n] = Tail(s) /\ Len(Tail(s)) = Len(s) - 1 /\ pend2[t] = m
        BY <1>3, <1>4, <1>5
      <4> QED
        BY <2>4, <4>1, <4>2
    <3>5. PICK u : u = queue2[l][k] /\ u = Tail(s) /\ Len(u) = Len(s) - 1
      BY <3>4
    <3>6. \A i \in 1 .. Len(u) :
            /\ u[i].procNum = k /\ u[i] # pend2[l]
            /\ \A j \in 1 .. Len(u) : u[i] = u[j] => i = j
      BY <2>4, <3>3, <3>4, <3>5
    <3> QED
      BY <3>4, <3>5, <3>6 DEF QueueOK
  <2> QED
    BY <2>2, <2>3, <2>4
<1>10. Orderly(pend2, queue2)
  BY <1>4, <1>8, <1>9, <1>14 DEF Orderly
<1>11. ASSUME NEW z
       PROVE  Queued(queue, t, z) <=> Queued(queue2, t, z) \/ z = m
  <2>1. ASSUME NEW i \in 1 .. Len(s), i # 1
        PROVE  i - 1 \in 1 .. Len(s) - 1 /\ Tail(s)[i - 1] = s[i]
    <3>1. i - 1 \in 1 .. Len(s) - 1 /\ (i - 1) + 1 = i
      BY <1>3, <2>1
    <3> QED
      BY <1>3, <3>1
  <2>2. \A i \in 1 .. Len(s) - 1 : i + 1 \in 1 .. Len(s) /\ 1 \in 1 .. Len(s)
    BY <1>3
  <2>3. 1 \in 1 .. Len(s)
    BY <1>3
  <2>4. (\E i \in 1 .. Len(s) : z = s[i]) <=>
          (\E i \in 1 .. Len(s) - 1 : z = Tail(s)[i]) \/ z = m
    BY <1>3, <2>1, <2>2, <2>3
  <2>5. \A k \in Ends(t) : k # n => queue2[t][k] = queue[t][k]
    BY <1>1, <1>5
  <2>6. Len(queue2[t][n]) = Len(s) - 1 /\ queue2[t][n] = Tail(s) /\ queue[t][n] = s
    BY <1>3, <1>5 DEF s
  <2> QED
    BY <1>14, <2>4, <2>5, <2>6 DEF Queued
<1>12. ASSUME NEW l, NEW z
       PROVE  At(l, z) \in NetOf(pend2, queue2) <=> At(l, z) \in NetOf(pend, queue)
  <2>1. l \in LinkIds /\ l # t => (Queued(queue2, l, z) <=> Queued(queue, l, z))
    BY <1>5 DEF Queued
  <2> QED
    BY <1>4, <1>11, <1>14, <2>1, OnNet
<1>13. NetOf(pend2, queue2) = NetOf(pend, queue)
  <2>1. ASSUME NEW x \in NetOf(pend2, queue2) PROVE x \in NetOf(pend, queue)
    <3>1. x = At(x.link, x.msg)
      BY NetIsAt
    <3> QED
      BY <1>12, <3>1
  <2>2. ASSUME NEW x \in NetOf(pend, queue) PROVE x \in NetOf(pend2, queue2)
    <3>1. x = At(x.link, x.msg)
      BY NetIsAt
    <3> QED
      BY <1>12, <3>1
  <2> QED
    BY <2>1, <2>2
<1> QED
  BY <1>3, <1>8, <1>10, <1>13 DEF m, s

(* What is sent to one node, and where it is.                              *)
Letter(brt, a, p, dest, num) ==
  At(FindLink(p, dest),
     [brt |-> brt, addr |-> a, procNum |-> p, pSrc |-> p, pDest |-> dest, msgNum |-> num])

LEMMA LetterIs ==
  ASSUME OnLine, NEW brt \in BusReqTypes, NEW a \in Addrs, NEW p \in Nodes, NEW dest \in Nodes,
         p # dest, NEW num \in Int, brt \notin {"BUSRD", "BUSWR"}, brt = "MEMORY" => p \in Procs,
         NEW y, y = Letter(brt, a, p, dest, num)
  PROVE  /\ y \in Places /\ OnItsWay(y) /\ p \in Ends(y.link) /\ y.link = FindLink(p, dest)
         /\ y.msg.brt = brt /\ y.msg.addr = a /\ y.msg.procNum = p /\ y.msg.pSrc = p
         /\ y.msg.pDest = dest /\ y.msg.msgNum = num
<1> DEFINE m == [brt |-> brt, addr |-> a, procNum |-> p, pSrc |-> p, pDest |-> dest,
                 msgNum |-> num]
<1>1. m \in Good
  BY DEF Good, Messages, IsBroadcast
<1>2. /\ y.link = FindLink(p, dest) /\ y.msg = m
      /\ m.brt = brt /\ m.addr = a /\ m.procNum = p /\ m.pSrc = p /\ m.pDest = dest
      /\ m.msgNum = num
  BY DEF Letter, At
<1>3. p \in 0 .. ProcessorCount /\ dest \in 0 .. ProcessorCount /\ ProcessorCount \in Nat
  BY LineIs
<1>4. y.link = IF p < dest THEN p ELSE p - 1
  BY <1>2, FindOnLine
<1>5. y.link \in LinkIds
  BY <1>3, <1>4, LineIs
<1>6. y \in Places
  BY <1>1, <1>2, <1>5 DEF Letter, At, Places
<1> HIDE DEF m
<1>7. p \in Ends(y.link)
  BY <1>3, <1>4, <1>5, LineIs
<1>8. OnItsWay(y)
  BY <1>2, <1>3, <1>4 DEF OnItsWay, RightGoing
<1> QED
  BY <1>2, <1>6, <1>7, <1>8 DEF m

LEMMA SentOne ==
  ASSUME OnLine, NEW pend \in Carried, NEW queue \in Queues, Orderly(pend, queue),
         NEW brt \in BusReqTypes, NEW a \in Addrs, NEW p \in Nodes, NEW dest \in Nodes,
         p # dest, NEW num \in Int, brt \notin {"BUSRD", "BUSWR"}, brt = "MEMORY" => p \in Procs,
         NEW y, y = Letter(brt, a, p, dest, num), y \notin NetOf(pend, queue)
  PROVE  /\ Orderly(pend, Sent(queue, brt, a, p, dest, num))
         /\ NetOf(pend, Sent(queue, brt, a, p, dest, num)) =
              Exchange(NetOf(pend, queue), {}, {y})
<1> DEFINE m == [brt |-> brt, addr |-> a, procNum |-> p, pSrc |-> p, pDest |-> dest,
                 msgNum |-> num]
           k == FindLink(p, dest)
<1>3. y = At(k, m)
  BY DEF Letter
<1>9. y \in Places /\ p \in Ends(y.link) /\ y.link = k
  BY LetterIs
<1>1. y.msg = m /\ m.procNum = p /\ p \in Ends(k)
  BY <1>3, <1>9 DEF At
<1>2. m \in Good /\ k \in LinkIds
  BY <1>1, <1>9 DEF Places
<1>4. Sent(queue, brt, a, p, dest, num) = Enqueued(queue, m, {k})
  <2>1. dest # -1
    BY LineIs
  <2> QED
    BY <2>1 DEF Sent
<1> HIDE DEF m, k
<1>5. {k} \in SUBSET LinkIds /\ \A l \in {k} : m.procNum \in Ends(l)
  BY <1>1, <1>2
<1>6. \A l \in {k} : At(l, m) \notin NetOf(pend, queue)
  BY <1>3
<1>7. {At(l, m) : l \in {k}} = {y}
  BY <1>3
<1>8. /\ Orderly(pend, Enqueued(queue, m, {k}))
      /\ NetOf(pend, Enqueued(queue, m, {k})) =
           Exchange(NetOf(pend, queue), {}, {At(l, m) : l \in {k}})
  BY <1>2, <1>5, <1>6, EnqueuedNet
<1> QED
  BY <1>4, <1>7, <1>8
----------------------------------------------------------------------------
(* The message that arrives.                                               *)
Arrived == At(turn, Message)

LEMMA ArrivedIs ==
  ASSUME OnLine, LInv, Arriving
  PROVE  /\ turn \in LinkIds /\ Arrived \in Net /\ Arrived.link = turn /\ Arrived.msg = Message
         /\ Arrived \in Places /\ OnItsWay(Arrived) /\ KindOK(Message, globalMsgCount)
         /\ Message \in Good /\ pendingReq[turn] = Message /\ pendingReq \in Carried
         /\ linkQueue \in Queues
         /\ Fresh /\ Here = Arrival(Arrived) /\ Here \in Nodes
         /\ Forwarding = NextLinks(Arrived)
         /\ IsAck(Message) <=> IsReply(Message)
<1>1. /\ turn \in LinkIds /\ Message \in Good /\ Here \in Nodes
  BY ArrivingType DEF LInv
<1>2. Arrived.link = turn /\ Arrived.msg = Message
  BY DEF Arrived, At
<1>3. pendingReq \in Carried /\ linkQueue \in Queues /\ pendingReq[turn] = Message
  BY DEF LInv, Typed, WellFormed, Carried, Message
<1>4. Arrived \in Net
  BY <1>1, <1>3, OnNet DEF Arrived, Net, Arriving
<1>5. MessagesOK(Net, globalMsgCount)
  BY DEF LInv, Accounts
<1>6. Arrived \in Places /\ OnItsWay(Arrived) /\ KindOK(Message, globalMsgCount)
  BY <1>2, <1>4, <1>5 DEF MessagesOK
<1>7. Fresh
  BY DEF Fresh, OnLine
<1>8. Here = Arrival(Arrived)
  BY <1>2 DEF Here, Arrival
<1>9. Forwarding = NextLinks(Arrived)
  BY <1>2, <1>7, <1>8 DEF Forwarding, NextLinks, ToMemory
<1>10. IsAck(Message) <=> IsReply(Message)
  BY <1>6, MemoryIsNode DEF KindOK, IsAck, IsReply, IsBroadcast, ToMemory, FromMemory
<1> QED
  BY <1>1, <1>2, <1>3, <1>4, <1>6, <1>7, <1>8, <1>9, <1>10

(* It is taken from its link, and passed on.                               *)
LEMMA ForwardNet ==
  ASSUME OnLine, LInv, Arriving, NEW pend, pend = [pendingReq EXCEPT ![turn] = NULL]
  PROVE  /\ pend \in Carried /\ Orderly(pend, linkQueue)
         /\ NetOf(pend, linkQueue) = Exchange(Net, {Arrived}, {})
         /\ Forwarded \in Queues /\ Orderly(pend, Forwarded)
         /\ NetOf(pend, Forwarded) =
              Exchange(Net, {Arrived}, {Passed(Arrived, k) : k \in NextLinks(Arrived)})
<1>1. /\ turn \in LinkIds /\ Arrived \in Net /\ Arrived.link = turn /\ Arrived.msg = Message
      /\ Arrived \in Places /\ OnItsWay(Arrived) /\ KindOK(Message, globalMsgCount)
      /\ Message \in Good /\ pendingReq[turn] = Message /\ pendingReq \in Carried
      /\ linkQueue \in Queues /\ Here = Arrival(Arrived) /\ Forwarding = NextLinks(Arrived)
      /\ Here \in Nodes
  BY ArrivedIs
<1>2. pendingReq[turn] # NULL /\ Orderly(pendingReq, linkQueue)
  BY DEF Arriving, LInv
<1>3. /\ pend \in Carried /\ Orderly(pend, linkQueue)
      /\ NetOf(pend, linkQueue) = Exchange(Net, {Arrived}, {})
  BY <1>1, <1>2, FreedNet DEF Net, Arrived
<1> DEFINE m == [Message EXCEPT !.procNum = Here]
           ls == NextLinks(Arrived)
<1>4. m \in Good /\ m.procNum = Here
  BY <1>1, ArrivingType DEF LInv, Good, Messages
<1>5. \A k : Passed(Arrived, k) = At(k, m)
  BY <1>1 DEF Passed
<1>6. ASSUME NEW k \in ls
      PROVE  k \in LinkIds /\ m.procNum \in Ends(k) /\ Alike(At(k, m), Arrived)
  BY <1>1, <1>4, <1>5, WayOn
<1>7. Forwarded = Enqueued(linkQueue, m, ls)
  BY <1>1 DEF Forwarded
<1> HIDE DEF m, ls
<1>8. Forwarded \in Queues
  BY <1>1, <1>4, <1>7, EnqueuedType
<1>9. Single(Net)
  BY DEF LInv, Accounts
<1>10. \A k \in ls : At(k, m) \notin NetOf(pend, linkQueue)
  BY <1>1, <1>3, <1>6, <1>9 DEF Single, Exchange
<1>11. ls \in SUBSET LinkIds /\ \A k \in ls : m.procNum \in Ends(k)
  BY <1>6
<1>12. /\ Orderly(pend, Forwarded)
       /\ NetOf(pend, Forwarded) =
            Exchange(NetOf(pend, linkQueue), {}, {At(k, m) : k \in ls})
  BY <1>1, <1>3, <1>4, <1>7, <1>10, <1>11, EnqueuedNet
<1>13. {At(k, m) : k \in ls} = {Passed(Arrived, k) : k \in ls}
  BY <1>5
<1>14. NetOf(pend, Forwarded) = Exchange(Net, {Arrived}, {Passed(Arrived, k) : k \in ls})
  BY <1>3, <1>12, <1>13 DEF Exchange
<1> QED
  BY <1>3, <1>8, <1>12, <1>14 DEF ls
----------------------------------------------------------------------------
(* Each action keeps the invariant.                                        *)

LEMMA NextLinkIs ==
  ASSUME OnLine, Typed, Tick, NextLink
  PROVE  /\ turn \in LinkIds
         /\ phase' = IF turn = LastLink THEN "cache" ELSE "interconnect"
         /\ phase = "interconnect"
<1>1. turn \in LinkIds
  BY TypedNextLink DEF Typed
<1> QED
  BY <1>1, LineIs DEF Tick, NextLink, Goto, LastLink, OnLine

(* A link is free again, and the memory is left alone.                     *)
(* What a step means to the states of the caches: the processors that a    *)
(* broadcast of p for block a has yet to reach, and who changes state.     *)
Reaches(net, p, brt, a) ==
  {q \in Procs : \E x \in net : /\ IsBroadcast(x.msg) /\ x.msg.brt = brt /\ x.msg.pSrc = p
                                /\ x.msg.addr = a /\ q \in Ahead(x)}
Silent(net, p) == \A x \in net : ~(IsBroadcast(x.msg) /\ x.msg.pSrc = p)

NoneLost(net, net2) ==
  \A p, brt, a, q : q \in Reaches(net, p, brt, a) => q \in Reaches(net2, p, brt, a)
OneLost(net, net2, here, brt0, a0) ==
  \A p, brt, a, q : q \in Reaches(net, p, brt, a) =>
    q \in Reaches(net2, p, brt, a) \/ (q = here /\ brt = brt0 /\ a = a0)

Becomes(p, a, st) ==
  \A q \in Procs, b \in Addrs :
    coherStates'[q][b] = IF q = p /\ b = a THEN st ELSE coherStates[q][b]
Undisturbed ==
  /\ \A q \in Procs, b \in Addrs : coherStates'[q][b] = coherStates[q][b]
  /\ NoneLost(Net, Net')
SnoopsAt(p, brt, a) ==
  Becomes(p, a, SnoopOf(brt, a, p).next) /\ OneLost(Net, Net', p, brt, a)
IsAnswered(p, a) ==
  /\ Transient(p, a) /\ Silent(Net, p)
  /\ Becomes(p, a, SnoopOf("DATA", a, p).next) /\ NoneLost(Net, Net')
Misses(p, brt, a, st) ==
  /\ st \in TransientStates
  /\ brt = IF st = "INVALID_SHARED" THEN "BUSRD" ELSE "BUSWR"
  /\ Becomes(p, a, st) /\ NoneLost(Net, Net')
  /\ \A q \in Procs : q # p => q \in Reaches(Net', p, brt, a)
LineStep ==
  \/ Undisturbed
  \/ \E p \in Procs, brt \in {"BUSRD", "BUSWR"}, a \in Addrs : SnoopsAt(p, brt, a)
  \/ \E p \in Procs, a \in Addrs : IsAnswered(p, a)
  \/ \E p \in Procs, brt \in {"BUSRD", "BUSWR"}, a \in Addrs,
        st \in UsedStates : Misses(p, brt, a, st)

LEMMA StillThere ==
  ASSUME NEW net, NEW net2, \A x \in net : IsBroadcast(x.msg) => x \in net2
  PROVE  NoneLost(net, net2)
  BY DEF NoneLost, Reaches

LEMMA SnoopedIs ==
  ASSUME CoresTypeOK, NEW p \in Procs, NEW a \in Addrs, NEW brt, Snoop(brt, a, {p})
  PROVE  Becomes(p, a, SnoopOf(brt, a, p).next)
  BY DEF Becomes, Snoop, CoresTypeOK

(* A broadcast that is passed on has reached one processor.                *)
LEMMA ReachesOneLess ==
  ASSUME NEW net, NEW x \in net, IsBroadcast(x.msg), NEW fwd, NEW r, NEW here,
         \A y \in fwd : Alike(y, x) /\ y.msg.brt = x.msg.brt /\ y.msg.addr = x.msg.addr,
         \A q \in Procs : (\E y \in fwd : q \in Ahead(y)) <=> q \in Ahead(x) /\ q # here
  PROVE  OneLost(net, Exchange(net, {x}, fwd \cup {r}), here, x.msg.brt, x.msg.addr)
<1> DEFINE net2 == Exchange(net, {x}, fwd \cup {r})
<1> SUFFICES ASSUME NEW p, NEW brt, NEW a, NEW q, q \in Reaches(net, p, brt, a),
                    ~(q = here /\ brt = x.msg.brt /\ a = x.msg.addr)
             PROVE  q \in Reaches(net2, p, brt, a)
  BY DEF OneLost
<1>1. /\ \A z \in net : z # x => z \in net2
      /\ \A y \in fwd : y \in net2
  BY DEF Exchange
<1> HIDE DEF net2
<1>2. PICK z \in net : /\ IsBroadcast(z.msg) /\ z.msg.brt = brt /\ z.msg.pSrc = p
                       /\ z.msg.addr = a /\ q \in Ahead(z) /\ q \in Procs
  BY DEF Reaches
<1>3. CASE z # x
  BY <1>1, <1>2, <1>3 DEF Reaches
<1>4. CASE z = x
  <2>1. PICK y \in fwd : q \in Ahead(y)
    BY <1>2, <1>4
  <2>2. y.msg.pSrc = p /\ y.msg.brt = brt /\ y.msg.addr = a /\ IsBroadcast(y.msg)
    BY <1>2, <1>4, <2>1 DEF Alike, IsBroadcast
  <2> QED
    BY <1>1, <1>2, <2>1, <2>2 DEF Reaches
<1> QED
  BY <1>3, <1>4

(* Who waits for something else has no broadcast under way.                *)
LEMMA NothingToReach ==
  ASSUME NEW net, NEW act, NEW count, NEW mem, NEW waits,
         Accounts(net, act, count, mem, waits),
         NEW p \in Procs, NEW s \in Errands(net, act, mem, p), s.stage # "broadcast",
         \A z \in net : \A e \in act[p] : ~CopyOf(z, p, e.msgNum)
  PROVE  Silent(net, p)
<1> SUFFICES ASSUME NEW z \in net, IsBroadcast(z.msg), z.msg.pSrc = p
             PROVE  FALSE
  BY DEF Silent
<1>1. \A t, u \in Errands(net, act, mem, p) : t = u
  BY DEF Accounts, ErrandsOK
<1>2. ~TrackedIn(act, p, z.msg.msgNum)
  BY DEF TrackedIn, CopyOf
<1> DEFINE t == Errand("broadcast", z.msg.msgNum, z.msg.addr)
<1>3. t \in Announcing(net, act, p) /\ t.stage = "broadcast"
  BY <1>2 DEF Announcing, Errand
<1> HIDE DEF t
<1> QED
  BY <1>1, <1>3 DEF Errands

LEMMA FreedKeeps ==
  ASSUME OnLine, LInv, Arriving, LinkFree(0), UNCHANGED memVars,
         \A l \in LinkIds : l # turn /\ pendingReq[l] # NULL /\ IsBroadcast(pendingReq[l]) =>
           TrackedIn(activeRequests', pendingReq[l].pSrc, pendingReq[l].msgNum)
  PROVE  CarriedOK' /\ MemoryInStep' /\ phase' # "aborted"
<1>1. /\ turn \in LinkIds /\ phase = "interconnect"
      /\ phase' = IF turn = LastLink THEN "cache" ELSE "interconnect"
  BY NextLinkIs DEF LInv, Arriving, LinkFree
<1>2. /\ pendingReq' = [pendingReq EXCEPT ![turn] = NULL]
      /\ countDown' = [countDown EXCEPT ![turn] = 0]
  BY DEF LinkFree
<1>3. /\ pendingReq'[turn] = NULL
      /\ \A l \in LinkIds : l # turn => pendingReq'[l] = pendingReq[l]
                                        /\ countDown'[l] = countDown[l]
  BY <1>1, <1>2 DEF LInv, Typed, WellFormed, TypeLinks
<1>4. CarriedOK'
  BY <1>3 DEF LInv, CarriedOK, Tracked, TrackedIn
<1>5. MemoryInStep'
  <2>1. memRequest # NULL => turn # LastLink
    BY DEF Arriving, LInv, MemoryInStep
  <2>2. LastLink \in LinkIds
    BY LineIs
  <2> QED
    BY <1>1, <1>3, <2>1, <2>2 DEF LInv, MemoryInStep, memVars
<1> QED
  BY <1>1, <1>4, <1>5

LEMMA TrackedStay ==
  ASSUME LInv, UNCHANGED activeRequests
  PROVE  \A l \in LinkIds : l # turn /\ pendingReq[l] # NULL /\ IsBroadcast(pendingReq[l]) =>
           TrackedIn(activeRequests', pendingReq[l].pSrc, pendingReq[l].msgNum)
  BY DEF LInv, CarriedOK, Tracked, TrackedIn

LEMMA CoresSameOK ==
  ASSUME LInv, UNCHANGED coreVars
  PROVE  StatesUsed' /\ RequestsMatch' /\ Awaits' = Awaits
  BY DEF LInv, coreVars, StatesUsed, RequestsMatch, Transient, Awaits

(* A message that is not for this node goes on.                            *)
LEMMA NextOne ==
  ASSUME OnLine, NEW count, NEW x \in Places, OnItsWay(x), KindOK(x.msg, count),
         ~IsBroadcast(x.msg), Arrival(x) # x.msg.pDest
  PROVE  \E k : NextLinks(x) = {k}
<1>1. /\ x.link \in 0 .. ProcessorCount - 1 /\ ProcessorCount \in Nat
      /\ LastLink = ProcessorCount - 1 /\ Memory = ProcessorCount
  BY ArrivalIs, LineIs DEF LastLink, Memory
<1>2. \/ x.msg.pDest \in 0 .. ProcessorCount - 1
      \/ ToMemory(x.msg) /\ x.msg.pDest = ProcessorCount
  BY <1>1, MemoryIsNode, LineIs DEF KindOK
<1>3. CASE RightGoing(x)
  <2>1. x.link < x.msg.pDest /\ x.msg.pDest # x.link + 1
    BY <1>1, <1>2, <1>3, ArrivalIs DEF OnItsWay
  <2>2. x.link + 1 < LastLink \/ (x.link + 1 = LastLink /\ ToMemory(x.msg))
    BY <1>1, <1>2, <2>1
  <2> QED
    BY <1>3, <2>2, NextLinksAre
<1>4. CASE ~RightGoing(x)
  <2>1. x.msg.pDest <= x.link /\ x.msg.pDest # x.link
    BY <1>1, <1>2, <1>4, ArrivalIs DEF OnItsWay
  <2>2. x.link > 0
    BY <1>1, <1>2, <2>1
  <2> QED
    BY <1>4, <2>2, NextLinksAre
<1> QED
  BY <1>3, <1>4

LEMMA PassOnKeeps == ASSUME OnLine, LInv, PassOn PROVE LInv' /\ Undisturbed
<1> DEFINE x == Arrived
<1>1. Arriving /\ LinkFree(0) /\ linkQueue' = Forwarded
      /\ UNCHANGED <<coreVars, activeRequests, memVars>>
  BY DEF PassOn
<1>2. Typed'
  BY TypedPassOn DEF LInv
<1>3. /\ x \in Net /\ x.msg = Message /\ x \in Places /\ OnItsWay(x)
      /\ KindOK(x.msg, globalMsgCount) /\ Here = Arrival(x) /\ Forwarding = NextLinks(x)
      /\ Fresh
  BY <1>1, ArrivedIs
<1>4. ~IsBroadcast(x.msg) /\ Arrival(x) # x.msg.pDest
  <2>1. ~Passing
    BY DEF Passing, OnLine
  <2>2. CASE ~Acting
    <3>1. ~IsBroadcast(x.msg) /\ NextLinks(x) # {}
      BY <1>3, <2>2 DEF Acting
    <3> QED
      BY <1>3, <3>1, NextLinksAre
  <2>3. CASE IsAck(Message) /\ Astray
    BY <1>3, <2>3 DEF Astray
  <2> QED
    BY <2>1, <2>2, <2>3 DEF PassOn
<1>5. PICK k : NextLinks(x) = {k}
  BY <1>3, <1>4, NextOne
<1> DEFINE y == Passed(x, k)
<1>6. /\ k \in LinkIds /\ y \in Places /\ OnItsWay(y) /\ Alike(y, x)
      /\ y.msg.brt = x.msg.brt /\ y.msg.addr = x.msg.addr
  <2>1. k \in NextLinks(x)
    BY <1>5
  <2>2. k \in LinkIds /\ y \in Places /\ OnItsWay(y) /\ Alike(y, x)
    BY <1>3, <2>1, WayOn
  <2> QED
    BY <1>3, <2>2, ArrivalIs, PassedIs
<1>7. pendingReq' = [pendingReq EXCEPT ![turn] = NULL]
  BY <1>1 DEF LinkFree
<1>8. /\ Orderly(pendingReq', linkQueue')
      /\ Net' = Exchange(Net, {x}, {y})
  <2>1. {Passed(x, j) : j \in NextLinks(x)} = {y}
    BY <1>5
  <2> QED
    BY <1>1, <1>7, <2>1, ForwardNet DEF Net
<1> HIDE DEF x, y
<1>9. /\ StatesUsed' /\ RequestsMatch' /\ Awaits' = Awaits
      /\ activeRequests' = activeRequests /\ globalMsgCount' = globalMsgCount
      /\ memRequest' = memRequest
  BY <1>1, CoresSameOK DEF LinkFree, memVars
<1>10. Accounts(Net', activeRequests', globalMsgCount', memRequest', Awaits')
  <2>1. Accounts(Net, activeRequests, globalMsgCount, memRequest, Awaits)
    BY DEF LInv
  <2>2. Accounts(Exchange(Net, {x}, {y}), activeRequests, globalMsgCount, memRequest, Awaits)
    BY <1>3, <1>4, <1>6, <2>1, Moved
  <2> QED
    BY <1>8, <1>9, <2>2
<1>11. CarriedOK' /\ MemoryInStep' /\ phase' # "aborted"
  BY <1>1, TrackedStay, FreedKeeps
<1>12. LInv'
  BY <1>2, <1>8, <1>9, <1>10, <1>11 DEF LInv
<1>13. Undisturbed
  <2>1. \A z \in Net : IsBroadcast(z.msg) => z \in Net'
    BY <1>3, <1>4, <1>8 DEF Exchange
  <2> QED
    BY <1>1, <2>1, StillThere DEF Undisturbed, coreVars
<1> QED
  BY <1>12, <1>13

LEMMA LinkIdleKeeps == ASSUME OnLine, LInv, LinkIdle PROVE LInv' /\ Undisturbed
<1>1. Typed' /\ Tick /\ NextLink /\ UNCHANGED <<coreVars, linkVars, activeVars, memVars>>
      /\ countDown[turn] = 0
  BY TypedLinkIdle DEF LInv, LinkIdle
<1>2. /\ turn \in LinkIds /\ phase = "interconnect"
      /\ phase' = IF turn = LastLink THEN "cache" ELSE "interconnect"
  BY <1>1, NextLinkIs DEF LInv
<1>3. /\ pendingReq' = pendingReq /\ countDown' = countDown /\ linkQueue' = linkQueue
      /\ activeRequests' = activeRequests /\ globalMsgCount' = globalMsgCount
      /\ memRequest' = memRequest /\ memCountDown' = memCountDown
      /\ memoryRequests' = memoryRequests
  BY <1>1 DEF linkVars, activeVars, memVars
<1>4. StatesUsed' /\ RequestsMatch' /\ Awaits' = Awaits
  BY <1>1, CoresSameOK
<1>5. Net' = Net
  BY <1>3 DEF Net
<1>6. Orderly(pendingReq', linkQueue')
      /\ Accounts(Net', activeRequests', globalMsgCount', memRequest', Awaits')
  BY <1>3, <1>4, <1>5 DEF LInv
<1>7. CarriedOK'
  BY <1>3 DEF LInv, CarriedOK, Tracked
<1>8. MemoryInStep'
  <2>1. memRequest # NULL => turn # LastLink
    <3>1. memCountDown \in Nat
      BY DEF LInv, Typed, TypeMemory
    <3> QED
      BY <1>1, <1>2, <3>1 DEF LInv, MemoryInStep
  <2> QED
    BY <1>2, <1>3, <2>1 DEF LInv, MemoryInStep
<1>9. LInv'
  BY <1>1, <1>2, <1>4, <1>6, <1>7, <1>8 DEF LInv
<1>10. Undisturbed
  <2>1. \A z \in Net : IsBroadcast(z.msg) => z \in Net'
    BY <1>5
  <2> QED
    BY <1>1, <2>1, StillThere DEF Undisturbed, coreVars
<1> QED
  BY <1>9, <1>10

LEMMA LinkCountKeeps == ASSUME OnLine, LInv, LinkCount PROVE LInv' /\ Undisturbed
<1>1. /\ Typed' /\ Tick /\ NextLink
      /\ UNCHANGED <<coreVars, pendingReq, linkQueue, p1Sent, activeVars, memVars>>
      /\ countDown[turn] > 0 /\ countDown' = [countDown EXCEPT ![turn] = @ - 1]
      /\ countDown[turn] > 1 \/ pendingReq[turn] = NULL
  BY TypedLinkCount DEF LInv, LinkCount
<1>2. /\ turn \in LinkIds /\ phase = "interconnect"
      /\ phase' = IF turn = LastLink THEN "cache" ELSE "interconnect"
  BY <1>1, NextLinkIs DEF LInv
<1>3. /\ pendingReq' = pendingReq /\ linkQueue' = linkQueue
      /\ activeRequests' = activeRequests /\ globalMsgCount' = globalMsgCount
      /\ memRequest' = memRequest /\ memCountDown' = memCountDown
      /\ memoryRequests' = memoryRequests
  BY <1>1 DEF activeVars, memVars
<1>4. StatesUsed' /\ RequestsMatch' /\ Awaits' = Awaits
  BY <1>1, CoresSameOK
<1>5. Net' = Net
  BY <1>3 DEF Net
<1>6. Orderly(pendingReq', linkQueue')
      /\ Accounts(Net', activeRequests', globalMsgCount', memRequest', Awaits')
  BY <1>3, <1>4, <1>5 DEF LInv
<1>7. /\ countDown'[turn] = countDown[turn] - 1 /\ countDown[turn] \in Nat
      /\ \A l \in LinkIds : l # turn => countDown'[l] = countDown[l]
  BY <1>1, <1>2, TicksAssumption DEF LInv, Typed, TypeLinks
<1>8. pendingReq[turn] = NULL
  BY <1>1, <1>2 DEF LInv, CarriedOK, CACHE_DELAY
<1>9. CarriedOK'
  BY <1>3, <1>7, <1>8 DEF LInv, CarriedOK, Tracked
<1>10. MemoryInStep'
  <2>1. memCountDown \in Nat
    BY DEF LInv, Typed, TypeMemory
  <2>2. CASE turn = LastLink
    <3>1. memRequest # NULL => countDown'[LastLink] = memCountDown + 0
      BY <1>2, <1>7, <2>1, <2>2 DEF LInv, MemoryInStep
    <3> QED
      BY <1>2, <1>3, <2>2, <3>1 DEF LInv, MemoryInStep
  <2>3. CASE turn # LastLink
    BY <1>2, <1>3, <1>7, <2>3, LineIs DEF LInv, MemoryInStep
  <2> QED
    BY <2>2, <2>3
<1>11. LInv'
  BY <1>1, <1>2, <1>4, <1>6, <1>9, <1>10 DEF LInv
<1>12. Undisturbed
  <2>1. \A z \in Net : IsBroadcast(z.msg) => z \in Net'
    BY <1>5
  <2> QED
    BY <1>1, <2>1, StillThere DEF Undisturbed, coreVars
<1> QED
  BY <1>11, <1>12

LEMMA LineCoreKeeps == ASSUME LInv, CoreStep PROVE LInv' /\ Undisturbed
<1>1. Typed' /\ CoresAlone /\ UNCHANGED <<linkVars, activeVars, memVars>>
  BY TypedCoreStep DEF LInv, CoreStep, CoresAlone
<1>2. StatesUsed' /\ RequestsMatch' /\ UNCHANGED coherStates
  BY <1>1, CoresAloneKeepsCores DEF LInv, Typed, CoresOK
<1>3. Awaits' = Awaits
  BY <1>2 DEF Awaits, Transient
<1>4. /\ pendingReq' = pendingReq /\ countDown' = countDown /\ linkQueue' = linkQueue
      /\ activeRequests' = activeRequests /\ globalMsgCount' = globalMsgCount
      /\ memRequest' = memRequest /\ memCountDown' = memCountDown
      /\ memoryRequests' = memoryRequests
  BY <1>1 DEF linkVars, activeVars, memVars
<1>5. Net' = Net
  BY <1>4 DEF Net
<1>6. Orderly(pendingReq', linkQueue')
      /\ Accounts(Net', activeRequests', globalMsgCount', memRequest', Awaits')
  BY <1>3, <1>4, <1>5 DEF LInv
<1>7. CarriedOK'
  BY <1>4 DEF LInv, CarriedOK, Tracked
<1>8. phase # "interconnect" /\ phase' # "interconnect" /\ phase' # "aborted"
  BY DEF CoreStep, CacheTick, Blocked, TraceEnd, CanFetch, FetchOther, Stopped,
         NextProcessor, controlVars, LInv
<1>9. MemoryInStep'
  BY <1>4, <1>8 DEF LInv, MemoryInStep
<1>10. LInv'
  BY <1>1, <1>2, <1>6, <1>7, <1>8, <1>9 DEF LInv
<1>11. Undisturbed
  <2>1. \A z \in Net : IsBroadcast(z.msg) => z \in Net'
    BY <1>5
  <2> QED
    BY <1>2, <2>1, StillThere DEF Undisturbed, coreVars
<1> QED
  BY <1>10, <1>11

(* What the memory is asked for comes from no cache.                       *)
LEMMA NoTransfer == ASSUME OnLine, LInv, memRequest # NULL PROVE ~CacheTransfer(memRequest)
<1> SUFFICES ASSUME NEW l \in LinkIds \cap Procs, NEW m \in OnLink(l),
                    m.pDest = memRequest.procNum, HasData(m)
             PROVE  FALSE
  BY DEF CacheTransfer
<1> DEFINE x == At(l, m)
           p0 == memRequest.procNum
<1>1. x \in Net /\ x.msg = m
  <2>1. m \in Held(pendingReq, linkQueue, l)
    BY DEF OnLink, Held
  <2> QED
    BY <2>1 DEF Net, NetOf, At
<1> HIDE DEF x
<1>2. /\ MessagesOK(Net, globalMsgCount) /\ RepliesOK(Net, activeRequests)
      /\ ErrandsOK(Net, activeRequests, memRequest, Awaits)
      /\ memRequest \in MemRequests /\ p0 \in Procs
  BY DEF LInv, Accounts, MemRequests
<1> DEFINE s == Errand("memory", 0, memRequest.addr)
<1>3. s \in Errands(Net, activeRequests, memRequest, p0) /\ s.stage = "memory"
  BY DEF Errands, Waited, Errand
<1> HIDE DEF s
<1>4. Collecting(activeRequests, p0) = {} /\ Returning(Net, p0) = {}
  BY <1>2, <1>3, Alone
<1>5. IsReply(m) \/ FromMemory(m)
  BY <1>1, <1>2, Kinds DEF HasData, IsBroadcast, ToMemory
<1>6. CASE IsReply(m)
  <2>1. \E e \in activeRequests[p0] : TRUE
    BY <1>1, <1>2, <1>6 DEF RepliesOK
  <2> QED
    BY <1>4, <2>1 DEF Collecting
<1>7. CASE FromMemory(m)
  BY <1>1, <1>4, <1>7 DEF Returning
<1> QED
  BY <1>5, <1>6, <1>7

LEMMA MemoryTickKeeps == ASSUME OnLine, LInv, MemoryTick PROVE LInv' /\ Undisturbed
<1>1. /\ Typed' /\ UNCHANGED <<coreVars, pendingReq, countDown, p1Sent, activeVars,
                               memoryRequests, memoryCountdown>>
      /\ phase = "memory" /\ phase' = "interconnect"
  BY TypedMemoryTick DEF LInv, MemoryTick, Goto
<1>2. /\ pendingReq' = pendingReq /\ countDown' = countDown
      /\ activeRequests' = activeRequests /\ globalMsgCount' = globalMsgCount
      /\ memoryRequests' = memoryRequests
  BY <1>1 DEF activeVars
<1>3. StatesUsed' /\ RequestsMatch' /\ Awaits' = Awaits
  BY <1>1, CoresSameOK
<1>4. CarriedOK'
  BY <1>2 DEF LInv, CarriedOK, Tracked
<1>5. /\ Orderly(pendingReq, linkQueue)
      /\ Accounts(Net, activeRequests, globalMsgCount, memRequest, Awaits)
  BY DEF LInv
<1>8. \A q \in Procs, b \in Addrs : coherStates'[q][b] = coherStates[q][b]
  BY <1>1 DEF coreVars
<1>6. CASE memRequest = NULL \/ memCountDown > 1
  <2>1. linkQueue' = linkQueue /\ memRequest' = memRequest
        /\ (memRequest # NULL => memCountDown' = memCountDown - 1)
    BY <1>6, NoTransfer DEF MemoryTick
  <2>2. Net' = Net
    BY <1>2, <2>1 DEF Net
  <2>3. memCountDown \in Nat
    BY DEF LInv, Typed, TypeMemory
  <2>4. memRequest # NULL => countDown[LastLink] = (memCountDown - 1) + 1 /\ memCountDown - 1 > 0
    BY <1>1, <1>6, <2>3 DEF LInv, MemoryInStep
  <2>5. MemoryInStep'
    BY <1>1, <1>2, <2>1, <2>4 DEF LInv, MemoryInStep
  <2>6. LInv'
    BY <1>1, <1>2, <1>3, <1>4, <1>5, <2>1, <2>2, <2>5 DEF LInv
  <2>7. NoneLost(Net, Net')
    BY <2>2, StillThere
  <2> QED
    BY <1>8, <2>6, <2>7 DEF Undisturbed
<1>7. CASE memRequest # NULL /\ ~(memCountDown > 1)
  <2>1. /\ memRequest' = NULL
        /\ linkQueue' = Sent(linkQueue, "DATA", memRequest.addr, Memory,
                             memRequest.procNum, -2)
    BY <1>7, NoTransfer DEF MemoryTick
  <2>2. PICK r \in MemRequests : r = memRequest
    BY <1>7 DEF LInv, Typed, TypeMemory
  <2>3. "DATA" \in BusReqTypes /\ "DATA" \notin {"BUSRD", "BUSWR"} /\ "DATA" # "MEMORY"
        /\ -2 \in Int
    BY DEF BusReqTypes
  <2>4. r.addr \in Addrs /\ r.procNum \in Procs
    BY DEF MemRequests
  <2>14. r.procNum \in Nodes /\ Memory \in Nodes /\ Memory # r.procNum
    BY <2>4, MemoryIsNode
  <2>15. PICK y : y = Letter("DATA", r.addr, Memory, r.procNum, -2)
    OBVIOUS
  <2>5. /\ y \in Places /\ OnItsWay(y) /\ y.msg.brt = "DATA" /\ y.msg.addr = r.addr
        /\ y.msg.pSrc = Memory /\ y.msg.pDest = r.procNum /\ y.msg.msgNum = -2
    BY <2>3, <2>4, <2>14, <2>15, LetterIs
  <2>6. /\ \A z \in Net : ~Alike(y, z)
        /\ Accounts(Exchange(Net, {}, {y}), activeRequests, globalMsgCount, NULL, Awaits)
    BY <1>5, <2>2, <2>5, Served
  <2>7. y \notin Net
    BY <2>6 DEF Alike
  <2>8. pendingReq \in Carried /\ linkQueue \in Queues
    BY DEF LInv, Typed, WellFormed, Carried
  <2>9. y \notin NetOf(pendingReq, linkQueue)
    BY <2>7 DEF Net
  <2>10. /\ Orderly(pendingReq, linkQueue')
         /\ NetOf(pendingReq, linkQueue') = Exchange(NetOf(pendingReq, linkQueue), {}, {y})
    BY <1>5, <2>1, <2>2, <2>3, <2>4, <2>14, <2>15, <2>8, <2>9, SentOne
  <2>11. Orderly(pendingReq', linkQueue') /\ Net' = Exchange(Net, {}, {y})
    BY <1>2, <2>10 DEF Net
  <2>12. Accounts(Net', activeRequests', globalMsgCount', memRequest', Awaits')
    BY <1>2, <1>3, <2>1, <2>6, <2>11
  <2>13. MemoryInStep'
    BY <1>2, <2>1 DEF LInv, MemoryInStep
  <2>16. LInv'
    BY <1>1, <1>3, <1>4, <2>11, <2>12, <2>13 DEF LInv
  <2>17. NoneLost(Net, Net')
    <3>1. \A z \in Net : z \in Net'
      BY <2>11 DEF Exchange
    <3> QED
      BY <3>1, StillThere
  <2> QED
    BY <1>8, <2>16, <2>17 DEF Undisturbed
<1> QED
  BY <1>6, <1>7

(* A message is put on a link; a broadcast that leaves its source begins.  *)
LEMMA LinkSendKeeps == ASSUME OnLine, LInv, LinkSend PROVE LInv' /\ Undisturbed
<1>1. /\ Typed' /\ Tick /\ NextLink /\ UNCHANGED <<coreVars, globalMsgCount, last_msgs, memVars>>
      /\ countDown[turn] = 0 /\ countDown' = [countDown EXCEPT ![turn] = CACHE_DELAY]
  BY TypedLinkSend DEF LInv, LinkSend
<1>2. /\ turn \in LinkIds /\ phase = "interconnect"
      /\ phase' = IF turn = LastLink THEN "cache" ELSE "interconnect"
  BY <1>1, NextLinkIs DEF LInv
<1>3. PICK n \in Ends(turn) : n = Sender(turn) /\ linkQueue[turn][n] # <<>>
  BY SenderIs DEF LInv
<1>4. PICK m : m = Head(linkQueue[turn][n])
  OBVIOUS
<1>5. /\ pendingReq' = [pendingReq EXCEPT ![turn] = m]
      /\ linkQueue' = [linkQueue EXCEPT ![turn][n] = Tail(@)]
      /\ activeRequests' = Tracking(m)
  BY <1>3, <1>4 DEF LinkSend
<1>6. /\ globalMsgCount' = globalMsgCount /\ memRequest' = memRequest
      /\ memCountDown' = memCountDown /\ memoryRequests' = memoryRequests
  BY <1>1 DEF memVars
<1>7. StatesUsed' /\ RequestsMatch' /\ Awaits' = Awaits
  BY <1>1, CoresSameOK
<1>8. pendingReq \in Carried /\ linkQueue \in Queues /\ Orderly(pendingReq, linkQueue)
      /\ Accounts(Net, activeRequests, globalMsgCount, memRequest, Awaits)
  BY DEF LInv, Typed, WellFormed, Carried
<1>9. pendingReq[turn] = NULL
  BY <1>1, <1>2 DEF LInv, CarriedOK, CACHE_DELAY
<1>10. PICK t \in LinkIds : t = turn
  BY <1>2
<1>11. PICK pend : pend = pendingReq'
  OBVIOUS
<1>12. PICK queue : queue = linkQueue'
  OBVIOUS
<1>13. /\ Orderly(pend, queue) /\ NetOf(pend, queue) = NetOf(pendingReq, linkQueue)
       /\ m.procNum = n /\ m \in Good
  <2>1. n \in Ends(t) /\ linkQueue[t][n] # <<>> /\ pendingReq[t] = NULL
        /\ m = Head(linkQueue[t][n])
    BY <1>3, <1>4, <1>9, <1>10
  <2>2. pend = [pendingReq EXCEPT ![t] = Head(linkQueue[t][n])]
    BY <1>5, <1>10, <1>11, <2>1
  <2>3. queue = [linkQueue EXCEPT ![t][n] = Tail(@)]
    BY <1>5, <1>10, <1>12
  <2>4. PICK pend0 \in Carried : pend0 = pendingReq
    BY <1>8
  <2>5. PICK queue0 \in Queues : queue0 = linkQueue
    BY <1>8
  <2>6. TakesFirst(pend0, queue0, t, n, pend, queue) /\ m = Head(queue0[t][n])
    BY <2>1, <2>2, <2>3, <2>4, <2>5 DEF TakesFirst
  <2>8. n \in Nodes /\ Orderly(pend0, queue0)
    BY <1>3, <1>8, <2>4, <2>5, SenderIs DEF LInv
  <2>7. /\ Orderly(pend, queue) /\ NetOf(pend, queue) = NetOf(pend0, queue0)
        /\ Head(queue0[t][n]).procNum = n /\ Head(queue0[t][n]) \in Good
    BY <2>6, <2>8, SentNet
  <2> QED
    BY <2>4, <2>5, <2>6, <2>7
<1>14. Orderly(pendingReq', linkQueue') /\ Net' = Net
  BY <1>11, <1>12, <1>13 DEF Net
<1>15. PICK x : x = At(t, m)
  OBVIOUS
<1>16. x \in Net /\ x.msg = m /\ m # NULL
  <2>1. m # NULL
    BY <1>13, NullAssumption DEF Good
  <2>2. pend[t] = m
    BY <1>5, <1>8, <1>10, <1>11 DEF Carried
  <2>3. At(t, m) \in NetOf(pend, queue)
    BY <2>1, <2>2, OnNet
  <2> QED
    BY <1>13, <1>15, <2>1, <2>3 DEF Net, At
<1>17. MessagesOK(Net, globalMsgCount) /\ CopiesOK(Net, activeRequests)
       /\ activeRequests \in [Procs -> SUBSET ActiveEntries]
  BY <1>8 DEF Accounts
<1>18. /\ Accounts(Net, activeRequests', globalMsgCount, memRequest, Awaits)
       /\ IsBroadcast(m) => TrackedIn(activeRequests', m.pSrc, m.msgNum)
       /\ \A p \in Procs : activeRequests[p] \subseteq activeRequests'[p]
  <2>1. CASE IsBroadcast(m) /\ ~TrackedIn(activeRequests, m.pSrc, m.msgNum)
    <3>1. /\ m.procNum = m.pSrc /\ m.pSrc \in Procs /\ m.msgNum \in 1 .. globalMsgCount
          /\ m.addr \in Addrs
      BY <1>16, <1>17, <2>1, Kinds DEF CopiesOK
    <3> DEFINE d == [msgNum |-> m.msgNum, addr |-> m.addr, numAcks |-> 0,
                     dataAvail |-> FALSE, shared |-> FALSE]
    <3>2. activeRequests' = [activeRequests EXCEPT ![m.pSrc] = @ \cup {d}]
      BY <1>5, <2>1, <3>1 DEF Tracking, Tracked, TrackedIn
    <3>3. /\ d.msgNum = m.msgNum /\ d.addr = m.addr /\ d.numAcks = 0 /\ ~d.shared
      OBVIOUS
    <3>4. d \in ActiveEntries
      <4>1. m.msgNum \in Nat /\ 0 \in 0 .. ProcessorCount
        BY <3>1, MemoryIsNode
      <4> QED
        BY <3>1, <4>1 DEF ActiveEntries
    <3> HIDE DEF d
    <3>5. Accounts(Net, activeRequests', globalMsgCount, memRequest, Awaits)
      BY <1>8, <1>16, <2>1, <3>2, <3>3, <3>4, Begun
    <3>6. TrackedIn(activeRequests', m.pSrc, m.msgNum)
      BY <1>17, <3>1, <3>2, <3>3 DEF TrackedIn
    <3>7. \A p \in Procs : activeRequests[p] \subseteq activeRequests'[p]
      BY <1>17, <3>2
    <3> QED
      BY <3>5, <3>6, <3>7
  <2>2. CASE ~(IsBroadcast(m) /\ ~TrackedIn(activeRequests, m.pSrc, m.msgNum))
    <3>1. activeRequests' = activeRequests
      BY <1>5, <2>2 DEF Tracking, Tracked, TrackedIn
    <3> QED
      BY <1>8, <2>2, <3>1
  <2> QED
    BY <2>1, <2>2
<1>19. Accounts(Net', activeRequests', globalMsgCount', memRequest', Awaits')
  BY <1>6, <1>7, <1>14, <1>18
<1>20. CarriedOK'
  <2>1. /\ pendingReq'[turn] = m /\ countDown'[turn] = CACHE_DELAY
        /\ \A l \in LinkIds : l # turn => pendingReq'[l] = pendingReq[l]
                                          /\ countDown'[l] = countDown[l]
    BY <1>1, <1>2, <1>5, <1>8 DEF Carried, LInv, Typed, TypeLinks
  <2>2. ASSUME NEW l \in LinkIds, pendingReq'[l] # NULL, IsBroadcast(pendingReq'[l])
        PROVE  TrackedIn(activeRequests', pendingReq'[l].pSrc, pendingReq'[l].msgNum)
    <3>1. CASE l = turn
      BY <1>18, <2>1, <2>2, <3>1
    <3>2. CASE l # turn
      <4>1. pendingReq'[l] = pendingReq[l]
        BY <2>1, <3>2
      <4>2. TrackedIn(activeRequests, pendingReq[l].pSrc, pendingReq[l].msgNum)
        BY <2>2, <4>1 DEF LInv, CarriedOK, Tracked, TrackedIn
      <4>3. pendingReq[l] \in Good /\ pendingReq[l].pSrc \in Procs
        BY <1>8, <2>2, <4>1 DEF Carried, Good
      <4> QED
        BY <1>18, <4>1, <4>2, <4>3 DEF TrackedIn
    <3> QED
      BY <3>1, <3>2
  <2> QED
    BY <2>1, <2>2 DEF LInv, CarriedOK, Tracked, TrackedIn
<1>21. MemoryInStep'
  <2>1. memRequest # NULL => turn # LastLink
    <3>1. memCountDown \in Nat
      BY DEF LInv, Typed, TypeMemory
    <3> QED
      BY <1>1, <1>2, <3>1 DEF LInv, MemoryInStep
  <2>2. LastLink \in LinkIds
    BY LineIs
  <2>3. turn # LastLink => pendingReq'[LastLink] = pendingReq[LastLink]
                           /\ countDown'[LastLink] = countDown[LastLink]
    BY <1>1, <1>5, <2>2, <1>8 DEF Carried, LInv, Typed, TypeLinks
  <2> QED
    BY <1>2, <1>6, <2>1, <2>3 DEF LInv, MemoryInStep
<1>22. LInv'
  BY <1>1, <1>2, <1>7, <1>14, <1>19, <1>20, <1>21 DEF LInv
<1>23. Undisturbed
  <2>1. \A z \in Net : IsBroadcast(z.msg) => z \in Net'
    BY <1>14
  <2> QED
    BY <1>1, <2>1, StillThere DEF Undisturbed, coreVars
<1> QED
  BY <1>22, <1>23

(* On the last link only, something reaches the memory: a request.         *)
LEMMA ReachMemoryKeeps == ASSUME OnLine, LInv, ReachMemory PROVE LInv' /\ Undisturbed
<1> DEFINE x == Arrived
<1>1. /\ Arriving /\ Acting /\ ~IsAck(Message) /\ Here = Memory
  BY DEF ReachMemory
<1>2. /\ x \in Net /\ x.msg = Message /\ x \in Places /\ OnItsWay(x) /\ x.link = turn
      /\ KindOK(x.msg, globalMsgCount) /\ Here = Arrival(x) /\ Forwarding = NextLinks(x)
      /\ turn \in LinkIds /\ (IsAck(Message) <=> IsReply(Message))
  BY <1>1, ArrivedIs
<1>3. RightGoing(x) /\ turn = LastLink
  <2>1. turn \in 0 .. ProcessorCount - 1 /\ ProcessorCount \in Nat /\ Memory = ProcessorCount
    BY <1>2, LineIs DEF Memory
  <2>2. /\ RightGoing(x) => Arrival(x) = turn + 1
        /\ ~RightGoing(x) => Arrival(x) = turn
    BY <1>2, ArrivalIs
  <2>3. Arrival(x) = Memory
    BY <1>1, <1>2
  <2> QED
    BY <2>1, <2>2, <2>3 DEF LastLink
<1>4. MessagesOK(Net, globalMsgCount)
      /\ Accounts(Net, activeRequests, globalMsgCount, memRequest, Awaits)
      /\ Orderly(pendingReq, linkQueue)
  BY DEF LInv, Accounts
<1>5. ~IsBroadcast(x.msg)
  BY <1>2, <1>3, <1>4, Kinds DEF OnItsWay
<1>6. x.msg.pDest = Memory
  <2>1. NextLinks(x) = {}
    BY <1>1, <1>2, <1>5 DEF Acting
  <2>2. Arrival(x) = x.msg.pDest
    BY <1>2, <1>5, <2>1, NextOne
  <2> QED
    BY <1>1, <1>2, <2>2
<1>7. ToMemory(x.msg)
  <2>1. Memory \notin Procs
    BY MemoryIsNode
  <2> QED
    BY <1>2, <1>4, <1>5, <1>6, <2>1, Kinds
<1>8. memRequest = NULL
  BY <1>1, <1>3 DEF LInv, MemoryInStep, Arriving
<1>9. PICK r : r = [addr |-> x.msg.addr, procNum |-> x.msg.pSrc]
  OBVIOUS
<1>10. /\ memRequest' = r /\ memCountDown' = DRAM_FETCH_TICKS
       /\ LinkFree(DRAM_FETCH_TICKS) /\ UNCHANGED memoryRequests
       /\ UNCHANGED <<coreVars, linkQueue, activeRequests, last_msgs, memoryCountdown>>
  BY <1>1, <1>2, <1>6, <1>7, <1>8, <1>9 DEF ReachMemory, Astray, ToMemory, OnLine
<1>11. Typed' /\ StatesUsed' /\ RequestsMatch' /\ Awaits' = Awaits
  BY <1>10, TypedReachMemory, CoresSameOK DEF LInv
<1>12. /\ pendingReq' = [pendingReq EXCEPT ![turn] = NULL]
       /\ countDown' = [countDown EXCEPT ![turn] = DRAM_FETCH_TICKS]
       /\ globalMsgCount' = globalMsgCount /\ NextLink
  BY <1>10 DEF LinkFree
<1>13. Orderly(pendingReq', linkQueue') /\ Net' = Exchange(Net, {x}, {})
  BY <1>1, <1>10, <1>12, ForwardNet DEF Net
<1> HIDE DEF x
<1>14. Accounts(Exchange(Net, {x}, {}), activeRequests, globalMsgCount, r, Awaits)
  BY <1>2, <1>4, <1>7, <1>8, <1>9, Asked
<1>15. Accounts(Net', activeRequests', globalMsgCount', memRequest', Awaits')
  BY <1>10, <1>11, <1>12, <1>13, <1>14
<1>16. /\ pendingReq'[turn] = NULL /\ countDown'[turn] = DRAM_FETCH_TICKS
       /\ \A l \in LinkIds : l # turn => pendingReq'[l] = pendingReq[l]
                                         /\ countDown'[l] = countDown[l]
  BY <1>2, <1>12 DEF LInv, Typed, WellFormed, TypeLinks
<1>17. CarriedOK'
  BY <1>10, <1>16 DEF LInv, CarriedOK, Tracked
<1>18. phase' = "cache"
  BY <1>1, <1>3, <1>12, NextLinkIs DEF LInv, Arriving
<1>19. MemoryInStep'
  <2>1. DRAM_FETCH_TICKS > 0 /\ DRAM_FETCH_TICKS = DRAM_FETCH_TICKS + 0
    BY TicksAssumption
  <2> QED
    BY <1>3, <1>10, <1>16, <1>18, <2>1 DEF LInv, MemoryInStep
<1>20. LInv'
  BY <1>11, <1>13, <1>15, <1>17, <1>18, <1>19 DEF LInv
<1>21. Undisturbed
  <2>1. \A z \in Net : IsBroadcast(z.msg) => z \in Net'
    BY <1>2, <1>5, <1>13 DEF Exchange
  <2> QED
    BY <1>10, <2>1, StillThere DEF Undisturbed, coreVars
<1> QED
  BY <1>20, <1>21

IsPassedOn(x, fwd) == fwd = {Passed(x, k) : k \in NextLinks(x)}

(* Where a broadcast arrives is ahead, and the rest is ahead of what is    *)
(* passed on.                                                              *)
LEMMA SpreadWay ==
  ASSUME OnLine, NEW count, NEW x \in Places, OnItsWay(x), KindOK(x.msg, count),
         IsBroadcast(x.msg), NEW fwd, IsPassedOn(x, fwd)
  PROVE  /\ Arrival(x) \in Ahead(x) /\ Arrival(x) \in Procs /\ Single(fwd)
         /\ \A y \in fwd : /\ y \in Places /\ OnItsWay(y) /\ Alike(y, x)
                           /\ y.msg.brt = x.msg.brt /\ y.msg.addr = x.msg.addr
         /\ \A q \in Procs : (\E y \in fwd : q \in Ahead(y)) <=> q \in Ahead(x) /\ q # Arrival(x)
<1>1. /\ x.link \in 0 .. ProcessorCount - 1 /\ ProcessorCount \in Nat
      /\ LastLink = ProcessorCount - 1 /\ Procs = 0 .. ProcessorCount - 1
      /\ Arrival(x) \in Nodes
  BY ArrivalIs, LineIs DEF LastLink
<1>2. x.msg.pDest = -1 /\ ~ToMemory(x.msg) /\ x.link # LastLink
  BY MemoryIsNode DEF KindOK, IsBroadcast, IsReply, ToMemory, FromMemory, OnItsWay
<1>3. ASSUME NEW k \in NextLinks(x)
      PROVE  LET y == Passed(x, k) IN
             /\ y \in Places /\ OnItsWay(y) /\ Alike(y, x) /\ y.link = k
             /\ y.msg.brt = x.msg.brt /\ y.msg.addr = x.msg.addr
             /\ RightGoing(y) <=> RightGoing(x)
             /\ k = IF RightGoing(x) THEN x.link + 1 ELSE x.link - 1
  <2>1. /\ k \in LinkIds /\ Passed(x, k) \in Places /\ OnItsWay(Passed(x, k))
        /\ Alike(Passed(x, k), x)
        /\ k = IF RightGoing(x) THEN x.link + 1 ELSE x.link - 1
    BY WayOn
  <2>2. /\ Passed(x, k).link = k /\ Passed(x, k).msg.brt = x.msg.brt
        /\ Passed(x, k).msg.addr = x.msg.addr
    BY <1>1, <2>1, PassedIs
  <2> QED
    BY <2>1, <2>2 DEF Alike
<1>8. fwd = {Passed(x, k) : k \in NextLinks(x)}
  BY DEF IsPassedOn
<1>4. \A y \in fwd : /\ y \in Places /\ OnItsWay(y) /\ Alike(y, x)
                     /\ y.msg.brt = x.msg.brt /\ y.msg.addr = x.msg.addr
  BY <1>3, <1>8
<1>5. Single(fwd)
  BY <1>3, <1>8 DEF Single
<1>6. CASE RightGoing(x)
  <2>1. Arrival(x) = x.link + 1 /\ Ahead(x) = {q \in Procs : q > x.link}
    BY <1>6, ArrivalIs DEF Ahead
  <2>2. Arrival(x) \in Ahead(x) /\ Arrival(x) \in Procs
    BY <1>1, <1>2, <2>1
  <2>3. NextLinks(x) = IF x.link + 1 < LastLink THEN {x.link + 1} ELSE {}
    BY <1>2, <1>6, NextLinksAre
  <2>4. ASSUME NEW q \in Procs
        PROVE  (\E y \in fwd : q \in Ahead(y)) <=> q \in Ahead(x) /\ q # Arrival(x)
    <3>1. \A k \in NextLinks(x) : Ahead(Passed(x, k)) = {p \in Procs : p > x.link + 1}
      BY <1>3, <1>6 DEF Ahead
    <3>2. (\E y \in fwd : q \in Ahead(y)) <=> x.link + 1 < LastLink /\ q > x.link + 1
      BY <1>8, <2>3, <3>1
    <3> QED
      BY <1>1, <2>1, <3>2
  <2> QED
    BY <1>4, <1>5, <2>2, <2>4
<1>7. CASE ~RightGoing(x)
  <2>1. Arrival(x) = x.link /\ Ahead(x) = {q \in Procs : q <= x.link}
    BY <1>7, ArrivalIs DEF Ahead
  <2>2. Arrival(x) \in Ahead(x) /\ Arrival(x) \in Procs
    BY <1>1, <1>2, <2>1
  <2>3. NextLinks(x) = IF x.link > 0 THEN {x.link - 1} ELSE {}
    BY <1>2, <1>7, NextLinksAre
  <2>4. ASSUME NEW q \in Procs
        PROVE  (\E y \in fwd : q \in Ahead(y)) <=> q \in Ahead(x) /\ q # Arrival(x)
    <3>1. \A k \in NextLinks(x) : Ahead(Passed(x, k)) = {p \in Procs : p <= x.link - 1}
      BY <1>3, <1>7 DEF Ahead
    <3>2. (\E y \in fwd : q \in Ahead(y)) <=> x.link > 0 /\ q <= x.link - 1
      BY <1>8, <2>3, <3>1
    <3> QED
      BY <1>1, <2>1, <3>2
  <2> QED
    BY <1>4, <1>5, <2>2, <2>4
<1> QED
  BY <1>6, <1>7

(* Who collects acks is waiting, so a request is pending somewhere.        *)
LEMMA SomePending ==
  ASSUME LInv, NEW p \in Procs, activeRequests[p] # {}
  PROVE  pendReq # {}
<1>1. PICK e \in activeRequests[p] : TRUE
  OBVIOUS
<1>2. Errand("acks", e.msgNum, e.addr) \in Errands(Net, activeRequests, memRequest, p)
  BY <1>1 DEF Errands, Collecting
<1>3. ErrandsOK(Net, activeRequests, memRequest, Awaits)
  BY DEF LInv, Accounts
<1>4. Awaits[p] # {}
  BY <1>2, <1>3 DEF ErrandsOK
<1>5. PICK a \in Addrs : Transient(p, a)
  BY <1>4 DEF Awaits
<1> QED
  BY <1>5 DEF LInv, RequestsMatch

LEMMA AwaitsSame ==
  ASSUME \A p \in Procs, b \in Addrs : Transient(p, b)' <=> Transient(p, b)
  PROVE  Awaits' = Awaits
  BY DEF Awaits

(* A broadcast is answered and passed on.                                  *)
LEMMA BroadcastSnooped ==
  ASSUME OnLine, BasicScheme, LInv, SnoopHere, IsBroadcast(Message)
  PROVE  LInv' /\ LineStep
<1>1. Arriving /\ Acting /\ Here # Memory
  BY DEF SnoopHere
<1>2. PICK x \in Net : x = Arrived
  BY <1>1, ArrivedIs
<1>3. /\ x.msg = Message /\ x \in Places /\ OnItsWay(x) /\ x.link = turn
      /\ KindOK(x.msg, globalMsgCount) /\ Here = Arrival(x) /\ Forwarding = NextLinks(x)
      /\ turn \in LinkIds /\ IsBroadcast(x.msg) /\ pendingReq[turn] = x.msg
      /\ Here \in Nodes
  BY <1>1, <1>2, ArrivedIs
<1>4. /\ MessagesOK(Net, globalMsgCount) /\ Orderly(pendingReq, linkQueue)
      /\ Accounts(Net, activeRequests, globalMsgCount, memRequest, Awaits)
      /\ CoresOK
  BY DEF LInv, Accounts, CoresOK, Typed
<1>5. PICK fwd : IsPassedOn(x, fwd)
  BY DEF IsPassedOn
<1>6. PICK here \in Procs : here = Here
  BY <1>1, <1>3, MemoryIsNode
<1>7. /\ here \in Ahead(x) /\ Single(fwd)
      /\ \A y \in fwd : /\ y \in Places /\ OnItsWay(y) /\ Alike(y, x)
                        /\ y.msg.brt = x.msg.brt /\ y.msg.addr = x.msg.addr
      /\ \A q \in Procs : (\E y \in fwd : q \in Ahead(y)) <=> q \in Ahead(x) /\ q # here
  <2>1. here = Arrival(x) /\ x \in Places /\ OnItsWay(x) /\ KindOK(x.msg, globalMsgCount)
        /\ IsBroadcast(x.msg)
    BY <1>3, <1>6
  <2>2. /\ Arrival(x) \in Ahead(x) /\ Single(fwd)
        /\ \A y \in fwd : /\ y \in Places /\ OnItsWay(y) /\ Alike(y, x)
                          /\ y.msg.brt = x.msg.brt /\ y.msg.addr = x.msg.addr
        /\ \A q \in Procs : (\E y \in fwd : q \in Ahead(y))
                              <=> q \in Ahead(x) /\ q # Arrival(x)
    BY <1>5, <2>1, SpreadWay
  <2> QED
    BY <2>1, <2>2
<1>8. here # x.msg.pSrc /\ x.msg.pSrc \in Procs /\ x.msg.msgNum \in Int /\ x.msg.addr \in Addrs
      /\ here \in Nodes /\ x.msg.pSrc \in Nodes
  <2>1. IF RightGoing(x) THEN here > x.msg.pSrc ELSE here < x.msg.pSrc
    BY <1>3, <1>4, <1>7, AheadIs
  <2>2. x.msg.pSrc \in Procs /\ x.msg.msgNum \in 1 .. globalMsgCount /\ x.msg.addr \in Addrs
    BY <1>3, <1>4, Kinds
  <2>3. here \in Nat /\ x.msg.pSrc \in Nat
    BY <2>2, MemoryIsNode
  <2> QED
    BY <2>1, <2>2, <2>3, MemoryIsNode
<1>9. TrackedIn(activeRequests, x.msg.pSrc, x.msg.msgNum)
  BY <1>1, <1>3 DEF LInv, CarriedOK, Tracked, TrackedIn, Arriving
<1>10. pendReq # {}
  BY <1>8, <1>9, SomePending DEF TrackedIn
<1>11. PICK reply \in {"ACK", "DATA"} : reply = Reply /\ Received(Message.brt, Message.addr, {Here}) = {}
  <2>1. x.msg.brt \in {"BUSRD", "BUSWR"} /\ coherStates[here][x.msg.addr] \in UsedStates
    BY <1>3, <1>4, <1>8 DEF IsBroadcast, CoresOK, StatesUsed
  <2>2. SnoopOf(Message.brt, Message.addr, Here).send \in {"ACK", "DATA"}
        /\ SnoopOf(Message.brt, Message.addr, Here).ca # "DATA_RECV"
    BY <1>3, <1>6, <2>1, SnoopTable DEF SnoopOf
  <2> QED
    BY <2>2 DEF Reply, Received
<1>12. /\ Snoop(Message.brt, Message.addr, {Here})
       /\ linkQueue' = Sent(Forwarded, Reply, Message.addr, Here, Message.pSrc, Message.msgNum)
       /\ LinkFree(0) /\ UNCHANGED <<activeRequests, memVars>>
  <2>1. ~Astray
    BY DEF Astray
  <2>2. SnoopAsserts(Message.brt, Message.addr, {Here})
    BY <1>10, <1>11 DEF SnoopAsserts
  <2>3. Here # Message.pSrc /\ Reply # "NO_REQ"
    BY <1>3, <1>6, <1>8, <1>11
  <2> QED
    BY <2>1, <2>2, <2>3 DEF SnoopHere
<1>13. Typed'
  BY TypedSnoopHere DEF LInv
<1>14. StatesUsed' /\ RequestsMatch' /\ Awaits' = Awaits
  <2>1. Message.brt \in {"BUSRD", "BUSWR"} /\ Message.addr \in Addrs /\ {Here} \in SUBSET Procs
    BY <1>3, <1>6, <1>8 DEF IsBroadcast
  <2>2. /\ StatesUsed' /\ RequestsMatch'
        /\ \A p \in Procs, b \in Addrs : Transient(p, b)' <=> Transient(p, b)
    BY <1>4, <1>12, <2>1, SnoopKeepsCores
  <2> QED
    BY <2>2, AwaitsSame
<1>15. CarriedOK' /\ MemoryInStep' /\ phase' # "aborted"
  BY <1>1, <1>12, TrackedStay, FreedKeeps
<1>16. PICK pend : pend = pendingReq'
  OBVIOUS
<1>17. PICK queue : queue = Forwarded
  OBVIOUS
<1>18. /\ pend \in Carried /\ queue \in Queues /\ Orderly(pend, queue)
       /\ NetOf(pend, queue) = Exchange(Net, {x}, fwd)
  <2>1. pend = [pendingReq EXCEPT ![turn] = NULL]
    BY <1>12, <1>16 DEF LinkFree
  <2> QED
    BY <1>1, <1>2, <1>5, <1>17, <2>1, ForwardNet DEF IsPassedOn
<1>19. PICK r : r = Letter(reply, x.msg.addr, here, x.msg.pSrc, x.msg.msgNum)
  OBVIOUS
<1>20. reply \in BusReqTypes /\ reply \notin {"BUSRD", "BUSWR"} /\ reply # "MEMORY"
  BY DEF BusReqTypes
<1>21. /\ r \in Places /\ OnItsWay(r) /\ r.msg.brt = reply /\ r.msg.addr = x.msg.addr
       /\ r.msg.pSrc = here /\ r.msg.pDest = x.msg.pSrc /\ r.msg.msgNum = x.msg.msgNum
  BY <1>8, <1>19, <1>20, LetterIs
<1>22. /\ \A z \in Net : ~Alike(r, z)
       /\ Accounts(Exchange(Net, {x}, fwd \cup {r}), activeRequests, globalMsgCount,
                   memRequest, Awaits)
  <2>1. r.msg.brt \in {"ACK", "DATA"}
    BY <1>21
  <2> QED
    BY <1>3, <1>4, <1>7, <1>9, <1>21, <2>1, Spread, ZenonT(30)
<1>23. r \notin NetOf(pend, queue)
  <2>1. r \notin Net
    BY <1>22 DEF Alike
  <2>2. r \notin fwd
    BY <1>3, <1>7, <1>20, <1>21 DEF IsBroadcast
  <2> QED
    BY <1>18, <2>1, <2>2 DEF Exchange
<1>24. PICK queue2 : queue2 = Sent(queue, reply, x.msg.addr, here, x.msg.pSrc, x.msg.msgNum)
  OBVIOUS
<1>25. /\ Orderly(pend, queue2)
       /\ NetOf(pend, queue2) = Exchange(NetOf(pend, queue), {}, {r})
  BY <1>8, <1>18, <1>19, <1>20, <1>23, <1>24, SentOne
<1>26. linkQueue' = queue2
  BY <1>3, <1>6, <1>11, <1>12, <1>17, <1>24
<1>27. Orderly(pendingReq', linkQueue') /\ Net' = Exchange(Net, {x}, fwd \cup {r})
  <2>1. Exchange(Exchange(Net, {x}, fwd), {}, {r}) = Exchange(Net, {x}, fwd \cup {r})
    BY DEF Exchange
  <2> QED
    BY <1>16, <1>18, <1>25, <1>26, <2>1 DEF Net
<1>28. Accounts(Net', activeRequests', globalMsgCount', memRequest', Awaits')
  <2>1. /\ activeRequests' = activeRequests /\ globalMsgCount' = globalMsgCount
        /\ memRequest' = memRequest
    BY <1>12 DEF LinkFree, memVars
  <2> QED
    BY <1>14, <1>22, <1>27, <2>1
<1>29. LInv'
  BY <1>13, <1>14, <1>15, <1>27, <1>28 DEF LInv
<1>30. PICK brt \in {"BUSRD", "BUSWR"}, a \in Addrs : brt = x.msg.brt /\ a = x.msg.addr
  BY <1>3, <1>8 DEF IsBroadcast
<1>31. SnoopsAt(here, brt, a)
  <2>1. CoresTypeOK /\ Snoop(brt, a, {here})
    BY <1>3, <1>4, <1>6, <1>12, <1>30 DEF CoresOK
  <2>2. OneLost(Net, Net', here, brt, a)
    BY <1>3, <1>7, <1>27, <1>30, ReachesOneLess
  <2> QED
    BY <2>1, <2>2, SnoopedIs DEF SnoopsAt
<1> QED
  BY <1>29, <1>31 DEF LineStep

LEMMA AwaitsLess ==
  ASSUME NEW p0 \in Procs, NEW a,
         \A p \in Procs, b \in Addrs : Transient(p, b)' <=> Transient(p, b) /\ ~(p = p0 /\ b = a)
  PROVE  Awaits' = [Awaits EXCEPT ![p0] = @ \ {a}]
<1>1. \A p \in Procs : Awaits[p] = {b \in Addrs : Transient(p, b)}
  BY DEF Awaits
<1>2. \A p \in Procs : {b \in Addrs : Transient(p, b)'} = [Awaits EXCEPT ![p0] = @ \ {a}][p]
  BY <1>1 DEF Awaits
<1>3. Awaits' = [p \in Procs |-> {b \in Addrs : Transient(p, b)'}]
  BY DEF Awaits
<1>4. [Awaits EXCEPT ![p0] = @ \ {a}] = [p \in Procs |-> [Awaits EXCEPT ![p0] = @ \ {a}][p]]
  BY DEF Awaits
<1> QED
  BY <1>2, <1>3, <1>4

LEMMA AwaitsMore ==
  ASSUME NEW p0 \in Procs, NEW a \in Addrs, \A b \in Addrs : ~Transient(p0, b),
         \A p \in Procs, b \in Addrs : Transient(p, b)' <=> Transient(p, b) \/ (p = p0 /\ b = a)
  PROVE  Awaits[p0] = {} /\ Awaits' = [Awaits EXCEPT ![p0] = {a}]
<1>1. \A p \in Procs : Awaits[p] = {b \in Addrs : Transient(p, b)}
  BY DEF Awaits
<1>2. \A p \in Procs : {b \in Addrs : Transient(p, b)'} = [Awaits EXCEPT ![p0] = {a}][p]
  BY <1>1 DEF Awaits
<1>3. Awaits' = [p \in Procs |-> {b \in Addrs : Transient(p, b)'}]
  BY DEF Awaits
<1>4. [Awaits EXCEPT ![p0] = {a}] = [p \in Procs |-> [Awaits EXCEPT ![p0] = {a}][p]]
  BY DEF Awaits
<1> QED
  BY <1>1, <1>2, <1>3, <1>4

(* The answer of the memory ends the wait.                                 *)
LEMMA AnswerSnooped ==
  ASSUME OnLine, BasicScheme, LInv, SnoopHere, ~IsBroadcast(Message)
  PROVE  LInv' /\ LineStep
<1>1. Arriving /\ Acting /\ Here # Memory /\ ~IsAck(Message)
  BY DEF SnoopHere
<1>2. PICK x \in Net : x = Arrived
  BY <1>1, ArrivedIs
<1>3. /\ x.msg = Message /\ x \in Places /\ OnItsWay(x) /\ x.link = turn
      /\ KindOK(x.msg, globalMsgCount) /\ Here = Arrival(x) /\ Forwarding = NextLinks(x)
      /\ turn \in LinkIds /\ Here \in Nodes
      /\ (IsAck(Message) <=> IsReply(Message))
  BY <1>1, <1>2, ArrivedIs
<1>4. /\ MessagesOK(Net, globalMsgCount) /\ Orderly(pendingReq, linkQueue)
      /\ Accounts(Net, activeRequests, globalMsgCount, memRequest, Awaits)
      /\ CoresOK
  BY DEF LInv, Accounts, CoresOK, Typed
<1>5. NextLinks(x) = {}
  BY <1>1, <1>3 DEF Acting
<1>6. Arrival(x) = x.msg.pDest
  BY <1>3, <1>5, NextOne
<1>7. PICK here \in Procs : here = Here
  BY <1>1, <1>3, MemoryIsNode
<1>8. /\ FromMemory(x.msg) /\ x.msg.brt = "DATA" /\ x.msg.pDest = here /\ x.msg.addr \in Addrs
  BY <1>1, <1>3, <1>4, <1>6, <1>7, Kinds
<1>9. PICK a \in Addrs : a = x.msg.addr
  BY <1>8
<1>10. PICK waits : waits = [Awaits EXCEPT ![here] = @ \ {a}]
  OBVIOUS
<1>11. /\ a \in Awaits[here]
       /\ Accounts(Exchange(Net, {x}, {}), activeRequests, globalMsgCount, memRequest, waits)
  BY <1>4, <1>8, <1>9, <1>10, Returned
<1>12. Transient(here, a)
  BY <1>11 DEF Awaits
<1>13. SnoopAsserts("DATA", a, {here}) /\ SnoopOf("DATA", a, here).send = "NO_REQ"
  BY <1>4, <1>12, AnswerKeepsCores
<1>14. /\ Snoop("DATA", a, {here}) /\ linkQueue' = Forwarded
       /\ LinkFree(0) /\ UNCHANGED <<activeRequests, memVars>>
  <2>1. ~Astray
    BY <1>3, <1>6 DEF Astray
  <2>2. Message.brt = "DATA" /\ Message.addr = a
    BY <1>3, <1>8, <1>9
  <2> QED
    BY <1>7, <1>13, <2>1, <2>2 DEF SnoopHere, Reply
<1>15. Typed'
  BY TypedSnoopHere DEF LInv
<1>16. StatesUsed' /\ RequestsMatch' /\ Awaits' = waits
  <2>1. /\ StatesUsed' /\ RequestsMatch'
        /\ \A p \in Procs, b \in Addrs :
             Transient(p, b)' <=> Transient(p, b) /\ ~(p = here /\ b = a)
    BY <1>4, <1>12, <1>14, AnswerKeepsCores
  <2> QED
    BY <1>10, <2>1, AwaitsLess
<1>17. CarriedOK' /\ MemoryInStep' /\ phase' # "aborted"
  BY <1>1, <1>14, TrackedStay, FreedKeeps
<1>18. Orderly(pendingReq', linkQueue') /\ Net' = Exchange(Net, {x}, {})
  <2>1. pendingReq' = [pendingReq EXCEPT ![turn] = NULL]
    BY <1>14 DEF LinkFree
  <2>2. {Passed(x, k) : k \in NextLinks(x)} = {}
    BY <1>5
  <2> QED
    BY <1>1, <1>2, <1>14, <2>1, <2>2, ForwardNet DEF Net
<1>19. Accounts(Net', activeRequests', globalMsgCount', memRequest', Awaits')
  <2>1. /\ activeRequests' = activeRequests /\ globalMsgCount' = globalMsgCount
        /\ memRequest' = memRequest
    BY <1>14 DEF LinkFree, memVars
  <2> QED
    BY <1>11, <1>16, <1>18, <2>1
<1>20. LInv'
  BY <1>15, <1>16, <1>17, <1>18, <1>19 DEF LInv
<1>21. IsAnswered(here, a)
  <2>1. Becomes(here, a, SnoopOf("DATA", a, here).next)
    BY <1>4, <1>14, SnoopedIs DEF CoresOK
  <2>2. NoneLost(Net, Net')
    <3>1. \A z \in Net : IsBroadcast(z.msg) => z \in Net'
      BY <1>3, <1>18 DEF Exchange
    <3> QED
      BY <3>1, StillThere
  <2>3. Silent(Net, here)
    <3> DEFINE s == Errand("answer", 0, x.msg.addr)
    <3>1. s \in Returning(Net, here) /\ s.stage # "broadcast"
      BY <1>8 DEF Returning, Errand
    <3>2. \A e \in activeRequests[here] : Errand("acks", e.msgNum, e.addr).stage # s.stage
      BY DEF Errand
    <3> HIDE DEF s
    <3>3. \A t, u \in Errands(Net, activeRequests, memRequest, here) : t = u
      BY <1>4 DEF Accounts, ErrandsOK
    <3>4. activeRequests[here] = {}
      BY <3>1, <3>2, <3>3 DEF Errands, Collecting
    <3>5. s \in Errands(Net, activeRequests, memRequest, here)
      BY <3>1 DEF Errands
    <3> QED
      BY <1>4, <3>1, <3>4, <3>5, NothingToReach
  <2> QED
    BY <1>12, <2>1, <2>2, <2>3 DEF IsAnswered
<1> QED
  BY <1>20, <1>21 DEF LineStep

LEMMA SnoopHereKeeps == ASSUME OnLine, BasicScheme, LInv, SnoopHere PROVE LInv' /\ LineStep
BY BroadcastSnooped, AnswerSnooped

(* What a reply adds to the entry that waits for it.                       *)
LEMMA CountedIs ==
  ASSUME NEW e \in ActiveEntries, NEW d, d = Counted(e), Message.brt \in {"ACK", "DATA"}
  PROVE  /\ d.msgNum = e.msgNum /\ d.addr = e.addr /\ d.numAcks = e.numAcks + 1
         /\ d.shared = e.shared /\ d.dataAvail \in BOOLEAN
         /\ e.numAcks + 1 <= LastLink => d \in ActiveEntries
<1>1. /\ d.msgNum = e.msgNum /\ d.addr = e.addr /\ d.numAcks = e.numAcks + 1
      /\ d.dataAvail = (e.dataAvail \/ HasData(Message))
      /\ d.shared = (e.shared \/ Message.brt \in {"SHARED", "SHARED_DATA"})
  BY DEF Counted, ActiveEntries
<1>2. d.shared = e.shared
  BY <1>1 DEF ActiveEntries
<1>3. d.dataAvail \in BOOLEAN
  BY <1>1 DEF HasData
<1>4. ASSUME e.numAcks + 1 <= LastLink PROVE d \in ActiveEntries
  <2>1. d.numAcks \in 0 .. ProcessorCount
    BY <1>1, <1>4, MemoryIsNode DEF ActiveEntries, LastLink
  <2>2. e.msgNum \in Nat /\ e.addr \in Addrs /\ d.dataAvail \in BOOLEAN /\ d.shared \in BOOLEAN
    BY <1>2, <1>3 DEF ActiveEntries
  <2>3. d = [msgNum |-> d.msgNum, addr |-> d.addr, numAcks |-> d.numAcks,
             dataAvail |-> d.dataAvail, shared |-> d.shared]
    BY DEF Counted, ActiveEntries
  <2> QED
    BY <1>1, <2>1, <2>2, <2>3 DEF ActiveEntries
<1> QED
  BY <1>1, <1>2, <1>3, <1>4

(* What a reply does, where it arrives.                                    *)
LEMMA ReplyReceived ==
  ASSUME OnLine, LInv, ReceiveAck
  PROVE  \E x \in Net, p \in Procs : \E e \in activeRequests[p] :
           /\ Arriving /\ x = Arrived /\ x.msg = Message /\ IsReply(x.msg)
           /\ Here = p /\ x.msg.pDest = p /\ e.msgNum = x.msg.msgNum /\ CountAck(e)
           /\ pendingReq[turn] = Message /\ Message.brt \in {"ACK", "DATA"}
<1>1. Arriving /\ IsAck(Message) /\ (AckToMemory \/ (Acting /\ ~Astray))
  BY DEF ReceiveAck
<1>2. PICK x \in Net : x = Arrived
  BY <1>1, ArrivedIs
<1>3. /\ x.msg = Message /\ x \in Places /\ OnItsWay(x) /\ x.link = turn
      /\ KindOK(x.msg, globalMsgCount) /\ IsReply(x.msg) /\ pendingReq[turn] = Message
  BY <1>1, <1>2, ArrivedIs
<1>4. MessagesOK(Net, globalMsgCount) /\ RepliesOK(Net, activeRequests)
  BY DEF LInv, Accounts
<1>5. PICK p \in Procs : p = x.msg.pDest
  BY <1>3, <1>4, Kinds
<1>6. Here = p /\ p # Memory
  <2>1. p # Memory
    BY MemoryIsNode
  <2>2. ~AckToMemory /\ ~IsBroadcast(Message)
    BY <1>3, <1>4, <1>5, <2>1, Kinds DEF AckToMemory
  <2> QED
    BY <1>1, <1>3, <1>5, <2>1, <2>2 DEF Astray
<1>7. Tracked(p, x.msg.msgNum)
  BY <1>2, <1>3, <1>4, <1>5 DEF RepliesOK, Tracked
<1>8. PICK e \in activeRequests[p] : e.msgNum = x.msg.msgNum /\ CountAck(e)
  BY <1>3, <1>5, <1>6, <1>7 DEF ReceiveAck
<1>9. Message.brt \in {"ACK", "DATA"}
  BY <1>3 DEF IsReply
<1> QED
  BY <1>1, <1>2, <1>3, <1>5, <1>6, <1>8, <1>9

LEMMA ReceiveAckKeeps ==
  ASSUME OnLine, BasicScheme, LInv, ReceiveAck
  PROVE  LInv' /\ LineStep
<1>13. PICK x \in Net, p \in Procs : \E e \in activeRequests[p] :
        /\ Arriving /\ x = Arrived /\ x.msg = Message /\ IsReply(x.msg)
        /\ Here = p /\ x.msg.pDest = p /\ e.msgNum = x.msg.msgNum /\ CountAck(e)
        /\ pendingReq[turn] = Message /\ Message.brt \in {"ACK", "DATA"}
  BY ReplyReceived
<1>1. PICK e \in activeRequests[p] :
        /\ Arriving /\ x = Arrived /\ x.msg = Message /\ IsReply(x.msg)
        /\ Here = p /\ x.msg.pDest = p /\ e.msgNum = x.msg.msgNum /\ CountAck(e)
        /\ pendingReq[turn] = Message /\ Message.brt \in {"ACK", "DATA"}
  BY <1>13
<1>2. /\ MessagesOK(Net, globalMsgCount) /\ Orderly(pendingReq, linkQueue)
      /\ Accounts(Net, activeRequests, globalMsgCount, memRequest, Awaits)
      /\ CoresOK /\ activeRequests \in [Procs -> SUBSET ActiveEntries]
      /\ pendingReq \in Carried /\ linkQueue \in Queues
  BY DEF LInv, Accounts, CoresOK, Typed, WellFormed, Carried
<1>3. /\ activeRequests[p] = {e} /\ e \in ActiveEntries /\ ~e.shared /\ e.numAcks + 1 <= LastLink
      /\ e.addr = x.msg.addr /\ Awaits[p] = {e.addr}
      /\ e.numAcks + 1 = LastLink => \A z : z \in Net => ~CopyOf(z, p, e.msgNum)
  BY <1>1, <1>2, ReplyFits
<1>4. PICK d : d = Counted(e)
  OBVIOUS
<1>5. /\ d.msgNum = e.msgNum /\ d.addr = e.addr /\ d.numAcks = e.numAcks + 1
      /\ ~d.shared /\ d \in ActiveEntries
  BY <1>1, <1>3, <1>4, CountedIs
<1>6. e.numAcks \in Nat /\ LastLink \in Nat /\ LastLink = ProcessorCount - 1 /\ e.addr \in Addrs
  BY <1>3, LineIs DEF ActiveEntries, LastLink
<1>7. Typed'
  BY TypedReceiveAck DEF LInv
<1>8. PICK pend : pend = [pendingReq EXCEPT ![turn] = NULL]
  OBVIOUS
<1>9. /\ pend \in Carried /\ Orderly(pend, linkQueue)
      /\ NetOf(pend, linkQueue) = Exchange(Net, {x}, {})
  BY <1>1, <1>8, ForwardNet
<1>10. ASSUME NEW l \in LinkIds, l # turn, pendingReq[l] # NULL, IsBroadcast(pendingReq[l])
       PROVE  LET q == pendingReq[l].pSrc IN
              /\ q \in Procs
              /\ TrackedIn(activeRequests, q, pendingReq[l].msgNum)
              /\ q = p => e.numAcks + 1 # LastLink
  <2>1. TrackedIn(activeRequests, pendingReq[l].pSrc, pendingReq[l].msgNum)
    BY <1>10 DEF LInv, CarriedOK, Tracked, TrackedIn
  <2>2. At(l, pendingReq[l]) \in Net /\ At(l, pendingReq[l]).msg = pendingReq[l]
    <3>1. PICK m : m = pendingReq[l]
      OBVIOUS
    <3>2. At(l, m) \in NetOf(pendingReq, linkQueue)
      BY <1>10, <3>1, OnNet
    <3> QED
      BY <3>1, <3>2 DEF Net, At
  <2>3. pendingReq[l].pSrc \in Procs
    BY <1>2, <1>10 DEF Carried, Good
  <2>4. pendingReq[l].pSrc = p => pendingReq[l].msgNum = e.msgNum
    BY <1>3, <2>1 DEF TrackedIn
  <2>5. pendingReq[l].pSrc = p => CopyOf(At(l, pendingReq[l]), p, e.msgNum)
    BY <1>10, <2>2, <2>4 DEF CopyOf
  <2> QED
    BY <1>3, <2>1, <2>2, <2>3, <2>5
<1>14. \A z \in Net : IsBroadcast(z.msg) => z \notin {x}
  BY <1>1 DEF IsReply, IsBroadcast
<1>11. CASE e.numAcks + 1 < LastLink
  <2>1. /\ activeRequests' = [activeRequests EXCEPT ![p] = (@ \ {e}) \cup {d}]
        /\ LinkFree(0) /\ UNCHANGED <<coreVars, linkQueue, last_msgs, memVars>>
    BY <1>1, <1>4, <1>5, <1>6, <1>11 DEF CountAck
  <2>2. Accounts(Exchange(Net, {x}, {}), activeRequests', globalMsgCount, memRequest, Awaits)
    BY <1>1, <1>2, <1>5, <2>1, ReplyCounted
  <2>3. CarriedOK' /\ MemoryInStep' /\ phase' # "aborted"
    <3>1. \A q \in Procs : \A num : TrackedIn(activeRequests, q, num) =>
                                TrackedIn(activeRequests', q, num)
      BY <1>2, <1>5, <2>1 DEF TrackedIn
    <3> QED
      BY <1>1, <1>10, <2>1, <3>1, FreedKeeps
  <2>4. StatesUsed' /\ RequestsMatch' /\ Awaits' = Awaits
    BY <2>1, CoresSameOK
  <2>5. Orderly(pendingReq', linkQueue') /\ Net' = Exchange(Net, {x}, {})
    BY <1>8, <1>9, <2>1 DEF LinkFree, Net
  <2>6. Accounts(Net', activeRequests', globalMsgCount', memRequest', Awaits')
    BY <2>1, <2>2, <2>4, <2>5 DEF LinkFree, memVars
  <2>7. LInv'
    BY <1>7, <2>3, <2>4, <2>5, <2>6 DEF LInv
  <2>8. Undisturbed
    BY <1>14, <2>1, <2>5, StillThere DEF Exchange, Undisturbed, coreVars
  <2> QED
    BY <2>7, <2>8 DEF LineStep
<1>12. CASE e.numAcks + 1 = LastLink
  <2>1. Transient(p, e.addr)
    BY <1>3 DEF Awaits
  <2>2. /\ SnoopAsserts("DATA", e.addr, {p}) /\ SnoopOf("DATA", e.addr, p).send = "NO_REQ"
        /\ Snoop("DATA", e.addr, {p}) =>
             /\ StatesUsed' /\ RequestsMatch'
             /\ \A q \in Procs, b \in Addrs :
                  Transient(q, b)' <=> Transient(q, b) /\ ~(q = p /\ b = e.addr)
    BY <1>2, <1>6, <2>1, AnswerKeepsCores
  <2>3. Answer(d) = "DATA" /\ AnswerAsserts(d)
    BY <1>1, <1>5, <2>2 DEF Answer, AnswerAsserts
  <2>4. /\ activeRequests' = [activeRequests EXCEPT ![p] = @ \ {e}]
        /\ LinkFree(0) /\ UNCHANGED <<last_msgs, memVars>>
        /\ IF d.dataAvail
           THEN Snoop("DATA", e.addr, {p}) /\ UNCHANGED linkQueue
           ELSE /\ linkQueue' = Sent(linkQueue, "MEMORY", e.addr, p, Memory, -2)
                /\ UNCHANGED coreVars
    BY <1>1, <1>4, <1>5, <1>6, <1>12, <2>3 DEF CountAck
  <2>5. CarriedOK' /\ MemoryInStep' /\ phase' # "aborted"
    <3>1. \A q \in Procs : \A num : q # p /\ TrackedIn(activeRequests, q, num) =>
                                TrackedIn(activeRequests', q, num)
      BY <1>2, <2>4 DEF TrackedIn
    <3> QED
      BY <1>1, <1>10, <1>12, <2>4, <3>1, FreedKeeps
  <2>6. /\ pendingReq' = pend /\ globalMsgCount' = globalMsgCount /\ memRequest' = memRequest
    BY <1>8, <2>4 DEF LinkFree, memVars
  <2>7. CASE d.dataAvail
    <3>1. StatesUsed' /\ RequestsMatch' /\ Awaits' = [Awaits EXCEPT ![p] = @ \ {e.addr}]
      BY <2>2, <2>4, <2>7, AwaitsLess
    <3>2. Orderly(pendingReq', linkQueue') /\ Net' = Exchange(Net, {x}, {})
      BY <1>9, <2>4, <2>6, <2>7 DEF Net
    <3>4. ThereOrAsked(p, e.addr, Awaits, Awaits', {})
      BY <3>1 DEF ThereOrAsked
    <3>3. Accounts(Exchange(Net, {x}, {}), activeRequests', globalMsgCount, memRequest, Awaits')
      BY <1>1, <1>2, <1>12, <2>4, <3>4, LastReply
    <3>5. LInv'
      BY <1>7, <2>5, <2>6, <3>1, <3>2, <3>3 DEF LInv
    <3>6. Becomes(p, e.addr, SnoopOf("DATA", e.addr, p).next)
      BY <1>2, <1>6, <2>4, <2>7, SnoopedIs DEF CoresOK
    <3>7. NoneLost(Net, Net')
      BY <1>14, <3>2, StillThere DEF Exchange
    <3>8. Silent(Net, p)
      <4> DEFINE s == Errand("acks", e.msgNum, e.addr)
      <4>1. s \in Errands(Net, activeRequests, memRequest, p) /\ s.stage # "broadcast"
        BY DEF Errands, Collecting, Errand
      <4>2. \A z \in Net : \A f \in activeRequests[p] : ~CopyOf(z, p, f.msgNum)
        BY <1>3, <1>12
      <4> HIDE DEF s
      <4> QED
        BY <1>2, <4>1, <4>2, NothingToReach
    <3>9. IsAnswered(p, e.addr)
      BY <2>1, <3>6, <3>7, <3>8 DEF IsAnswered
    <3> QED
      BY <1>6, <3>5, <3>9 DEF LineStep
  <2>8. CASE ~d.dataAvail
    <3>1. linkQueue' = Sent(linkQueue, "MEMORY", e.addr, p, Memory, -2)
          /\ StatesUsed' /\ RequestsMatch' /\ Awaits' = Awaits
      BY <2>4, <2>8, CoresSameOK
    <3>2. "MEMORY" \in BusReqTypes /\ "MEMORY" \notin {"BUSRD", "BUSWR"} /\ -2 \in Int
          /\ p \in Nodes /\ Memory \in Nodes /\ p # Memory
      BY MemoryIsNode DEF BusReqTypes
    <3>3. PICK y : y = Letter("MEMORY", e.addr, p, Memory, -2)
      OBVIOUS
    <3>4. /\ y \in Places /\ OnItsWay(y) /\ ToMemory(y.msg) /\ y.msg.addr = e.addr
          /\ y.msg.pSrc = p /\ y.msg.pDest = Memory /\ y.msg.msgNum = -2
      BY <1>6, <3>2, <3>3, LetterIs DEF ToMemory
    <3>5. /\ \A z \in Net : ~Alike(y, z)
          /\ Accounts(Exchange(Net, {x}, {y}), activeRequests', globalMsgCount, memRequest, Awaits)
      <4>1. ThereOrAsked(p, e.addr, Awaits, Awaits, {y})
        BY <3>4 DEF ThereOrAsked
      <4>2. /\ \A u \in {y}, z \in Net : ~Alike(u, z)
            /\ Accounts(Exchange(Net, {x}, {y}), activeRequests', globalMsgCount, memRequest, Awaits)
        BY <1>1, <1>2, <1>12, <2>4, <4>1, LastReply
      <4> QED
        BY <4>2
    <3>6. y \notin NetOf(pend, linkQueue)
      BY <1>9, <3>5 DEF Alike, Exchange
    <3>7. /\ Orderly(pend, linkQueue')
          /\ NetOf(pend, linkQueue') = Exchange(NetOf(pend, linkQueue), {}, {y})
      BY <1>2, <1>6, <1>9, <3>1, <3>2, <3>3, <3>6, SentOne
    <3>8. Orderly(pendingReq', linkQueue') /\ Net' = Exchange(Net, {x}, {y})
      <4>1. Exchange(Exchange(Net, {x}, {}), {}, {y}) = Exchange(Net, {x}, {y})
        BY DEF Exchange
      <4> QED
        BY <1>9, <2>6, <3>7, <4>1 DEF Net
    <3>9. LInv'
      BY <1>7, <2>5, <2>6, <3>1, <3>5, <3>8 DEF LInv
    <3>10. Undisturbed
      <4>1. \A q \in Procs, b \in Addrs : coherStates'[q][b] = coherStates[q][b]
        BY <2>4, <2>8 DEF coreVars
      <4> QED
        BY <1>14, <3>8, <4>1, StillThere DEF Exchange, Undisturbed
    <3> QED
      BY <3>9, <3>10 DEF LineStep
  <2> QED
    BY <2>7, <2>8
<1> QED
  BY <1>3, <1>6, <1>11, <1>12

(* A broadcast leaves its source both ways.                                *)
Broadcast(brt, a, p, num) ==
  [brt |-> brt, addr |-> a, procNum |-> p, pSrc |-> p, pDest |-> -1, msgNum |-> num]
BothWays(m, p, new) == new = {At(l, m) : l \in BroadcastLinks(p)}

LEMMA BroadcastWay ==
  ASSUME OnLine, NEW p \in Procs, NEW brt \in {"BUSRD", "BUSWR"}, NEW a \in Addrs,
         NEW num \in Nat, NEW m, m = Broadcast(brt, a, p, num),
         NEW new, BothWays(m, p, new)
  PROVE  /\ m \in Good /\ m.procNum = p /\ BroadcastLinks(p) \in SUBSET LinkIds
         /\ \A l \in BroadcastLinks(p) : p \in Ends(l)
         /\ Announced(new, p, a, num)
<1>1. /\ m.brt = brt /\ m.addr = a /\ m.procNum = p /\ m.pSrc = p /\ m.pDest = -1
      /\ m.msgNum = num /\ IsBroadcast(m) /\ m.brt # "MEMORY"
  BY DEF Broadcast, IsBroadcast
<1>2. m \in Good
  <2>1. p \in Nodes /\ brt \in BusReqTypes /\ num \in Int
    BY MemoryIsNode DEF BusReqTypes
  <2>2. m \in Messages
    BY <2>1 DEF Broadcast, Messages
  <2> QED
    BY <1>1, <2>2 DEF Good
<1>3. /\ ProcessorCount \in Nat /\ p \in 0 .. ProcessorCount - 1 /\ p \in Nodes
      /\ Procs = 0 .. ProcessorCount - 1 /\ LinkIds = 0 .. ProcessorCount - 1
      /\ LastLink = ProcessorCount - 1
  BY LineIs, MemoryIsNode DEF LastLink
<1>4. \A l : l \in BroadcastLinks(p) <=>
               \/ l = p /\ p < ProcessorCount - 1
               \/ l = p - 1 /\ p > 0
  <2>1. BroadcastLinks(p) = ({p - 1, p} \cap LinkIds) \ {ProcessorCount - 1}
    BY <1>3, LinksOfLine DEF BroadcastLinks, OnLine
  <2> QED
    BY <1>3, <2>1
<1>5. BroadcastLinks(p) \in SUBSET LinkIds /\ \A l \in BroadcastLinks(p) : p \in Ends(l)
  <2>1. \A l \in BroadcastLinks(p) : l \in LinkIds /\ (p = l \/ p = l + 1)
    BY <1>3, <1>4
  <2> QED
    BY <2>1, LineIs
<1>6. ASSUME NEW l \in BroadcastLinks(p)
      PROVE  LET y == At(l, m) IN
             /\ y.link = l /\ y.msg = m /\ y \in Places /\ OnItsWay(y)
             /\ RightGoing(y) <=> l = p
  <2>1. At(l, m).link = l /\ At(l, m).msg = m /\ At(l, m) \in Places
    BY <1>2, <1>5 DEF At, Places
  <2>2. PICK y : y = At(l, m)
    OBVIOUS
  <2>3. y.link = l /\ y.msg = m
    BY <2>1, <2>2
  <2>4. RightGoing(y) <=> l = p
    BY <1>1, <2>3 DEF RightGoing
  <2>5. OnItsWay(y)
    BY <1>1, <1>3, <1>4, <2>3, <2>4 DEF OnItsWay
  <2> QED
    BY <2>1, <2>2, <2>4, <2>5
<1>7. new = {At(l, m) : l \in BroadcastLinks(p)}
  BY DEF BothWays
<1>8. \A y \in new : /\ y \in Places /\ OnItsWay(y) /\ y.msg = m
  BY <1>6, <1>7
<1>9. Single(new)
  <2> SUFFICES ASSUME NEW y \in new, NEW z \in new, Alike(y, z) PROVE y = z
    BY DEF Single
  <2>1. PICK k \in BroadcastLinks(p) : y = At(k, m)
    BY <1>7
  <2>2. PICK l \in BroadcastLinks(p) : z = At(l, m)
    BY <1>7
  <2>3. k = p <=> l = p
    BY <1>6, <2>1, <2>2 DEF Alike
  <2> QED
    BY <1>4, <2>1, <2>2, <2>3
<1>10. ASSUME NEW q \in Procs
       PROVE  (\E y \in new : q \in Ahead(y)) <=> q # p
  <2>1. ASSUME NEW l \in BroadcastLinks(p)
        PROVE  q \in Ahead(At(l, m)) <=> IF l = p THEN q > p ELSE q <= p - 1
    BY <1>4, <1>6 DEF Ahead
  <2>2. (\E y \in new : q \in Ahead(y)) <=>
          \E l \in BroadcastLinks(p) : IF l = p THEN q > p ELSE q <= p - 1
    BY <1>7, <2>1
  <2>3. p \in Int /\ p - 1 \in Int /\ p # p - 1
    BY <1>3
  <2>4. (\E l \in BroadcastLinks(p) : IF l = p THEN q > p ELSE q <= p - 1) <=>
          (p < ProcessorCount - 1 /\ q > p) \/ (p > 0 /\ q <= p - 1)
    BY <1>4, <2>3
  <2> QED
    BY <1>3, <2>2, <2>4
<1> QED
  BY <1>1, <1>2, <1>5, <1>8, <1>9, <1>10 DEF Announced

(* A hit sends nothing, a miss announces itself.                           *)
LEMMA LineFetchKeeps == ASSUME OnLine, BasicScheme, LInv, Fetch PROVE LInv' /\ LineStep
<1>1. PICK isRead \in BOOLEAN, a \in Addrs :
        /\ FetchMemory(isRead, a)
        /\ LET send == PermOf(isRead, a).send
           IN  IF send = "NO_REQ"
               THEN UNCHANGED <<linkQueue, globalMsgCount>>
               ELSE /\ globalMsgCount' = globalMsgCount + 1
                    /\ linkQueue' = Sent(linkQueue, send, a, turn, -1, globalMsgCount')
        /\ UNCHANGED <<pendingReq, countDown, p1Sent, activeRequests, last_msgs, memVars>>
  BY DEF Fetch
<1>2. /\ pendingReq' = pendingReq /\ countDown' = countDown
      /\ activeRequests' = activeRequests
      /\ memRequest' = memRequest /\ memCountDown' = memCountDown
      /\ memoryRequests' = memoryRequests
  BY <1>1 DEF memVars
<1>3. /\ Orderly(pendingReq, linkQueue) /\ CoresOK
      /\ Accounts(Net, activeRequests, globalMsgCount, memRequest, Awaits)
      /\ pendingReq \in Carried /\ linkQueue \in Queues /\ globalMsgCount \in Nat
  BY DEF LInv, Typed, CoresOK, WellFormed, Carried, TypeActive
<1>4. Typed'
  BY TypedFetch DEF LInv
<1>5. /\ turn \in Procs /\ \A b \in Addrs : ~Transient(turn, b)
      /\ StatesUsed' /\ RequestsMatch'
      /\ \/ /\ PermOf(isRead, a).send = "NO_REQ"
            /\ \A p \in Procs, b \in Addrs : Transient(p, b)' <=> Transient(p, b)
         \/ /\ PermOf(isRead, a).send \in {"BUSRD", "BUSWR"}
            /\ \A p \in Procs, b \in Addrs :
                 Transient(p, b)' <=> Transient(p, b) \/ (p = turn /\ b = a)
  BY <1>1, <1>3, FetchKeepsCores
<1>6. CarriedOK'
  BY <1>2 DEF LInv, CarriedOK, Tracked
<1>7. phase # "interconnect" /\ phase' # "interconnect" /\ phase' # "aborted"
  BY <1>1 DEF FetchMemory, CanFetch, NextProcessor
<1>8. MemoryInStep'
  BY <1>2, <1>7 DEF LInv, MemoryInStep
<1>11. PICK st : st = PermOf(isRead, a).next
  OBVIOUS
<1>12. Becomes(turn, a, st)
  BY <1>1, <1>3, <1>5, <1>11 DEF Becomes, FetchMemory, CoresOK, CoresTypeOK
<1>13. /\ PermOf(isRead, a).send = "NO_REQ" => st = coherStates[turn][a]
       /\ PermOf(isRead, a).send # "NO_REQ" =>
            /\ st \in TransientStates /\ st \in UsedStates
            /\ PermOf(isRead, a).send = IF st = "INVALID_SHARED" THEN "BUSRD" ELSE "BUSWR"
  <2>1. coherStates[turn][a] \in UsedStates \ TransientStates
    BY <1>3, <1>5 DEF CoresOK, StatesUsed, Transient
  <2> QED
    BY <1>11, <2>1, PermTable DEF PermOf
<1>9. ASSUME PermOf(isRead, a).send = "NO_REQ",
             \A p \in Procs, b \in Addrs : Transient(p, b)' <=> Transient(p, b)
      PROVE  LInv' /\ LineStep
  <2>1. linkQueue' = linkQueue /\ globalMsgCount' = globalMsgCount
    BY <1>1, <1>9
  <2>2. Net' = Net /\ Awaits' = Awaits
    BY <1>2, <1>9, <2>1, AwaitsSame DEF Net
  <2>3. LInv'
    BY <1>2, <1>3, <1>4, <1>5, <1>6, <1>7, <1>8, <2>1, <2>2 DEF LInv
  <2>4. Undisturbed
    BY <1>9, <1>12, <1>13, <2>2, StillThere DEF Undisturbed, Becomes
  <2> QED
    BY <2>3, <2>4 DEF LineStep
<1>10. ASSUME PermOf(isRead, a).send \in {"BUSRD", "BUSWR"},
              \A p \in Procs, b \in Addrs :
                Transient(p, b)' <=> Transient(p, b) \/ (p = turn /\ b = a)
       PROVE  LInv' /\ LineStep
  <2>1. PICK brt \in {"BUSRD", "BUSWR"} : brt = PermOf(isRead, a).send
    BY <1>10
  <2>2. PICK num \in Nat : num = globalMsgCount + 1
    BY <1>3
  <2>3. PICK p \in Procs : p = turn
    BY <1>5
  <2>4. PICK m : m = Broadcast(brt, a, p, num)
    OBVIOUS
  <2>5. PICK new : BothWays(m, p, new)
    BY DEF BothWays
  <2>6. globalMsgCount' = num /\ linkQueue' = Enqueued(linkQueue, m, BroadcastLinks(p))
    <3>1. globalMsgCount' = num /\ linkQueue' = Sent(linkQueue, brt, a, p, -1, num)
      BY <1>1, <2>1, <2>2, <2>3
    <3> QED
      BY <2>4, <3>1 DEF Sent, Broadcast
  <2>7. /\ m \in Good /\ m.procNum = p /\ BroadcastLinks(p) \in SUBSET LinkIds
        /\ \A l \in BroadcastLinks(p) : p \in Ends(l)
        /\ Announced(new, p, a, num)
    BY <2>4, <2>5, BroadcastWay
  <2>8. Awaits[p] = {} /\ Awaits' = [Awaits EXCEPT ![p] = {a}]
    BY <1>5, <1>10, <2>3, AwaitsMore
  <2>13. PICK count \in Nat : count = globalMsgCount
    BY <1>3
  <2>14. Announced(new, p, a, count + 1)
    BY <2>2, <2>7, <2>13
  <2>9. /\ \A y \in new, z \in Net : ~Alike(y, z)
        /\ Accounts(Exchange(Net, {}, new), activeRequests, globalMsgCount + 1, memRequest,
                    Awaits')
    BY <1>3, <2>8, <2>13, <2>14, Fetched
  <2>10. \A l \in BroadcastLinks(p) : At(l, m) \notin NetOf(pendingReq, linkQueue)
    <3>1. ASSUME NEW l \in BroadcastLinks(p) PROVE At(l, m) \notin Net
      <4>1. At(l, m) \in new
        BY <2>5 DEF BothWays
      <4> QED
        BY <2>9, <4>1 DEF Alike
    <3> QED
      BY <3>1 DEF Net
  <2>11. /\ Orderly(pendingReq, linkQueue')
         /\ NetOf(pendingReq, linkQueue') = Exchange(NetOf(pendingReq, linkQueue), {}, new)
    <3>1. new = {At(l, m) : l \in BroadcastLinks(p)}
      BY <2>5 DEF BothWays
    <3>2. \A l \in BroadcastLinks(p) : m.procNum \in Ends(l)
      BY <2>7
    <3> QED
      BY <1>3, <2>6, <2>7, <2>10, <3>1, <3>2, EnqueuedNet
  <2>12. Orderly(pendingReq', linkQueue') /\ Net' = Exchange(Net, {}, new)
    BY <1>2, <2>11 DEF Net
  <2>15. LInv'
    BY <1>2, <1>4, <1>5, <1>6, <1>7, <1>8, <2>2, <2>6, <2>9, <2>12 DEF LInv
  <2>16. NoneLost(Net, Net') /\ \A y \in new : y \in Net'
    BY <2>12, StillThere DEF Exchange
  <2>17. \A q \in Procs : q # p => q \in Reaches(Net', p, brt, a)
    <3>1. /\ \A y \in new : y.msg.brt = brt /\ y.msg.addr = a /\ y.msg.pSrc = p
                             /\ IsBroadcast(y.msg)
          /\ \A q \in Procs : (\E y \in new : q \in Ahead(y)) <=> q # p
      <4>1. \A y \in new : y.msg = m
        BY <2>5 DEF BothWays, At
      <4> QED
        BY <2>4, <2>7, <4>1 DEF Announced, Broadcast
    <3> QED
      BY <2>16, <3>1 DEF Reaches
  <2>18. Misses(p, brt, a, st) /\ st \in UsedStates
    BY <1>10, <1>12, <1>13, <2>1, <2>3, <2>16, <2>17 DEF Misses
  <2> QED
    BY <2>15, <2>18 DEF LineStep
<1> QED
  BY <1>5, <1>9, <1>10
LEMMA LineInitOK == ASSUME OnLine, Init PROVE LInv
<1>1. Typed
  BY TypedInit
<1>2. StatesUsed /\ RequestsMatch /\ \A p \in Procs, a \in Addrs : ~Transient(p, a)
  BY CoresInitOK DEF Init
<1>3. phase # "aborted"
  BY DEF Init, CoresInit
<1>4. /\ \A l \in LinkIds : pendingReq[l] = NULL
      /\ \A l \in LinkIds, n \in Nodes : linkQueue[l][n] = <<>>
      /\ \A l \in LinkIds : Ends(l) \subseteq Nodes
  BY LineIs DEF Init
<1>5. Net = {}
  <2>1. \A l \in LinkIds : Held(pendingReq, linkQueue, l) = {}
    BY <1>4 DEF Held
  <2> QED
    BY <2>1 DEF Net, NetOf
<1>6. Orderly(pendingReq, linkQueue) /\ CarriedOK
  BY <1>4 DEF Orderly, QueueOK, CarriedOK
<1>7. MemoryInStep
  BY DEF Init, MemoryInStep
<1>8. /\ activeRequests \in [Procs -> SUBSET ActiveEntries] /\ globalMsgCount \in Nat
      /\ \A p \in Procs : activeRequests[p] = {}
      /\ memRequest = NULL
      /\ Awaits \in [Procs -> SUBSET Addrs] /\ \A p \in Procs : Awaits[p] = {}
  BY <1>2 DEF Init, Awaits
<1>9. ErrandsOK(Net, activeRequests, memRequest, Awaits)
  <2>1. ASSUME NEW p \in Procs
        PROVE  Errands(Net, activeRequests, memRequest, p) = {}
    BY <1>5, <1>8 DEF Errands, Announcing, Collecting, Asking, Waited, Returning
  <2> QED
    BY <1>8, <2>1 DEF ErrandsOK
<1>10. /\ MessagesOK(Net, globalMsgCount) /\ Single(Net)
       /\ CopiesOK(Net, activeRequests) /\ RepliesOK(Net, activeRequests)
       /\ EntriesOK(Net, activeRequests, globalMsgCount)
  BY <1>5, <1>8 DEF MessagesOK, Single, CopiesOK, RepliesOK, EntriesOK
<1>11. Accounts(Net, activeRequests, globalMsgCount, memRequest, Awaits)
  BY <1>8, <1>9, <1>10 DEF Accounts
<1> QED
  BY <1>1, <1>2, <1>3, <1>6, <1>7, <1>11 DEF LInv

LEMMA LineIdles == ASSUME LInv, UNCHANGED vars PROVE LInv'
<1>1. Typed'
  BY DEF vars, controlVars, coreVars, linkVars, activeVars, memVars, LInv, Typed, CoresTypeOK,
         TypePhase, WellFormed, TypeLinks, TypeActive, TypeMemory
<1>2. Net' = Net /\ Awaits' = Awaits /\ StatesUsed' /\ RequestsMatch'
  BY DEF vars, controlVars, coreVars, linkVars, Net, Awaits, Transient, LInv, StatesUsed,
         RequestsMatch
<1>3. /\ Orderly(pendingReq', linkQueue') /\ CarriedOK' /\ MemoryInStep' /\ phase' # "aborted"
      /\ Accounts(Net', activeRequests', globalMsgCount', memRequest', Awaits')
  BY <1>2 DEF vars, controlVars, linkVars, activeVars, memVars, LInv, CarriedOK, Tracked,
              MemoryInStep
<1> QED
  BY <1>1, <1>2, <1>3 DEF LInv

LEMMA LineStepIs == ASSUME OnLine, BasicScheme, LInv, [Next]_vars PROVE LInv' /\ LineStep
<1>1. CASE UNCHANGED vars
  <2>1. coherStates' = coherStates /\ Net' = Net
    BY <1>1 DEF vars, coreVars, linkVars, Net
  <2>2. Undisturbed
    BY <2>1, StillThere DEF Undisturbed
  <2> QED
    BY <1>1, <2>2, LineIdles DEF LineStep
<1>2. CASE MemoryTick
  BY <1>2, MemoryTickKeeps DEF LineStep
<1>3. CASE LineTick
  <2>1. CASE LinkCount \/ LinkIdle \/ LinkSend
    BY <2>1, LinkCountKeeps, LinkIdleKeeps, LinkSendKeeps DEF LineStep
  <2>2. CASE PassOn \/ ReachMemory
    BY <2>2, PassOnKeeps, ReachMemoryKeeps DEF LineStep
  <2>3. CASE SnoopHere \/ ReceiveAck
    BY <2>3, SnoopHereKeeps, ReceiveAckKeeps
  <2> QED
    BY <1>3, <2>1, <2>2, <2>3 DEF LineTick, LinkTick
<1>4. CASE Fetch
  BY <1>4, LineFetchKeeps
<1>5. CASE CoreStep
  BY <1>5, LineCoreKeeps DEF LineStep
<1>6. ~RingTick /\ ~MeshTick
  BY DEF OnLine, RingTick, MeshTick
<1> QED
  BY <1>1, <1>2, <1>3, <1>4, <1>5, <1>6 DEF Next

LEMMA LineInvariant == ASSUME OnLine, BasicScheme PROVE Spec => []LInv
<1>1. Init => LInv
  BY LineInitOK
<1>2. LInv /\ [Next]_vars => LInv'
  BY LineStepIs
<1> QED
  BY <1>1, <1>2, PTL DEF Spec
----------------------------------------------------------------------------
(* The counts of AcksAddUp and OneCarrier, by the places of the network.   *)
CarriedIn(M) == {l \in LinkIds : pendingReq[l] # NULL /\ pendingReq[l] \in M}
WaitingIn(M) == {w \in Waiting : linkQueue[w[1]][w[2]][w[3]] \in M}
Bearing(M) == {x \in Net : x.msg \in M}

AcksOf(p, num) == {m \in Messages : IsAck(m) /\ m.pDest = p /\ m.msgNum = num}
AskingFor(p, a) == {m \in Messages : m.brt = "MEMORY" /\ m.pSrc = p /\ m.addr = a}
AnswersFor(p, a) == {m \in Messages : m.pSrc = Memory /\ m.pDest = p /\ m.addr = a}

LEMMA CarriedMessages ==
  ASSUME Typed
  PROVE  /\ \A l \in LinkIds : pendingReq[l] # NULL => pendingReq[l] \in Messages
         /\ \A w \in Waiting :
              /\ w[1] \in LinkIds /\ w[2] \in Nodes /\ w[3] \in 1 .. Len(linkQueue[w[1]][w[2]])
              /\ w = <<w[1], w[2], w[3]>>
              /\ linkQueue[w[1]][w[2]][w[3]] \in Messages
<1>1. /\ pendingReq \in Carried /\ linkQueue \in Queues /\ Good \subseteq Messages
  BY DEF Typed, WellFormed, Carried, Good
<1>2. \A l \in LinkIds : pendingReq[l] # NULL => pendingReq[l] \in Messages
  BY <1>1 DEF Carried
<1>3. ASSUME NEW l \in LinkIds, NEW n \in Nodes, NEW i \in DOMAIN linkQueue[l][n]
      PROVE  i \in 1 .. Len(linkQueue[l][n]) /\ linkQueue[l][n][i] \in Messages
  BY <1>1, <1>3 DEF Queues
<1>4. ASSUME NEW w \in Waiting
      PROVE  \E l \in LinkIds, n \in Nodes : \E i \in DOMAIN linkQueue[l][n] : w = <<l, n, i>>
  BY <1>4 DEF Waiting
<1> QED
  BY <1>2, <1>3, <1>4

LEMMA AddsUpIs ==
  ASSUME Typed, NEW p, NEW e
  PROVE  AddsUp(p, e) <=>
           e.numAcks + (Cardinality(CarriedIn(AcksOf(p, e.msgNum)))
                        + Cardinality(WaitingIn(AcksOf(p, e.msgNum))))
                     + Cardinality(Unreached(p, e.msgNum)) = ProcessorCount - 1
<1>1. CarriedIn(AcksOf(p, e.msgNum)) =
        {l \in LinkIds : pendingReq[l] # NULL
                         /\ (IsAck(pendingReq[l]) /\ pendingReq[l].pDest = p
                             /\ pendingReq[l].msgNum = e.msgNum)}
  BY CarriedMessages DEF CarriedIn, AcksOf
<1>2. WaitingIn(AcksOf(p, e.msgNum)) =
        {w \in Waiting : IsAck(linkQueue[w[1]][w[2]][w[3]])
                         /\ linkQueue[w[1]][w[2]][w[3]].pDest = p
                         /\ linkQueue[w[1]][w[2]][w[3]].msgNum = e.msgNum}
  BY CarriedMessages DEF WaitingIn, AcksOf
<1> QED
  BY <1>1, <1>2 DEF AddsUp, InFlight

LEMMA UnreachedIs ==
  ASSUME OnLine, NEW p, NEW num, MessagesOK(Net, globalMsgCount)
  PROVE  Unreached(p, num) = Missing(Net, p, num)
<1>1. ASSUME NEW l \in LinkIds, NEW m
      PROVE  m \in OnLink(l) <=> At(l, m) \in Net
  BY OnNet DEF OnLink, Net, Queued
<1> DEFINE copies(l) == {m \in OnLink(l) : IsBroadcast(m) /\ m.pSrc = p /\ m.msgNum = num}
<1>2. Unreached(p, num) = UNION {UNION {Beyond(l, m.procNum) : m \in copies(l)} : l \in LinkIds}
  BY DEF Unreached, OnLine
<1>3. ASSUME NEW l \in LinkIds, NEW m PROVE Beyond(l, m.procNum) = Ahead(At(l, m))
  <2>1. At(l, m).link = l /\ At(l, m).msg = m
    BY DEF At
  <2>2. /\ {q \in Procs : q >= Proc2(l)} = {q \in Procs : q > l}
        /\ {q \in Procs : q <= Proc1(l)} = {q \in Procs : q <= l}
    BY LineIs
  <2>3. Proc1(l) = l
    BY LineIs
  <2> QED
    BY <2>1, <2>2, <2>3 DEF Beyond, Ahead, RightGoing
<1>4. ASSUME NEW q \in Unreached(p, num) PROVE q \in Missing(Net, p, num)
  <2>1. PICK l \in LinkIds : q \in UNION {Beyond(l, m.procNum) : m \in copies(l)}
    BY <1>2
  <2>2. PICK m \in copies(l) : q \in Beyond(l, m.procNum)
    BY <2>1
  <2>3. At(l, m) \in Net /\ At(l, m).msg = m
    BY <1>1, <2>2 DEF At
  <2>4. CopyOf(At(l, m), p, num) /\ q \in Ahead(At(l, m))
    BY <1>3, <2>2, <2>3 DEF CopyOf
  <2>5. q \in Procs
    BY <2>4 DEF Ahead
  <2> QED
    BY <2>3, <2>4, <2>5 DEF Missing
<1>5. ASSUME NEW q \in Missing(Net, p, num) PROVE q \in Unreached(p, num)
  <2>1. PICK x \in Net : CopyOf(x, p, num) /\ q \in Ahead(x)
    BY DEF Missing
  <2>2. x = At(x.link, x.msg) /\ x.link \in LinkIds
    BY NetIsAt DEF Net
  <2>3. x.msg \in copies(x.link) /\ q \in Beyond(x.link, x.msg.procNum)
    BY <1>1, <1>3, <2>1, <2>2 DEF CopyOf
  <2> QED
    BY <1>2, <2>2, <2>3
<1> QED
  BY <1>4, <1>5

(* Two ways to count a set: as one that has at most one member, and by a   *)
(* function that tells its members apart.                                  *)
LEMMA CountedOne ==
  ASSUME NEW S, \A x, y \in S : x = y
  PROVE  IsFiniteSet(S) /\ Cardinality(S) = IF S = {} THEN 0 ELSE 1
<1>1. CASE S = {}
  BY <1>1, FS_EmptySet
<1>2. CASE S # {}
  <2>1. PICK x : x \in S
    BY <1>2
  <2>2. S = {x}
    BY <2>1
  <2> QED
    BY <1>2, <2>2, FS_Singleton
<1> QED
  BY <1>1, <1>2

LEMMA SameCount ==
  ASSUME NEW S, NEW T, IsFiniteSet(T), NEW f \in [S -> T],
         \A x, y \in S : f[x] = f[y] => x = y,
         \A t \in T : \E x \in S : t = f[x]
  PROVE  IsFiniteSet(S) /\ Cardinality(S) = Cardinality(T)
<1>1. f \in Injection(S, T) /\ f \in Surjection(S, T)
  BY DEF Injection, IsInjective, Surjection
<1> QED
  BY <1>1, FS_Injection

(* Every message is counted once.                                          *)
LEMMA FlightCounted ==
  ASSUME Typed, Orderly(pendingReq, linkQueue), NEW M, IsFiniteSet(Bearing(M))
  PROVE  Cardinality(CarriedIn(M)) + Cardinality(WaitingIn(M)) = Cardinality(Bearing(M))
<1> DEFINE car == [l \in CarriedIn(M) |-> At(l, pendingReq[l])]
           wai == [w \in WaitingIn(M) |-> At(w[1], linkQueue[w[1]][w[2]][w[3]])]
           C == {car[l] : l \in CarriedIn(M)}
           W == {wai[w] : w \in WaitingIn(M)}
<1>1. \A l, k, m, z : At(l, m) = At(k, z) <=> l = k /\ m = z
  <2> SUFFICES ASSUME NEW l, NEW k, NEW m, NEW z, At(l, m) = At(k, z) PROVE l = k /\ m = z
    OBVIOUS
  <2>1. At(l, m).link = l /\ At(l, m).msg = m /\ At(k, z).link = k /\ At(k, z).msg = z
    BY DEF At
  <2> QED
    BY <2>1
<1>2. \A l, m : At(l, m).link = l /\ At(l, m).msg = m
  BY DEF At
<1>3. \A w \in WaitingIn(M) :
        /\ w \in Waiting /\ w[1] \in LinkIds /\ w[2] \in Nodes
        /\ w[3] \in 1 .. Len(linkQueue[w[1]][w[2]]) /\ w = <<w[1], w[2], w[3]>>
        /\ linkQueue[w[1]][w[2]][w[3]] \in M
  BY CarriedMessages DEF WaitingIn
<1>4. \A w \in WaitingIn(M) : w[2] \in Ends(w[1])
  <2> SUFFICES ASSUME NEW w \in WaitingIn(M), w[2] \notin Ends(w[1]) PROVE FALSE
    OBVIOUS
  <2>1. linkQueue[w[1]][w[2]] = <<>>
    BY <1>3 DEF Orderly, QueueOK
  <2> QED
    BY <1>3, <2>1
<1>5. \A l \in CarriedIn(M) : At(l, pendingReq[l]) \in Bearing(M)
  BY <1>2, OnNet DEF CarriedIn, Bearing, Net
<1>6. \A w \in WaitingIn(M) : At(w[1], linkQueue[w[1]][w[2]][w[3]]) \in Bearing(M)
  <2> SUFFICES ASSUME NEW w \in WaitingIn(M)
               PROVE  At(w[1], linkQueue[w[1]][w[2]][w[3]]) \in Bearing(M)
    OBVIOUS
  <2>1. PICK l \in LinkIds, m \in M : l = w[1] /\ m = linkQueue[w[1]][w[2]][w[3]]
    BY <1>3
  <2>2. Queued(linkQueue, l, m)
    BY <1>3, <1>4, <2>1 DEF Queued
  <2>3. At(l, m) \in Net
    BY <2>2, OnNet DEF Net
  <2> QED
    BY <1>2, <2>1, <2>3 DEF Bearing
<1>7. C \subseteq Bearing(M) /\ W \subseteq Bearing(M)
  BY <1>5, <1>6
<1>8. Bearing(M) \subseteq C \cup W
  <2> SUFFICES ASSUME NEW x \in Bearing(M) PROVE x \in C \cup W
    OBVIOUS
  <2>1. x \in Net /\ x.msg \in M
    BY DEF Bearing
  <2>2. x = At(x.link, x.msg) /\ x.link \in LinkIds
    BY <2>1, NetIsAt DEF Net
  <2>3. (x.msg = pendingReq[x.link] /\ x.msg # NULL) \/ Queued(linkQueue, x.link, x.msg)
    BY <2>1, <2>2, OnNet DEF Net
  <2>4. CASE x.msg = pendingReq[x.link] /\ x.msg # NULL
    <3>1. x.link \in CarriedIn(M)
      BY <2>1, <2>2, <2>4 DEF CarriedIn
    <3>2. car[x.link] = x
      BY <2>2, <2>4, <3>1
    <3> QED
      BY <3>1, <3>2
  <2>5. CASE Queued(linkQueue, x.link, x.msg)
    <3>1. PICK n \in Ends(x.link) :
            \E i \in 1 .. Len(linkQueue[x.link][n]) : x.msg = linkQueue[x.link][n][i]
      BY <2>5 DEF Queued
    <3>2. PICK i \in 1 .. Len(linkQueue[x.link][n]) : x.msg = linkQueue[x.link][n][i]
      BY <3>1
    <3>3. n \in Nodes
      BY <2>2, LinkEnds DEF Ends
    <3>4. linkQueue[x.link][n] \in Seq(Good)
      BY <2>2, <3>3 DEF Typed, WellFormed, Queues
    <3>5. <<x.link, n, i>> \in Waiting
      <4>1. i \in DOMAIN linkQueue[x.link][n]
        BY <3>2, <3>4
      <4> DEFINE spots(l, k) == {<<l, k, j>> : j \in DOMAIN linkQueue[l][k]}
      <4>2. <<x.link, n, i>> \in spots(x.link, n)
        BY <4>1
      <4>3. Waiting = UNION {spots(l, k) : l \in LinkIds, k \in Nodes}
        BY DEF Waiting
      <4> HIDE DEF spots
      <4>4. spots(x.link, n) \in {spots(l, k) : l \in LinkIds, k \in Nodes}
        BY <2>2, <3>3
      <4> QED
        BY <4>2, <4>3, <4>4
    <3>6. <<x.link, n, i>> \in WaitingIn(M)
      BY <2>1, <3>2, <3>5 DEF WaitingIn
    <3>7. wai[<<x.link, n, i>>] = x
      BY <2>2, <3>2, <3>6
    <3> QED
      BY <3>6, <3>7
  <2> QED
    BY <2>3, <2>4, <2>5
<1>9. C \cap W = {}
  <2> SUFFICES ASSUME NEW l \in CarriedIn(M), NEW w \in WaitingIn(M),
                      At(l, pendingReq[l]) = At(w[1], linkQueue[w[1]][w[2]][w[3]])
               PROVE  FALSE
    OBVIOUS
  <2>1. l = w[1] /\ pendingReq[l] = linkQueue[w[1]][w[2]][w[3]]
    BY <1>1
  <2>2. linkQueue[w[1]][w[2]][w[3]] # pendingReq[w[1]]
    BY <1>3 DEF Orderly, QueueOK
  <2> QED
    BY <2>1, <2>2
<1>10. IsFiniteSet(C) /\ IsFiniteSet(W)
  BY <1>7, FS_Subset
<1>11. Cardinality(CarriedIn(M)) = Cardinality(C)
  <2>1. car \in [CarriedIn(M) -> C]
    OBVIOUS
  <2>2. \A l, k \in CarriedIn(M) : car[l] = car[k] => l = k
    BY <1>1
  <2>3. \A x \in C : \E l \in CarriedIn(M) : x = car[l]
    OBVIOUS
  <2> HIDE DEF car, C
  <2> QED
    BY <1>10, <2>1, <2>2, <2>3, SameCount
<1>12. Cardinality(WaitingIn(M)) = Cardinality(W)
  <2>1. wai \in [WaitingIn(M) -> W]
    OBVIOUS
  <2>2. ASSUME NEW v \in WaitingIn(M), NEW w \in WaitingIn(M), wai[v] = wai[w]
        PROVE  v = w
    <3>1. v[1] = w[1] /\ linkQueue[v[1]][v[2]][v[3]] = linkQueue[w[1]][w[2]][w[3]]
      BY <1>1, <2>2
    <3>2. linkQueue[v[1]][v[2]][v[3]].procNum = v[2] /\ linkQueue[w[1]][w[2]][w[3]].procNum = w[2]
      BY <1>3 DEF Orderly, QueueOK
    <3>3. v[2] = w[2]
      BY <3>1, <3>2
    <3>4. v[3] = w[3]
      <4>1. QueueOK(pendingReq, linkQueue, w[1], w[2])
        BY <1>3 DEF Orderly
      <4>2. \A i, j \in 1 .. Len(linkQueue[w[1]][w[2]]) :
              linkQueue[w[1]][w[2]][i] = linkQueue[w[1]][w[2]][j] => i = j
        BY <4>1 DEF QueueOK
      <4>3. /\ v[3] \in 1 .. Len(linkQueue[w[1]][w[2]])
            /\ w[3] \in 1 .. Len(linkQueue[w[1]][w[2]])
        BY <1>3, <3>1, <3>3
      <4>4. linkQueue[w[1]][w[2]][v[3]] = linkQueue[w[1]][w[2]][w[3]]
        BY <3>1, <3>3
      <4> QED
        BY <4>2, <4>3, <4>4
    <3> QED
      BY <1>3, <3>1, <3>3, <3>4
  <2>3. \A x \in W : \E w \in WaitingIn(M) : x = wai[w]
    OBVIOUS
  <2> HIDE DEF wai, W
  <2> QED
    BY <1>10, <2>1, <2>2, <2>3, SameCount
<1>13. Cardinality(Bearing(M)) = Cardinality(C) + Cardinality(W)
  <2>1. Bearing(M) = C \cup W
    BY <1>7, <1>8
  <2> HIDE DEF C, W
  <2>2. Cardinality(C) \in Nat /\ Cardinality(W) \in Nat /\ Cardinality({}) = 0
    BY <1>10, FS_CardinalityType, FS_EmptySet
  <2>3. Cardinality(C \cup W) = Cardinality(C) + Cardinality(W) - Cardinality(C \cap W)
    BY <1>10, FS_Union
  <2>4. Cardinality(C \cap W) = 0
    BY <1>9, <2>2
  <2> QED
    BY <2>1, <2>2, <2>3, <2>4
<1> HIDE DEF C, W
<1> QED
  BY <1>11, <1>12, <1>13

(* The acks under way for an entry are those of the processors that have   *)
(* replied and are not counted yet.                                        *)
LEMMA AcksUnderWay ==
  ASSUME OnLine, LInv, NEW p \in Procs, NEW num \in 1 .. globalMsgCount
  PROVE  Cardinality(CarriedIn(AcksOf(p, num))) + Cardinality(WaitingIn(AcksOf(p, num)))
           = Cardinality(Replying(Net, p, num))
<1> DEFINE M == AcksOf(p, num)
           B == Bearing(M)
           R == Replying(Net, p, num)
           f == [x \in B |-> x.msg.pSrc]
<1>1. /\ Typed /\ Orderly(pendingReq, linkQueue) /\ globalMsgCount \in Nat
      /\ MessagesOK(Net, globalMsgCount) /\ Single(Net)
  BY DEF LInv, Accounts
<1>2. \A x \in B : x \in Net /\ ReplyTo(x, p, num) /\ ~IsBroadcast(x.msg)
  <2> SUFFICES ASSUME NEW x \in B
               PROVE  x \in Net /\ ReplyTo(x, p, num) /\ ~IsBroadcast(x.msg)
    OBVIOUS
  <2>1. /\ x \in Net /\ x.msg.pSrc # Memory /\ x.msg.pDest = p /\ x.msg.msgNum = num
        /\ x.msg.brt \in {"ACK", "DATA", "SHARED", "SHARED_DATA"}
    BY DEF Bearing, AcksOf, IsAck
  <2>2. IsReply(x.msg) /\ ~IsBroadcast(x.msg)
    BY <1>1, <2>1, Kinds DEF IsBroadcast, ToMemory, FromMemory
  <2> QED
    BY <2>1, <2>2 DEF ReplyTo
<1>3. \A x \in Net : ReplyTo(x, p, num) => x \in B
  <2> SUFFICES ASSUME NEW x \in Net, ReplyTo(x, p, num) PROVE x \in B
    OBVIOUS
  <2>1. IsReply(x.msg) /\ x.msg.pDest = p /\ x.msg.msgNum = num
    BY DEF ReplyTo
  <2>2. x.msg \in Messages
    BY <1>1, Kinds
  <2>3. IsAck(x.msg)
    BY <2>1, MemoryIsNode DEF IsReply, IsAck
  <2> QED
    BY <2>1, <2>2, <2>3 DEF Bearing, AcksOf
<1>4. R \subseteq Procs /\ IsFiniteSet(R)
  <2>1. R \in SUBSET Procs
    BY DEF Replying
  <2> QED
    BY <2>1, Counted0
<1> HIDE DEF B
<1>5. f \in [B -> R]
  <2> SUFFICES ASSUME NEW x \in B PROVE x.msg.pSrc \in R
    OBVIOUS
  <2>1. x \in Net /\ ReplyTo(x, p, num)
    BY <1>2
  <2>2. x.msg.pSrc \in Procs
    BY <2>1 DEF ReplyTo, IsReply
  <2> QED
    BY <2>1, <2>2 DEF Replying
<1>6. \A x, y \in B : f[x] = f[y] => x = y
  <2> SUFFICES ASSUME NEW x \in B, NEW y \in B, x.msg.pSrc = y.msg.pSrc PROVE x = y
    OBVIOUS
  <2>1. /\ x \in Net /\ y \in Net /\ ~IsBroadcast(x.msg) /\ ~IsBroadcast(y.msg)
        /\ x.msg.pDest = y.msg.pDest /\ x.msg.msgNum = y.msg.msgNum
    BY <1>2 DEF ReplyTo
  <2> QED
    BY <1>1, <2>1, OneSuch
<1>7. \A q \in R : \E x \in B : q = f[x]
  <2> SUFFICES ASSUME NEW q \in R PROVE \E x \in B : q = x.msg.pSrc
    OBVIOUS
  <2>1. PICK x \in Net : ReplyTo(x, p, num) /\ x.msg.pSrc = q
    BY DEF Replying
  <2> QED
    BY <1>3, <2>1
<1> HIDE DEF R, f
<1>8. IsFiniteSet(B) /\ Cardinality(B) = Cardinality(R)
  BY <1>4, <1>5, <1>6, <1>7, SameCount
<1>9. Cardinality(CarriedIn(M)) + Cardinality(WaitingIn(M)) = Cardinality(Bearing(M))
  BY <1>1, <1>8, FlightCounted DEF B
<1> QED
  BY <1>8, <1>9 DEF B, R

LEMMA LineAcksAddUp ==
  ASSUME OnLine, LInv, NEW p \in Procs, NEW e \in activeRequests[p]
  PROVE  AddsUp(p, e)
<1>1. /\ Typed /\ MessagesOK(Net, globalMsgCount)
      /\ e.msgNum \in 1 .. globalMsgCount /\ Sums(Net, p, e)
  BY DEF LInv, Accounts, EntriesOK
<1>2. Cardinality(CarriedIn(AcksOf(p, e.msgNum))) + Cardinality(WaitingIn(AcksOf(p, e.msgNum)))
        = Cardinality(Replying(Net, p, e.msgNum))
  BY <1>1, AcksUnderWay
<1>3. Unreached(p, e.msgNum) = Missing(Net, p, e.msgNum)
  BY <1>1, UnreachedIs
<1>4. e.numAcks + Cardinality(Replying(Net, p, e.msgNum))
        + Cardinality(Missing(Net, p, e.msgNum)) = ProcessorCount - 1
  BY <1>1 DEF Sums, LastLink
<1> QED
  BY <1>1, <1>2, <1>3, <1>4, AddsUpIs

(* Of what is under way for a processor and a block there is at most one   *)
(* at each stage, which counts exactly when the errand is at that stage.   *)
LEMMA CarriersIs ==
  ASSUME Typed, NEW p, NEW a
  PROVE  Carriers(p, a) =
           Cardinality(Broadcasting(p, a))
           + Cardinality({e \in activeRequests[p] : e.addr = a /\ AddsUp(p, e)})
           + (Cardinality(CarriedIn(AskingFor(p, a))) + Cardinality(WaitingIn(AskingFor(p, a))))
           + (Cardinality(CarriedIn(AnswersFor(p, a))) + Cardinality(WaitingIn(AnswersFor(p, a))))
           + Cardinality({i \in DOMAIN memoryRequests :
                            memoryRequests[i] = [addr |-> a, procNum |-> p]})
           + Cardinality({memRequest} \cap {[addr |-> a, procNum |-> p]})
<1>1. CarriedIn(AskingFor(p, a)) =
        {l \in LinkIds : pendingReq[l] # NULL
                         /\ (pendingReq[l].brt = "MEMORY" /\ pendingReq[l].pSrc = p
                             /\ pendingReq[l].addr = a)}
  BY CarriedMessages DEF CarriedIn, AskingFor
<1>2. WaitingIn(AskingFor(p, a)) =
        {w \in Waiting : linkQueue[w[1]][w[2]][w[3]].brt = "MEMORY"
                         /\ linkQueue[w[1]][w[2]][w[3]].pSrc = p
                         /\ linkQueue[w[1]][w[2]][w[3]].addr = a}
  BY CarriedMessages DEF WaitingIn, AskingFor
<1>3. CarriedIn(AnswersFor(p, a)) =
        {l \in LinkIds : pendingReq[l] # NULL
                         /\ (pendingReq[l].pSrc = Memory /\ pendingReq[l].pDest = p
                             /\ pendingReq[l].addr = a)}
  BY CarriedMessages DEF CarriedIn, AnswersFor
<1>4. WaitingIn(AnswersFor(p, a)) =
        {w \in Waiting : linkQueue[w[1]][w[2]][w[3]].pSrc = Memory
                         /\ linkQueue[w[1]][w[2]][w[3]].pDest = p
                         /\ linkQueue[w[1]][w[2]][w[3]].addr = a}
  BY CarriedMessages DEF WaitingIn, AnswersFor
<1> QED
  BY <1>1, <1>2, <1>3, <1>4 DEF Carriers, InFlight

LEMMA ErrandsTold ==
  \A s, t, m, n, a, b : Errand(s, m, a) = Errand(t, n, b) <=> s = t /\ m = n /\ a = b
<1> SUFFICES ASSUME NEW s, NEW t, NEW m, NEW n, NEW a, NEW b, Errand(s, m, a) = Errand(t, n, b)
             PROVE  s = t /\ m = n /\ a = b
  OBVIOUS
<1>1. /\ Errand(s, m, a).stage = s /\ Errand(s, m, a).num = m /\ Errand(s, m, a).addr = a
      /\ Errand(t, n, b).stage = t /\ Errand(t, n, b).num = n /\ Errand(t, n, b).addr = b
  BY DEF Errand
<1> QED
  BY <1>1

(* A broadcast that is not tracked yet.                                    *)
LEMMA BroadcastingIs ==
  ASSUME OnLine, LInv, NEW p \in Procs, NEW a, NEW num
  PROVE  num \in Broadcasting(p, a) <=>
           Errand("broadcast", num, a) \in Announcing(Net, activeRequests, p)
<1>1. /\ MessagesOK(Net, globalMsgCount) /\ CopiesOK(Net, activeRequests)
  BY DEF LInv, Accounts
<1>2. ASSUME num \in Broadcasting(p, a)
      PROVE  Errand("broadcast", num, a) \in Announcing(Net, activeRequests, p)
  <2>1. /\ ~Tracked(p, num)
        /\ \E l \in LinkIds : \E m \in OnLink(l) :
             /\ IsBroadcast(m) /\ m.msgNum = num
             /\ m.pSrc = p /\ m.procNum = p /\ m.addr = a
    BY <1>2 DEF Broadcasting
  <2>2. PICK l \in LinkIds : \E m \in OnLink(l) :
             /\ IsBroadcast(m) /\ m.msgNum = num
             /\ m.pSrc = p /\ m.procNum = p /\ m.addr = a
    BY <2>1
  <2>3. PICK m \in OnLink(l) : /\ IsBroadcast(m) /\ m.msgNum = num
                               /\ m.pSrc = p /\ m.procNum = p /\ m.addr = a
    BY <2>2
  <2>4. At(l, m) \in Net /\ At(l, m).msg = m
    BY OnNet DEF OnLink, Net, Queued, At
  <2>5. ~TrackedIn(activeRequests, p, m.msgNum)
    BY <2>1, <2>3 DEF Tracked, TrackedIn
  <2> QED
    BY <2>3, <2>4, <2>5 DEF Announcing
<1>3. ASSUME Errand("broadcast", num, a) \in Announcing(Net, activeRequests, p)
      PROVE  num \in Broadcasting(p, a)
  <2>1. PICK x \in Net : /\ IsBroadcast(x.msg) /\ x.msg.pSrc = p
                         /\ ~TrackedIn(activeRequests, p, x.msg.msgNum)
                         /\ Errand("broadcast", num, a)
                              = Errand("broadcast", x.msg.msgNum, x.msg.addr)
    BY <1>3 DEF Announcing
  <2>2. x.msg.msgNum = num /\ x.msg.addr = a
    BY <2>1, ErrandsTold
  <2>3. ~Tracked(p, num) /\ num \in 1 .. globalMsgCount
    BY <1>1, <2>1, <2>2, Kinds DEF Tracked, TrackedIn
  <2>4. x.msg.procNum = p /\ Missing(Net, p, num) = Procs \ {p}
    BY <1>1, <2>1, <2>2 DEF CopiesOK
  <2>5. Unreached(p, num) = Procs \ {p}
    BY <1>1, <2>4, UnreachedIs
  <2>6. x = At(x.link, x.msg) /\ x.link \in LinkIds
    BY NetIsAt DEF Net
  <2>7. x.msg \in OnLink(x.link)
    BY <2>6, OnNet DEF OnLink, Net, Queued
  <2> QED
    BY <2>1, <2>2, <2>3, <2>4, <2>5, <2>6, <2>7 DEF Broadcasting
<1> QED
  BY <1>2, <1>3

Counts(n, E, a) == n = IF \E s \in E : s.addr = a THEN 1 ELSE 0

LEMMA StagesCounted ==
  ASSUME OnLine, LInv, NEW p \in Procs, NEW a
  PROVE  /\ Counts(Cardinality(Broadcasting(p, a)), Announcing(Net, activeRequests, p), a)
         /\ Counts(Cardinality({e \in activeRequests[p] : e.addr = a /\ AddsUp(p, e)}),
                   Collecting(activeRequests, p), a)
         /\ Counts(Cardinality(CarriedIn(AskingFor(p, a)))
                     + Cardinality(WaitingIn(AskingFor(p, a))), Asking(Net, p), a)
         /\ Counts(Cardinality(CarriedIn(AnswersFor(p, a)))
                     + Cardinality(WaitingIn(AnswersFor(p, a))), Returning(Net, p), a)
         /\ Counts(Cardinality({memRequest} \cap {[addr |-> a, procNum |-> p]}),
                   Waited(memRequest, p), a)
         /\ Cardinality({i \in DOMAIN memoryRequests :
                           memoryRequests[i] = [addr |-> a, procNum |-> p]}) = 0
<1>1. /\ Typed /\ Orderly(pendingReq, linkQueue)
      /\ MessagesOK(Net, globalMsgCount) /\ Single(Net)
      /\ EntriesOK(Net, activeRequests, globalMsgCount)
      /\ ErrandsOK(Net, activeRequests, memRequest, Awaits)
      /\ memRequest \in MemRequests \cup {NULL} /\ memoryRequests = <<>>
  BY DEF LInv, Accounts, MemoryInStep
<1>0. \A s, n, b : Errand(s, n, b).addr = b
  BY DEF Errand
<1>2. Counts(Cardinality(Broadcasting(p, a)), Announcing(Net, activeRequests, p), a)
  <2> DEFINE B == Broadcasting(p, a)
             A == Announcing(Net, activeRequests, p)
  <2>1. ASSUME NEW m \in B, NEW n \in B PROVE m = n
    <3>1. Errand("broadcast", m, a) \in A /\ Errand("broadcast", n, a) \in A
      BY BroadcastingIs
    <3>2. \A s, t \in A : s = t
      BY <1>1 DEF ErrandsOK, Errands
    <3> HIDE DEF A
    <3>3. Errand("broadcast", m, a) = Errand("broadcast", n, a)
      BY <3>1, <3>2
    <3> QED
      BY <3>3, ErrandsTold
  <2>2. B # {} <=> \E s \in A : s.addr = a
    <3>1. ASSUME NEW n \in B PROVE \E s \in A : s.addr = a
      <4>1. Errand("broadcast", n, a) \in A /\ Errand("broadcast", n, a).addr = a
        BY BroadcastingIs DEF Errand
      <4> QED
        BY <4>1
    <3>2. ASSUME NEW s \in A, s.addr = a PROVE B # {}
      <4>1. PICK x \in Net : s = Errand("broadcast", x.msg.msgNum, x.msg.addr)
        BY DEF Announcing
      <4>2. s = Errand("broadcast", x.msg.msgNum, a)
        BY <3>2, <4>1 DEF Errand
      <4>3. x.msg.msgNum \in B
        BY <4>2, BroadcastingIs
      <4> QED
        BY <4>3
    <3> QED
      BY <3>1, <3>2
  <2> HIDE DEF A, B
  <2>3. Cardinality(B) = IF B = {} THEN 0 ELSE 1
    BY <2>1, CountedOne
  <2>4. Counts(Cardinality(B), A, a)
    BY <2>2, <2>3 DEF Counts
  <2> QED
    BY <2>4 DEF A, B
<1>3. Counts(Cardinality({e \in activeRequests[p] : e.addr = a /\ AddsUp(p, e)}),
             Collecting(activeRequests, p), a)
  <2> DEFINE B == {e \in activeRequests[p] : e.addr = a /\ AddsUp(p, e)}
             A == Collecting(activeRequests, p)
  <2>1. \A e, f \in B : e = f
    BY <1>1 DEF EntriesOK
  <2>2. B = {e \in activeRequests[p] : e.addr = a}
    BY LineAcksAddUp
  <2>3. B # {} <=> \E s \in A : s.addr = a
    BY <1>0, <2>2 DEF Collecting
  <2> HIDE DEF A, B
  <2>4. Cardinality(B) = IF B = {} THEN 0 ELSE 1
    BY <2>1, CountedOne
  <2>5. Counts(Cardinality(B), A, a)
    BY <2>3, <2>4 DEF Counts
  <2> QED
    BY <2>5 DEF A, B
<1>4. Counts(Cardinality(CarriedIn(AskingFor(p, a))) + Cardinality(WaitingIn(AskingFor(p, a))),
             Asking(Net, p), a)
  <2> DEFINE B == Bearing(AskingFor(p, a))
  <2>1. \A x : x \in B <=> x \in Net /\ ToMemory(x.msg) /\ x.msg.pSrc = p /\ x.msg.addr = a
    BY <1>1, Kinds DEF Bearing, AskingFor, ToMemory
  <2>2. ASSUME NEW x \in B, NEW y \in B PROVE x = y
    <3>1. /\ x \in Net /\ ToMemory(x.msg) /\ x.msg.pSrc = p
          /\ y \in Net /\ ToMemory(y.msg) /\ y.msg.pSrc = p
      BY <2>1
    <3>2. x.msg.pDest = Memory /\ x.msg.msgNum = -2 /\ ~IsBroadcast(x.msg)
      BY <1>1, <3>1, Kinds
    <3>3. y.msg.pDest = Memory /\ y.msg.msgNum = -2 /\ ~IsBroadcast(y.msg)
      BY <1>1, <3>1, Kinds
    <3> QED
      BY <1>1, <3>1, <3>2, <3>3, OneSuch
  <2>3. B # {} <=> \E s \in Asking(Net, p) : s.addr = a
    BY <1>0, <2>1 DEF Asking
  <2> HIDE DEF B
  <2>4. IsFiniteSet(B) /\ Cardinality(B) = IF B = {} THEN 0 ELSE 1
    BY <2>2, CountedOne
  <2>5. Cardinality(CarriedIn(AskingFor(p, a))) + Cardinality(WaitingIn(AskingFor(p, a)))
          = Cardinality(B)
    BY <1>1, <2>4, FlightCounted DEF B
  <2> QED
    BY <2>3, <2>4, <2>5 DEF Counts
<1>5. Counts(Cardinality(CarriedIn(AnswersFor(p, a))) + Cardinality(WaitingIn(AnswersFor(p, a))),
             Returning(Net, p), a)
  <2> DEFINE B == Bearing(AnswersFor(p, a))
  <2>1. \A x : x \in B <=> x \in Net /\ FromMemory(x.msg) /\ x.msg.pDest = p /\ x.msg.addr = a
    BY <1>1, Kinds DEF Bearing, AnswersFor, FromMemory
  <2>2. ASSUME NEW x \in B, NEW y \in B PROVE x = y
    <3>1. /\ x \in Net /\ FromMemory(x.msg) /\ x.msg.pDest = p
          /\ y \in Net /\ FromMemory(y.msg) /\ y.msg.pDest = p
      BY <2>1
    <3>2. x.msg.pSrc = Memory /\ x.msg.msgNum = -2 /\ ~IsBroadcast(x.msg)
      BY <1>1, <3>1, Kinds DEF FromMemory
    <3>3. y.msg.pSrc = Memory /\ y.msg.msgNum = -2 /\ ~IsBroadcast(y.msg)
      BY <1>1, <3>1, Kinds DEF FromMemory
    <3> QED
      BY <1>1, <3>1, <3>2, <3>3, OneSuch
  <2>3. B # {} <=> \E s \in Returning(Net, p) : s.addr = a
    BY <1>0, <2>1 DEF Returning
  <2> HIDE DEF B
  <2>4. IsFiniteSet(B) /\ Cardinality(B) = IF B = {} THEN 0 ELSE 1
    BY <2>2, CountedOne
  <2>5. Cardinality(CarriedIn(AnswersFor(p, a))) + Cardinality(WaitingIn(AnswersFor(p, a)))
          = Cardinality(B)
    BY <1>1, <2>4, FlightCounted DEF B
  <2> QED
    BY <2>3, <2>4, <2>5 DEF Counts
<1>6. Counts(Cardinality({memRequest} \cap {[addr |-> a, procNum |-> p]}),
             Waited(memRequest, p), a)
  <2> DEFINE asked == [addr |-> a, procNum |-> p]
             B == {memRequest} \cap {asked}
  <2>1. B # {} <=> \E s \in Waited(memRequest, p) : s.addr = a
    <3>1. CASE memRequest = NULL
      <4>1. asked.addr = a /\ asked.procNum = p
        OBVIOUS
      <4>2. B # {} => a \in Addrs
        OBVIOUS
      <4> QED
        BY <3>1, NullAssumption DEF Waited
    <3>2. CASE memRequest # NULL
      <4>1. memRequest \in MemRequests
        BY <1>1, <3>2
      <4>2. memRequest = asked <=> memRequest.addr = a /\ memRequest.procNum = p
        BY <4>1 DEF MemRequests
      <4>3. B # {} <=> memRequest = asked
        OBVIOUS
      <4> HIDE DEF B, asked
      <4>4. CASE memRequest.procNum = p
        <5>1. Waited(memRequest, p) = {Errand("memory", 0, memRequest.addr)}
          BY <4>1, <4>4, WaitedFor
        <5> QED
          BY <1>0, <4>2, <4>3, <4>4, <5>1
      <4>5. CASE memRequest.procNum # p
        <5>1. Waited(memRequest, p) = {}
          BY <4>1, <4>5, WaitedFor
        <5> QED
          BY <4>2, <4>3, <4>5, <5>1
      <4> QED
        BY <4>4, <4>5
    <3> QED
      BY <3>1, <3>2
  <2>2. \A x, y \in B : x = y
    OBVIOUS
  <2> HIDE DEF B
  <2>3. Cardinality(B) = IF B = {} THEN 0 ELSE 1
    BY <2>2, CountedOne
  <2>4. Counts(Cardinality(B), Waited(memRequest, p), a)
    BY <2>1, <2>3 DEF Counts
  <2> QED
    BY <2>4 DEF B
<1>7. Cardinality({i \in DOMAIN memoryRequests :
                     memoryRequests[i] = [addr |-> a, procNum |-> p]}) = 0
  <2>1. {i \in DOMAIN memoryRequests : memoryRequests[i] = [addr |-> a, procNum |-> p]} = {}
    BY <1>1
  <2> QED
    BY <2>1, FS_EmptySet
<1> QED
  BY <1>2, <1>3, <1>4, <1>5, <1>6, <1>7

LEMMA LineOneCarrierOf ==
  ASSUME OnLine, LInv, NEW p \in Procs, NEW a \in Addrs
  PROVE  Carriers(p, a) = IF Transient(p, a) THEN 1 ELSE 0
<1> DEFINE kinds == <<Announcing(Net, activeRequests, p), Collecting(activeRequests, p),
                      Asking(Net, p), Waited(memRequest, p), Returning(Net, p)>>
<1>1. /\ Typed /\ ErrandsOK(Net, activeRequests, memRequest, Awaits)
  BY DEF LInv, Accounts
<1>2. Transient(p, a) <=> \E s \in Errands(Net, activeRequests, memRequest, p) : s.addr = a
  <2>1. Awaits[p] = {s.addr : s \in Errands(Net, activeRequests, memRequest, p)}
    BY <1>1 DEF ErrandsOK
  <2>2. Transient(p, a) <=> a \in Awaits[p]
    BY DEF Awaits
  <2> QED
    BY <2>1, <2>2
<1>3. PICK b, c, k, r, w :
        /\ b = Cardinality(Broadcasting(p, a))
        /\ c = Cardinality({e \in activeRequests[p] : e.addr = a /\ AddsUp(p, e)})
        /\ k = Cardinality(CarriedIn(AskingFor(p, a))) + Cardinality(WaitingIn(AskingFor(p, a)))
        /\ r = Cardinality(CarriedIn(AnswersFor(p, a)))
               + Cardinality(WaitingIn(AnswersFor(p, a)))
        /\ w = Cardinality({memRequest} \cap {[addr |-> a, procNum |-> p]})
  OBVIOUS
<1>4. Carriers(p, a) = b + c + k + r + 0 + w
  BY <1>1, <1>3, CarriersIs, StagesCounted
<1>5. /\ Counts(b, Announcing(Net, activeRequests, p), a)
      /\ Counts(c, Collecting(activeRequests, p), a)
      /\ Counts(k, Asking(Net, p), a)
      /\ Counts(r, Returning(Net, p), a)
      /\ Counts(w, Waited(memRequest, p), a)
  BY <1>3, StagesCounted
<1>6. CASE ~Transient(p, a)
  <2>1. b = 0 /\ c = 0 /\ k = 0 /\ r = 0 /\ w = 0
    BY <1>2, <1>5, <1>6 DEF Counts, Errands
  <2> QED
    BY <1>4, <1>6, <2>1
<1>7. CASE Transient(p, a)
  <2>1. PICK s \in Errands(Net, activeRequests, memRequest, p) : s.addr = a
    BY <1>2, <1>7
  <2>2. /\ s.stage # "broadcast" => Announcing(Net, activeRequests, p) = {}
        /\ s.stage # "acks" => Collecting(activeRequests, p) = {}
        /\ s.stage # "asking" => Asking(Net, p) = {}
        /\ s.stage # "memory" => Waited(memRequest, p) = {}
        /\ s.stage # "answer" => Returning(Net, p) = {}
    BY <1>1, Alone
  <2>3. CASE s \in Announcing(Net, activeRequests, p)
    <3>1. s.stage = "broadcast"
      BY <2>3 DEF Announcing, Errand
    <3>2. b = 1 /\ c = 0 /\ k = 0 /\ r = 0 /\ w = 0
      BY <1>5, <2>1, <2>2, <2>3, <3>1 DEF Counts
    <3> QED
      BY <1>4, <1>7, <3>2
  <2>4. CASE s \in Collecting(activeRequests, p)
    <3>1. s.stage = "acks"
      BY <2>4 DEF Collecting, Errand
    <3>2. b = 0 /\ c = 1 /\ k = 0 /\ r = 0 /\ w = 0
      BY <1>5, <2>1, <2>2, <2>4, <3>1 DEF Counts
    <3> QED
      BY <1>4, <1>7, <3>2
  <2>5. CASE s \in Asking(Net, p)
    <3>1. s.stage = "asking"
      BY <2>5 DEF Asking, Errand
    <3>2. b = 0 /\ c = 0 /\ k = 1 /\ r = 0 /\ w = 0
      BY <1>5, <2>1, <2>2, <2>5, <3>1 DEF Counts
    <3> QED
      BY <1>4, <1>7, <3>2
  <2>6. CASE s \in Waited(memRequest, p)
    <3>1. s.stage = "memory"
      BY <2>6 DEF Waited, Errand
    <3>2. b = 0 /\ c = 0 /\ k = 0 /\ r = 0 /\ w = 1
      BY <1>5, <2>1, <2>2, <2>6, <3>1 DEF Counts
    <3> QED
      BY <1>4, <1>7, <3>2
  <2>7. CASE s \in Returning(Net, p)
    <3>1. s.stage = "answer"
      BY <2>7 DEF Returning, Errand
    <3>2. b = 0 /\ c = 0 /\ k = 0 /\ r = 1 /\ w = 0
      BY <1>5, <2>1, <2>2, <2>7, <3>1 DEF Counts
    <3> QED
      BY <1>4, <1>7, <3>2
  <2> QED
    BY <2>1, <2>3, <2>4, <2>5, <2>6, <2>7 DEF Errands
<1> QED
  BY <1>6, <1>7

(* On the line, under MI and MSI, no assertion of lineTick(), of the       *)
(* coherence component or of the cache fails: every ack finds the entry it *)
(* is for, no processor is counted twice, no request meets a busy memory   *)
(* and every snoop finds a state that expects it.                          *)
THEOREM LineNoAssertionFails == ASSUME OnLine, BasicScheme PROVE Spec => []NoAssertionFails
<1>1. LInv => NoAssertionFails
  BY DEF LInv, NoAssertionFails
<1> QED
  BY <1>1, LineInvariant, PTL

(* On the line each of the n - 1 answers that a broadcast waits for has    *)
(* been counted, is on its way, or is still to come from a processor that  *)
(* the broadcast will reach: none is lost or given twice (lineTick()).     *)
THEOREM LineAcksComplete == ASSUME OnLine, BasicScheme PROVE Spec => []AcksAddUp
<1>1. OnLine /\ LInv => AcksAddUp
  BY LineAcksAddUp DEF AcksAddUp
<1> QED
  BY <1>1, LineInvariant, PTL

(* On the line a block that is waited for has exactly one thing under way  *)
(* for it, and one that is not has none: no request is lost between the    *)
(* coherence protocol, the links and the memory, and none is repeated.     *)
THEOREM LineOneCarrier == ASSUME OnLine, BasicScheme PROVE Spec => []OneCarrier
<1>1. OnLine /\ LInv => OneCarrier
  BY LineOneCarrierOf DEF OneCarrier
<1> QED
  BY <1>1, LineInvariant, PTL

(* On the line the memory, which asks busReqCacheTransfer() at every tick, *)
(* is never told that a cache has sent the block it is reading.            *)
THEOREM LineNoSquelch == ASSUME OnLine, BasicScheme PROVE Spec => []NoSquelch
<1>1. OnLine /\ LInv => NoSquelch
  BY NoTransfer DEF NoSquelch
<1> QED
  BY <1>1, LineInvariant, PTL

(* On the line each processor that waits has exactly one request at its    *)
(* cache, for the operation it waits for, and no other does (pendReq and   *)
(* readyReq of simpleCache, pendingMem of the processor).                  *)
THEOREM LineRequestsMatch == ASSUME OnLine, BasicScheme PROVE Spec => []RequestsMatch
<1>1. LInv => RequestsMatch
  BY DEF LInv
<1> QED
  BY <1>1, LineInvariant, PTL
----------------------------------------------------------------------------
(* Single writer, many readers, for a block that was never raced for.      *)
Writes == {"INVALID_MODIFIED", "SHARED_MODIFIED"}

(* Of two processors in the states s and t: who writes is the only one that*)
(* waits, and has yet to reach the copies; who reads has yet to reach the  *)
(* owner; who owns the block is alone.                                     *)
Apart(s, t, net, p, q, a) ==
  /\ s \in Writes => t \notin TransientStates
  /\ s \in Writes /\ t \in Copies => q \in Reaches(net, p, "BUSWR", a)
  /\ s = "INVALID_SHARED" /\ t \in Owners => q \in Reaches(net, p, "BUSRD", a)
  /\ s \in Owners => t \notin Copies
KeptApart(a) ==
  \A p, q \in Procs :
    p # q => Apart(coherStates[p][a], coherStates[q][a], Net, p, q, a)
SInv == LInv /\ \A a \in Addrs \ raced : KeptApart(a)

LEMMA KindsOfStates ==
  ASSUME BasicScheme, NEW st \in UsedStates
  PROVE  /\ st \in Owners <=> st = "MODIFIED"
         /\ st \in Copies <=> st = "MODIFIED" \/ st = "SHARE"
         /\ st \in TransientStates <=> st = "INVALID_SHARED" \/ st \in Writes
         /\ st \in Writes => st # "INVALID_SHARED" /\ st \notin Copies
         /\ st \in TransientStates => st \notin Copies
  BY DEF BasicScheme, UsedStates, MIStates, MSIStates, TransientStates, Writes, Owners, Copies

(* The states of the two change as little as the messages do.              *)
LEMMA ApartSame ==
  ASSUME NEW s, NEW t, NEW net, NEW net2, NEW p, NEW q, NEW a,
         Apart(s, t, net, p, q, a),
         \A brt \in {"BUSRD", "BUSWR"} :
           q \in Reaches(net, p, brt, a) => q \in Reaches(net2, p, brt, a)
  PROVE  Apart(s, t, net2, p, q, a)
  BY DEF Apart

LEMMA ApartSnooped ==
  ASSUME BasicScheme, NEW s \in UsedStates, NEW t \in UsedStates, NEW net, NEW net2,
         NEW p \in Procs, NEW q \in Procs, p # q, NEW a, NEW brt \in {"BUSRD", "BUSWR"},
         Apart(s, t, net, p, q, a)
  PROVE  /\ OneLost(net, net2, p, brt, a) => Apart(SnoopStep(brt, s).next, t, net2, p, q, a)
         /\ OneLost(net, net2, q, brt, a) => Apart(s, SnoopStep(brt, t).next, net2, p, q, a)
<1>1. ASSUME OneLost(net, net2, p, brt, a)
      PROVE  Apart(SnoopStep(brt, s).next, t, net2, p, q, a)
  <2>1. Apart(s, t, net2, p, q, a)
    BY <1>1, ApartSame DEF OneLost
  <2>2. CASE s \in TransientStates
    BY <2>1, <2>2, SnoopTable
  <2>3. CASE s \notin TransientStates
    <3>1. SnoopStep(brt, s).next \in {"INVALID", "SHARE"}
      BY <2>3, SnoopTable
    <3> QED
      BY <3>1 DEF Apart, Writes, Owners
  <2> QED
    BY <2>2, <2>3
<1>2. ASSUME OneLost(net, net2, q, brt, a)
      PROVE  Apart(s, SnoopStep(brt, t).next, net2, p, q, a)
  <2>1. PICK u : u = SnoopStep(brt, t).next
    OBVIOUS
  <2>2. /\ u \in UsedStates
        /\ t \in TransientStates => u = t
        /\ t \notin TransientStates => u \in {"INVALID", "SHARE"}
        /\ u = "SHARE" => brt = "BUSRD" /\ t \in {"SHARE", "MODIFIED"}
    BY <2>1, SnoopTable
  <2>3. /\ u \notin Owners
        /\ u \in TransientStates => t \in TransientStates
        /\ u \in Copies => t \in Copies /\ brt = "BUSRD"
    <3>1. CASE t \in TransientStates
      BY <2>2, <3>1, KindsOfStates
    <3>2. CASE t \notin TransientStates
      <4>1. u \in {"INVALID", "SHARE"}
        BY <2>2, <3>2
      <4>2. u \notin Owners /\ u \notin TransientStates
        BY <4>1 DEF Owners, TransientStates
      <4>3. u \in Copies => u = "SHARE"
        BY <4>1 DEF Copies
      <4>4. "SHARE" \in Copies /\ "MODIFIED" \in Copies
        BY DEF Copies
      <4> QED
        BY <2>2, <4>2, <4>3, <4>4
    <3> QED
      BY <3>1, <3>2
  <2>4. brt = "BUSRD" => (q \in Reaches(net, p, "BUSWR", a) => q \in Reaches(net2, p, "BUSWR", a))
    BY <1>2 DEF OneLost
  <2> QED
    BY <2>1, <2>3, <2>4 DEF Apart
<1> QED
  BY <1>1, <1>2

LEMMA ApartAnswered ==
  ASSUME BasicScheme, NEW s \in UsedStates, NEW t \in UsedStates, NEW net, NEW net2,
         NEW p \in Procs, NEW q \in Procs, p # q, NEW a,
         Apart(s, t, net, p, q, a), Apart(t, s, net, q, p, a), Silent(net, p),
         s \in TransientStates
  PROVE  LET u == SnoopStep("DATA", s).next IN
         Apart(u, t, net2, p, q, a) /\ Apart(t, u, net2, q, p, a)
<1>1. PICK u : u = SnoopStep("DATA", s).next
  OBVIOUS
<1>2. u = (IF s = "INVALID_SHARED" THEN "SHARE" ELSE "MODIFIED") /\ u \in UsedStates
  BY <1>1, AnswerTable
<1>3. \A brt : Reaches(net, p, brt, a) = {}
  BY DEF Reaches, Silent
<1>4. /\ s \in Writes => t \notin Copies
      /\ t \notin Writes
      /\ s = "INVALID_SHARED" => t \notin Owners
      /\ s \in Writes => t # "INVALID_SHARED"
  BY <1>3, KindsOfStates DEF Apart
<1>5. /\ u \notin Writes /\ u # "INVALID_SHARED" /\ u \notin TransientStates
      /\ u \in Owners <=> s \in Writes
      /\ t \in Owners => t \in Copies
  BY <1>2, KindsOfStates
<1> QED
  BY <1>1, <1>4, <1>5, KindsOfStates DEF Apart

(* A step keeps the two apart, unless they now race for the block.         *)
LEMMA StaysApart ==
  ASSUME OnLine, BasicScheme, LInv, LInv', LineStep,
         NEW a \in Addrs, KeptApart(a), ~Conflict(a)'
  PROVE  KeptApart(a)'
<1> SUFFICES ASSUME NEW p \in Procs, NEW q \in Procs, p # q
             PROVE  Apart(coherStates'[p][a], coherStates'[q][a], Net', p, q, a)
  BY DEF KeptApart
<1>1. PICK s \in UsedStates, t \in UsedStates : s = coherStates[p][a] /\ t = coherStates[q][a]
  BY DEF LInv, StatesUsed
<1>2. PICK s2 \in UsedStates, t2 \in UsedStates :
        s2 = coherStates'[p][a] /\ t2 = coherStates'[q][a]
  BY DEF LInv, StatesUsed
<1>3. PICK net : net = Net
  OBVIOUS
<1>4. PICK net2 : net2 = Net'
  OBVIOUS
<1>5. Apart(s, t, net, p, q, a) /\ Apart(t, s, net, q, p, a)
  BY <1>1, <1>3 DEF KeptApart
<1>6. s2 \in Writes => t2 \notin TransientStates
  BY <1>2 DEF Conflict, Writing, Transient, Writes
<1>7. ASSUME s2 = s, t2 = t,
             \A brt \in {"BUSRD", "BUSWR"} :
               q \in Reaches(net, p, brt, a) => q \in Reaches(net2, p, brt, a)
      PROVE  Apart(s2, t2, net2, p, q, a)
  BY <1>5, <1>7, ApartSame
<1>8. CASE Undisturbed
  <2>1. s2 = s /\ t2 = t /\ NoneLost(net, net2)
    BY <1>1, <1>2, <1>3, <1>4, <1>8 DEF Undisturbed
  <2> QED
    BY <1>2, <1>4, <1>7, <2>1 DEF NoneLost
<1>9. ASSUME NEW h \in Procs, NEW brt \in {"BUSRD", "BUSWR"}, NEW c \in Addrs,
             SnoopsAt(h, brt, c)
      PROVE  Apart(s2, t2, net2, p, q, a)
  <2>1. /\ s2 = IF h = p /\ c = a THEN SnoopStep(brt, s).next ELSE s
        /\ t2 = IF h = q /\ c = a THEN SnoopStep(brt, t).next ELSE t
        /\ OneLost(net, net2, h, brt, c)
    BY <1>1, <1>2, <1>3, <1>4, <1>9 DEF SnoopsAt, Becomes, SnoopOf
  <2>2. CASE c = a /\ h = p
    BY <1>5, <2>1, <2>2, ApartSnooped
  <2>3. CASE c = a /\ h = q
    BY <1>5, <2>1, <2>3, ApartSnooped
  <2>4. CASE ~(c = a /\ (h = p \/ h = q))
    BY <1>7, <2>1, <2>4 DEF OneLost
  <2> QED
    BY <2>2, <2>3, <2>4
<1>10. ASSUME NEW h \in Procs, NEW c \in Addrs, IsAnswered(h, c)
       PROVE  Apart(s2, t2, net2, p, q, a)
  <2>1. /\ s2 = IF h = p /\ c = a THEN SnoopStep("DATA", s).next ELSE s
        /\ t2 = IF h = q /\ c = a THEN SnoopStep("DATA", t).next ELSE t
        /\ NoneLost(net, net2) /\ Silent(net, h)
        /\ h = p /\ c = a => s \in TransientStates
        /\ h = q /\ c = a => t \in TransientStates
    BY <1>1, <1>2, <1>3, <1>4, <1>10 DEF IsAnswered, Becomes, SnoopOf, Transient
  <2>2. CASE c = a /\ h = p
    BY <1>5, <2>1, <2>2, ApartAnswered
  <2>3. CASE c = a /\ h = q
    BY <1>5, <2>1, <2>3, ApartAnswered
  <2>4. CASE ~(c = a /\ (h = p \/ h = q))
    BY <1>7, <2>1, <2>4 DEF NoneLost
  <2> QED
    BY <2>2, <2>3, <2>4
<1>11. ASSUME NEW h \in Procs, NEW brt \in {"BUSRD", "BUSWR"}, NEW c \in Addrs,
              NEW st \in UsedStates, Misses(h, brt, c, st)
       PROVE  Apart(s2, t2, net2, p, q, a)
  <2>1. /\ s2 = IF h = p /\ c = a THEN st ELSE s
        /\ t2 = IF h = q /\ c = a THEN st ELSE t
        /\ NoneLost(net, net2) /\ st \in TransientStates
        /\ brt = IF st = "INVALID_SHARED" THEN "BUSRD" ELSE "BUSWR"
        /\ h = p => q \in Reaches(net2, p, brt, c)
    BY <1>1, <1>2, <1>3, <1>4, <1>11 DEF Misses, Becomes
  <2>2. CASE c = a /\ h = p
    BY <1>6, <2>1, <2>2, KindsOfStates DEF Apart
  <2>3. CASE c = a /\ h = q
    <3>1. t2 \notin Copies /\ t2 \notin Owners
      BY <2>1, <2>3, KindsOfStates
    <3> QED
      BY <1>6, <3>1 DEF Apart
  <2>4. CASE ~(c = a /\ (h = p \/ h = q))
    BY <1>7, <2>1, <2>4 DEF NoneLost
  <2> QED
    BY <2>2, <2>3, <2>4
<1> QED
  BY <1>2, <1>4, <1>8, <1>9, <1>10, <1>11 DEF LineStep

LEMMA SInvStep ==
  ASSUME OnLine, BasicScheme, SInv, [MCNext]_<<vars, raced>>
  PROVE  SInv'
<1>1. [Next]_vars
  BY DEF MCNext
<1>2. LInv' /\ LineStep
  BY <1>1, LineStepIs DEF SInv
<1> SUFFICES ASSUME NEW a \in Addrs \ raced' PROVE KeptApart(a)'
  BY <1>2 DEF SInv
<1>3. CASE MCNext
  <2>1. a \notin raced /\ ~Conflict(a)'
    BY <1>3 DEF MCNext
  <2> QED
    BY <1>2, <2>1, StaysApart DEF SInv
<1>4. CASE UNCHANGED <<vars, raced>>
  <2>1. KeptApart(a)
    BY <1>4 DEF SInv
  <2>2. coherStates' = coherStates /\ Net' = Net
    BY <1>4 DEF vars, coreVars, linkVars, Net
  <2> QED
    BY <2>1, <2>2 DEF KeptApart
<1> QED
  BY <1>3, <1>4

(* Under MI and MSI, a block of the line for which no write ever competed  *)
(* with another request has one writer or many readers, however the        *)
(* messages overtake each other: a copy is given up before the last ack is *)
(* counted (permReq and busReq over lineTick()).                           *)
THEOREM LineSWMRUnlessRaced ==
  ASSUME OnLine, BasicScheme PROVE MCSpec => []SWMRUnlessRaced
<1>1. MCInit => SInv
  <2> SUFFICES ASSUME MCInit PROVE SInv
    OBVIOUS
  <2>1. LInv /\ \A p \in Procs, a \in Addrs : coherStates[p][a] = "INVALID"
    BY LineInitOK DEF MCInit, Init, CoresInit
  <2>2. "INVALID" \notin Writes /\ "INVALID" \notin Owners /\ "INVALID" # "INVALID_SHARED"
    BY DEF Writes, Owners
  <2> QED
    BY <2>1, <2>2 DEF SInv, KeptApart, Apart
<1>2. SInv /\ [MCNext]_<<vars, raced>> => SInv'
  BY SInvStep
<1>3. SInv => SWMRUnlessRaced
  BY DEF SInv, KeptApart, Apart, SWMRUnlessRaced, SingleWriter
<1> QED
  BY <1>1, <1>2, <1>3, PTL DEF MCSpec
----------------------------------------------------------------------------
(* How far apart two nodes are, counted in rows and columns.               *)
Abs(x) == IF x < 0 THEN -x ELSE x

Row(n)    == n \div Cols
Column(n) == n % Cols

Far(a, b) ==
  IF Topology = "line" THEN Abs(a - b)
  ELSE Abs(Row(a) - Row(b)) + Abs(Column(a) - Column(b))

(* Rows and columns name the nodes; only the last row may be short.        *)
LEMMA Place ==
  /\ \A n \in Nodes : /\ n \in Nat /\ Row(n) \in 0 .. FullRows /\ Column(n) \in 0 .. Cols - 1
                      /\ n = Row(n) * Cols + Column(n)
                      /\ Row(n) = FullRows => Column(n) < LastRow
  /\ \A r \in 0 .. FullRows, c \in 0 .. Cols - 1 :
       (r = FullRows => c < LastRow) =>
         /\ r * Cols + c \in Nodes
         /\ Row(r * Cols + c) = r /\ Column(r * Cols + c) = c
<1> DEFINE C == Cols
           F == FullRows
           R == LastRow
<1>1. /\ C \in Nat /\ C > 1 /\ R \in 1 .. C /\ F \in Nat /\ F > 0
      /\ F * C + R = ProcessorCount + 1 /\ ProcessorCount \in Nat
  BY MeshShape, ProcessorAssumption DEF Size
<1> HIDE DEF C, F, R
<1>2. F * C \in Nat /\ C \in Nat \ {0}
  BY <1>1
<1>3. ASSUME NEW n \in Nodes
      PROVE  /\ n \in Nat /\ n \div C \in 0 .. F /\ n % C \in 0 .. C - 1
             /\ n = (n \div C) * C + (n % C)
             /\ (n \div C) = F => (n % C) < R
  <2> DEFINE r == n \div C
             c == n % C
  <2>1. n \in Nat /\ n < ProcessorCount + 1
    BY <1>1 DEF Nodes
  <2>2. r \in Nat /\ c \in 0 .. C - 1 /\ n = r * C + c
    BY <1>2, <2>1, Division
  <2> HIDE DEF r, c
  <2>3. r * C \in Nat
    BY <1>1, <2>2
  <2>4. ~(F < r)
    <3> SUFFICES ASSUME F < r PROVE FALSE
      OBVIOUS
    <3>1. F * C + C <= r * C
      BY <1>1, <1>2, <2>2, MultipleOrder
    <3> QED
      BY <1>1, <1>2, <2>1, <2>2, <2>3, <3>1
  <2>5. r = F => c < R
    BY <1>1, <1>2, <2>1, <2>2
  <2>6. r \in 0 .. F
    BY <1>1, <2>2, <2>4
  <2> QED
    BY <2>1, <2>2, <2>5, <2>6 DEF r, c
<1>4. ASSUME NEW r \in 0 .. F, NEW c \in 0 .. C - 1, r = F => c < R
      PROVE  r * C + c \in Nodes /\ (r * C + c) \div C = r /\ (r * C + c) % C = c
  <2>1. r \in Nat /\ c \in Nat /\ r * C \in Nat
    BY <1>1
  <2>2. (r * C + c) \div C = r /\ (r * C + c) % C = c
    BY <1>2, <2>1, Quotient
  <2>3. r * C + c < F * C + R
    <3>1. CASE r = F
      BY <1>1, <1>2, <1>4, <2>1, <3>1
    <3>2. CASE r # F
      <4>1. r < F
        BY <1>1, <3>2
      <4>2. r * C + C <= F * C
        BY <1>1, <1>2, <2>1, <4>1, MultipleOrder
      <4> QED
        BY <1>1, <1>2, <2>1, <4>2
    <3> QED
      BY <3>1, <3>2
  <2>4. r * C + c \in Nodes
    BY <1>1, <2>1, <2>3 DEF Nodes
  <2> QED
    BY <2>2, <2>4
<1> QED
  BY <1>3, <1>4 DEF Row, Column, C, F, R

LEMMA PlaceIs ==
  ASSUME NEW r \in Nat, NEW c \in 0 .. Cols - 1, NEW n, n = r * Cols + c
  PROVE  Row(n) = r /\ Column(n) = c
  BY MeshShape, Quotient DEF Row, Column

(* The neighbours of a node in its row and in its column.                  *)
LEMMA Neighbours ==
  ASSUME NEW p \in Nodes
  PROVE  /\ Column(p) + 1 < Cols /\ p + 1 \in Nodes =>
              Row(p + 1) = Row(p) /\ Column(p + 1) = Column(p) + 1
         /\ p + Cols \in Nodes =>
              Row(p + Cols) = Row(p) + 1 /\ Column(p + Cols) = Column(p)
         /\ Column(p) > 0 =>
              /\ p - 1 \in Nodes
              /\ Row(p - 1) = Row(p) /\ Column(p - 1) = Column(p) - 1
         /\ Row(p) > 0 =>
              /\ p - Cols \in Nodes
              /\ Row(p - Cols) = Row(p) - 1 /\ Column(p - Cols) = Column(p)
<1> DEFINE r == Row(p)
           c == Column(p)
<1>1. Cols \in Nat \ {0} /\ FullRows \in Nat /\ LastRow \in 1 .. Cols
  BY MeshShape
<1>2. /\ p \in Nat /\ r \in 0 .. FullRows /\ c \in 0 .. Cols - 1 /\ p = r * Cols + c
      /\ r = FullRows => c < LastRow
  BY Place
<1> HIDE DEF r, c
<1>3. r \in Nat /\ c \in Nat /\ r * Cols \in Nat
  BY <1>1, <1>2
<1>4. ASSUME c + 1 < Cols PROVE Row(p + 1) = r /\ Column(p + 1) = c + 1
  <2>1. p + 1 = r * Cols + (c + 1) /\ c + 1 \in 0 .. Cols - 1
    BY <1>1, <1>2, <1>3, <1>4
  <2> QED
    BY <1>1, <1>3, <2>1, PlaceIs
<1>5. Row(p + Cols) = r + 1 /\ Column(p + Cols) = c
  <2>1. (r + 1) * Cols = r * Cols + Cols
    BY <1>1, <1>3
  <2>2. p + Cols = (r + 1) * Cols + c /\ r + 1 \in Nat
    BY <1>1, <1>2, <1>3, <2>1
  <2> QED
    BY <1>1, <1>2, <2>2, PlaceIs
<1>6. ASSUME c > 0 PROVE p - 1 \in Nodes /\ Row(p - 1) = r /\ Column(p - 1) = c - 1
  <2>1. p - 1 = r * Cols + (c - 1) /\ c - 1 \in 0 .. Cols - 1
    BY <1>1, <1>2, <1>3, <1>6
  <2>2. p - 1 \in Nodes
    BY <1>2, <1>3, <1>6, ProcessorAssumption DEF Nodes
  <2> QED
    BY <1>1, <1>3, <2>1, <2>2, PlaceIs
<1>7. ASSUME r > 0 PROVE p - Cols \in Nodes /\ Row(p - Cols) = r - 1 /\ Column(p - Cols) = c
  <2>1. (r - 1) * Cols = r * Cols - Cols /\ r - 1 \in Nat
    BY <1>1, <1>3, <1>7
  <2>2. p - Cols = (r - 1) * Cols + c /\ (r - 1) * Cols \in Nat
    BY <1>1, <1>2, <1>3, <2>1
  <2>3. p - Cols \in Nat
    BY <1>3, <2>2
  <2>4. p - Cols \in Nodes
    BY <1>1, <1>2, <2>3, ProcessorAssumption DEF Nodes
  <2>5. Row(p - Cols) = r - 1 /\ Column(p - Cols) = c
    BY <1>1, <1>2, <2>1, <2>2, PlaceIs
  <2> QED
    BY <2>4, <2>5
<1> QED
  BY <1>4, <1>5, <1>6, <1>7 DEF r, c

LEMMA FirstIn ==
  ASSUME NEW S, S \subseteq Nat, S # {}
  PROVE  First(S) \in S
<1>1. \E l \in S : \A k \in S : l <= k
  BY SmallestOf
<1> QED
  BY <1>1 DEF First

(* The links of a mesh: along the rows, and along the columns.             *)
LEMMA MeshLinks ==
  ASSUME Topology = "mesh"
  PROVE  /\ LinkIds \subseteq Nat /\ RowLinks \in Nat
         /\ \A l \in LinkIds :
              /\ Proc1(l) \in Nodes /\ Proc2(l) \in Nodes /\ Proc1(l) # Proc2(l)
              /\ l < RowLinks => Proc2(l) = Proc1(l) + 1 /\ Column(Proc1(l)) + 1 < Cols
              /\ ~(l < RowLinks) => Proc2(l) = Proc1(l) + Cols
         /\ \A p \in Nodes :
              /\ Column(p) + 1 < Cols /\ p + 1 \in Nodes =>
                   \E l \in LinkIds : l < RowLinks /\ Proc1(l) = p /\ Proc2(l) = p + 1
              /\ p + Cols \in Nodes =>
                   \E l \in LinkIds : ~(l < RowLinks) /\ Proc1(l) = p /\ Proc2(l) = p + Cols
<1> DEFINE C == Cols
           F == FullRows
           R == LastRow
<1>1. /\ C \in Nat /\ C > 1 /\ R \in 1 .. C /\ F \in Nat /\ F > 0
      /\ F * C + R = ProcessorCount + 1 /\ ProcessorCount \in Nat
  BY MeshShape, ProcessorAssumption DEF Size
<1>2. /\ RowLinks = (C - 1) * F + (R - 1) /\ ColLinks = C * (F - 1) + R
      /\ NumLinks = RowLinks + ColLinks
  BY DEF RowLinks, ColLinks, NumLinks
<1>3. \A l : /\ l < RowLinks => /\ Proc1(l) = (l \div (C - 1)) * C + (l % (C - 1))
                                /\ Proc2(l) = Proc1(l) + 1
             /\ ~(l < RowLinks) => Proc1(l) = l - RowLinks /\ Proc2(l) = Proc1(l) + C
  BY DEF Proc1, Proc2
<1>4. \A l \in LinkIds : Proc1(l) \in Nodes /\ Proc2(l) \in Nodes /\ Proc1(l) # Proc2(l)
  BY LinkEnds
<1>5. \A p \in Nodes : /\ p \in Nat /\ p < ProcessorCount + 1
                       /\ Row(p) \in 0 .. F /\ Column(p) \in 0 .. C - 1
                       /\ p = Row(p) * C + Column(p) /\ (Row(p) = F => Column(p) < R)
  BY <1>1, Place DEF Nodes
<1> DEFINE B == C - 1
<1>6. B \in Nat \ {0} /\ C = B + 1
  BY <1>1
<1> HIDE DEF C, F, R, B
<1>7. /\ F * B \in Nat /\ (C - 1) * F = F * B /\ F * C = F * B + F
      /\ C * (F - 1) = F * C - C /\ F * C \in Nat /\ F * C >= C
  <2>1. F * C >= C
    <3>1. PICK e \in Nat : F = e + 1
      <4>1. F - 1 \in Nat /\ F = (F - 1) + 1
        BY <1>1
      <4> QED
        BY <4>1
    <3>2. F * C = e * C + C /\ e * C \in Nat
      BY <1>1, <3>1
    <3> QED
      BY <1>1, <3>2
  <2> QED
    BY <1>1, <1>6, <2>1 DEF B
<1>8. RowLinks \in Nat /\ ColLinks \in Nat /\ NumLinks \in Nat
      /\ RowLinks = F * B + R - 1 /\ ColLinks = F * C - C + R
  BY <1>1, <1>2, <1>6, <1>7
<1>9. \A l : l \in LinkIds <=> l \in Nat /\ l < RowLinks + ColLinks
  BY <1>2, <1>8 DEF LinkIds
<1>10. ASSUME NEW l \in LinkIds, l < RowLinks
       PROVE  Column(Proc1(l)) + 1 < C
  <2> DEFINE q == l \div B
             r == l % B
  <2>1. q \in Nat /\ r \in 0 .. B - 1 /\ l = q * B + r
    BY <1>6, <1>9, Division
  <2>2. Proc1(l) = q * C + r
    BY <1>3, <1>10 DEF B
  <2> HIDE DEF q, r
  <2>3. r \in 0 .. C - 1 /\ C \in Nat \ {0}
    BY <1>6, <2>1
  <2>4. (q * C + r) % C = r
    BY <2>1, <2>3, Quotient
  <2> QED
    BY <1>6, <2>1, <2>2, <2>4 DEF Column, C
<1>11. ASSUME NEW p \in Nodes, Column(p) + 1 < C, p + 1 \in Nodes
       PROVE  \E l \in LinkIds : l < RowLinks /\ Proc1(l) = p /\ Proc2(l) = p + 1
  <2> DEFINE q == Row(p)
             r == Column(p)
             l == q * B + r
  <2>1. /\ q \in Nat /\ q <= F /\ r \in 0 .. B - 1 /\ p = q * C + r /\ q * B \in Nat /\ q * C \in Nat
        /\ p + 1 < ProcessorCount + 1
    BY <1>1, <1>5, <1>6, <1>11
  <2> HIDE DEF q, r
  <2>2. l \in Nat
    BY <1>6, <2>1
  <2>3. l \div B = q /\ l % B = r
    BY <1>6, <2>1, Quotient
  <2>4. l < RowLinks
    <3>1. CASE q = F
      <4>1. r + 1 < R
        BY <1>1, <1>7, <2>1, <3>1
      <4> QED
        BY <1>1, <1>7, <1>8, <2>1, <3>1, <4>1
    <3>2. CASE q # F
      <4>1. q * B + B <= F * B
        BY <1>1, <1>6, <2>1, <3>2, MultipleOrder
      <4> QED
        BY <1>1, <1>6, <1>7, <1>8, <2>1, <4>1
    <3> QED
      BY <3>1, <3>2
  <2>5. l \in LinkIds
    BY <1>8, <1>9, <2>2, <2>4
  <2> HIDE DEF l
  <2>6. Proc1(l) = q * C + r /\ Proc2(l) = Proc1(l) + 1
    BY <1>3, <2>3, <2>4 DEF B
  <2> QED
    BY <2>1, <2>4, <2>5, <2>6
<1>12. ASSUME NEW p \in Nodes, p + C \in Nodes
       PROVE  \E l \in LinkIds : ~(l < RowLinks) /\ Proc1(l) = p /\ Proc2(l) = p + C
  <2>1. p \in Nat /\ p + C < ProcessorCount + 1
    BY <1>5, <1>12
  <2>2. p < ColLinks
    BY <1>1, <1>7, <1>8, <2>1
  <2>3. RowLinks + p \in LinkIds /\ ~(RowLinks + p < RowLinks)
    BY <1>8, <1>9, <2>1, <2>2
  <2>4. Proc1(RowLinks + p) = p /\ Proc2(RowLinks + p) = p + C
    BY <1>3, <1>8, <2>1, <2>3
  <2> QED
    BY <2>3, <2>4
<1>13. LinkIds \subseteq Nat /\ RowLinks \in Nat
  BY <1>8, <1>9
<1> QED
  BY <1>3, <1>4, <1>10, <1>11, <1>12, <1>13 DEF C

(* Far is a distance, and no two nodes are further apart than there are    *)
(* nodes.                                                                  *)
LEMMA FarIs ==
  ASSUME NEW a \in Nodes, NEW b \in Nodes
  PROVE  /\ Far(a, b) \in Nat /\ Far(a, b) = Far(b, a) /\ Far(a, b) <= Size
         /\ Far(a, b) = 0 <=> a = b
<1>1. a \in 0 .. ProcessorCount /\ b \in 0 .. ProcessorCount /\ ProcessorCount \in Nat
  BY ProcessorAssumption DEF Nodes
<1>2. CASE Topology = "line"
  BY <1>1, <1>2 DEF Far, Abs, Size
<1>3. CASE Topology # "line"
  <2> DEFINE ra == Row(a)
             rb == Row(b)
             ca == Column(a)
             cb == Column(b)
             F == FullRows
             C == Cols
             R == LastRow
  <2>1. /\ ra \in 0 .. F /\ rb \in 0 .. F /\ ca \in 0 .. C - 1 /\ cb \in 0 .. C - 1
        /\ a = ra * C + ca /\ b = rb * C + cb
    BY Place
  <2>2. Far(a, b) = Abs(ra - rb) + Abs(ca - cb) /\ Far(b, a) = Abs(rb - ra) + Abs(cb - ca)
    BY <1>3 DEF Far
  <2>3. C \in Nat /\ C > 1 /\ R \in 1 .. C /\ F \in Nat /\ F > 0 /\ F * C + R = Size
    BY MeshShape
  <2> HIDE DEF ra, rb, ca, cb, F, C, R
  <2>4. ra - rb = 0 /\ ca - cb = 0 <=> a = b
    <3>1. a = b => ra = rb /\ ca = cb
      BY DEF ra, rb, ca, cb
    <3>2. ra - rb = 0 /\ ca - cb = 0 => ra = rb /\ ca = cb
      BY <2>1, <2>3
    <3>3. ra = rb /\ ca = cb => ra - rb = 0 /\ ca - cb = 0
      BY <2>1, <2>3
    <3> QED
      BY <2>1, <3>1, <3>2, <3>3
  <2>5. Size \in Nat /\ F + C - 1 <= Size
    <3>1. PICK e \in Nat : F = e + 1
      <4>1. F - 1 \in Nat /\ F = (F - 1) + 1
        BY <2>3
      <4> QED
        BY <4>1
    <3>2. PICK d \in Nat : C = d + 1
      <4>1. C - 1 \in Nat /\ C = (C - 1) + 1
        BY <2>3
      <4> QED
        BY <4>1
    <3>3. F * C = e * d + e + d + 1 /\ e * d \in Nat
      BY <3>1, <3>2
    <3> QED
      BY <2>3, <3>1, <3>2, <3>3
  <2>6. /\ Abs(ra - rb) \in Nat /\ Abs(ca - cb) \in Nat
        /\ Abs(ra - rb) = Abs(rb - ra) /\ Abs(ca - cb) = Abs(cb - ca)
        /\ Abs(ra - rb) <= F /\ Abs(ca - cb) <= C - 1
        /\ Abs(ra - rb) = 0 <=> ra - rb = 0
        /\ Abs(ca - cb) = 0 <=> ca - cb = 0
    BY <2>1, <2>3 DEF Abs
  <2>7. Abs(ra - rb) + Abs(ca - cb) = 0 <=> a = b
    BY <2>4, <2>6
  <2> QED
    BY <2>2, <2>3, <2>5, <2>6, <2>7
<1> QED
  BY <1>2, <1>3

(* The end of a link is at most one further away than its other end.       *)
LEMMA FarAlong ==
  ASSUME Topology # "ring", NEW n \in Nodes, NEW l \in LinkIds, NEW m \in Ends(l)
  PROVE  Other(l, m) \in Nodes /\ Far(n, m) <= Far(n, Other(l, m)) + 1
<1>1. CASE OnLine
  <2>1. /\ ProcessorCount \in Nat /\ Nodes = 0 .. ProcessorCount
        /\ LinkIds = 0 .. ProcessorCount - 1
        /\ Proc1(l) = l /\ Proc2(l) = l + 1 /\ Ends(l) = {l, l + 1}
    BY <1>1, LineIs
  <2>2. \/ m = l /\ Other(l, m) = l + 1
        \/ m = l + 1 /\ Other(l, m) = l
    BY <2>1 DEF Other
  <2>3. Far(n, m) = Abs(n - m) /\ Far(n, Other(l, m)) = Abs(n - Other(l, m))
    BY <1>1 DEF Far, OnLine
  <2>4. n \in Int /\ l \in Int /\ l + 1 \in Nodes /\ l \in Nodes
    BY <2>1
  <2>5. CASE m = l /\ Other(l, m) = l + 1
    BY <2>3, <2>4, <2>5 DEF Abs
  <2>6. CASE m = l + 1 /\ Other(l, m) = l
    BY <2>3, <2>4, <2>6 DEF Abs
  <2> QED
    BY <2>2, <2>5, <2>6
<1>2. CASE ~OnLine
  <2>1. Topology = "mesh"
    BY <1>2, TopologyAssumption DEF OnLine
  <2> DEFINE p == Proc1(l)
             q == Proc2(l)
  <2>2. /\ p \in Nodes /\ q \in Nodes /\ p # q
        /\ l < RowLinks => q = p + 1 /\ Column(p) + 1 < Cols
        /\ ~(l < RowLinks) => q = p + Cols
    BY <2>1, MeshLinks
  <2>3. \/ m = p /\ Other(l, m) = q
        \/ m = q /\ Other(l, m) = p
    BY <2>2 DEF Ends, Other
  <2>4. \/ Row(q) = Row(p) /\ Column(q) = Column(p) + 1
        \/ Row(q) = Row(p) + 1 /\ Column(q) = Column(p)
    BY <2>2, Neighbours
  <2> HIDE DEF p, q
  <2>5. /\ Row(p) \in Nat /\ Column(p) \in Nat /\ Row(q) \in Nat /\ Column(q) \in Nat
        /\ Row(n) \in Nat /\ Column(n) \in Nat
    BY <2>2, Place, MeshShape
  <2>6. \A k : Far(n, k) = Abs(Row(n) - Row(k)) + Abs(Column(n) - Column(k))
    BY <1>2 DEF Far, OnLine
  <2>7. Far(n, p) <= Far(n, q) + 1 /\ Far(n, q) <= Far(n, p) + 1
    BY <2>4, <2>5, <2>6 DEF Abs
  <2> QED
    BY <2>2, <2>3, <2>7
<1> QED
  BY <1>1, <1>2

(* findLink() names a link to a node that is one nearer to the destination.*)
LEMMA MeshNearer ==
  ASSUME Topology = "mesh", NEW p \in Nodes, NEW d \in Nodes, p # d,
         NEW l, l = FindLinkMesh(p, d)
  PROVE  l \in LinkIds /\ p \in Ends(l) /\ Other(l, p) \in Nodes
         /\ Far(p, d) = Far(Other(l, p), d) + 1
<1> DEFINE right == {k \in LinkIds : k < RowLinks /\ Proc1(k) = p}
           left  == {k \in LinkIds : k < RowLinks /\ Proc2(k) = p}
           down  == {k \in LinkIds : k >= RowLinks /\ Proc1(k) = p}
           up    == {k \in LinkIds : k >= RowLinks /\ Proc2(k) = p}
<1>1. l = IF Column(p) < Column(d) /\ right # {} THEN First(right)
          ELSE IF Column(p) > Column(d) /\ left # {} THEN First(left)
          ELSE IF p < d /\ down # {} THEN First(down)
          ELSE First(up)
  BY DEF FindLinkMesh, Column
<1>2. LinkIds \subseteq Nat /\ RowLinks \in Nat
  BY MeshLinks
<1>3. /\ \A k \in right : Proc2(k) = p + 1 /\ p + 1 \in Nodes /\ Column(p) + 1 < Cols
      /\ \A k \in left : p = Proc1(k) + 1 /\ Proc1(k) \in Nodes /\ Column(Proc1(k)) + 1 < Cols
      /\ \A k \in down : Proc2(k) = p + Cols /\ p + Cols \in Nodes
      /\ \A k \in up : p = Proc1(k) + Cols /\ Proc1(k) \in Nodes
  BY <1>2, MeshLinks
<1>4. /\ Column(p) + 1 < Cols /\ p + 1 \in Nodes => right # {}
      /\ p + Cols \in Nodes => down # {}
  BY <1>2, MeshLinks
<1>5. /\ Cols \in Nat /\ Cols > 1 /\ FullRows \in Nat /\ LastRow \in 1 .. Cols
      /\ p \in Nat /\ Row(p) \in 0 .. FullRows /\ Column(p) \in 0 .. Cols - 1
      /\ d \in Nat /\ Row(d) \in 0 .. FullRows /\ Column(d) \in 0 .. Cols - 1
      /\ p = Row(p) * Cols + Column(p) /\ d = Row(d) * Cols + Column(d)
      /\ Row(d) = FullRows => Column(d) < LastRow
  BY Place, MeshShape
<1>6. /\ Column(p) > 0 => left # {}
      /\ Row(p) > 0 => up # {}
  <2>1. ASSUME Column(p) > 0 PROVE left # {}
    <3>1. p - 1 \in Nodes /\ Column(p - 1) = Column(p) - 1 /\ (p - 1) + 1 = p
      BY <1>5, <2>1, Neighbours
    <3>2. Column(p - 1) + 1 < Cols
      BY <1>5, <3>1
    <3>3. PICK k \in LinkIds : k < RowLinks /\ Proc2(k) = (p - 1) + 1
      BY <3>1, <3>2, MeshLinks
    <3> QED
      BY <3>1, <3>3
  <2>2. ASSUME Row(p) > 0 PROVE up # {}
    <3>1. p - Cols \in Nodes /\ (p - Cols) + Cols = p
      BY <1>5, <2>2, Neighbours
    <3>2. PICK k \in LinkIds : ~(k < RowLinks) /\ Proc2(k) = (p - Cols) + Cols
      BY <3>1, MeshLinks
    <3> QED
      BY <1>2, <3>1, <3>2
  <2> QED
    BY <2>1, <2>2
<1>7. \A S \in {right, left, down, up} : S # {} => First(S) \in S
  BY <1>2, FirstIn
<1>8. /\ \A k \in right \cup down : p \in Ends(k) /\ Other(k, p) = Proc2(k)
      /\ \A k \in left \cup up : p \in Ends(k) /\ Other(k, p) = Proc1(k)
  BY MeshLinks DEF Ends, Other
<1>9. \A m : Far(m, d) = Abs(Row(m) - Row(d)) + Abs(Column(m) - Column(d))
  BY DEF Far
<1> HIDE DEF right, left, down, up
<1>10. CASE Column(p) < Column(d) /\ right # {}
  <2>1. l \in right
    BY <1>1, <1>7, <1>10
  <2>2. Other(l, p) = p + 1 /\ p + 1 \in Nodes /\ Column(p) + 1 < Cols
    BY <1>3, <1>8, <2>1
  <2>3. Row(p + 1) = Row(p) /\ Column(p + 1) = Column(p) + 1
    BY <2>2, Neighbours
  <2>4. Far(p, d) = Far(p + 1, d) + 1
    BY <1>5, <1>9, <1>10, <2>3 DEF Abs
  <2> QED
    BY <1>8, <2>1, <2>2, <2>4 DEF right
<1>11. CASE ~(Column(p) < Column(d) /\ right # {}) /\ Column(p) > Column(d) /\ left # {}
  <2>1. l \in left
    BY <1>1, <1>7, <1>11
  <2> DEFINE m == Other(l, p)
  <2>2. p = m + 1 /\ m \in Nodes /\ Column(m) + 1 < Cols
    BY <1>3, <1>8, <2>1
  <2> HIDE DEF m
  <2>3. Row(p) = Row(m) /\ Column(p) = Column(m) + 1
    BY <2>2, Neighbours
  <2>4. Row(m) \in Nat /\ Column(m) \in Nat
    BY <2>2, Place, MeshShape
  <2>5. Far(p, d) = Far(m, d) + 1
    BY <1>5, <1>9, <1>11, <2>3, <2>4 DEF Abs
  <2> QED
    BY <1>8, <2>1, <2>2, <2>5 DEF left, m
<1>12. CASE /\ ~(Column(p) < Column(d) /\ right # {})
            /\ ~(Column(p) > Column(d) /\ left # {})
  <2>1. Column(p) > Column(d) => FALSE
    <3>1. Column(p) > Column(d) => Column(p) > 0
      BY <1>5
    <3> QED
      BY <1>6, <1>12, <3>1
  <2>2. Column(p) <= Column(d)
    BY <1>5, <2>1
  <2>3. Column(p) < Column(d) => p + 1 \notin Nodes
    BY <1>4, <1>5, <1>12
  <2>4. Nodes = 0 .. ProcessorCount /\ ProcessorCount \in Nat
    BY ProcessorAssumption DEF Nodes
  <2>5. Row(p) # Row(d)
    <3> SUFFICES ASSUME Row(p) = Row(d) PROVE FALSE
      OBVIOUS
    <3>1. Column(p) < Column(d)
      BY <1>5, <2>2
    <3>2. p < d
      BY <1>5, <3>1
    <3> QED
      BY <1>5, <2>3, <2>4, <3>1, <3>2
  <2>6. \A x \in Nodes, y \in Nodes : Row(x) < Row(y) => x + Cols <= y + Column(x)
    <3> TAKE x \in Nodes, y \in Nodes
    <3> HAVE Row(x) < Row(y)
    <3>1. /\ Row(x) \in Nat /\ Row(y) \in Nat /\ Column(x) \in Nat /\ Column(y) \in Nat
          /\ x = Row(x) * Cols + Column(x) /\ y = Row(y) * Cols + Column(y)
          /\ Cols \in Nat \ {0}
      BY Place, MeshShape
    <3>2. Row(x) * Cols + Cols <= Row(y) * Cols
      BY <3>1, MultipleOrder
    <3>3. Row(x) * Cols \in Nat /\ Row(y) * Cols \in Nat
      BY <3>1
    <3> QED
      BY <3>1, <3>2, <3>3
  <2>7. CASE Row(p) < Row(d)
    <3>1. p + Cols \in Nodes
      <4>1. p + Cols <= d + Column(p)
        BY <2>6, <2>7
      <4>2. p + Cols <= d
        <5>1. Row(p) * Cols + Cols <= Row(d) * Cols
          <6>1. Row(p) \in Nat /\ Row(d) \in Nat /\ Cols \in Nat \ {0}
            BY <1>5
          <6> QED
            BY <2>7, <6>1, MultipleOrder
        <5>2. Row(p) * Cols \in Nat /\ Row(d) * Cols \in Nat
          BY <1>5
        <5> QED
          BY <1>5, <2>2, <5>1, <5>2
      <4> QED
        BY <1>5, <2>4, <4>2
    <3>2. p < d /\ down # {}
      <4>1. p < p + Cols /\ p + Cols <= d + Column(p) /\ Column(p) < Cols
        BY <1>5, <2>6, <2>7
      <4> QED
        BY <1>4, <1>5, <3>1, <4>1
    <3>3. l \in down
      BY <1>1, <1>7, <1>12, <3>2
    <3>4. Other(l, p) = p + Cols
      BY <1>3, <1>8, <3>3
    <3>5. Row(p + Cols) = Row(p) + 1 /\ Column(p + Cols) = Column(p)
      BY <3>1, Neighbours
    <3>6. Far(p, d) = Far(p + Cols, d) + 1
      BY <1>5, <1>9, <2>7, <3>5 DEF Abs
    <3> QED
      BY <1>8, <3>1, <3>3, <3>4, <3>6 DEF down
  <2>8. CASE Row(d) < Row(p)
    <3>1. ~(p < d) /\ up # {}
      <4>1. d + Cols <= p + Column(d) /\ Column(d) < Cols
        BY <1>5, <2>6, <2>8
      <4>2. Row(p) > 0
        BY <1>5, <2>8
      <4> QED
        BY <1>5, <1>6, <4>1, <4>2
    <3>2. l \in up
      BY <1>1, <1>7, <1>12, <3>1
    <3> DEFINE m == Other(l, p)
    <3>3. p = m + Cols /\ m \in Nodes
      BY <1>3, <1>8, <3>2
    <3> HIDE DEF m
    <3>4. Row(p) = Row(m) + 1 /\ Column(p) = Column(m)
      BY <3>3, Neighbours
    <3>5. Row(m) \in Nat /\ Column(m) \in Nat
      BY <3>3, Place, MeshShape
    <3>6. Far(p, d) = Far(m, d) + 1
      BY <1>5, <1>9, <2>8, <3>4, <3>5 DEF Abs
    <3> QED
      BY <1>8, <3>2, <3>3, <3>6 DEF up, m
  <2> QED
    BY <1>5, <2>5, <2>7, <2>8
<1> QED
  BY <1>10, <1>11, <1>12

LEMMA Nearer ==
  ASSUME Topology # "ring", NEW p \in Nodes, NEW d \in Nodes, p # d,
         NEW l, l = FindLink(p, d)
  PROVE  /\ l \in LinkIds /\ p \in Ends(l) /\ Other(l, p) \in Nodes
         /\ Far(p, d) = Far(Other(l, p), d) + 1
         /\ OnLine => Other(l, p) = IF p < d THEN p + 1 ELSE p - 1
<1>1. CASE OnLine
  <2>1. /\ ProcessorCount \in Nat /\ Nodes = 0 .. ProcessorCount
        /\ LinkIds = 0 .. ProcessorCount - 1
        /\ \A k \in LinkIds : Proc1(k) = k /\ Proc2(k) = k + 1 /\ Ends(k) = {k, k + 1}
    BY <1>1, LineIs
  <2>2. l = IF p < d THEN p ELSE p - 1
    BY <1>1, FindOnLine
  <2>3. l \in LinkIds /\ p \in Ends(l)
    BY <2>1, <2>2
  <2>4. Other(l, p) = IF p < d THEN p + 1 ELSE p - 1
    BY <2>1, <2>2, <2>3 DEF Other
  <2>5. Far(p, d) = Abs(p - d) /\ Far(Other(l, p), d) = Abs(Other(l, p) - d)
    BY <1>1 DEF Far, OnLine
  <2> QED
    BY <2>1, <2>3, <2>4, <2>5 DEF Abs
<1>2. CASE ~OnLine
  <2>1. Topology = "mesh"
    BY <1>2, TopologyAssumption DEF OnLine
  <2>2. l = FindLinkMesh(p, d)
    BY <2>1 DEF FindLink
  <2> QED
    BY <1>2, <2>1, <2>2, MeshNearer
<1> QED
  BY <1>1, <1>2

(* forwardIfNeeded() passes a message on where findLink() would send it; on*)
(* the line it does so without looking, since it never turns back.         *)
Onwards(a, b, d) == OnLine => a # d /\ b = IF a < d THEN a + 1 ELSE a - 1

LinksOn(a, b, d) == ForwardLinks(b, a, FALSE, d, d = Memory)

LEMMA PassedTowards ==
  ASSUME Topology # "ring", NEW a \in Nodes, NEW b \in Nodes, NEW d \in Nodes, b # d,
         Onwards(a, b, d)
  PROVE  LinksOn(a, b, d) = {FindLink(b, d)}
<1>1. CASE OnLine
  <2>1. /\ ProcessorCount \in Nat /\ Nodes = 0 .. ProcessorCount
        /\ LinkIds = 0 .. ProcessorCount - 1 /\ Memory = ProcessorCount
    BY <1>1, LineIs DEF Memory
  <2> DEFINE k == IF b < d THEN b ELSE b - 1
  <2>2. k \in LinkIds /\ FindLink(b, d) = k /\ k \in Int
    BY <1>1, <2>1, FindOnLine
  <2>3. Away(b, a) = {k}
    <3>1. CASE a < d
      <4>1. a \in LinkIds /\ b = a + 1 /\ b < d
        BY <1>1, <2>1, <3>1 DEF Onwards
      <4>2. Away(b, a) = {a + 1} \cap LinkIds
        BY <1>1, <4>1, AwayOnLine
      <4> QED
        BY <2>2, <4>1, <4>2
    <3>2. CASE ~(a < d)
      <4>1. b \in LinkIds /\ a = b + 1 /\ ~(b < d)
        BY <1>1, <2>1, <3>2 DEF Onwards
      <4>2. Away(b, a) = {b - 1} \cap LinkIds
        BY <1>1, <4>1, AwayOnLine
      <4> QED
        BY <2>2, <4>1, <4>2
    <3> QED
      BY <3>1, <3>2
  <2>4. d = Memory \/ k # ProcessorCount - 1
    BY <1>1, <2>1 DEF Onwards
  <2> HIDE DEF k
  <2>5. First({k}) = k
    BY <2>2, FirstOf
  <2> DEFINE line == IF d = Memory THEN Away(b, a) ELSE Away(b, a) \ {ProcessorCount - 1}
  <2>6. line = {k}
    BY <2>3, <2>4
  <2>7. LinksOn(a, b, d) = IF line = {} THEN {} ELSE {First(line)}
    BY <1>1 DEF LinksOn, ForwardLinks, OnLine
  <2> QED
    BY <2>2, <2>5, <2>6, <2>7
<1>2. CASE ~OnLine
  <2>1. Topology = "mesh"
    BY <1>2, TopologyAssumption DEF OnLine
  <2> QED
    BY <2>1 DEF LinksOn, ForwardLinks, FindLink
<1> QED
  BY <1>1, <1>2
----------------------------------------------------------------------------
(* One message on its way through the network (Routing).                   *)

(* What Ball counts up step by step is Far: a node k links away is at a    *)
(* distance of k.                                                          *)
LEMMA BallIs ==
  ASSUME Topology # "ring"
  PROVE  \A k \in Nat, n \in Nodes : Ball[k][n] = {m \in Nodes : Far(n, m) <= k}
<1> DEFINE Near(n, k) == {m \in Nodes : Far(n, m) <= k}
           Grown(n, S) == S \cup {m \in Nodes : \E l \in LinkIds :
                                    m \in Ends(l) /\ Other(l, m) \in S}
           W == [k \in Nat |-> [n \in Nodes |-> Near(n, k)]]
           Fills(B) == B = [k \in Nat |-> [n \in Nodes |->
                              IF k = 0 THEN {n} ELSE Grown(n, B[k - 1][n])]]
<1>1. \A n \in Nodes : Near(n, 0) = {n}
  <2> TAKE n \in Nodes
  <2>1. \A m \in Nodes : Far(n, m) \in Nat /\ (Far(n, m) = 0 <=> m = n)
    BY FarIs
  <2> QED
    BY <2>1
<1>2. \A n \in Nodes, k \in Nat \ {0} : Near(n, k) = Grown(n, Near(n, k - 1))
  <2> TAKE n \in Nodes, k \in Nat \ {0}
  <2>1. \A m \in Nodes : Far(n, m) \in Nat
    BY FarIs
  <2>2. ASSUME NEW m \in Grown(n, Near(n, k - 1)) PROVE m \in Near(n, k)
    <3>1. CASE m \in Near(n, k - 1)
      BY <2>1, <3>1
    <3>2. CASE m \notin Near(n, k - 1)
      <4>1. PICK l \in LinkIds : m \in Ends(l) /\ Other(l, m) \in Near(n, k - 1)
        BY <2>2, <3>2
      <4>2. m \in Nodes
        BY <2>2, <3>2
      <4>3. Far(n, m) <= Far(n, Other(l, m)) + 1 /\ Far(n, Other(l, m)) <= k - 1
            /\ Other(l, m) \in Nodes
        BY <4>1, FarAlong
      <4> QED
        BY <2>1, <4>2, <4>3
    <3> QED
      BY <3>1, <3>2
  <2>3. ASSUME NEW m \in Near(n, k) PROVE m \in Grown(n, Near(n, k - 1))
    <3>1. CASE m = n
      <4>1. Far(n, m) = 0
        BY <3>1, FarIs
      <4> QED
        BY <4>1
    <3>2. CASE m # n
      <4> DEFINE l == FindLink(m, n)
      <4>1. /\ l \in LinkIds /\ m \in Ends(l) /\ Other(l, m) \in Nodes
            /\ Far(m, n) = Far(Other(l, m), n) + 1
        BY <3>2, Nearer
      <4> HIDE DEF l
      <4>2. /\ Far(n, m) = Far(m, n) /\ Far(n, Other(l, m)) = Far(Other(l, m), n)
            /\ Far(n, Other(l, m)) \in Nat
        BY <4>1, FarIs
      <4>3. Far(n, Other(l, m)) <= k - 1
        BY <4>1, <4>2
      <4> QED
        BY <4>1, <4>3
    <3> QED
      BY <3>1, <3>2
  <2> QED
    BY <2>2, <2>3
<1>3. Ball = CHOOSE B : Fills(B)
  BY DEF Ball
<1> HIDE DEF Near, Grown
<1>4. Fills(W)
  <2>1. \A k \in Nat, n \in Nodes :
          Near(n, k) = IF k = 0 THEN {n} ELSE Grown(n, W[k - 1][n])
    <3> TAKE k \in Nat, n \in Nodes
    <3>1. k # 0 => W[k - 1][n] = Near(n, k - 1)
      OBVIOUS
    <3> QED
      BY <1>1, <1>2, <3>1
  <2> QED
    BY <2>1
<1> DEFINE B == Ball
<1>5. Fills(B)
  BY <1>3, <1>4
<1> HIDE DEF B
<1>6. \A n \in Nodes : B[0][n] = {n}
  BY <1>5
<1>7. \A n \in Nodes, k \in Nat \ {0} : B[k][n] = Grown(n, B[k - 1][n])
  <2> TAKE n \in Nodes, k \in Nat \ {0}
  <2>1. k \in Nat /\ k # 0
    OBVIOUS
  <2>2. B[k] = [i \in Nodes |-> IF k = 0 THEN {i} ELSE Grown(i, B[k - 1][i])]
    BY <1>5, <2>1
  <2> QED
    BY <2>1, <2>2
<1> DEFINE Wrong == {k \in Nat : \E n \in Nodes : B[k][n] # Near(n, k)}
<1>8. Wrong = {}
  <2> SUFFICES ASSUME Wrong # {} PROVE FALSE
    OBVIOUS
  <2>1. PICK k \in Wrong : \A j \in Wrong : k <= j
    BY SmallestOf
  <2>2. PICK n \in Nodes : B[k][n] # Near(n, k)
    OBVIOUS
  <2>3. k # 0
    BY <1>1, <1>6, <2>2
  <2>4. k \in Nat \ {0} /\ k - 1 \in Nat /\ ~(k <= k - 1)
    BY <2>3
  <2>5. B[k - 1][n] = Near(n, k - 1)
    BY <2>1, <2>4
  <2> QED
    BY <1>2, <1>7, <2>2, <2>4, <2>5
<1> QED
  BY <1>8 DEF B, Near

(* A message to one node makes one hop at a time, each of them a step of a *)
(* shortest path, until only its destination has it.                       *)
OnShortestPath ==
  /\ pSrc \in Nodes /\ hops \in Nat
  /\ pDest # -1 =>
       /\ pDest \in Nodes
       /\ \/ moving = {} /\ reached = {pDest}
          \/ \E a \in Nodes, b \in Nodes :
               /\ moving = {<<a, b>>} /\ reached = {} /\ Onwards(a, b, pDest)
               /\ Far(pSrc, pDest) = hops + Far(b, pDest)

LEMMA NodesAre == /\ Nodes = 0 .. ProcessorCount /\ ProcessorCount \in Nat
                  /\ Size = ProcessorCount + 1 /\ -1 \notin Nodes
  BY ProcessorAssumption DEF Nodes, Size

LEMMA PathBegins == ASSUME Topology # "ring", RouteInit PROVE OnShortestPath
<1>1. /\ pSrc \in Nodes /\ pDest \in (Nodes \ {pSrc}) \cup {-1} /\ reached = {} /\ hops = 1
      /\ pDest # -1 => moving = {<<pSrc, Other(l, pSrc)>> : l \in {FindLink(pSrc, pDest)}}
  BY DEF RouteInit
<1>2. CASE pDest # -1
  <2> DEFINE b == Other(FindLink(pSrc, pDest), pSrc)
  <2>1. pDest \in Nodes /\ pSrc # pDest /\ moving = {<<pSrc, b>>}
    BY <1>1, <1>2
  <2>2. /\ b \in Nodes /\ Far(pSrc, pDest) = Far(b, pDest) + 1
        /\ OnLine => b = IF pSrc < pDest THEN pSrc + 1 ELSE pSrc - 1
    BY <1>1, <2>1, Nearer
  <2> HIDE DEF b
  <2>3. Onwards(pSrc, b, pDest)
    BY <2>1, <2>2 DEF Onwards
  <2>4. Far(pSrc, pDest) = hops + Far(b, pDest) /\ hops \in Nat
    BY <1>1, <2>1, <2>2, FarIs
  <2> QED
    BY <1>1, <2>1, <2>2, <2>3, <2>4 DEF OnShortestPath
<1>3. CASE pDest = -1
  BY <1>1, <1>3 DEF OnShortestPath
<1> QED
  BY <1>2, <1>3

LEMMA PathGoesOn ==
  ASSUME Topology # "ring", OnShortestPath, [RouteNext]_routeVars
  PROVE  OnShortestPath'
<1>1. CASE UNCHANGED routeVars
  BY <1>1 DEF routeVars, OnShortestPath, Onwards
<1>2. CASE Hop
  <2>1. PICK h \in moving :
          LET n == h[2]
              on == ForwardLinks(n, h[1], pDest = -1, pDest, pDest = Memory)
          IN  /\ reached' = reached \cup IF on = {} \/ pDest = -1 THEN {n} ELSE {}
              /\ pDest # -1 =>
                   /\ moving' = (moving \ {h}) \cup {<<n, Other(l, n)>> : l \in on}
                   /\ hops' = IF on = {} THEN hops ELSE hops + 1
              /\ hops' \in {hops, hops + 1}
              /\ pSrc' = pSrc /\ pDest' = pDest
    BY <1>2 DEF Hop
  <2>2. pSrc' \in Nodes /\ hops' \in Nat /\ pDest' = pDest
    BY <2>1 DEF OnShortestPath
  <2>3. CASE pDest = -1
    BY <2>2, <2>3 DEF OnShortestPath
  <2>4. CASE pDest # -1
    <3>1. PICK a \in Nodes, b \in Nodes :
            /\ moving = {<<a, b>>} /\ reached = {} /\ Onwards(a, b, pDest)
            /\ Far(pSrc, pDest) = hops + Far(b, pDest)
      BY <2>1, <2>4 DEF OnShortestPath
    <3>2. h = <<a, b>> /\ h[1] = a /\ h[2] = b /\ moving \ {h} = {}
      BY <2>1, <3>1
    <3>3. pDest \in Nodes /\ pSrc \in Nodes /\ hops \in Nat
      BY <2>4 DEF OnShortestPath
    <3> DEFINE on == LinksOn(a, b, pDest)
    <3>4. /\ reached' = reached \cup IF on = {} THEN {b} ELSE {}
          /\ moving' = {<<b, Other(l, b)>> : l \in on}
          /\ hops' = IF on = {} THEN hops ELSE hops + 1
          /\ pSrc' = pSrc
      <4>1. (pDest = -1) = FALSE
        BY <2>4
      <4>2. ForwardLinks(h[2], h[1], pDest = -1, pDest, pDest = Memory) = on
        BY <3>2, <4>1 DEF LinksOn
      <4> HIDE DEF on
      <4> QED
        BY <2>1, <2>4, <3>2, <4>2
    <3>5. CASE b = pDest
      <4>1. on = {}
        BY <3>5 DEF LinksOn, ForwardLinks
      <4> HIDE DEF on
      <4>2. moving' = {} /\ reached' = {pDest'}
        BY <2>2, <3>1, <3>4, <3>5, <4>1
      <4> QED
        BY <2>2, <3>3, <4>2 DEF OnShortestPath
    <3>6. CASE b # pDest
      <4> DEFINE k == FindLink(b, pDest)
                 c == Other(k, b)
      <4>1. on = {k}
        BY <3>1, <3>3, <3>6, PassedTowards
      <4>2. /\ c \in Nodes /\ Far(b, pDest) = Far(c, pDest) + 1
            /\ OnLine => c = IF b < pDest THEN b + 1 ELSE b - 1
        BY <3>3, <3>6, Nearer
      <4>3. moving' = {<<b, c>>} /\ reached' = {} /\ hops' = hops + 1
        <5> HIDE DEF on, k
        <5> QED
          BY <3>1, <3>4, <4>1
      <4> HIDE DEF on, k, c
      <4>4. Onwards(b, c, pDest')
        BY <2>2, <3>6, <4>2 DEF Onwards
      <4>5. Far(pSrc', pDest') = hops' + Far(c, pDest')
        <5>1. Far(c, pDest) \in Nat
          BY <3>3, <4>2, FarIs
        <5> QED
          BY <2>2, <3>1, <3>3, <3>4, <4>2, <4>3, <5>1
      <4> QED
        BY <2>2, <3>3, <4>2, <4>3, <4>4, <4>5 DEF OnShortestPath
    <3> QED
      BY <3>5, <3>6
  <2> QED
    BY <2>3, <2>4
<1>3. CASE RouteEnded
  BY <1>1, <1>3 DEF RouteEnded
<1> QED
  BY <1>1, <1>2, <1>3 DEF RouteNext

LEMMA PathInvariant == ASSUME Topology # "ring" PROVE RouteSpec => []OnShortestPath
<1>1. RouteInit => OnShortestPath
  BY PathBegins
<1>2. OnShortestPath /\ [RouteNext]_routeVars => OnShortestPath'
  BY PathGoesOn
<1> QED
  BY <1>1, <1>2, PTL DEF RouteSpec

(* On the line and on the mesh, whatever their size and however short the  *)
(* last row, findLink() and forwardIfNeeded() take every message to one    *)
(* node along a shortest path.                                             *)
THEOREM ShortestRoutes == ASSUME Topology # "ring" PROVE RouteSpec => []Shortest
<1>1. OnShortestPath => Shortest
  <2> SUFFICES ASSUME OnShortestPath, pDest # -1, NEW h \in moving
               PROVE  \E k \in 0 .. Size :
                        /\ pDest \in Ball[k][h[2]]
                        /\ \A j \in 0 .. hops + k - 1 : pDest \notin Ball[j][pSrc]
    BY DEF Shortest
  <2>1. PICK a \in Nodes, b \in Nodes :
          moving = {<<a, b>>} /\ Far(pSrc, pDest) = hops + Far(b, pDest)
    BY DEF OnShortestPath
  <2>2. h[2] = b /\ pSrc \in Nodes /\ pDest \in Nodes /\ hops \in Nat
    BY <2>1 DEF OnShortestPath
  <2> DEFINE k == Far(b, pDest)
  <2>3. k \in Nat /\ k <= Size /\ Size \in Nat
    BY <2>2, FarIs, NodesAre
  <2>4. pDest \in Ball[k][b]
    BY <2>2, <2>3, BallIs
  <2>5. ASSUME NEW j \in 0 .. hops + k - 1 PROVE pDest \notin Ball[j][pSrc]
    <3>1. j \in Nat /\ j < hops + k
      BY <2>2, <2>3
    <3> HIDE DEF k
    <3>2. ~(Far(pSrc, pDest) <= j)
      BY <2>1, <2>2, <2>3, <3>1 DEF k
    <3> QED
      BY <2>2, <3>1, <3>2, BallIs
  <2> QED
    BY <2>2, <2>3, <2>4, <2>5
<1> QED
  BY <1>1, PathInvariant, PTL

(* There a message to one node makes no more hops than there are nodes,    *)
(* and when it has been passed on for the last time that node and no other *)
(* has processed it.                                                       *)
THEOREM RoutesEnd ==
  ASSUME Topology # "ring"
  PROVE  RouteSpec => [](pDest # -1 => /\ moving # {} => hops <= Size
                                       /\ moving = {} => Delivered)
<1>1. OnShortestPath => (pDest # -1 => /\ moving # {} => hops <= Size
                                       /\ moving = {} => Delivered)
  <2> SUFFICES ASSUME OnShortestPath, pDest # -1
               PROVE  (moving # {} => hops <= Size) /\ (moving = {} => Delivered)
    OBVIOUS
  <2>1. CASE moving = {}
    BY <2>1 DEF OnShortestPath, Delivered
  <2>2. CASE moving # {}
    <3>1. PICK a \in Nodes, b \in Nodes : Far(pSrc, pDest) = hops + Far(b, pDest)
      BY <2>2 DEF OnShortestPath
    <3>2. pSrc \in Nodes /\ pDest \in Nodes /\ hops \in Nat
      BY DEF OnShortestPath
    <3>3. Far(pSrc, pDest) <= Size /\ Far(b, pDest) \in Nat /\ Size \in Nat
      BY <3>1, <3>2, FarIs, NodesAre
    <3> QED
      BY <2>2, <3>1, <3>2, <3>3
  <2> QED
    BY <2>1, <2>2
<1> QED
  BY <1>1, PathInvariant, PTL
=============================================================================
