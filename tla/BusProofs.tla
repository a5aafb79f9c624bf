----------------------------- MODULE BusProofs ------------------------------
(* The safety of the bus under the MI and MSI schemes, for every number of *)
(* processors, blocks, operations and every latency.                       *)
EXTENDS Bus, CoresProofs

LEMMA TypeInit == Init => TypeOK
<1> SUFFICES ASSUME Init PROVE TypeOK
  OBVIOUS
<1>1. MaxOps \in 0 .. MaxOps /\ 0 \in Procs
  BY ProcessorAssumption, MaxOpsAssumption DEF Procs
<1>2. coherStates \in [Procs -> [Addrs -> CoherenceStates]]
  BY DEF Init, CoresInit, CoherenceStates
<1>3. /\ pendingBranch \in [Procs -> 0 .. 1]
      /\ memOpTag \in [Procs -> Nat]
      /\ opsLeft \in [Procs -> 0 .. MaxOps]
      /\ pendingMem \in [Procs -> BOOLEAN]
  BY <1>1 DEF Init, CoresInit
<1>4. CoresTypeOK
  BY <1>2, <1>3 DEF Init, CoresInit, CoresTypeOK, Phases
<1>5. queuedRequests \in [Procs -> Seq(BusRequests)]
  BY DEF Init
<1> QED
  BY <1>1, <1>4, <1>5 DEF Init, TypeOK

LEMMA CrashType == TypeOK /\ Crash => TypeOK'
  BY DEF Crash, Abort, TypeOK, CoresTypeOK, coreVars, busVars, memVars, Phases

LEMMA MemoryType == TypeOK /\ (MemoryIdle \/ MemoryServe) => TypeOK'
<1> SUFFICES ASSUME TypeOK, MemoryIdle \/ MemoryServe PROVE TypeOK'
  OBVIOUS
<1>1. CASE MemoryIdle
  BY <1>1 DEF MemoryIdle, Goto, TypeOK, CoresTypeOK, coreVars, busVars, memVars,
              Phases
<1>2. CASE MemoryServe /\ (ScanLinks \/ pendingRequest = NULL)
  BY <1>2, CrashType DEF MemoryServe
<1>3. CASE MemoryServe /\ ~(ScanLinks \/ pendingRequest = NULL)
  <2>1. CoresTypeOK'
    BY <1>3 DEF MemoryServe, Goto, TypeOK, CoresTypeOK, coreVars, Phases
  <2>2. pendingRequest' \in BusRequests \cup {NULL}
    <3>1. CASE pendingRequest' = pendingRequest
      BY <3>1 DEF TypeOK
    <3>2. CASE /\ pendingRequest # NULL
               /\ pendingRequest' = [pendingRequest EXCEPT !.dataAvail = TRUE]
      BY <3>2 DEF TypeOK, BusRequests
    <3> QED
      BY <1>3, <3>1, <3>2 DEF MemoryServe, MemorySquelch, MemoryCount, MemoryRespond
  <2>3. memRequest' \in MemRequests \cup {NULL} /\ memCountDown' \in Nat
    BY <1>3 DEF MemoryServe, MemorySquelch, MemoryCount, MemoryRespond, TypeOK
  <2> QED
    BY <1>3, <2>1, <2>2, <2>3 DEF MemoryServe, TypeOK
<1> QED
  BY <1>1, <1>2, <1>3

LEMMA NewRequestType ==
  ASSUME NEW brt \in BusReqTypes, NEW a \in Addrs, NEW p \in Procs,
         NEW state \in {"QUEUED", "WAITING_CACHE"}
  PROVE  NewRequest(brt, a, p, state) \in BusRequests
  BY DEF NewRequest, BusRequests

LEMMA BusType == TypeOK /\ BusTick => TypeOK'
<1> SUFFICES ASSUME TypeOK, BusTick, ~Crash PROVE TypeOK'
  BY CrashType
<1>1. CASE BusCount
  BY <1>1 DEF BusCount, BusBusy, Goto, TypeOK, CoresTypeOK, coreVars, memVars, Phases
<1>2. CASE BusSnoop
  <2>1. pendingRequest \in BusRequests
    BY <1>2 DEF BusSnoop, BusHeld, TypeOK
  <2>2. CoresTypeOK'
    <3>1. Snoop(pendingRequest.brt, pendingRequest.addr, Snoopers)
      BY <1>2 DEF BusSnoop
    <3>2. pendingRequest.addr \in Addrs /\ Snoopers \in SUBSET Procs
      BY <2>1 DEF BusRequests, Snoopers
    <3>3. phase' = "cache" /\ turn' = 0 /\ progress' \in BOOLEAN
      BY <1>2 DEF BusSnoop, Goto, TypeOK, CoresTypeOK
    <3> QED
      BY <3>1, <3>2, <3>3, SnoopKeepsType DEF TypeOK, Phases
  <2>3. pendingRequest' \in BusRequests
    BY <1>2, <2>1 DEF BusSnoop, BusRequests, BusReqTypes
  <2>4. queuedRequests' \in [Procs -> Seq(BusRequests)]
    <3>1. \A p \in Procs :
            NewRequest("SHARED_DATA", pendingRequest.addr, p, "QUEUED") \in BusRequests
      BY <2>1, NewRequestType DEF BusRequests, BusReqTypes
    <3>2. \A p \in Procs :
            Append(queuedRequests[p],
                   NewRequest("SHARED_DATA", pendingRequest.addr, p, "QUEUED"))
              \in Seq(BusRequests)
      BY <3>1 DEF TypeOK
    <3>3. queuedRequests' = [p \in Procs |->
            IF p \in Answering("SHARED_DATA")
            THEN Append(queuedRequests[p],
                   NewRequest("SHARED_DATA", pendingRequest.addr, p, "QUEUED"))
            ELSE queuedRequests[p]]
      BY <1>2 DEF BusSnoop
    <3>4. \A p \in Procs : queuedRequests[p] \in Seq(BusRequests)
      BY DEF TypeOK
    <3> QED
      BY <3>2, <3>3, <3>4, Zenon
  <2>5. memRequest' \in MemRequests /\ memCountDown' \in Nat /\ countDown' \in Nat
    BY <1>2, <2>1, TicksAssumption DEF BusSnoop, MemRequests, BusRequests
  <2> QED
    BY <1>2, <2>2, <2>3, <2>4, <2>5 DEF BusSnoop, TypeOK
<1>3. CASE BusDeliver
  <2>1. pendingRequest \in BusRequests
    BY <1>3 DEF BusDeliver, BusHeld, TypeOK
  <2>2. CoresTypeOK'
    <3>1. Snoop(Delivered, pendingRequest.addr, {pendingRequest.procNum})
      BY <1>3 DEF BusDeliver
    <3>2. pendingRequest.addr \in Addrs /\ {pendingRequest.procNum} \in SUBSET Procs
      BY <2>1 DEF BusRequests
    <3>3. phase' = "cache" /\ turn' = 0 /\ progress' \in BOOLEAN
      BY <1>3 DEF BusDeliver, Goto, TypeOK, CoresTypeOK
    <3> QED
      BY <3>1, <3>2, <3>3, SnoopKeepsType DEF TypeOK, Phases
  <2> QED
    BY <1>3, <2>2 DEF BusDeliver, TypeOK, memVars
<1>4. CASE BusGrant
  <2>1. CoresTypeOK'
    BY <1>4 DEF BusGrant, Goto, TypeOK, CoresTypeOK, coreVars, Phases
  <2>2. PICK pos \in Procs :
           /\ queuedRequests[pos] # <<>>
           /\ pendingRequest' = [Head(queuedRequests[pos]) EXCEPT
                                   !.currentState = "WAITING_CACHE"]
           /\ queuedRequests' = [queuedRequests EXCEPT ![pos] = Tail(@)]
           /\ lastProc' = (pos + 1) % ProcessorCount
    BY <1>4 DEF BusGrant, Dequeued, After
  <2>3. queuedRequests[pos] \in Seq(BusRequests)
    BY DEF TypeOK
  <2>4. Head(queuedRequests[pos]) \in BusRequests
        /\ Tail(queuedRequests[pos]) \in Seq(BusRequests)
    BY <2>2, <2>3
  <2>5. pendingRequest' \in BusRequests
    BY <2>2, <2>4 DEF BusRequests
  <2>6. queuedRequests' \in [Procs -> Seq(BusRequests)]
    BY <2>2, <2>4 DEF TypeOK
  <2>7. lastProc' \in Procs
    BY <2>2, ProcessorAssumption DEF Procs
  <2> QED
    BY <1>4, <2>1, <2>5, <2>6, <2>7, TicksAssumption DEF BusGrant, TypeOK, memVars
<1>5. CASE BusIdle
  BY <1>5 DEF BusIdle, Goto, TypeOK, CoresTypeOK, coreVars, busVars, memVars, Phases
<1> QED
  BY <1>1, <1>2, <1>3, <1>4, <1>5 DEF BusTick

LEMMA FetchType == TypeOK /\ Fetch => TypeOK'
<1> SUFFICES ASSUME TypeOK, NEW isRead \in BOOLEAN, NEW a \in Addrs,
                    FetchMemory(isRead, a),
                    IF PermOf(isRead, a).send = "NO_REQ"
                    THEN UNCHANGED <<pendingRequest, queuedRequests, countDown>>
                    ELSE BusReq(PermOf(isRead, a).send, a, turn),
                    UNCHANGED <<lastProc, memVars>>
             PROVE  TypeOK'
  BY DEF Fetch
<1>1. phase = "processor" /\ turn \in Procs
  BY DEF FetchMemory, CanFetch, TypeOK, CoresTypeOK
<1>2. PermOf(isRead, a) \in PermResults
  BY <1>1, PermType DEF PermOf, TypeOK, CoresTypeOK
<1>3. CoresTypeOK'
  BY FetchMemoryType DEF TypeOK
<1>4. /\ pendingRequest' \in BusRequests \cup {NULL}
      /\ queuedRequests' \in [Procs -> Seq(BusRequests)]
      /\ countDown' \in Nat
  <2>1. PermOf(isRead, a).send \in BusReqTypes
    BY <1>2 DEF PermResults
  <2>2. \A state \in {"QUEUED", "WAITING_CACHE"} :
          NewRequest(PermOf(isRead, a).send, a, turn, state) \in BusRequests
    BY <1>1, <2>1, NewRequestType
  <2>3. Append(queuedRequests[turn],
               NewRequest(PermOf(isRead, a).send, a, turn, "QUEUED"))
          \in Seq(BusRequests)
    BY <1>1, <2>2 DEF TypeOK
  <2>4. CASE PermOf(isRead, a).send = "NO_REQ"
    BY <2>4 DEF TypeOK
  <2>5. CASE PermOf(isRead, a).send # "NO_REQ" /\ pendingRequest = NULL
    BY <2>2, <2>5, TicksAssumption DEF BusReq, TypeOK
  <2>6. CASE PermOf(isRead, a).send # "NO_REQ" /\ pendingRequest # NULL
    <3>1. queuedRequests' = [queuedRequests EXCEPT ![turn] =
             Append(queuedRequests[turn],
                    NewRequest(PermOf(isRead, a).send, a, turn, "QUEUED"))]
      BY <2>6 DEF BusReq
    <3>2. queuedRequests' \in [Procs -> Seq(BusRequests)]
      BY <2>3, <3>1 DEF TypeOK
    <3> QED
      BY <2>6, <3>2 DEF BusReq, TypeOK
  <2> QED
    BY <2>4, <2>5, <2>6
<1> QED
  BY <1>3, <1>4 DEF TypeOK, memVars

LEMMA CoreType == TypeOK /\ CoreStep => TypeOK'
BY CoresAloneType DEF CoreStep, CoresAlone, TypeOK, busVars, memVars

(* Every variable keeps its type under every scheme, whatever the caches   *)
(* answer each other (all handlers of the bus, the memory and the cores).  *)
THEOREM TypeCorrect == Spec => []TypeOK
<1>1. TypeOK /\ [Next]_vars => TypeOK'
  <2>1. TypeOK /\ UNCHANGED vars => TypeOK'
    BY DEF vars, controlVars, coreVars, busVars, memVars, TypeOK, CoresTypeOK
  <2> QED
    BY <2>1, MemoryType, BusType, FetchType, CoreType DEF Next
<1> QED
  BY TypeInit, <1>1, PTL DEF Spec
----------------------------------------------------------------------------
(* The inductive invariant.  SWMR alone is not inductive: an answer makes  *)
(* its requester an owner, and that nobody else owns the block by then     *)
(* follows from SnoopHolds; that the answer meets the request it is for    *)
(* follows from the agreement of processor, cache, coherence state, bus    *)
(* and memory (RequestsMatch, RequestsBacked, MemoryInStep).               *)
IInv == /\ TypeOK /\ StatesUsed /\ SWMR
        /\ RequestsMatch /\ RequestsBacked /\ SnoopHolds /\ MemoryInStep

(* What the parts of IInv other than MemoryInStep look at.                 *)
CoherencePart == /\ StatesUsed /\ SWMR /\ RequestsMatch
                 /\ RequestsBacked /\ SnoopHolds

LEMMA InitIInv == ASSUME BasicScheme PROVE Init => IInv
<1> SUFFICES ASSUME Init PROVE IInv
  OBVIOUS
<1>1. TypeOK
  BY TypeInit
<1>2. \A p \in Procs, a \in Addrs : coherStates[p][a] = "INVALID"
  BY DEF Init, CoresInit
<1>3. StatesUsed /\ SWMR
  BY <1>2 DEF StatesUsed, UsedStates, MIStates, MSIStates, SWMR, SingleWriter, Owners
<1>4. \A p \in Procs, a \in Addrs : ~Transient(p, a)
  BY <1>2 DEF Transient, TransientStates
<1>5. RequestsMatch
  BY <1>4 DEF Init, CoresInit, RequestsMatch
<1>6. RequestsBacked
  BY <1>4 DEF Init, RequestsBacked, QueuesBacked, PendingBacked, NoneLost
<1>7. SnoopHolds /\ MemoryInStep
  BY DEF Init, SnoopHolds, MemoryInStep, InStep
<1> QED
  BY <1>1, <1>3, <1>5, <1>6, <1>7 DEF IInv

(* A step that leaves the cores and the queues alone, and the request on   *)
(* the bus up to its dataAvail flag.                                       *)
LEMMA CoherencePartKept ==
  ASSUME TypeOK, CoherencePart,
         UNCHANGED <<coherStates, pendReq, readyReq, pendingMem, memOpTag,
                     queuedRequests>>,
         \/ UNCHANGED pendingRequest
         \/ /\ pendingRequest # NULL
            /\ pendingRequest' = [pendingRequest EXCEPT !.dataAvail = TRUE]
  PROVE  CoherencePart'
<1>1. StatesUsed' /\ SWMR'
  BY DEF CoherencePart, StatesUsed, SWMR, SingleWriter
<1>2. \A p \in Procs, a \in Addrs : Transient(p, a)' <=> Transient(p, a)
  BY DEF Transient
<1>3. RequestsMatch'
  BY <1>2 DEF CoherencePart, RequestsMatch
<1>4. QueuesBacked'
  BY DEF CoherencePart, RequestsBacked, QueuesBacked, Backed
<1>5. /\ pendingRequest' = NULL <=> pendingRequest = NULL
      /\ pendingRequest # NULL =>
           /\ pendingRequest'.brt = pendingRequest.brt
           /\ pendingRequest'.addr = pendingRequest.addr
           /\ pendingRequest'.procNum = pendingRequest.procNum
           /\ pendingRequest'.shared = pendingRequest.shared
           /\ pendingRequest'.currentState = pendingRequest.currentState
  <2>1. CASE UNCHANGED pendingRequest
    BY <2>1
  <2>2. CASE /\ pendingRequest # NULL
             /\ pendingRequest' = [pendingRequest EXCEPT !.dataAvail = TRUE]
    <3>1. pendingRequest \in BusRequests
      BY <2>2 DEF TypeOK
    <3>2. pendingRequest' \in BusRequests
      BY <2>2, <3>1 DEF BusRequests
    <3> QED
      BY <2>2, <3>1, <3>2, NullAssumption DEF BusRequests
  <2> QED
    BY <2>1, <2>2
<1>6. PendingBacked'
  BY <1>5 DEF CoherencePart, RequestsBacked, PendingBacked, Backed, Transient
<1>7. NoneLost'
  BY <1>2, <1>5 DEF CoherencePart, RequestsBacked, NoneLost
<1>8. SnoopHolds'
  BY <1>5 DEF CoherencePart, SnoopHolds, Snoopers
<1> QED
  BY <1>1, <1>3, <1>4, <1>6, <1>7, <1>8 DEF CoherencePart, RequestsBacked

LEMMA CrashKeeps == IInv /\ Crash => IInv'
<1> SUFFICES ASSUME IInv, Crash PROVE IInv'
  OBVIOUS
<1>1. TypeOK'
  BY CrashType DEF IInv
<1>2. CoherencePart'
  BY CoherencePartKept DEF IInv, CoherencePart, Crash, Abort, coreVars, busVars
<1>3. MemoryInStep'
  BY DEF Crash, Abort, MemoryInStep
<1> QED
  BY <1>1, <1>2, <1>3 DEF IInv, CoherencePart

LEMMA MemoryKeeps == IInv /\ (MemoryIdle \/ MemoryServe) => IInv'
<1> SUFFICES ASSUME IInv, MemoryIdle \/ MemoryServe, ~Crash PROVE IInv'
  BY CrashKeeps
<1>1. TypeOK'
  BY MemoryType DEF IInv
<1>2. InStep /\ TypeOK /\ phase = "memory" /\ phase' = "interconnect"
  BY DEF IInv, MemoryInStep, MemoryIdle, MemoryServe, Goto
<1>3. CoherencePart'
  BY CoherencePartKept
  DEF IInv, CoherencePart, MemoryIdle, MemoryServe, MemorySquelch, MemoryCount,
      MemoryRespond, coreVars, busVars
<1>4. ASSUME MemoryIdle PROVE InStep'
  BY <1>2, <1>4 DEF MemoryIdle, busVars, memVars, InStep, WaitInStep
<1>5. ASSUME MemoryServe PROVE InStep'
  <2>1. /\ pendingRequest # NULL /\ ForPending
        /\ pendingRequest \in BusRequests
        /\ ~pendingRequest.dataAvail /\ countDown > 0
        /\ \/ pendingRequest.currentState = "TRANSFERING_CACHE"
           \/ /\ pendingRequest.currentState = "WAITING_MEMORY"
              /\ countDown = memCountDown /\ memCountDown > 0
    BY <1>2, <1>5 DEF MemoryServe, InStep, WaitInStep, TypeOK, BusRequests
  <2>2. countDown' = countDown
    BY <1>5 DEF MemoryServe
  <2>3. CASE MemorySquelch
    <3>1. pendingRequest.currentState = "TRANSFERING_CACHE"
      BY <2>3 DEF MemorySquelch, CacheTransfer
    <3> QED
      BY <2>1, <2>2, <2>3, <3>1 DEF MemorySquelch, InStep
  <2>4. CASE MemoryCount
    <3>1. pendingRequest.currentState = "WAITING_MEMORY"
      BY <2>1, <2>4 DEF MemoryCount, CacheTransfer, ForPending
    <3>2. /\ memRequest' = memRequest /\ pendingRequest' = pendingRequest
          /\ memCountDown' = memCountDown - 1 /\ memCountDown > 1
      BY <2>4 DEF MemoryCount
    <3>3. WaitInStep'
      BY <1>2, <1>5, <2>1, <2>2, <3>1, <3>2
      DEF WaitInStep, ForPending, MemoryServe, TypeOK
    <3> QED
      BY <2>1, <2>2, <3>1, <3>2, <3>3 DEF InStep
  <2>5. CASE MemoryRespond
    <3>1. pendingRequest.currentState = "WAITING_MEMORY"
      BY <2>1, <2>5 DEF MemoryRespond, CacheTransfer, ForPending
    <3>2. /\ memRequest' = NULL
          /\ pendingRequest' = [pendingRequest EXCEPT !.dataAvail = TRUE]
      BY <2>1, <2>5 DEF MemoryRespond, ForPending
    <3>3. /\ pendingRequest' # NULL
          /\ pendingRequest'.dataAvail
          /\ pendingRequest'.currentState = "WAITING_MEMORY"
      BY <2>1, <3>1, <3>2, NullAssumption DEF BusRequests
    <3> QED
      BY <1>2, <2>1, <2>2, <3>2, <3>3 DEF InStep, WaitInStep
  <2> QED
    BY <1>2, <1>5, <2>3, <2>4, <2>5 DEF MemoryServe
<1>6. MemoryInStep'
  BY <1>4, <1>5 DEF MemoryInStep, IInv
<1> QED
  BY <1>1, <1>3, <1>6 DEF IInv, CoherencePart

LEMMA BusCountKeeps == IInv /\ BusCount => IInv'
<1> SUFFICES ASSUME IInv, BusCount, ~Crash PROVE IInv'
  BY CrashKeeps
<1>1. TypeOK'
  BY BusType DEF IInv, BusTick
<1>2. CoherencePart'
  BY CoherencePartKept DEF IInv, CoherencePart, BusCount, coreVars
<1>3. /\ InStep /\ phase = "interconnect" /\ phase' = "cache"
      /\ pendingRequest # NULL /\ pendingRequest' = pendingRequest
      /\ memRequest' = memRequest /\ memCountDown' = memCountDown
      /\ countDown' = countDown - 1 /\ countDown \in Nat /\ memCountDown \in Nat
      /\ ~pendingRequest.dataAvail
  BY DEF IInv, TypeOK, MemoryInStep, BusCount, BusBusy, Goto, memVars
<1>4. pendingRequest.currentState = "WAITING_MEMORY" =>
        WaitInStep' /\ countDown' > 0
  BY <1>3 DEF InStep, WaitInStep, ForPending
<1>5. pendingRequest.currentState # "WAITING_MEMORY" =>
        countDown' > 0
  BY <1>3 DEF BusCount, InStep
<1>6. InStep'
  BY <1>3, <1>4, <1>5 DEF InStep
<1> QED
  BY <1>1, <1>2, <1>6 DEF IInv, CoherencePart, MemoryInStep

LEMMA BusIdleKeeps == IInv /\ BusIdle => IInv'
<1> SUFFICES ASSUME IInv, BusIdle PROVE IInv'
  OBVIOUS
<1>1. TypeOK'
  BY BusType DEF IInv, BusTick
<1>2. CoherencePart'
  BY CoherencePartKept DEF IInv, CoherencePart, BusIdle, coreVars, busVars
<1>3. InStep /\ countDown = 0
  BY DEF IInv, MemoryInStep, BusIdle
<1>4. pendingRequest = NULL
  BY <1>3 DEF InStep
<1>5. InStep'
  BY <1>3, <1>4 DEF InStep, BusIdle, busVars, memVars
<1> QED
  BY <1>1, <1>2, <1>5 DEF IInv, CoherencePart, MemoryInStep

(* The next request is taken from a queue: it was backed there.            *)
LEMMA BusGrantKeeps == IInv /\ BusGrant => IInv'
<1> SUFFICES ASSUME IInv, BusGrant PROVE IInv'
  OBVIOUS
<1>1. TypeOK'
  BY BusType DEF IInv, BusTick
<1>2. InStep /\ countDown = 0
  BY DEF IInv, MemoryInStep, BusGrant
<1>3. pendingRequest = NULL /\ memRequest = NULL
  BY <1>2 DEF InStep
<1>4. PICK pos \in Procs :
         /\ queuedRequests[pos] # <<>>
         /\ pendingRequest' = [Head(queuedRequests[pos]) EXCEPT
                                 !.currentState = "WAITING_CACHE"]
         /\ queuedRequests' = [queuedRequests EXCEPT ![pos] = Tail(@)]
  BY DEF BusGrant, Dequeued
<1> DEFINE r == queuedRequests[pos][1]
<1>5. /\ Backed(r) /\ r.procNum = pos /\ ~r.shared /\ ~r.dataAvail
      /\ Len(queuedRequests[pos]) <= 1
  BY <1>4 DEF IInv, RequestsBacked, QueuesBacked
<1>6. queuedRequests[pos] \in Seq(BusRequests)
  BY DEF IInv, TypeOK
<1>7. r \in BusRequests /\ Head(queuedRequests[pos]) = r
      /\ Tail(queuedRequests[pos]) = <<>>
  BY <1>4, <1>5, <1>6
<1>8. /\ pendingRequest' # NULL
      /\ pendingRequest'.brt = r.brt /\ pendingRequest'.addr = r.addr
      /\ pendingRequest'.procNum = pos
      /\ ~pendingRequest'.shared /\ ~pendingRequest'.dataAvail
      /\ pendingRequest'.currentState = "WAITING_CACHE"
  <2>1. pendingRequest' \in BusRequests
    BY <1>4, <1>7 DEF BusRequests
  <2> QED
    BY <1>4, <1>5, <1>7, <2>1, NullAssumption DEF BusRequests
<1>9. /\ queuedRequests'[pos] = <<>>
      /\ \A p \in Procs \ {pos} : queuedRequests'[p] = queuedRequests[p]
  BY <1>4, <1>7 DEF IInv, TypeOK
<1>10. UNCHANGED <<coherStates, pendReq, readyReq, pendingMem, memOpTag>>
  BY DEF BusGrant, coreVars
<1>11. StatesUsed' /\ SWMR' /\ RequestsMatch'
  BY <1>10 DEF IInv, StatesUsed, SWMR, SingleWriter, RequestsMatch, Transient
<1>12. QueuesBacked'
  BY <1>9, <1>10 DEF IInv, RequestsBacked, QueuesBacked, Backed
<1>13. PendingBacked'
  BY <1>5, <1>8, <1>9, <1>10 DEF PendingBacked, Backed
<1>14. NoneLost'
  BY <1>3, <1>8, <1>9, <1>10 DEF IInv, RequestsBacked, NoneLost, Transient
<1>15. SnoopHolds' /\ MemoryInStep'
  <2>1. countDown' > 0 /\ memRequest' = NULL
    BY <1>3, TicksAssumption DEF BusGrant, memVars
  <2> QED
    BY <1>8, <2>1 DEF SnoopHolds, MemoryInStep, InStep
<1> QED
  BY <1>1, <1>11, <1>12, <1>13, <1>14, <1>15 DEF IInv, RequestsBacked

(* The snoop: the assertions hold, no awaited request is touched, and no   *)
(* cache but the requester's is an owner of the block afterwards.          *)
LEMMA SnoopFacts ==
  ASSUME BasicScheme, IInv, BusHeld, ~pendingRequest.dataAvail,
         pendingRequest.currentState = "WAITING_CACHE"
  PROVE  /\ pendingRequest \in BusRequests
         /\ Transient(pendingRequest.procNum, pendingRequest.addr)
         /\ \A q \in Snoopers :
              LET st == coherStates[q][pendingRequest.addr]
                  s == SnoopOf(pendingRequest.brt, pendingRequest.addr, q)
              IN  /\ s.next \in UsedStates
                  /\ s.ca # "DATA_RECV"
                  /\ s.send \in {"ACK", "DATA"}
                  /\ s.send = "DATA" <=> st = "MODIFIED"
                  /\ st \in TransientStates => s.next = st
                  /\ st \notin TransientStates => s.next \in {"INVALID", "SHARE"}
                  /\ s.next = "SHARE" => pendingRequest.brt = "BUSRD"
         /\ Received(pendingRequest.brt, pendingRequest.addr, Snoopers) = {}
         /\ BusSnoopAsserts
<1>1. pendingRequest \in BusRequests
  BY DEF BusHeld, IInv, TypeOK
<1>2. Backed(pendingRequest)
  BY DEF BusHeld, IInv, RequestsBacked, PendingBacked
<1>3. pendingRequest.procNum \in Procs /\ pendingRequest.addr \in Addrs
  BY <1>1 DEF BusRequests
<1>4. /\ Transient(pendingRequest.procNum, pendingRequest.addr)
      /\ pendingRequest.brt \in {"BUSRD", "BUSWR"}
  BY <1>2 DEF Backed, Transient, TransientStates
<1>5. \A q \in Snoopers :
        LET st == coherStates[q][pendingRequest.addr]
            s == SnoopOf(pendingRequest.brt, pendingRequest.addr, q)
        IN  /\ s.next \in UsedStates
            /\ s.ca # "DATA_RECV"
            /\ s.send \in {"ACK", "DATA"}
            /\ s.send = "DATA" <=> st = "MODIFIED"
            /\ st \in TransientStates => s.next = st
            /\ st \notin TransientStates => s.next \in {"INVALID", "SHARE"}
            /\ s.next = "SHARE" => pendingRequest.brt = "BUSRD"
  <2> TAKE q \in Snoopers
  <2>1. coherStates[q][pendingRequest.addr] \in UsedStates
    BY <1>3 DEF IInv, StatesUsed, Snoopers
  <2> QED
    BY <1>4, <2>1, SnoopTable DEF SnoopOf
<1>6. Received(pendingRequest.brt, pendingRequest.addr, Snoopers) = {}
  BY <1>5 DEF Received
<1>7. pendReq # {}
  BY <1>3, <1>4 DEF IInv, RequestsMatch
<1>8. \A p, q \in Answering("DATA") : p = q
  <2>1. \A p \in Answering("DATA") :
          p \in Procs /\ coherStates[p][pendingRequest.addr] = "MODIFIED"
    BY <1>5 DEF Answering, Snoopers
  <2> QED
    BY <1>3, <2>1 DEF IInv, SWMR, SingleWriter, Owners, Copies
<1>9. memRequest = NULL
  BY DEF BusHeld, BusBusy, IInv, MemoryInStep, InStep
<1> QED
  BY <1>1, <1>4, <1>5, <1>6, <1>7, <1>8, <1>9 DEF BusSnoopAsserts, SnoopAsserts

LEMMA BusSnoopKeeps == ASSUME BasicScheme PROVE IInv /\ BusSnoop => IInv'
<1> SUFFICES ASSUME IInv, BusSnoop, ~Crash PROVE IInv'
  BY CrashKeeps
<1> DEFINE brt == pendingRequest.brt
           a == pendingRequest.addr
           p0 == pendingRequest.procNum
<1>1. TypeOK'
  BY BusType DEF IInv, BusTick
<1>2. /\ pendingRequest \in BusRequests
      /\ Transient(p0, a)
      /\ Received(brt, a, Snoopers) = {}
      /\ pendingRequest # NULL
  BY SnoopFacts DEF BusSnoop, BusHeld
<1>3. \A q \in Snoopers :
         LET st == coherStates[q][a]
             s == SnoopOf(brt, a, q)
         IN  /\ s.next \in UsedStates
             /\ s.send \in {"ACK", "DATA"}
             /\ st \in TransientStates => s.next = st
             /\ st \notin TransientStates => s.next \in {"INVALID", "SHARE"}
             /\ s.next = "SHARE" => brt = "BUSRD"
  BY SnoopFacts DEF BusSnoop
<1>4. p0 \in Procs /\ a \in Addrs
  BY <1>2 DEF BusRequests
<1>5. Snoop(brt, a, Snoopers)
  BY DEF BusSnoop
<1>6. UNCHANGED <<pendReq, readyReq, pendingMem, memOpTag>>
  BY <1>2, <1>5 DEF Snoop, Answered
<1>7. ASSUME NEW p \in Procs, NEW b \in Addrs
      PROVE  coherStates'[p][b] = IF p \in Snoopers /\ b = a
                                  THEN SnoopOf(brt, a, p).next
                                  ELSE coherStates[p][b]
  BY <1>4, <1>5 DEF Snoop, IInv, TypeOK, CoresTypeOK
<1>8. ASSUME NEW p \in Procs, NEW b \in Addrs
      PROVE  /\ coherStates[p][b] \in TransientStates =>
                  coherStates'[p][b] = coherStates[p][b]
             /\ coherStates'[p][b] \in TransientStates =>
                  coherStates'[p][b] = coherStates[p][b]
  BY <1>3, <1>7 DEF TransientStates
<1>9. StatesUsed'
  BY <1>3, <1>7 DEF IInv, StatesUsed
<1>10. SWMR'
  <2> SUFFICES ASSUME NEW b \in Addrs, NEW p \in Procs, NEW q \in Procs, p # q,
                      coherStates'[p][b] \in Owners
               PROVE  coherStates'[q][b] \notin Copies
    BY DEF SWMR, SingleWriter
  <2>1. b # a
    <3> SUFFICES ASSUME b = a PROVE FALSE
      OBVIOUS
    <3>1. p \notin Snoopers
      BY <1>3, <1>7 DEF Owners, TransientStates
    <3>2. p = p0
      BY <3>1 DEF Snoopers
    <3> QED
      BY <1>2, <1>8, <3>2 DEF Transient, TransientStates, Owners
  <2> QED
    BY <1>7, <2>1 DEF IInv, SWMR, SingleWriter
<1>11. \A p \in Procs, b \in Addrs : Transient(p, b)' <=> Transient(p, b)
  BY <1>8 DEF Transient
<1>12. RequestsMatch'
  BY <1>6, <1>11 DEF IInv, RequestsMatch
<1>13. queuedRequests' = queuedRequests
  <2>1. Answering("SHARED_DATA") = {}
    BY <1>3 DEF Answering
  <2> QED
    BY <2>1 DEF BusSnoop, IInv, TypeOK
<1>14. QueuesBacked'
  <2> SUFFICES ASSUME NEW p \in Procs, queuedRequests[p] # <<>>
               PROVE  Backed(queuedRequests[p][1])'
    BY <1>13 DEF IInv, RequestsBacked, QueuesBacked
  <2> DEFINE r == queuedRequests[p][1]
  <2>1. Backed(r) /\ r.procNum = p
    BY DEF IInv, RequestsBacked, QueuesBacked
  <2>2. queuedRequests[p] \in Seq(BusRequests)
    BY DEF IInv, TypeOK
  <2>3. r \in BusRequests
    BY <2>2
  <2>4. r.addr \in Addrs
    BY <2>3 DEF BusRequests
  <2>5. coherStates'[p][r.addr] = coherStates[p][r.addr]
    BY <1>8, <2>1, <2>4 DEF Backed, TransientStates
  <2> QED
    BY <1>13, <2>1, <2>5 DEF Backed
<1>15. /\ pendingRequest' # NULL
       /\ pendingRequest'.addr = a /\ pendingRequest'.procNum = p0
       /\ ~pendingRequest'.dataAvail
       /\ pendingRequest'.currentState = IF Answering("DATA") # {}
                                         THEN "TRANSFERING_CACHE"
                                         ELSE "WAITING_MEMORY"
       /\ pendingRequest'.brt = IF Answering("DATA") # {} THEN "DATA" ELSE brt
       /\ pendingRequest'.shared = pendingRequest.shared
  <2>1. Answering("SHARED") = {}
    BY <1>3 DEF Answering
  <2>2. pendingRequest' = [pendingRequest EXCEPT
           !.shared = @ \/ Answering("SHARED") # {},
           !.brt = IF Answering("DATA") # {} THEN "DATA" ELSE @,
           !.currentState = IF Answering("DATA") # {} THEN "TRANSFERING_CACHE"
                                                      ELSE "WAITING_MEMORY"]
    BY DEF BusSnoop
  <2>3. pendingRequest' \in BusRequests
    BY <1>2, <2>2 DEF BusRequests, BusReqTypes
  <2> QED
    BY <1>2, <2>1, <2>2, <2>3, NullAssumption DEF BusRequests, BusSnoop
<1>16. coherStates'[p0][a] = coherStates[p0][a]
  BY <1>2, <1>4, <1>8 DEF Transient
<1>17. PendingBacked'
  BY <1>2, <1>13, <1>15, <1>16
  DEF IInv, RequestsBacked, PendingBacked, Backed, Transient, BusSnoop
<1>18. NoneLost'
  BY <1>2, <1>11, <1>13, <1>15 DEF IInv, RequestsBacked, NoneLost
<1>19. SnoopHolds'
  <2>1. Snoopers' = Snoopers
    BY <1>15 DEF Snoopers
  <2>2. brt = "BUSRD" => coherStates[p0][a] = "INVALID_SHARED"
    BY <1>2 DEF IInv, RequestsBacked, PendingBacked, Backed, BusSnoop
  <2>3. \A q \in Snoopers : coherStates'[q][a] = SnoopOf(brt, a, q).next
    BY <1>4, <1>7 DEF Snoopers
  <2>4. \A q \in Snoopers :
          /\ coherStates'[q][a] # "MODIFIED"
          /\ coherStates'[q][a] = "SHARE" => brt = "BUSRD"
    BY <1>3, <2>3 DEF TransientStates
  <2> QED
    BY <1>15, <1>16, <2>1, <2>2, <2>4 DEF SnoopHolds
<1>20. MemoryInStep'
  <2>1. /\ memRequest' = [addr |-> a, procNum |-> p0]
        /\ memCountDown' = DRAM_FETCH_TICKS /\ phase' = "cache"
        /\ countDown' = IF Answering("DATA") # {} THEN CACHE_TRANSFER
                                                  ELSE DRAM_FETCH_TICKS
    BY DEF BusSnoop, Goto
  <2>2. memRequest' # NULL
    BY <1>4, <2>1, NullAssumption DEF MemRequests
  <2>3. ForPending'
    BY <1>15, <2>1 DEF ForPending
  <2>4. CASE Answering("DATA") = {}
    <3>1. countDown' = DRAM_FETCH_TICKS /\ pendingRequest'.currentState = "WAITING_MEMORY"
      BY <1>15, <2>1, <2>4
    <3>2. WaitInStep'
      BY <1>15, <2>1, <2>2, <2>3, <3>1, TicksAssumption DEF WaitInStep
    <3> QED
      BY <1>15, <3>1, <3>2, TicksAssumption DEF MemoryInStep, InStep
  <2>5. CASE Answering("DATA") # {}
    <3>1. /\ countDown' = CACHE_TRANSFER
          /\ pendingRequest'.currentState = "TRANSFERING_CACHE"
      BY <1>15, <2>1, <2>5
    <3> QED
      BY <1>15, <2>1, <2>3, <3>1, TicksAssumption DEF MemoryInStep, InStep
  <2> QED
    BY <2>4, <2>5
<1> QED
  BY <1>1, <1>9, <1>10, <1>12, <1>14, <1>17, <1>18, <1>19, <1>20
  DEF IInv, RequestsBacked

(* The delivery: DATA reaches a cache that waits for this very block, and  *)
(* nobody else owns it.                                                    *)
LEMMA DeliveryFacts ==
  ASSUME BasicScheme, IInv, BusHeld,
         \/ pendingRequest.dataAvail
         \/ countDown = 1 /\ pendingRequest.currentState = "TRANSFERING_CACHE"
  PROVE  /\ pendingRequest \in BusRequests
         /\ pendingRequest.currentState \in {"WAITING_MEMORY", "TRANSFERING_CACHE"}
         /\ memRequest = NULL
         /\ Delivered = "DATA"
         /\ coherStates[pendingRequest.procNum][pendingRequest.addr]
              \in UsedStates \cap TransientStates
         /\ DeliveryAsserts
<1>1. pendingRequest \in BusRequests
  BY DEF BusHeld, IInv, TypeOK
<1>2. pendingRequest.procNum \in Procs /\ pendingRequest.addr \in Addrs
  BY <1>1 DEF BusRequests
<1>3. /\ pendingRequest.currentState \in {"WAITING_MEMORY", "TRANSFERING_CACHE"}
      /\ memRequest = NULL
      /\ pendingRequest.currentState = "WAITING_MEMORY" => pendingRequest.dataAvail
      /\ pendingRequest.currentState = "TRANSFERING_CACHE" => ~pendingRequest.dataAvail
  BY <1>1 DEF BusHeld, BusBusy, IInv, MemoryInStep, InStep, WaitInStep, BusRequests
<1>4. Delivered = "DATA"
  BY <1>3 DEF BusHeld, IInv, RequestsBacked, PendingBacked, Delivered
<1>5. Transient(pendingRequest.procNum, pendingRequest.addr)
  BY <1>3 DEF BusHeld, IInv, RequestsBacked, PendingBacked, Backed, Transient,
              TransientStates
<1>6. coherStates[pendingRequest.procNum][pendingRequest.addr]
        \in UsedStates \cap TransientStates
  BY <1>2, <1>5 DEF IInv, StatesUsed, Transient
<1>7. \E r \in pendReq :
         r.addr = pendingRequest.addr /\ r.proc = pendingRequest.procNum
  BY <1>2, <1>5 DEF IInv, RequestsMatch
<1>8. DeliveryAsserts
  BY <1>4, <1>6, <1>7, AnswerTable DEF DeliveryAsserts, SnoopAsserts, Received, SnoopOf
<1> QED
  BY <1>1, <1>3, <1>4, <1>6, <1>8

LEMMA BusDeliverKeeps == ASSUME BasicScheme PROVE IInv /\ BusDeliver => IInv'
<1> SUFFICES ASSUME IInv, BusDeliver, ~Crash PROVE IInv'
  BY CrashKeeps
<1> DEFINE a == pendingRequest.addr
           p0 == pendingRequest.procNum
           st == coherStates[p0][a]
<1>1. TypeOK'
  BY BusType DEF IInv, BusTick
<1>2. /\ pendingRequest \in BusRequests /\ pendingRequest # NULL
      /\ pendingRequest.currentState \in {"WAITING_MEMORY", "TRANSFERING_CACHE"}
      /\ memRequest = NULL
      /\ Delivered = "DATA"
      /\ st \in UsedStates \cap TransientStates
  BY DeliveryFacts DEF BusDeliver, BusHeld
<1>3. p0 \in Procs /\ a \in Addrs
  BY <1>2 DEF BusRequests
<1>4. /\ SnoopOf("DATA", a, p0).ca = "DATA_RECV"
      /\ SnoopOf("DATA", a, p0).next =
           IF st = "INVALID_SHARED" THEN "SHARE" ELSE "MODIFIED"
      /\ SnoopOf("DATA", a, p0).next \in UsedStates
  BY <1>2, AnswerTable DEF SnoopOf
<1>5. Snoop("DATA", a, {p0})
  BY <1>2 DEF BusDeliver
<1>6. /\ pendReq' = pendReq \ {r \in pendReq : r.addr = a /\ r.proc = p0}
      /\ readyReq' = readyReq \cup {r \in pendReq : r.addr = a /\ r.proc = p0}
      /\ UNCHANGED <<pendingMem, memOpTag>>
  BY <1>4, <1>5 DEF Snoop, Answered, Received
<1>7. ASSUME NEW p \in Procs, NEW b \in Addrs
      PROVE  coherStates'[p][b] = IF p = p0 /\ b = a
                                  THEN SnoopOf("DATA", a, p0).next
                                  ELSE coherStates[p][b]
  BY <1>3, <1>5 DEF Snoop, IInv, TypeOK, CoresTypeOK
<1>8. StatesUsed'
  BY <1>4, <1>7 DEF IInv, StatesUsed
<1>9. ASSUME NEW q \in Procs, q # p0
      PROVE  /\ coherStates[q][a] # "MODIFIED"
             /\ st # "INVALID_SHARED" => coherStates[q][a] # "SHARE"
  BY <1>2, <1>9 DEF IInv, SnoopHolds, Snoopers
<1>10. SWMR'
  <2> SUFFICES ASSUME NEW b \in Addrs, NEW p \in Procs, NEW q \in Procs, p # q,
                      coherStates'[p][b] \in Owners
               PROVE  coherStates'[q][b] \notin Copies
    BY DEF SWMR, SingleWriter
  <2>1. CASE b # a
    BY <1>7, <2>1 DEF IInv, SWMR, SingleWriter
  <2>2. CASE b = a
    <3>1. coherStates'[p][a] = "MODIFIED"
      <4>1. coherStates'[p][a] \in UsedStates
        BY <1>3, <1>8 DEF StatesUsed
      <4> QED
        BY <2>2, <4>1 DEF UsedStates, MIStates, MSIStates, Owners
    <3>2. p = p0 /\ st # "INVALID_SHARED"
      BY <1>3, <1>4, <1>7, <1>9, <3>1
    <3>3. /\ coherStates'[q][a] = coherStates[q][a]
          /\ coherStates[q][a] \notin {"MODIFIED", "SHARE"}
      BY <1>3, <1>7, <1>9, <3>2
    <3>4. coherStates[q][a] \in UsedStates
      BY <1>3 DEF IInv, StatesUsed
    <3> QED
      BY <2>2, <3>3, <3>4 DEF UsedStates, MIStates, MSIStates, Copies
  <2> QED
    BY <2>1, <2>2
<1>11. ASSUME NEW p \in Procs, NEW b \in Addrs
       PROVE  Transient(p, b)' <=> Transient(p, b) /\ ~(p = p0 /\ b = a)
  BY <1>4, <1>7 DEF Transient, TransientStates
<1>12. \A r \in pendReq : r.proc = p0 => r.addr = a
  <2>1. PICK s \in pendReq : s.proc = p0 /\ s.addr = a
    BY <1>2, <1>3 DEF IInv, RequestsMatch, Transient
  <2> QED
    BY <2>1 DEF IInv, RequestsMatch
<1>13. RequestsMatch'
  <2>1. pendReq' \cup readyReq' = pendReq \cup readyReq
    BY <1>6
  <2>2. pendReq' \cap readyReq' = {}
    BY <1>6 DEF IInv, RequestsMatch
  <2>3. ASSUME NEW p \in Procs, NEW b \in Addrs
        PROVE  Transient(p, b)' <=> \E r \in pendReq' : r.proc = p /\ r.addr = b
    BY <1>6, <1>11 DEF IInv, RequestsMatch
  <2> QED
    BY <1>6, <2>1, <2>2, <2>3 DEF IInv, RequestsMatch
<1>14. queuedRequests[p0] = <<>> /\ UNCHANGED queuedRequests
  BY <1>2 DEF IInv, RequestsBacked, PendingBacked, BusDeliver
<1>15. QueuesBacked'
  <2> SUFFICES ASSUME NEW p \in Procs, queuedRequests[p] # <<>>
               PROVE  Backed(queuedRequests[p][1])'
    BY <1>14 DEF IInv, RequestsBacked, QueuesBacked
  <2> DEFINE r == queuedRequests[p][1]
  <2>1. Backed(r) /\ r.procNum = p /\ p # p0
    BY <1>14 DEF IInv, RequestsBacked, QueuesBacked
  <2>2. queuedRequests[p] \in Seq(BusRequests)
    BY DEF IInv, TypeOK
  <2>3. r \in BusRequests
    BY <2>2
  <2>4. r.addr \in Addrs
    BY <2>3 DEF BusRequests
  <2>5. coherStates'[p][r.addr] = coherStates[p][r.addr]
    BY <1>7, <2>1, <2>4
  <2> QED
    BY <1>14, <2>1, <2>5 DEF Backed
<1>16. NoneLost'
  <2> SUFFICES ASSUME NEW p \in Procs, NEW b \in Addrs, Transient(p, b)'
               PROVE  queuedRequests[p] # <<>> /\ queuedRequests[p][1].addr = b
    BY <1>14 DEF NoneLost
  <2>1. Transient(p, b) /\ ~(p = p0 /\ b = a)
    BY <1>11
  <2>2. p # p0
    BY <1>12, <2>1 DEF IInv, RequestsMatch
  <2> QED
    BY <2>1, <2>2 DEF IInv, RequestsBacked, NoneLost
<1>17. pendingRequest' = NULL /\ countDown' = 0 /\ memRequest' = NULL
  BY <1>2 DEF BusDeliver, memVars
<1>18. PendingBacked' /\ SnoopHolds' /\ MemoryInStep'
  BY <1>17 DEF PendingBacked, SnoopHolds, MemoryInStep, InStep
<1> QED
  BY <1>1, <1>8, <1>10, <1>13, <1>15, <1>16, <1>18 DEF IInv, RequestsBacked

(* A memory operation is fetched by a processor that waits for nothing, so *)
(* none of its blocks is awaited and it has no request in the interconnect.*)
LEMMA FetchKeeps == ASSUME BasicScheme PROVE IInv /\ Fetch => IInv'
<1> SUFFICES ASSUME IInv, NEW isRead \in BOOLEAN, NEW a \in Addrs,
                    FetchMemory(isRead, a),
                    IF PermOf(isRead, a).send = "NO_REQ"
                    THEN UNCHANGED <<pendingRequest, queuedRequests, countDown>>
                    ELSE BusReq(PermOf(isRead, a).send, a, turn),
                    UNCHANGED <<lastProc, memVars>>,
                    TypeOK'
             PROVE  IInv'
  BY FetchType DEF Fetch, IInv
<1> DEFINE s == PermOf(isRead, a)
           new == [proc |-> turn, addr |-> a, tag |-> memOpTag[turn]]
<1>1. phase = "processor" /\ turn \in Procs /\ ~pendingMem[turn]
  BY DEF FetchMemory, CanFetch, IInv, TypeOK, CoresTypeOK
<1>2. \A r \in pendReq \cup readyReq : r.proc # turn
  BY <1>1 DEF IInv, RequestsMatch
<1>3. \A b \in Addrs : ~Transient(turn, b)
  BY <1>1, <1>2 DEF IInv, RequestsMatch
<1>4. pendingRequest # NULL => pendingRequest.procNum # turn
  <2> SUFFICES ASSUME pendingRequest # NULL, pendingRequest.procNum = turn
               PROVE  FALSE
    OBVIOUS
  <2>1. pendingRequest.addr \in Addrs
    BY DEF IInv, TypeOK, BusRequests
  <2>2. Transient(turn, pendingRequest.addr)
    BY DEF IInv, RequestsBacked, PendingBacked, Backed, Transient, TransientStates
  <2> QED
    BY <1>3, <2>1, <2>2
<1>5. queuedRequests[turn] = <<>>
  <2> SUFFICES ASSUME queuedRequests[turn] # <<>> PROVE FALSE
    OBVIOUS
  <2>1. queuedRequests[turn] \in Seq(BusRequests)
    BY <1>1 DEF IInv, TypeOK
  <2>2. queuedRequests[turn][1] \in BusRequests
    BY <2>1
  <2>3. queuedRequests[turn][1].addr \in Addrs
    BY <2>2 DEF BusRequests
  <2>4. Transient(turn, queuedRequests[turn][1].addr)
    BY <1>1 DEF IInv, RequestsBacked, QueuesBacked, Backed, Transient, TransientStates
  <2> QED
    BY <1>3, <2>3, <2>4
<1>6. coherStates[turn][a] \in UsedStates \ TransientStates
  BY <1>1, <1>3 DEF IInv, StatesUsed, Transient
<1>7. /\ s.perm \in BOOLEAN
      /\ s.perm => s.next = coherStates[turn][a] /\ s.send = "NO_REQ"
      /\ ~s.perm =>
           /\ s.next \in UsedStates \cap TransientStates
           /\ \/ s.send = "BUSRD" /\ s.next = "INVALID_SHARED"
              \/ /\ s.send = "BUSWR"
                 /\ s.next \in {"INVALID_MODIFIED", "SHARED_MODIFIED"}
  BY <1>6, PermTable DEF PermOf
<1>8. ASSUME NEW p \in Procs, NEW b \in Addrs
      PROVE  coherStates'[p][b] = IF p = turn /\ b = a THEN s.next
                                                      ELSE coherStates[p][b]
  BY <1>1 DEF FetchMemory, IInv, TypeOK, CoresTypeOK
<1>9. /\ pendingMem'[turn] /\ memOpTag' = memOpTag
      /\ \A p \in Procs : p # turn => pendingMem'[p] = pendingMem[p]
  BY <1>1 DEF FetchMemory, IInv, TypeOK, CoresTypeOK
<1>10. /\ new.proc = turn /\ new.addr = a /\ new.tag = memOpTag[turn]
  OBVIOUS
<1>11. /\ s.perm => pendReq' = pendReq /\ readyReq' = readyReq \cup {new}
       /\ ~s.perm => pendReq' = pendReq \cup {new} /\ readyReq' = readyReq
  BY DEF FetchMemory
<1>12. pendReq' \cup readyReq' = (pendReq \cup readyReq) \cup {new}
  BY <1>7, <1>11
<1>13. ASSUME NEW r \in pendReq \cup readyReq
       PROVE  r.proc \in Procs /\ r.proc # turn
  BY <1>2, <1>13 DEF IInv, TypeOK, CoresTypeOK, Requests
<1>14. MemoryInStep'
  <2>1. InStep /\ phase' # "interconnect" /\ UNCHANGED <<memRequest, memCountDown>>
    BY <1>1 DEF IInv, MemoryInStep, FetchMemory, NextProcessor, memVars
  <2>2. CASE UNCHANGED <<pendingRequest, countDown>>
    BY <1>1, <2>1, <2>2 DEF MemoryInStep, InStep, WaitInStep, ForPending
  <2>3. CASE /\ pendingRequest = NULL
             /\ pendingRequest' = NewRequest(s.send, a, turn, "WAITING_CACHE")
             /\ countDown' = CACHE_DELAY
    <3>1. memRequest = NULL
      BY <2>1, <2>3 DEF InStep
    <3>2. /\ pendingRequest'.currentState = "WAITING_CACHE"
          /\ ~pendingRequest'.dataAvail
      BY <2>3 DEF NewRequest
    <3>3. pendingRequest' # NULL
      <4>1. s.send \in BusReqTypes
        BY <1>7 DEF BusReqTypes
      <4> QED
        BY <1>1, <2>3, <4>1, NewRequestType, NullAssumption
    <3> QED
      BY <2>1, <2>3, <3>1, <3>2, <3>3, TicksAssumption DEF MemoryInStep, InStep
  <2> QED
    BY <2>2, <2>3 DEF BusReq
<1>15. /\ \A r \in pendReq' \cup readyReq' :
             pendingMem'[r.proc] /\ r.tag = memOpTag'[r.proc]
       /\ \A r, t \in pendReq' \cup readyReq' : r.proc = t.proc => r = t
       /\ pendReq' \cap readyReq' = {}
       /\ \A p \in Procs : pendingMem'[p] =>
            \E r \in pendReq' \cup readyReq' : r.proc = p
  <2>1. \A r \in pendReq' \cup readyReq' :
           pendingMem'[r.proc] /\ r.tag = memOpTag'[r.proc]
    BY <1>9, <1>10, <1>12, <1>13 DEF IInv, RequestsMatch
  <2>2. \A r, t \in pendReq' \cup readyReq' : r.proc = t.proc => r = t
    BY <1>10, <1>12, <1>13 DEF IInv, RequestsMatch
  <2>3. pendReq' \cap readyReq' = {}
    BY <1>2, <1>7, <1>10, <1>11 DEF IInv, RequestsMatch
  <2>4. \A p \in Procs : pendingMem'[p] =>
           \E r \in pendReq' \cup readyReq' : r.proc = p
    BY <1>9, <1>10, <1>12 DEF IInv, RequestsMatch
  <2> QED
    BY <2>1, <2>2, <2>3, <2>4
<1>16. \A p \in Procs : queuedRequests[p] # <<>> =>
          queuedRequests[p][1] \in BusRequests
  <2> SUFFICES ASSUME NEW p \in Procs, queuedRequests[p] # <<>>
               PROVE  queuedRequests[p][1] \in BusRequests
    OBVIOUS
  <2>1. queuedRequests[p] \in Seq(BusRequests)
    BY DEF IInv, TypeOK
  <2> QED
    BY <2>1
<1>17. CASE s.perm
  <2>1. \A p \in Procs, b \in Addrs : coherStates'[p][b] = coherStates[p][b]
    BY <1>7, <1>8, <1>17
  <2>2. UNCHANGED <<pendingRequest, queuedRequests>>
    BY <1>7, <1>17
  <2>3. \A p \in Procs, b \in Addrs : Transient(p, b)' <=> Transient(p, b)
    BY <2>1 DEF Transient
  <2>4. StatesUsed' /\ SWMR'
    BY <2>1 DEF IInv, StatesUsed, SWMR, SingleWriter
  <2>5. RequestsMatch'
    <3>1. \A p \in Procs, b \in Addrs :
             Transient(p, b)' <=> \E r \in pendReq' : r.proc = p /\ r.addr = b
      BY <1>11, <1>17, <2>3 DEF IInv, RequestsMatch
    <3> QED
      BY <1>15, <3>1 DEF RequestsMatch
  <2>6. RequestsBacked' /\ SnoopHolds'
    <3>1. \A r \in BusRequests : Backed(r)' <=> Backed(r)
      BY <2>1 DEF Backed, BusRequests
    <3>3. QueuesBacked'
      BY <1>16, <2>2, <3>1 DEF IInv, RequestsBacked, QueuesBacked
    <3>4. pendingRequest # NULL => pendingRequest \in BusRequests
      BY DEF IInv, TypeOK
    <3>5. PendingBacked'
      BY <2>2, <2>3, <3>1, <3>4
      DEF IInv, RequestsBacked, PendingBacked, BusRequests
    <3>6. NoneLost'
      BY <2>2, <2>3 DEF IInv, RequestsBacked, NoneLost
    <3>7. SnoopHolds'
      BY <2>1, <2>2, <3>4 DEF IInv, SnoopHolds, Snoopers, BusRequests
    <3> QED
      BY <3>3, <3>5, <3>6, <3>7 DEF RequestsBacked
  <2> QED
    BY <1>14, <2>4, <2>5, <2>6 DEF IInv
<1>18. CASE ~s.perm
  <2>1. /\ coherStates'[turn][a] = s.next
        /\ s.next \in UsedStates \cap TransientStates
        /\ s.send # "NO_REQ"
    BY <1>1, <1>7, <1>8, <1>18
  <2>10. ASSUME NEW r, r.procNum = turn, r.addr = a, r.brt = s.send
         PROVE  Backed(r)'
    BY <1>7, <1>18, <2>1, <2>10 DEF Backed
  <2>2. ASSUME NEW p \in Procs, NEW b \in Addrs
        PROVE  Transient(p, b)' <=> Transient(p, b) \/ (p = turn /\ b = a)
    BY <1>8, <2>1 DEF Transient
  <2>3. StatesUsed'
    BY <1>8, <2>1 DEF IInv, StatesUsed
  <2>4. SWMR'
    <3>1. s.next \notin Owners /\ s.next \notin Copies
      BY <2>1 DEF TransientStates, Owners, Copies
    <3> QED
      BY <1>8, <3>1 DEF IInv, SWMR, SingleWriter
  <2>5. RequestsMatch'
    <3>1. \A p \in Procs, b \in Addrs :
             Transient(p, b)' <=> \E r \in pendReq' : r.proc = p /\ r.addr = b
      <4> TAKE p \in Procs, b \in Addrs
      <4>1. Transient(p, b) <=> \E r \in pendReq : r.proc = p /\ r.addr = b
        BY DEF IInv, RequestsMatch
      <4>2. pendReq' = pendReq \cup {new}
        BY <1>11, <1>18
      <4> HIDE DEF new
      <4> QED
        BY <1>10, <2>2, <4>1, <4>2
    <3> QED
      BY <1>15, <3>1 DEF RequestsMatch
  <2>6. BusReq(s.send, a, turn)
    BY <2>1
  <2>7. ASSUME NEW r \in BusRequests, r.procNum # turn
        PROVE  Backed(r)' <=> Backed(r)
    BY <1>8, <2>7 DEF Backed, BusRequests
  <2>8. CASE pendingRequest = NULL
    <3>1. /\ queuedRequests' = queuedRequests
          /\ pendingRequest' = NewRequest(s.send, a, turn, "WAITING_CACHE")
      BY <2>6, <2>8 DEF BusReq
    <3>2. /\ pendingRequest'.procNum = turn /\ pendingRequest'.addr = a
          /\ pendingRequest'.brt = s.send
          /\ ~pendingRequest'.shared
          /\ pendingRequest'.currentState = "WAITING_CACHE"
      BY <3>1 DEF NewRequest
    <3>3. QueuesBacked'
      BY <1>5, <1>16, <2>7, <3>1 DEF IInv, RequestsBacked, QueuesBacked
    <3>4. PendingBacked'
      BY <1>5, <1>7, <1>18, <2>1, <3>1, <3>2 DEF PendingBacked, Backed
    <3>5. pendingRequest' # NULL
      BY <1>1, <2>1, <1>7, <1>18, <3>1, NewRequestType, NullAssumption DEF BusReqTypes
    <3>6. NoneLost'
      BY <2>2, <2>8, <3>1, <3>2, <3>5 DEF IInv, RequestsBacked, NoneLost
    <3>7. SnoopHolds'
      BY <3>2 DEF SnoopHolds
    <3> QED
      BY <1>14, <2>3, <2>4, <2>5, <3>3, <3>4, <3>6, <3>7 DEF IInv, RequestsBacked
  <2>9. CASE pendingRequest # NULL
    <3> DEFINE new1 == NewRequest(s.send, a, turn, "QUEUED")
    <3>1. /\ pendingRequest' = pendingRequest
          /\ queuedRequests' = [queuedRequests EXCEPT ![turn] = Append(@, new1)]
      BY <2>6, <2>9 DEF BusReq
    <3>2. /\ queuedRequests'[turn] = <<new1>>
          /\ \A p \in Procs : p # turn => queuedRequests'[p] = queuedRequests[p]
      BY <1>1, <1>5, <3>1 DEF IInv, TypeOK
    <3>3. /\ queuedRequests'[turn][1] = new1
          /\ Len(queuedRequests'[turn]) = 1 /\ queuedRequests'[turn] # <<>>
      BY <3>2
    <3>4. /\ new1.brt = s.send
          /\ new1.procNum = turn /\ new1.addr = a /\ ~new1.shared /\ ~new1.dataAvail
      BY DEF NewRequest
    <3>5. QueuesBacked'
      <4> SUFFICES ASSUME NEW p \in Procs, queuedRequests'[p] # <<>>
                   PROVE  /\ Len(queuedRequests'[p]) <= 1
                          /\ Backed(queuedRequests[p][1])'
                          /\ queuedRequests'[p][1].procNum = p
                          /\ ~queuedRequests'[p][1].shared
                          /\ ~queuedRequests'[p][1].dataAvail
        BY DEF QueuesBacked
      <4>1. CASE p = turn
        <5>1. queuedRequests'[p][1] = new1 /\ Len(queuedRequests'[p]) = 1
          BY <3>3, <4>1
        <5>2. coherStates'[new1.procNum][new1.addr] = s.next
          BY <2>1, <3>4
        <5>3. \/ new1.brt = "BUSRD" /\ s.next = "INVALID_SHARED"
              \/ /\ new1.brt = "BUSWR"
                 /\ s.next \in {"INVALID_MODIFIED", "SHARED_MODIFIED"}
          BY <1>7, <1>18, <3>4
        <5> HIDE DEF new1, s
        <5>4. Backed(queuedRequests[p][1])'
          BY <5>1, <5>2, <5>3 DEF Backed
        <5> QED
          BY <3>4, <4>1, <5>1, <5>4
      <4>2. CASE p # turn
        <5> DEFINE r == queuedRequests[p][1]
        <5>1. queuedRequests'[p] = queuedRequests[p]
          BY <3>2, <4>2
        <5>2. /\ Len(queuedRequests[p]) <= 1 /\ Backed(r)
              /\ r.procNum = p /\ ~r.shared /\ ~r.dataAvail
          BY <5>1 DEF IInv, RequestsBacked, QueuesBacked
        <5>3. r.addr \in Addrs
          BY <1>16, <5>1 DEF BusRequests
        <5>4. coherStates'[p][r.addr] = coherStates[p][r.addr]
          BY <1>8, <4>2, <5>3
        <5> QED
          BY <5>1, <5>2, <5>4 DEF Backed
      <4> QED
        BY <4>1, <4>2
    <3>6. pendingRequest \in BusRequests /\ pendingRequest.procNum # turn
      BY <1>4, <2>9 DEF IInv, TypeOK
    <3>7. pendingRequest.procNum \in Procs /\ pendingRequest.addr \in Addrs
      BY <3>6 DEF BusRequests
    <3>8. /\ Backed(pendingRequest)' <=> Backed(pendingRequest)
          /\ Transient(pendingRequest.procNum, pendingRequest.addr)' <=>
               Transient(pendingRequest.procNum, pendingRequest.addr)
      BY <2>2, <2>7, <3>1, <3>6, <3>7 DEF Backed, Transient
    <3>9. PendingBacked'
      <4>1. queuedRequests'[pendingRequest.procNum] =
               queuedRequests[pendingRequest.procNum]
        BY <3>2, <3>6, <3>7
      <4> QED
        BY <2>9, <3>1, <3>8, <4>1 DEF IInv, RequestsBacked, PendingBacked
    <3>10. NoneLost'
      <4> SUFFICES ASSUME NEW p \in Procs, NEW b \in Addrs, Transient(p, b)'
                   PROVE  \/ pendingRequest.procNum = p /\ pendingRequest.addr = b
                          \/ /\ queuedRequests'[p] # <<>>
                             /\ queuedRequests'[p][1].addr = b
        BY <2>9, <3>1 DEF NoneLost
      <4>1. CASE p = turn
        <5>1. b = a
          BY <1>3, <2>2, <4>1
        <5> QED
          BY <3>3, <3>4, <4>1, <5>1
      <4>2. CASE p # turn
        <5>1. Transient(p, b) /\ queuedRequests'[p] = queuedRequests[p]
          BY <2>2, <3>2, <4>2
        <5> QED
          BY <5>1 DEF IInv, RequestsBacked, NoneLost
      <4> QED
        BY <4>1, <4>2
    <3>11. SnoopHolds'
      <4>1. Snoopers' = Snoopers
        BY <3>1 DEF Snoopers
      <4>2. ASSUME NEW q \in Procs
            PROVE  coherStates'[q][pendingRequest.addr] \in {"MODIFIED", "SHARE"}
                     => coherStates'[q][pendingRequest.addr] =
                          coherStates[q][pendingRequest.addr]
        BY <1>8, <2>1, <3>7 DEF TransientStates
      <4>3. coherStates'[pendingRequest.procNum][pendingRequest.addr] =
              coherStates[pendingRequest.procNum][pendingRequest.addr]
        BY <1>8, <3>6, <3>7
      <4> QED
        BY <3>1, <4>1, <4>2, <4>3 DEF IInv, SnoopHolds, Snoopers
    <3> QED
      BY <1>14, <2>3, <2>4, <2>5, <3>5, <3>9, <3>10, <3>11 DEF IInv, RequestsBacked
  <2> QED
    BY <2>8, <2>9
<1> QED
  BY <1>7, <1>17, <1>18

(* The steps of the cores alone: what the cache calls back was answered,   *)
(* so no pending request is touched.                                       *)
LEMMA CoreStepKeeps == IInv /\ CoreStep => IInv'
<1> SUFFICES ASSUME IInv, CoreStep PROVE IInv'
  OBVIOUS
<1>1. TypeOK'
  BY CoreType DEF IInv
<1>2. UNCHANGED <<coherStates, pendReq, pendingRequest, queuedRequests, countDown,
                  memRequest, memCountDown>>
  BY DEF CoreStep, CacheTick, Blocked, TraceEnd, FetchOther, Stopped, coreVars,
         busVars, memVars
<1>3. StatesUsed' /\ SWMR' /\ RequestsBacked' /\ SnoopHolds'
  BY <1>2 DEF IInv, StatesUsed, SWMR, SingleWriter, RequestsBacked, QueuesBacked,
              PendingBacked, NoneLost, Backed, Transient, SnoopHolds, Snoopers
<1>4. MemoryInStep'
  <2>1. \/ phase # "interconnect" /\ phase # "aborted" /\ phase' # "interconnect"
        \/ phase' = phase
    BY DEF CoreStep, CacheTick, Blocked, TraceEnd, CanFetch, FetchOther, Stopped,
           NextProcessor, controlVars
  <2> QED
    BY <1>2, <2>1 DEF IInv, MemoryInStep, InStep, WaitInStep, ForPending
<1>5. RequestsMatch'
  <2>1. CASE CacheTick
    <3>1. \A r \in pendReq \cup readyReq : r.proc \in Procs /\ r \in Requests
      BY DEF IInv, TypeOK, CoresTypeOK, Requests
    <3>2. \A r \in pendReq : ~Completed(r.proc)
      BY DEF Completed, IInv, RequestsMatch
    <3>3. /\ readyReq' = {}
          /\ \A p \in Procs :
               /\ pendingMem'[p] <=> pendingMem[p] /\ ~Completed(p)
               /\ ~Completed(p) => memOpTag'[p] = memOpTag[p]
      BY <2>1 DEF CacheTick
    <3>4. \A r \in pendReq : pendingMem'[r.proc] /\ r.tag = memOpTag'[r.proc]
      BY <3>1, <3>2, <3>3 DEF IInv, RequestsMatch
    <3>5. ASSUME NEW p \in Procs, pendingMem'[p]
          PROVE  \E r \in pendReq : r.proc = p
      <4>1. pendingMem[p] /\ ~Completed(p)
        BY <3>3, <3>5
      <4>2. PICK r \in pendReq \cup readyReq : r.proc = p
        BY <4>1 DEF IInv, RequestsMatch
      <4>3. r \notin readyReq
        BY <4>1, <4>2 DEF Completed, IInv, RequestsMatch
      <4> QED
        BY <4>2, <4>3
    <3> QED
      BY <1>2, <3>3, <3>4, <3>5 DEF IInv, RequestsMatch, Transient
  <2>2. CASE Blocked \/ TraceEnd \/ FetchOther \/ Stopped
    <3>1. UNCHANGED <<readyReq, pendingMem, memOpTag>>
      BY <2>2 DEF Blocked, TraceEnd, FetchOther, Stopped, coreVars
    <3> QED
      BY <1>2, <3>1 DEF IInv, RequestsMatch, Transient
  <2> QED
    BY <2>1, <2>2 DEF CoreStep
<1> QED
  BY <1>1, <1>3, <1>4, <1>5 DEF IInv

LEMMA NextKeeps == ASSUME BasicScheme PROVE IInv /\ [Next]_vars => IInv'
<1>1. ASSUME IInv, UNCHANGED vars PROVE IInv'
  <2>1. TypeOK'
    BY <1>1 DEF vars, controlVars, coreVars, busVars, memVars, IInv, TypeOK, CoresTypeOK
  <2>2. CoherencePart'
    BY <1>1, CoherencePartKept DEF vars, coreVars, busVars, IInv, CoherencePart
  <2>3. MemoryInStep'
    BY <1>1 DEF vars, controlVars, busVars, memVars, IInv, MemoryInStep, InStep,
                WaitInStep, ForPending
  <2> QED
    BY <2>1, <2>2, <2>3 DEF IInv, CoherencePart
<1> QED
  BY <1>1, MemoryKeeps, BusCountKeeps, BusSnoopKeeps, BusDeliverKeeps, BusGrantKeeps,
     BusIdleKeeps, FetchKeeps, CoreStepKeeps
  DEF Next, BusTick

THEOREM InductiveInvariant == ASSUME BasicScheme PROVE Spec => []IInv
BY InitIInv, NextKeeps, PTL DEF Spec
----------------------------------------------------------------------------
(* Under MI and MSI the bus lets at most one cache own a block, and nobody *)
(* else holds a copy of it then (busTick, busReq and permReq together).    *)
THEOREM BusSWMR == ASSUME BasicScheme PROVE Spec => []SWMR
<1>1. IInv => SWMR
  BY DEF IInv
<1> QED
  BY <1>1, InductiveInvariant, PTL

(* Every request the cache keeps (pendReq, readyReq) is for the current    *)
(* operation of a blocked processor, and for a block whose state waits.    *)
THEOREM BusRequestsMatch == ASSUME BasicScheme PROVE Spec => []RequestsMatch
<1>1. IInv => RequestsMatch
  BY DEF IInv
<1> QED
  BY <1>1, InductiveInvariant, PTL

(* Every awaited block has exactly one request of the right type on the    *)
(* bus or in its processor's queue, and there are no other requests.       *)
THEOREM BusRequestsBacked == ASSUME BasicScheme PROVE Spec => []RequestsBacked
<1>1. IInv => RequestsBacked
  BY DEF IInv
<1> QED
  BY <1>1, InductiveInvariant, PTL

(* Between the snoop of a request and its delivery no other cache acquires *)
(* the block.                                                              *)
THEOREM BusSnoopHolds == ASSUME BasicScheme PROVE Spec => []SnoopHolds
<1>1. IInv => SnoopHolds
  BY DEF IInv
<1> QED
  BY <1>1, InductiveInvariant, PTL

(* The memory serves the request that has the bus, and the two countdowns  *)
(* agree, whatever the two latencies are.                                  *)
THEOREM BusMemoryInStep == ASSUME BasicScheme PROVE Spec => []MemoryInStep
<1>1. IInv => MemoryInStep
  BY DEF IInv
<1> QED
  BY <1>1, InductiveInvariant, PTL

(* No assertion of busTick, of memory's busReq or of the caches' callbacks *)
(* fails: the snoop meets a free memory and at most one owner, and the     *)
(* answer a cache that waits for it.  (The memory must not scan links[].)  *)
THEOREM BusNoAssertionFails ==
  ASSUME BasicScheme, ScanLinks = FALSE
  PROVE  Spec => []NoAssertionFails
<1>1. Init => NoAssertionFails
  BY DEF Init, CoresInit, NoAssertionFails
<1>2. ASSUME IInv, NoAssertionFails, [Next]_vars PROVE NoAssertionFails'
  <2>1. CASE BusCount
    <3>1. pendingRequest # NULL
      BY <1>2, <2>1 DEF BusCount, BusBusy, IInv, MemoryInStep, InStep, TypeOK
    <3> QED
      BY <2>1, <3>1 DEF BusCount, Goto, NoAssertionFails
  <2>2. CASE BusSnoop
    <3>1. BusSnoopAsserts
      BY <1>2, <2>2, SnoopFacts DEF BusSnoop
    <3> QED
      BY <2>2, <3>1 DEF BusSnoop, Goto, NoAssertionFails
  <2>3. CASE BusDeliver
    <3>1. DeliveryAsserts
      BY <1>2, <2>3, DeliveryFacts DEF BusDeliver
    <3> QED
      BY <2>3, <3>1 DEF BusDeliver, Goto, NoAssertionFails
  <2>4. CASE MemoryIdle \/ MemoryServe \/ BusGrant \/ BusIdle
    <3>1. MemoryServe => pendingRequest # NULL
      BY <1>2 DEF MemoryServe, IInv, MemoryInStep, InStep
    <3> QED
      BY <2>4, <3>1 DEF MemoryIdle, MemoryServe, BusGrant, BusIdle, Goto, NoAssertionFails
  <2>5. CASE Fetch \/ CoreStep
    BY <1>2, <2>5 DEF Fetch, FetchMemory, CoreStep, CacheTick, Blocked, TraceEnd,
                      FetchOther, Stopped, NextProcessor, controlVars, CanFetch,
                      NoAssertionFails
  <2>6. CASE UNCHANGED vars
    BY <1>2, <2>6 DEF vars, controlVars, NoAssertionFails
  <2> QED
    BY <1>2, <2>1, <2>2, <2>3, <2>4, <2>5, <2>6 DEF Next, BusTick
<1> QED
  BY <1>1, <1>2, InductiveInvariant, PTL DEF Spec
----------------------------------------------------------------------------
(* The bus implements the abstract promise of coherence under MI and MSI,  *)
(* for every number of processors, blocks, operations and every latency.   *)
Wanted(p, a) == WantedIn(coherStates[p][a])

(* The rights of the states that MI and MSI use.                           *)
LEMMA RightsTable ==
  ASSUME BasicScheme, NEW st \in UsedStates
  PROVE  /\ HeldIn(st) \in {"none", "read", "write"}
         /\ WantedIn(st) \in {"none", "read", "write"}
         /\ HeldIn(st) = "write" <=> st = "MODIFIED"
         /\ HeldIn(st) = "read" <=> st = "SHARE"
         /\ WantedIn(st) = "read" <=> st = "INVALID_SHARED"
         /\ WantedIn(st) = "write" <=> st \in {"INVALID_MODIFIED", "SHARED_MODIFIED"}
         /\ WantedIn(st) = "none" <=> st \notin TransientStates
  BY DEF BasicScheme, UsedStates, MIStates, MSIStates, TransientStates, HeldIn,
         WantedIn, Owners

(* A hit has the right it needs; a miss waits for it and holds none.       *)
LEMMA PermRights ==
  ASSUME BasicScheme, NEW isRead \in BOOLEAN,
         NEW st \in UsedStates \ TransientStates
  PROVE  LET s == CacheStep(isRead, st)
             right == IF isRead /\ Scheme = "MSI" THEN "read" ELSE "write"
         IN  IF s.perm
             THEN s.next = st /\ (HeldIn(st) = "write" \/ HeldIn(st) = right)
             ELSE /\ HeldIn(st) # "write" /\ HeldIn(st) # right
                  /\ HeldIn(s.next) = "none" /\ WantedIn(s.next) = right
  BY DEF BasicScheme, UsedStates, MIStates, MSIStates, TransientStates, CacheStep,
         CacheMI, CacheMSI, CacheShared, Perm, Wait, Miss, HeldIn, WantedIn, Owners

(* A step that changes neither states nor who is blocked is a stutter.     *)
LEMMA Stutter ==
  ASSUME UNCHANGED <<coherStates, pendingMem>>
  PROVE  UNCHANGED Promise!ownershipVars
  BY DEF Promise!ownershipVars

(* Only the block that a message is about changes its state.               *)
LEMMA SnoopStates ==
  ASSUME TypeOK, NEW brt, NEW a \in Addrs, NEW targets \in SUBSET Procs,
         Snoop(brt, a, targets), NEW p \in Procs, NEW b \in Addrs
  PROVE  coherStates'[p][b] = IF p \in targets /\ b = a
                              THEN SnoopOf(brt, a, p).next ELSE coherStates[p][b]
<1>1. coherStates[p] \in [Addrs -> CoherenceStates]
  BY DEF TypeOK, CoresTypeOK
<1> QED
  BY <1>1 DEF Snoop

(* A function of processors and blocks that differs in one place.          *)
LEMMA OnePlace ==
  ASSUME NEW f, NEW g, NEW p0 \in Procs, NEW a0 \in Addrs, NEW v,
         f = [p \in Procs |-> [b \in Addrs |-> f[p][b]]],
         g = [p \in Procs |-> [b \in Addrs |-> g[p][b]]],
         \A p \in Procs, b \in Addrs :
           g[p][b] = IF p = p0 /\ b = a0 THEN v ELSE f[p][b]
  PROVE  g = [f EXCEPT ![p0][a0] = v]
<1> DEFINE h == [f EXCEPT ![p0][a0] = v]
<1>1. \A p \in Procs : f[p] = [b \in Addrs |-> f[p][b]]
  OBVIOUS
<1>2. h = [p \in Procs |-> IF p = p0 THEN [f[p0] EXCEPT ![a0] = v] ELSE f[p]]
  OBVIOUS
<1>3. [f[p0] EXCEPT ![a0] = v] = [b \in Addrs |-> IF b = a0 THEN v ELSE f[p0][b]]
  BY <1>1
<1>4. \A p \in Procs : g[p] = h[p]
  <2> TAKE p \in Procs
  <2>1. g[p] = [b \in Addrs |-> IF p = p0 /\ b = a0 THEN v ELSE f[p][b]]
    OBVIOUS
  <2>2. CASE p = p0
    BY <1>2, <1>3, <2>1, <2>2
  <2>3. CASE p # p0
    BY <1>1, <1>2, <2>1, <2>3
  <2> QED
    BY <2>2, <2>3
<1>5. g = [p \in Procs |-> g[p]] /\ h = [p \in Procs |-> h[p]]
  BY <1>2
<1> QED
  BY <1>4, <1>5

(* The functions that the abstract variables stand for.                    *)
HeldRights   == [p \in Procs |-> [a \in Addrs |-> HeldIn(coherStates[p][a])]]
WantedRights == [p \in Procs |-> [a \in Addrs |-> WantedIn(coherStates[p][a])]]

LEMMA RightsUpdate ==
  ASSUME NEW p0 \in Procs, NEW a0 \in Addrs,
         \A p \in Procs, b \in Addrs :
           p # p0 \/ b # a0 => coherStates'[p][b] = coherStates[p][b]
  PROVE  /\ HeldRights' = [HeldRights EXCEPT ![p0][a0] = HeldIn(coherStates'[p0][a0])]
         /\ WantedRights' = [WantedRights EXCEPT ![p0][a0] = WantedIn(coherStates'[p0][a0])]
<1>1. \A p \in Procs, b \in Addrs :
        /\ HeldRights[p][b] = HeldIn(coherStates[p][b])
        /\ HeldRights'[p][b] = HeldIn(coherStates'[p][b])
        /\ WantedRights[p][b] = WantedIn(coherStates[p][b])
        /\ WantedRights'[p][b] = WantedIn(coherStates'[p][b])
  BY DEF HeldRights, WantedRights
<1>2. /\ HeldRights = [p \in Procs |-> [b \in Addrs |-> HeldRights[p][b]]]
      /\ HeldRights' = [p \in Procs |-> [b \in Addrs |-> HeldRights'[p][b]]]
      /\ WantedRights = [p \in Procs |-> [b \in Addrs |-> WantedRights[p][b]]]
      /\ WantedRights' = [p \in Procs |-> [b \in Addrs |-> WantedRights'[p][b]]]
  BY DEF HeldRights, WantedRights
<1>3. \A p \in Procs, b \in Addrs :
        HeldRights'[p][b] = IF p = p0 /\ b = a0 THEN HeldIn(coherStates'[p0][a0])
                                                ELSE HeldRights[p][b]
  BY <1>1
<1>4. \A p \in Procs, b \in Addrs :
        WantedRights'[p][b] = IF p = p0 /\ b = a0 THEN WantedIn(coherStates'[p0][a0])
                                                  ELSE WantedRights[p][b]
  BY <1>1
<1>5. HeldRights' = [HeldRights EXCEPT ![p0][a0] = HeldIn(coherStates'[p0][a0])]
  BY <1>2, <1>3, OnePlace
<1>6. WantedRights' = [WantedRights EXCEPT ![p0][a0] = WantedIn(coherStates'[p0][a0])]
  BY <1>2, <1>4, OnePlace
<1> QED
  BY <1>5, <1>6

(* A memory operation is a request: a hit has the right it needs, a miss   *)
(* gives its right up and waits.                                           *)
LEMMA FetchRequests ==
  ASSUME BasicScheme, IInv, Fetch
  PROVE  \E p \in Procs, a \in Addrs, right \in Promise!Rights \ {"none"} :
           Promise!Request(p, a, right)
<1>1. PICK isRead \in BOOLEAN, a \in Addrs : FetchMemory(isRead, a)
  BY DEF Fetch
<1> DEFINE right == IF isRead /\ Scheme = "MSI" THEN "read" ELSE "write"
           st == coherStates[turn][a]
<1>2. turn \in Procs /\ ~pendingMem[turn] /\ TypeOK
  BY <1>1 DEF FetchMemory, CanFetch, IInv, TypeOK, CoresTypeOK
<1>3. st \in UsedStates \ TransientStates
  <2>1. ~Transient(turn, a)
    BY <1>2 DEF IInv, RequestsMatch
  <2> QED
    BY <1>2, <2>1 DEF IInv, StatesUsed, Transient
<1>4. /\ coherStates' = [coherStates EXCEPT ![turn][a] = CacheStep(isRead, st).next]
      /\ pendingMem' = [pendingMem EXCEPT ![turn] = TRUE]
  BY <1>1 DEF FetchMemory, PermOf
<1>5. \A p \in Procs, b \in Addrs :
        coherStates'[p][b] = IF p = turn /\ b = a THEN CacheStep(isRead, st).next
                                                 ELSE coherStates[p][b]
  BY <1>2, <1>4 DEF TypeOK, CoresTypeOK
<1>6. WantedIn(st) = "none"
  BY <1>3, RightsTable
<1>7. CASE CacheStep(isRead, st).perm
  <2>1. CacheStep(isRead, st).next = st /\ Promise!Covers(HeldIn(st), right)
    BY <1>3, <1>7, PermRights DEF Promise!Covers
  <2>2. coherStates' = coherStates
    BY <1>2, <1>4, <2>1 DEF TypeOK, CoresTypeOK
  <2>3. Promise!Request(turn, a, right)
    BY <1>2, <1>4, <2>1, <2>2 DEF Promise!Request
  <2> QED
    BY <1>2, <2>3 DEF Promise!Rights
<1>8. CASE ~CacheStep(isRead, st).perm
  <2>1. /\ ~Promise!Covers(HeldIn(st), right)
        /\ HeldIn(CacheStep(isRead, st).next) = "none"
        /\ WantedIn(CacheStep(isRead, st).next) = right
    BY <1>3, <1>8, PermRights DEF Promise!Covers
  <2>2. /\ HeldRights' = [HeldRights EXCEPT ![turn][a] = "none"]
        /\ WantedRights' = [WantedRights EXCEPT ![turn][a] = right]
    BY <1>2, <1>5, <2>1, RightsUpdate
  <2>3. HeldRights[turn][a] = HeldIn(st)
    BY <1>2 DEF HeldRights
  <2>4. Promise!Request(turn, a, right)
    BY <1>2, <1>4, <2>1, <2>2, <2>3 DEF Promise!Request, HeldRights, WantedRights
  <2> QED
    BY <1>2, <2>4 DEF Promise!Rights
<1> QED
  BY <1>7, <1>8

(* The snoop of a request only takes rights away.                          *)
LEMMA SnoopRevokes ==
  ASSUME BasicScheme, IInv, BusSnoop, BusSnoopAsserts
  PROVE  \E a \in Addrs : Promise!Revoke(a)
<1> DEFINE a == pendingRequest.addr
           brt == pendingRequest.brt
           rights == [p \in Procs |-> HeldIn(coherStates'[p][a])]
<1>1. /\ pendingRequest \in BusRequests
      /\ \A q \in Snoopers :
           LET st == coherStates[q][a]
               s == SnoopOf(brt, a, q)
           IN  /\ s.next \in UsedStates
               /\ st \in TransientStates => s.next = st
               /\ st \notin TransientStates => s.next \in {"INVALID", "SHARE"}
               /\ s.next = "SHARE" => st \in {"SHARE", "MODIFIED"}
  <2>1. /\ pendingRequest \in BusRequests
        /\ \A q \in Snoopers : coherStates[q][a] \in UsedStates
        /\ brt \in {"BUSRD", "BUSWR"}
    BY SnoopFacts DEF BusSnoop, BusHeld, IInv, StatesUsed, Snoopers, BusRequests,
                      RequestsBacked, PendingBacked, Backed
  <2>2. ASSUME NEW q \in Snoopers
        PROVE  LET st == coherStates[q][a]
                   s == SnoopOf(brt, a, q)
               IN  /\ s.next \in UsedStates
                   /\ st \in TransientStates => s.next = st
                   /\ st \notin TransientStates => s.next \in {"INVALID", "SHARE"}
                   /\ s.next = "SHARE" => st \in {"SHARE", "MODIFIED"}
    <3>1. coherStates[q][a] \in TransientStates => coherStates[q][a] # "SHARE"
      BY DEF TransientStates
    <3> QED
      BY <2>1, <3>1, SnoopTable DEF SnoopOf
  <2> QED
    BY <2>1, <2>2
<1>2. a \in Addrs /\ Snoopers \in SUBSET Procs /\ TypeOK
  BY <1>1 DEF BusRequests, Snoopers, IInv
<1>3. Snoop(brt, a, Snoopers)
  BY DEF BusSnoop
<1>4. \A p \in Procs, b \in Addrs :
        coherStates'[p][b] = IF p \in Snoopers /\ b = a THEN SnoopOf(brt, a, p).next
                                                        ELSE coherStates[p][b]
  BY <1>2, <1>3, SnoopStates
<1>5. \A p \in Procs, b \in Addrs :
        /\ coherStates[p][b] \in UsedStates
        /\ coherStates'[p][b] \in UsedStates
  BY <1>1, <1>2, <1>4 DEF IInv, StatesUsed
<1>6. \A p \in Procs, b \in Addrs : Wanted(p, b)' = Wanted(p, b)
  <2> TAKE p \in Procs, b \in Addrs
  <2>1. CASE ~(p \in Snoopers /\ b = a)
    BY <1>4, <2>1 DEF Wanted
  <2>2. CASE p \in Snoopers /\ b = a
    <3>1. CASE coherStates[p][a] \in TransientStates
      BY <1>1, <1>4, <2>2, <3>1 DEF Wanted
    <3>2. CASE coherStates[p][a] \notin TransientStates
      <4>1. coherStates'[p][a] \notin TransientStates
        BY <1>1, <1>2, <1>4, <2>2, <3>2 DEF TransientStates
      <4> QED
        BY <1>5, <2>2, <3>2, <4>1, RightsTable DEF Wanted
    <3> QED
      BY <3>1, <3>2
  <2> QED
    BY <2>1, <2>2
<1>7. \A p \in Procs : rights[p] # "none" => Promise!Covers(HeldIn(coherStates[p][a]), rights[p])
  <2> TAKE p \in Procs
  <2>1. CASE p \notin Snoopers
    BY <1>2, <1>4, <2>1 DEF Promise!Covers
  <2>2. CASE p \in Snoopers
    <3>1. coherStates'[p][a] = SnoopOf(brt, a, p).next
      BY <1>2, <1>4, <2>2
    <3>2. coherStates[p][a] \in UsedStates /\ coherStates'[p][a] \in UsedStates
      BY <1>2, <1>5
    <3>3. CASE coherStates[p][a] \in TransientStates
      BY <1>1, <2>2, <3>1, <3>3 DEF Promise!Covers
    <3>4. CASE coherStates[p][a] \notin TransientStates
      BY <1>1, <2>2, <3>1, <3>2, <3>4, RightsTable DEF Promise!Covers
    <3> QED
      BY <3>3, <3>4
  <2> QED
    BY <2>1, <2>2
<1>8. rights \in [Procs -> Promise!Rights]
  BY <1>2, <1>5, RightsTable DEF Promise!Rights
<1>9. [p \in Procs |-> [b \in Addrs |-> HeldIn(coherStates'[p][b])]]
        = [p \in Procs |-> [[q \in Procs |-> [b \in Addrs |-> HeldIn(coherStates[q][b])]][p]
                              EXCEPT ![a] = rights[p]]]
  BY <1>2, <1>4
<1>10. UNCHANGED pendingMem
  BY <1>3 DEF Snoop
<1>11. [p \in Procs |-> [b \in Addrs |-> WantedIn(coherStates'[p][b])]]
         = [p \in Procs |-> [b \in Addrs |-> WantedIn(coherStates[p][b])]]
  BY <1>6 DEF Wanted
<1>12. Promise!Revoke(a)
  <2>1. \E r \in [Procs -> Promise!Rights] :
          /\ \A p \in Procs : r[p] # "none" => Promise!Covers(HeldRights[p][a], r[p])
          /\ HeldRights' = [p \in Procs |-> [HeldRights[p] EXCEPT ![a] = r[p]]]
    <3>1. \A p \in Procs : HeldRights[p][a] = HeldIn(coherStates[p][a])
      BY <1>2 DEF HeldRights
    <3>2. HeldRights' = [p \in Procs |-> [HeldRights[p] EXCEPT ![a] = rights[p]]]
      BY <1>9 DEF HeldRights
    <3> QED
      BY <1>7, <1>8, <3>1, <3>2
  <2> QED
    BY <1>10, <1>11, <2>1 DEF Promise!Revoke, HeldRights, Promise!Procs, Procs
<1> QED
  BY <1>2, <1>12

(* The delivery grants the right: nobody else has one that conflicts.      *)
LEMMA DeliverGrants ==
  ASSUME BasicScheme, IInv, BusDeliver, DeliveryAsserts
  PROVE  \E p \in Procs, a \in Addrs : Promise!Grant(p, a)
<1> DEFINE a == pendingRequest.addr
           p0 == pendingRequest.procNum
           st == coherStates[p0][a]
<1>1. /\ pendingRequest \in BusRequests /\ pendingRequest # NULL
      /\ pendingRequest.currentState \in {"WAITING_MEMORY", "TRANSFERING_CACHE"}
      /\ Delivered = "DATA"
      /\ st \in UsedStates \cap TransientStates
  BY DeliveryFacts DEF BusDeliver, BusHeld
<1>2. p0 \in Procs /\ a \in Addrs /\ TypeOK
  BY <1>1 DEF BusRequests, IInv
<1>3. Snoop("DATA", a, {p0})
  BY <1>1 DEF BusDeliver
<1>4. SnoopOf("DATA", a, p0).next = IF st = "INVALID_SHARED" THEN "SHARE" ELSE "MODIFIED"
  BY <1>1, AnswerTable DEF SnoopOf
<1>5. \A p \in Procs, b \in Addrs :
        coherStates'[p][b] = IF p = p0 /\ b = a
                             THEN (IF st = "INVALID_SHARED" THEN "SHARE" ELSE "MODIFIED")
                             ELSE coherStates[p][b]
  BY <1>2, <1>3, <1>4, SnoopStates
<1>6. /\ WantedIn(st) # "none"
      /\ HeldIn(coherStates'[p0][a]) = WantedIn(st)
      /\ WantedIn(coherStates'[p0][a]) = "none"
  <2>1. WantedIn(st) = IF st = "INVALID_SHARED" THEN "read" ELSE "write"
    BY <1>1 DEF WantedIn, TransientStates, UsedStates, MIStates, MSIStates
  <2> QED
    BY <1>2, <1>5, <2>1 DEF HeldIn, WantedIn, Owners
<1>7. /\ HeldRights' = [HeldRights EXCEPT ![p0][a] = WantedIn(st)]
      /\ WantedRights' = [WantedRights EXCEPT ![p0][a] = "none"]
  BY <1>2, <1>5, <1>6, RightsUpdate
<1>8. \A q \in Procs \ {p0} :
        /\ HeldIn(coherStates[q][a]) # "write"
        /\ WantedIn(st) = "write" => HeldIn(coherStates[q][a]) = "none"
  <2> TAKE q \in Procs \ {p0}
  <2>1. /\ coherStates[q][a] # "MODIFIED"
        /\ st # "INVALID_SHARED" => coherStates[q][a] # "SHARE"
    BY <1>1 DEF IInv, SnoopHolds, Snoopers
  <2>2. coherStates[q][a] \in UsedStates
    BY <1>2 DEF IInv, StatesUsed
  <2>3. WantedIn(st) = "write" => st # "INVALID_SHARED"
    BY DEF WantedIn
  <2> QED
    BY <2>1, <2>2, <2>3, RightsTable
<1>9. HeldRights[p0][a] = HeldIn(st) /\ WantedRights[p0][a] = WantedIn(st)
  BY <1>2 DEF HeldRights, WantedRights
<1>10. \A q \in Procs : HeldRights[q][a] = HeldIn(coherStates[q][a])
  BY <1>2 DEF HeldRights
<1>11. UNCHANGED pendingMem
  BY <1>3 DEF Snoop
<1>12. /\ WantedRights[p0][a] # "none"
       /\ \A q \in Procs \ {p0} :
            /\ HeldRights[q][a] # "write"
            /\ WantedRights[p0][a] = "write" => HeldRights[q][a] = "none"
       /\ HeldRights' = [HeldRights EXCEPT ![p0][a] = WantedRights[p0][a]]
       /\ WantedRights' = [WantedRights EXCEPT ![p0][a] = "none"]
  BY <1>6, <1>7, <1>8, <1>9, <1>10
<1>13. Promise!Grant(p0, a)
  BY <1>11, <1>12 DEF Promise!Grant, HeldRights, WantedRights, Promise!Procs, Procs
<1> QED
  BY <1>2, <1>13

(* The callbacks at the end of a tick retire operations that wait for      *)
(* nothing.                                                                *)
LEMMA CallbacksRetire ==
  ASSUME BasicScheme, IInv, CacheTick
  PROVE  \E S \in SUBSET Procs : Promise!Retire(S)
<1> DEFINE S == {p \in Procs : Completed(p)}
<1>1. ASSUME NEW p \in S, NEW a \in Addrs
      PROVE  WantedIn(coherStates[p][a]) = "none"
  <2>1. PICK r \in readyReq : r.proc = p
    BY DEF Completed
  <2>2. ~Transient(p, a)
    BY <2>1 DEF IInv, RequestsMatch
  <2> QED
    BY <2>2, RightsTable DEF IInv, StatesUsed, Transient
<1>2. pendingMem' = [p \in Procs |-> pendingMem[p] /\ p \notin S]
  BY DEF CacheTick
<1>3. UNCHANGED coherStates
  BY DEF CacheTick
<1>4. \A p \in S, a \in Addrs : WantedRights[p][a] = "none"
  BY <1>1 DEF WantedRights
<1>5. Promise!Retire(S)
  BY <1>2, <1>3, <1>4 DEF Promise!Retire, WantedRights, Promise!Procs, Procs
<1> QED
  BY <1>5

LEMMA PromiseInit == Init => Promise!Init
  BY DEF Init, CoresInit, Promise!Init, Promise!Procs, Procs, HeldIn, WantedIn, Owners

(* Each step of the bus is a step of the promise or leaves it unchanged.   *)
LEMMA StepRefines ==
  ASSUME BasicScheme
  PROVE  IInv /\ [Next]_vars => [Promise!Next]_(Promise!ownershipVars)
<1> SUFFICES ASSUME IInv, [Next]_vars
             PROVE  [Promise!Next]_(Promise!ownershipVars)
  OBVIOUS
<1>1. CASE Fetch
  BY <1>1, FetchRequests DEF Promise!Next, Promise!Procs, Procs
<1>2. CASE BusSnoop /\ BusSnoopAsserts
  BY <1>2, SnoopRevokes DEF Promise!Next
<1>3. CASE BusDeliver /\ DeliveryAsserts
  BY <1>3, DeliverGrants DEF Promise!Next, Promise!Procs, Procs
<1>4. CASE CacheTick
  BY <1>4, CallbacksRetire DEF Promise!Next, Promise!Procs, Procs
<1>5. CASE Crash
  BY <1>5, Stutter DEF Crash, Abort, coreVars
<1>6. CASE MemoryIdle \/ MemoryServe \/ BusCount \/ BusGrant \/ BusIdle
  BY <1>5, <1>6, Stutter DEF MemoryIdle, MemoryServe, BusCount, BusGrant, BusIdle, coreVars
<1>7. CASE Blocked \/ TraceEnd \/ FetchOther \/ Stopped
  BY <1>7, Stutter DEF Blocked, TraceEnd, FetchOther, Stopped, coreVars
<1>8. CASE UNCHANGED vars
  BY <1>8, Stutter DEF vars, coreVars
<1> QED
  BY <1>1, <1>2, <1>3, <1>4, <1>5, <1>6, <1>7, <1>8
  DEF Next, BusTick, BusSnoop, BusDeliver, CoreStep

(* Under MI and MSI the bus implements atomic ownership: whatever happens  *)
(* between request, snoop, memory, transfer and callback, it looks as if   *)
(* rights were granted in one step, and no processor goes on without the   *)
(* right its operation needs (the safety part of ImplementsOwnership).     *)
THEOREM BusImplementsOwnership == ASSUME BasicScheme PROVE Spec => Promise!Safety
<1>1. Init => Promise!Init
  BY PromiseInit
<1>2. IInv /\ [Next]_vars => [Promise!Next]_(Promise!ownershipVars)
  BY StepRefines
<1> QED
  BY <1>1, <1>2, InductiveInvariant, PTL DEF Spec, Promise!Safety
----------------------------------------------------------------------------
(* The promise by itself, of any three variables: what follows holds for   *)
(* everything that is shown to implement it.                               *)
VARIABLES held, wanted, busy

Owned == INSTANCE Ownership

LEMMA RightsInit == Owned!Init => Owned!TypeOK /\ Owned!Exclusive
  BY DEF Owned!Init, Owned!TypeOK, Owned!Exclusive, Owned!Rights

LEMMA RevokeKeepsRights ==
  ASSUME Owned!TypeOK, Owned!Exclusive, NEW a \in Addrs, Owned!Revoke(a)
  PROVE  Owned!TypeOK' /\ Owned!Exclusive'
<1>1. PICK rights \in [Owned!Procs -> Owned!Rights] :
        /\ \A p \in Owned!Procs : rights[p] # "none" => Owned!Covers(held[p][a], rights[p])
        /\ held' = [p \in Owned!Procs |-> [held[p] EXCEPT ![a] = rights[p]]]
  BY DEF Owned!Revoke
<1>2. Owned!TypeOK'
  BY <1>1 DEF Owned!Revoke, Owned!TypeOK
<1>3. \A p \in Owned!Procs, b \in Addrs :
        held'[p][b] = IF b = a THEN rights[p] ELSE held[p][b]
  BY <1>1 DEF Owned!TypeOK
<1>4. Owned!Exclusive'
  BY <1>1, <1>3 DEF Owned!Exclusive, Owned!TypeOK, Owned!Covers, Owned!Rights
<1> QED
  BY <1>2, <1>4

LEMMA RightsKept ==
  Owned!TypeOK /\ Owned!Exclusive /\ [Owned!Next]_(Owned!ownershipVars)
    => Owned!TypeOK' /\ Owned!Exclusive'
<1> SUFFICES ASSUME Owned!TypeOK, Owned!Exclusive, [Owned!Next]_(Owned!ownershipVars)
             PROVE  Owned!TypeOK' /\ Owned!Exclusive'
  OBVIOUS
<1>1. ASSUME NEW p \in Owned!Procs, NEW a \in Addrs, NEW right \in Owned!Rights \ {"none"},
             Owned!Request(p, a, right)
      PROVE  Owned!TypeOK' /\ Owned!Exclusive'
  <2>1. busy' \in [Owned!Procs -> BOOLEAN]
    BY <1>1 DEF Owned!Request, Owned!TypeOK
  <2>2. /\ held' \in [Owned!Procs -> [Addrs -> Owned!Rights]]
        /\ wanted' \in [Owned!Procs -> [Addrs -> Owned!Rights]]
    <3>1. CASE Owned!Covers(held[p][a], right)
      BY <1>1, <3>1 DEF Owned!Request, Owned!TypeOK
    <3>2. CASE ~Owned!Covers(held[p][a], right)
      <4>1. "none" \in Owned!Rights /\ right \in Owned!Rights
        BY DEF Owned!Rights
      <4>2. /\ held' = [held EXCEPT ![p][a] = "none"]
            /\ wanted' = [wanted EXCEPT ![p][a] = right]
        BY <1>1, <3>2 DEF Owned!Request
      <4>3. [held EXCEPT ![p][a] = "none"] \in [Owned!Procs -> [Addrs -> Owned!Rights]]
        BY <4>1 DEF Owned!TypeOK
      <4>4. [wanted EXCEPT ![p][a] = right] \in [Owned!Procs -> [Addrs -> Owned!Rights]]
        BY <4>1 DEF Owned!TypeOK
      <4> QED
        BY <4>2, <4>3, <4>4
    <3> QED
      BY <3>1, <3>2
  <2>3. \A q \in Owned!Procs, b \in Addrs : held'[q][b] \in {held[q][b], "none"}
    BY <1>1 DEF Owned!Request, Owned!TypeOK
  <2> QED
    BY <2>1, <2>2, <2>3 DEF Owned!Exclusive, Owned!TypeOK
<1>2. ASSUME NEW p \in Owned!Procs, NEW a \in Addrs, Owned!Grant(p, a)
      PROVE  Owned!TypeOK' /\ Owned!Exclusive'
  <2>1. Owned!TypeOK'
    BY <1>2 DEF Owned!Grant, Owned!TypeOK, Owned!Rights
  <2>2. \A q \in Owned!Procs, b \in Addrs :
          held'[q][b] = IF q = p /\ b = a THEN wanted[p][a] ELSE held[q][b]
    BY <1>2 DEF Owned!Grant, Owned!TypeOK
  <2>3. wanted[p][a] \in {"read", "write"}
    BY <1>2 DEF Owned!Grant, Owned!TypeOK, Owned!Rights
  <2>4. Owned!Exclusive'
    BY <1>2, <2>2, <2>3 DEF Owned!Grant, Owned!Exclusive
  <2> QED
    BY <2>1, <2>4
<1>3. ASSUME NEW S \in SUBSET Owned!Procs, Owned!Retire(S)
      PROVE  Owned!TypeOK' /\ Owned!Exclusive'
  BY <1>3 DEF Owned!Retire, Owned!TypeOK, Owned!Exclusive
<1>4. CASE UNCHANGED Owned!ownershipVars
  BY <1>4 DEF Owned!ownershipVars, Owned!TypeOK, Owned!Exclusive
<1> QED
  BY <1>1, <1>2, <1>3, <1>4, RevokeKeepsRights DEF Owned!Next

(* No implementation of the promise lets one processor write a block that  *)
(* another one may read or write: single writer or many readers (SWMR)     *)
(* follows from the promise alone.                                         *)
THEOREM RightsExclusive == Owned!Safety => []Owned!Exclusive
<1>1. Owned!TypeOK /\ Owned!Exclusive /\ [Owned!Next]_(Owned!ownershipVars)
        => (Owned!TypeOK /\ Owned!Exclusive)'
  BY RightsKept
<1> QED
  BY <1>1, RightsInit, PTL DEF Owned!Safety
=============================================================================
