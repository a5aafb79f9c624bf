-------------------------------- MODULE Bus ---------------------------------
(***************************************************************************)
(* The bus topology (interconnectProj.c with -t 0, the same bus as         *)
(* interconnect/interconnect.c) with the memory (memory/memory.c) under    *)
(* the cores.  One request has the bus at a time; the others wait in the   *)
(* queue of their processor.                                               *)
(***************************************************************************)
EXTENDS Cores

CONSTANTS
  DRAM_FETCH_TICKS,  \* memory.c: 90
  CACHE_DELAY,       \* interconnectProj.c: 1, interconnect.c: 10
  CACHE_TRANSFER,    \* 10
  ScanLinks,         \* busReqCacheTransfer is the one of interconnectProj.c,
                     \* which looks at links[], and not the one of interconnect.c
  NULL

BusRequests ==
  [brt : BusReqTypes, addr : Addrs, procNum : Procs, shared : BOOLEAN,
   dataAvail : BOOLEAN,
   currentState : {"QUEUED", "WAITING_CACHE", "WAITING_MEMORY",
                   "TRANSFERING_CACHE"}]

MemRequests == [addr : Addrs, procNum : Procs]

ASSUME TicksAssumption ==
  /\ DRAM_FETCH_TICKS \in Nat \ {0}
  /\ CACHE_DELAY \in Nat \ {0}
  /\ CACHE_TRANSFER \in Nat \ {0}
  /\ ScanLinks \in BOOLEAN
ASSUME NullAssumption == NULL \notin BusRequests /\ NULL \notin MemRequests

VARIABLES
  pendingRequest,   \* the request that has the bus, or NULL
  queuedRequests,   \* per processor, the requests that wait for it
  countDown,        \* ticks until pendingRequest moves on
  lastProc,         \* where the round robin starts
  memRequest,       \* memory.c: pendingRequest
  memCountDown      \* memory.c: countDown

busVars == <<pendingRequest, queuedRequests, countDown, lastProc>>
memVars == <<memRequest, memCountDown>>
vars == <<controlVars, coreVars, busVars, memVars>>

TypeOK ==
  /\ CoresTypeOK
  /\ pendingRequest \in BusRequests \cup {NULL}
  /\ queuedRequests \in [Procs -> Seq(BusRequests)]
  /\ countDown \in Nat
  /\ lastProc \in Procs
  /\ memRequest \in MemRequests \cup {NULL}
  /\ memCountDown \in Nat

Init ==
  /\ CoresInit
  /\ pendingRequest = NULL
  /\ queuedRequests = [p \in Procs |-> <<>>]
  /\ countDown = 0
  /\ lastProc = 0
  /\ memRequest = NULL
  /\ memCountDown = 0

Crash == Abort /\ UNCHANGED <<busVars, memVars>>
----------------------------------------------------------------------------
(* busReq(): the request takes an idle bus at once, or is queued.          *)
NewRequest(brt, a, p, state) ==
  [brt |-> brt, addr |-> a, procNum |-> p, shared |-> FALSE,
   dataAvail |-> FALSE, currentState |-> state]

(* Mutant: a request takes the bus although another one has it.            *)
BusReqMut(brt, a, p) ==
  /\ pendingRequest' = NewRequest(brt, a, p, "WAITING_CACHE")
  /\ countDown' = CACHE_DELAY
  /\ UNCHANGED queuedRequests

BusReq(brt, a, p) ==
  IF pendingRequest = NULL
  THEN /\ pendingRequest' = NewRequest(brt, a, p, "WAITING_CACHE")
       /\ countDown' = CACHE_DELAY
       /\ UNCHANGED queuedRequests
  ELSE /\ queuedRequests' = [queuedRequests EXCEPT ![p] =
            Append(@, NewRequest(brt, a, p, "QUEUED"))]
       /\ UNCHANGED <<pendingRequest, countDown>>

Fetch ==
  \E isRead \in BOOLEAN, a \in Addrs :
    /\ FetchMemory(isRead, a)
    /\ IF PermOf(isRead, a).send = "NO_REQ"
       THEN UNCHANGED <<pendingRequest, queuedRequests, countDown>>
       ELSE BusReq(PermOf(isRead, a).send, a, turn)
    /\ UNCHANGED <<lastProc, memVars>>
----------------------------------------------------------------------------
(* memory.c tick().                                                        *)

(* Mutant: the memory is never told of a transfer between caches.          *)
CacheTransferMut(m) == FALSE

(* busReqCacheTransfer: a cache is already sending this block.             *)
CacheTransfer(m) ==
  /\ pendingRequest.addr = m.addr
  /\ pendingRequest.procNum = m.procNum
  /\ pendingRequest.currentState = "TRANSFERING_CACHE"

MemoryIdle ==
  /\ phase = "memory" /\ memRequest = NULL
  /\ Goto("interconnect")
  /\ UNCHANGED <<coreVars, busVars, memVars>>

(* The memory gives the request up, it is squelched.                       *)
MemorySquelch ==
  /\ CacheTransfer(memRequest)
  /\ memRequest' = NULL /\ memCountDown' = 0
  /\ UNCHANGED pendingRequest

MemoryCount ==
  /\ ~CacheTransfer(memRequest)
  /\ memCountDown > 1
  /\ memCountDown' = memCountDown - 1
  /\ UNCHANGED <<memRequest, pendingRequest>>

(* memReqCallback.                                                         *)
MemoryRespond ==
  /\ ~CacheTransfer(memRequest)
  /\ memCountDown <= 1
  /\ memRequest' = NULL /\ memCountDown' = 0
  /\ pendingRequest' =
       IF /\ pendingRequest.addr = memRequest.addr
          /\ pendingRequest.procNum = memRequest.procNum
       THEN [pendingRequest EXCEPT !.dataAvail = TRUE]
       ELSE pendingRequest

(* On the bus links[] was never allocated: to scan it ends the run.  The   *)
(* other busReqCacheTransfer asserts that a request has the bus.           *)
MemoryServe ==
  /\ phase = "memory" /\ memRequest # NULL
  /\ IF ScanLinks \/ pendingRequest = NULL
     THEN Crash
     ELSE /\ MemorySquelch \/ MemoryCount \/ MemoryRespond
          /\ Goto("interconnect")
          /\ UNCHANGED <<coreVars, queuedRequests, countDown, lastProc>>
----------------------------------------------------------------------------
(* busTick().                                                              *)

(* countDown > 0 comes with assert(pendingRequest != NULL).                *)
BusBusy == phase = "interconnect" /\ countDown > 0
BusHeld == BusBusy /\ pendingRequest # NULL

BusCount ==
  /\ BusBusy
  /\ IF pendingRequest = NULL
     THEN Crash
     ELSE /\ ~pendingRequest.dataAvail
          /\ \/ countDown > 1
             \/ pendingRequest.currentState \in {"QUEUED", "WAITING_MEMORY"}
          /\ countDown' = countDown - 1
          /\ Goto("cache")
          /\ UNCHANGED <<coreVars, pendingRequest, queuedRequests, lastProc,
                         memVars>>

(* Mutant: the loop over the caches stops one short.                       *)
SnoopersMut == (0 .. ProcessorCount - 2) \ {pendingRequest.procNum}

(* The caches other than the requester's snoop the request, and memory is  *)
(* asked.  A cache that answers DATA turns the request into a transfer, one*)
(* that answers SHARED marks it, and any other answer but an ack is queued *)
(* as a request of the answering processor.                                *)
Snoopers == Procs \ {pendingRequest.procNum}

Answering(reply) ==
  {p \in Snoopers :
     SnoopOf(pendingRequest.brt, pendingRequest.addr, p).send = reply}

BusSnoopAsserts ==
  /\ memRequest = NULL
  /\ SnoopAsserts(pendingRequest.brt, pendingRequest.addr, Snoopers)
  /\ \A p, q \in Answering("DATA") : p = q

BusSnoop ==
  /\ BusHeld /\ ~pendingRequest.dataAvail
  /\ countDown = 1
  /\ pendingRequest.currentState = "WAITING_CACHE"
  /\ IF ~BusSnoopAsserts THEN Crash ELSE
     /\ memRequest' = [addr |-> pendingRequest.addr,
                       procNum |-> pendingRequest.procNum]
     /\ memCountDown' = DRAM_FETCH_TICKS
     /\ Snoop(pendingRequest.brt, pendingRequest.addr, Snoopers)
     /\ pendingRequest' = [pendingRequest EXCEPT
          !.shared = @ \/ Answering("SHARED") # {},
          !.brt = IF Answering("DATA") # {} THEN "DATA" ELSE @,
          !.currentState = IF Answering("DATA") # {} THEN "TRANSFERING_CACHE"
                                                     ELSE "WAITING_MEMORY"]
     /\ countDown' = IF Answering("DATA") # {} THEN CACHE_TRANSFER
                                               ELSE DRAM_FETCH_TICKS
     /\ queuedRequests' = [p \in Procs |->
          IF p \in Answering("SHARED_DATA")
          THEN Append(queuedRequests[p],
                      NewRequest("SHARED_DATA", pendingRequest.addr, p, "QUEUED"))
          ELSE queuedRequests[p]]
     /\ Goto("cache")
     /\ UNCHANGED lastProc

(* The requester gets the block, from memory or from a cache.              *)
Delivered ==
  IF pendingRequest.shared THEN "SHARED"
  ELSE IF pendingRequest.dataAvail THEN "DATA" ELSE pendingRequest.brt

(* A DATA answer would meet the assertion that memory is being waited for. *)
DeliveryAsserts ==
  /\ SnoopAsserts(Delivered, pendingRequest.addr, {pendingRequest.procNum})
  /\ SnoopOf(Delivered, pendingRequest.addr, pendingRequest.procNum).send # "DATA"

BusDeliver ==
  /\ BusHeld
  /\ \/ pendingRequest.dataAvail
     \/ countDown = 1 /\ pendingRequest.currentState = "TRANSFERING_CACHE"
  /\ IF ~DeliveryAsserts THEN Crash ELSE
     /\ Snoop(Delivered, pendingRequest.addr, {pendingRequest.procNum})
     /\ pendingRequest' = NULL
     /\ countDown' = 0
     /\ Goto("cache")
     /\ UNCHANGED <<queuedRequests, lastProc, memVars>>

(* The bus is free: the first processor with a queued request, from        *)
(* lastProc on, gets it.                                                   *)
Distance(p) == (p - lastProc) % ProcessorCount

(* Mutants: the round robin does not wrap; the request granted stays queued. *)
AfterMut(p)    == p + 1
DequeuedMut(p) == queuedRequests

After(p)    == (p + 1) % ProcessorCount
Dequeued(p) == [queuedRequests EXCEPT ![p] = Tail(@)]

BusGrant ==
  /\ phase = "interconnect" /\ countDown = 0
  /\ \E pos \in Procs :
       /\ queuedRequests[pos] # <<>>
       /\ \A q \in Procs :
            queuedRequests[q] # <<>> => Distance(pos) <= Distance(q)
       /\ pendingRequest' = [Head(queuedRequests[pos]) EXCEPT
                               !.currentState = "WAITING_CACHE"]
       /\ queuedRequests' = Dequeued(pos)
       /\ lastProc' = After(pos)
  /\ countDown' = CACHE_DELAY
  /\ Goto("cache")
  /\ UNCHANGED <<coreVars, memVars>>

BusIdle ==
  /\ phase = "interconnect" /\ countDown = 0
  /\ \A p \in Procs : queuedRequests[p] = <<>>
  /\ Goto("cache")
  /\ UNCHANGED <<coreVars, busVars, memVars>>
----------------------------------------------------------------------------
CoreStep ==
  /\ CacheTick \/ Blocked \/ TraceEnd \/ FetchOther \/ Stopped
  /\ UNCHANGED <<busVars, memVars>>

BusTick == BusCount \/ BusSnoop \/ BusDeliver \/ BusGrant \/ BusIdle

Next == MemoryIdle \/ MemoryServe \/ BusTick \/ Fetch \/ CoreStep

(* The engine calls tick() in a loop, so a step that can be taken is.      *)
Spec == Init /\ [][Next]_vars /\ WF_vars(Next)
----------------------------------------------------------------------------
(* The properties.  RequestsMatch, SWMR, NoAssertionFails and RunsToEnd    *)
(* come with Cores.                                                        *)

(* A request on the bus or in a queue is the one its processor's state     *)
(* says: a read for INVALID_SHARED, a write for the write-pending states.  *)
Backed(r) ==
  LET st == coherStates[r.procNum][r.addr]
  IN  \/ r.brt = "BUSRD" /\ st = "INVALID_SHARED"
      \/ r.brt = "BUSWR" /\ st \in {"INVALID_MODIFIED", "SHARED_MODIFIED"}

QueuesBacked ==
  \A p \in Procs :
    /\ Len(queuedRequests[p]) <= 1
    /\ queuedRequests[p] # <<>> =>
         LET r == queuedRequests[p][1]
         IN  Backed(r) /\ r.procNum = p /\ ~r.shared /\ ~r.dataAvail

PendingBacked ==
  pendingRequest # NULL =>
    /\ queuedRequests[pendingRequest.procNum] = <<>>
    /\ ~pendingRequest.shared
    /\ IF pendingRequest.currentState = "TRANSFERING_CACHE"
       THEN /\ pendingRequest.brt = "DATA"
            /\ Transient(pendingRequest.procNum, pendingRequest.addr)
       ELSE Backed(pendingRequest)

NoneLost ==
  \A p \in Procs, a \in Addrs : Transient(p, a) =>
    \/ /\ pendingRequest # NULL
       /\ pendingRequest.procNum = p
       /\ pendingRequest.addr = a
    \/ queuedRequests[p] # <<>> /\ queuedRequests[p][1].addr = a

(* Every cache that waits for a block has exactly one request, of the      *)
(* right type, on the bus or in its queue, and a cache that does not wait  *)
(* has none: no request is lost, left over, doubled or mistaken for        *)
(* another when the answer comes (busReq, busTick and permReq together).   *)
RequestsBacked == QueuesBacked /\ PendingBacked /\ NoneLost

(* From its snoop to its delivery nobody gets between a request and its    *)
(* block: no other cache holds it MODIFIED and, under a pending write,     *)
(* none has a copy, however long the memory or the transfer takes.         *)
SnoopHolds ==
  pendingRequest # NULL
    /\ pendingRequest.currentState \in {"WAITING_MEMORY", "TRANSFERING_CACHE"}
  => \A q \in Snoopers :
       /\ coherStates[q][pendingRequest.addr] # "MODIFIED"
       /\ coherStates[pendingRequest.procNum][pendingRequest.addr] # "INVALID_SHARED"
            => coherStates[q][pendingRequest.addr] # "SHARE"

(* The two countdowns of one request, the memory's and the bus's, stay in  *)
(* step: the memory serves only the request that has the bus, answers just *)
(* before the bus looks, and is free when the next request is sent to it.  *)
ForPending ==
  /\ memRequest.addr = pendingRequest.addr
  /\ memRequest.procNum = pendingRequest.procNum

WaitInStep ==
  IF pendingRequest.dataAvail
  THEN phase = "interconnect" /\ memRequest = NULL
  ELSE /\ memRequest # NULL /\ ForPending
       /\ memCountDown > 0
       /\ countDown = IF phase = "interconnect" THEN memCountDown + 1
                                                ELSE memCountDown

InStep ==
  /\ pendingRequest = NULL => countDown = 0 /\ memRequest = NULL
  /\ pendingRequest # NULL =>
       LET state == pendingRequest.currentState IN
       /\ countDown > 0
       /\ state # "QUEUED"
       /\ state = "WAITING_CACHE" =>
            memRequest = NULL /\ ~pendingRequest.dataAvail
       /\ state = "WAITING_MEMORY" => WaitInStep
       /\ state = "TRANSFERING_CACHE" =>
            /\ ~pendingRequest.dataAvail
            /\ memRequest # NULL => phase # "interconnect" /\ ForPending

MemoryInStep == phase # "aborted" => InStep

(* The rights a coherence state gives to its cache and waits for.          *)
HeldIn(st) ==
  CASE st \in Owners                       -> "write"
    [] st \in {"SHARE", "OWNED", "FORWARD"} -> "read"
    [] OTHER                               -> "none"

WantedIn(st) ==
  CASE st \in {"INVALID_SHARED", "INVALID_SHARED_EXCLUSIVE"} -> "read"
    [] st \in {"INVALID_MODIFIED", "SHARED_MODIFIED"}        -> "write"
    [] OTHER                                                -> "none"

Promise == INSTANCE Ownership WITH
  held   <- [p \in Procs |-> [a \in Addrs |-> HeldIn(coherStates[p][a])]],
  wanted <- [p \in Procs |-> [a \in Addrs |-> WantedIn(coherStates[p][a])]],
  busy   <- pendingMem

(* The bus, the memory and the caches together grant blocks as if in one   *)
(* step: between the snoop and the delivery of a request, and between the  *)
(* delivery and the callback, nobody gets a right that conflicts, no       *)
(* processor goes on before its operation had its right, and each goes on. *)
ImplementsOwnership == Promise!Spec
=============================================================================
