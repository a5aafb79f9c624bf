------------------------------ MODULE Network -------------------------------
(***************************************************************************)
(* The point-to-point networks of interconnectProj.c (-t 1 line, -t 2 ring,*)
(* -t 3 mesh) with the memory (memory/memory.c) under the cores.  A miss   *)
(* is broadcast; every other cache answers with an ack that may carry      *)
(* data; when all have answered, the source has its block or asks the      *)
(* memory.  A link carries one message at a time, either way.              *)
(***************************************************************************)
EXTENDS Cores, Links

CONSTANTS DRAM_FETCH_TICKS,  \* memory.c: 90
          NULL

CACHE_DELAY == 1

(* bus_req.  A broadcast has pDest = -1, and only BUSRD and BUSWR are      *)
(* broadcast; msgNum is the number of the broadcast, in its acks too.      *)
Messages == [brt : BusReqTypes, addr : Addrs, procNum : Nodes, pSrc : Nodes,
             pDest : Nodes \cup {-1}, msgNum : Int]

ActiveEntries == [msgNum : Nat, addr : Addrs, numAcks : 0 .. ProcessorCount,
                  dataAvail : BOOLEAN, shared : BOOLEAN]

MemRequests == [addr : Addrs, procNum : Procs]

ASSUME TicksAssumption == DRAM_FETCH_TICKS \in Nat \ {0}
ASSUME NullAssumption == NULL \notin Messages /\ NULL \notin MemRequests

VARIABLES
  pendingReq,       \* per link, the message it carries, or NULL
  countDown,        \* per link, ticks before it can be used again
  linkQueue,        \* per link and sender, what waits (linkQueue1, linkQueue2)
  p1Sent,           \* per link, whether its first node sent last
  activeRequests,   \* per processor, its broadcasts that wait for acks
  globalMsgCount,   \* number of the last broadcast
  last_msgs,        \* ring, mesh: last broadcast seen by a node from a source
  memoryRequests,   \* ring, mesh: what waits at the memory
  memoryCountdown,  \* ring, mesh: ticks before the next of them
  memRequest,       \* memory.c: pendingRequest
  memCountDown      \* memory.c: countDown

linkVars   == <<pendingReq, countDown, linkQueue, p1Sent>>
activeVars == <<activeRequests, globalMsgCount, last_msgs>>
memVars    == <<memoryRequests, memoryCountdown, memRequest, memCountDown>>
vars == <<controlVars, coreVars, linkVars, activeVars, memVars>>

TypeOK ==
  /\ CoresTypeOK
  /\ phase = "interconnect" =>
       turn \in 0 .. (IF Topology = "line" THEN NumLinks - 1 ELSE NumLinks)
  /\ pendingReq \in [LinkIds -> Messages \cup {NULL}]
  /\ countDown \in [LinkIds -> 0 .. DRAM_FETCH_TICKS]
  /\ linkQueue \in [LinkIds -> [Nodes -> Seq(Messages)]]
  /\ p1Sent \in [LinkIds -> BOOLEAN]
  /\ activeRequests \in [Procs -> SUBSET ActiveEntries]
  /\ globalMsgCount \in Nat
  /\ last_msgs \in [Nodes -> [Procs -> Nat]]
  /\ memoryRequests \in Seq(MemRequests)
  /\ memoryCountdown \in 0 .. DRAM_FETCH_TICKS
  /\ memRequest \in MemRequests \cup {NULL}
  /\ memCountDown \in 0 .. DRAM_FETCH_TICKS

(* p1Sent is set by init() on the line only: `links[i]->p1Sent - false' of *)
(* the other two leaves what malloc returned.                              *)
Init ==
  /\ CoresInit
  /\ pendingReq = [l \in LinkIds |-> NULL]
  /\ countDown = [l \in LinkIds |-> 0]
  /\ linkQueue = [l \in LinkIds |-> [n \in Nodes |-> <<>>]]
  /\ p1Sent \in [LinkIds -> BOOLEAN]
  /\ Topology = "line" => \A l \in LinkIds : ~p1Sent[l]
  /\ activeRequests = [p \in Procs |-> {}]
  /\ globalMsgCount = 0
  /\ last_msgs = [n \in Nodes |-> [p \in Procs |-> 0]]
  /\ memoryRequests = <<>>
  /\ memoryCountdown = 0
  /\ memRequest = NULL
  /\ memCountDown = 0

Crash == Abort /\ UNCHANGED <<linkVars, activeVars, memVars>>
----------------------------------------------------------------------------
IsBroadcast(m) == m.brt \in {"BUSRD", "BUSWR"}
IsAck(m)  == /\ m.brt \in {"ACK", "DATA", "SHARED", "SHARED_DATA"}
             /\ m.pSrc # Memory
HasData(m) == m.brt \in {"DATA", "SHARED_DATA"}

(* enqLinkRequest() on every link of ls.                                   *)
Enqueued(queue, m, ls) ==
  [l \in LinkIds |->
     IF l \in ls THEN [queue[l] EXCEPT ![m.procNum] = Append(@, m)]
                 ELSE queue[l]]

(* req(): a message leaves node p.                                         *)
Sent(queue, brt, a, p, dest, num) ==
  Enqueued(queue,
           [brt |-> brt, addr |-> a, procNum |-> p, pSrc |-> p, pDest |-> dest,
            msgNum |-> num],
           IF dest = -1 THEN BroadcastLinks(p) ELSE {FindLink(p, dest)})

Fetch ==
  \E isRead \in BOOLEAN, a \in Addrs :
    /\ FetchMemory(isRead, a)
    /\ LET send == PermOf(isRead, a).send
       IN  IF send = "NO_REQ"
           THEN UNCHANGED <<linkQueue, globalMsgCount>>
           ELSE /\ globalMsgCount' = globalMsgCount + 1
                /\ linkQueue' = Sent(linkQueue, send, a, turn, -1, globalMsgCount')
    /\ UNCHANGED <<pendingReq, countDown, p1Sent, activeRequests, last_msgs,
                   memVars>>
----------------------------------------------------------------------------
(* memory.c tick().                                                        *)

OnLink(l) == ({pendingReq[l]} \ {NULL}) \cup
             UNION {{linkQueue[l][n][i] : i \in 1 .. Len(linkQueue[l][n])} :
                      n \in Ends(l)}

(* Mutant: data for any processor.                                         *)
CacheTransferMut(r) ==
  \E l \in LinkIds \cap Procs : \E m \in OnLink(l) : m.addr = r.addr /\ HasData(m)

(* busReqCacheTransfer: some link (of the first processorCount) has data   *)
(* for the processor that waits for memory.                                *)
CacheTransfer(r) ==
  \E l \in LinkIds \cap Procs : \E m \in OnLink(l) :
    m.addr = r.addr /\ m.pDest = r.procNum /\ HasData(m)

MemoryTick ==
  /\ phase = "memory"
  /\ IF memRequest = NULL THEN UNCHANGED <<memRequest, memCountDown, linkQueue>>
     ELSE IF CacheTransfer(memRequest)
     THEN memRequest' = NULL /\ memCountDown' = 0 /\ UNCHANGED linkQueue
     ELSE IF memCountDown > 1
     THEN memCountDown' = memCountDown - 1 /\ UNCHANGED <<memRequest, linkQueue>>
     ELSE /\ memRequest' = NULL /\ memCountDown' = 0
          /\ linkQueue' = Sent(linkQueue, "DATA", memRequest.addr, Memory,
                               memRequest.procNum, -2)
  /\ Goto("interconnect")
  /\ UNCHANGED <<coreVars, pendingReq, countDown, p1Sent, activeVars,
                 memoryRequests, memoryCountdown>>
----------------------------------------------------------------------------
(* One round of the loop over the links; `turn' is the link.               *)

(* Mutant: the bound of the ring, n + 1 links, used for the line.          *)
NextLinkMut ==
  IF Topology = "line" /\ turn = NumLinks
  THEN Goto("cache")
  ELSE turn' = turn + 1 /\ UNCHANGED <<phase, progress>>

(* After the last link the ring and the mesh look at memoryRequests.       *)
NextLink ==
  IF Topology = "line" /\ turn = NumLinks - 1
  THEN Goto("cache")
  ELSE turn' = turn + 1 /\ UNCHANGED <<phase, progress>>

Tick == phase = "interconnect" /\ turn < NumLinks

LinkCount ==
  /\ Tick /\ countDown[turn] > 0
  /\ countDown[turn] > 1 \/ pendingReq[turn] = NULL
  /\ countDown' = [countDown EXCEPT ![turn] = @ - 1]
  /\ NextLink
  /\ UNCHANGED <<coreVars, pendingReq, linkQueue, p1Sent, activeVars, memVars>>

LinkIdle ==
  /\ Tick /\ countDown[turn] = 0
  /\ \A n \in Ends(turn) : linkQueue[turn][n] = <<>>
  /\ NextLink
  /\ UNCHANGED <<coreVars, linkVars, activeVars, memVars>>

(* deqLinkRequest(): the two nodes take turns, unless one has nothing.     *)
Sender(l) ==
  IF p1Sent[l]
  THEN IF linkQueue[l][Proc2(l)] = <<>> THEN Proc1(l) ELSE Proc2(l)
  ELSE IF linkQueue[l][Proc1(l)] = <<>> THEN Proc2(l) ELSE Proc1(l)

Tracked(p, num) == \E e \in activeRequests[p] : e.msgNum = num

(* Mutant: only reads are tracked.                                         *)
TrackingMut(m) ==
  IF m.procNum = m.pSrc /\ m.brt = "BUSRD" /\ ~Tracked(m.pSrc, m.msgNum)
  THEN [activeRequests EXCEPT ![m.pSrc] = @ \cup
          {[msgNum |-> m.msgNum, addr |-> m.addr, numAcks |-> 0,
            dataAvail |-> FALSE, shared |-> FALSE]}]
  ELSE activeRequests

(* The first copy of a broadcast that leaves its source starts the wait    *)
(* for acks.                                                               *)
Tracking(m) ==
  IF m.procNum = m.pSrc /\ IsBroadcast(m) /\ ~Tracked(m.pSrc, m.msgNum)
  THEN [activeRequests EXCEPT ![m.pSrc] = @ \cup
          {[msgNum |-> m.msgNum, addr |-> m.addr, numAcks |-> 0,
            dataAvail |-> FALSE, shared |-> FALSE]}]
  ELSE activeRequests

LinkSend ==
  /\ Tick /\ countDown[turn] = 0
  /\ \E n \in Ends(turn) : linkQueue[turn][n] # <<>>
  /\ LET n == Sender(turn)
         m == Head(linkQueue[turn][n])
     IN  /\ pendingReq' = [pendingReq EXCEPT ![turn] = m]
         /\ linkQueue' = [linkQueue EXCEPT ![turn][n] = Tail(@)]
         /\ p1Sent' = [p1Sent EXCEPT ![turn] = (n = Proc1(turn))]
         /\ activeRequests' = Tracking(m)
  /\ countDown' = [countDown EXCEPT ![turn] = CACHE_DELAY]
  /\ NextLink
  /\ UNCHANGED <<coreVars, globalMsgCount, last_msgs, memVars>>
----------------------------------------------------------------------------
(* The message on the link reaches the other end: it is passed on, and, if *)
(* it is for this node or for all, acted upon.                             *)
Arriving == Tick /\ countDown[turn] = 1 /\ pendingReq[turn] # NULL

Message == pendingReq[turn]
Here    == Other(turn, Message.procNum)

(* Mutant: the source takes its own broadcast.                             *)
FreshMut ==
  IF Topology = "line" \/ ~IsBroadcast(Message) THEN TRUE
  ELSE last_msgs[Here][Message.pSrc] < Message.msgNum

(* In a network with cycles a node takes each broadcast once.              *)
Fresh ==
  IF Topology = "line" \/ ~IsBroadcast(Message) THEN TRUE
  ELSE Here # Message.pSrc /\ last_msgs[Here][Message.pSrc] < Message.msgNum

Forwarding ==
  IF Fresh THEN ForwardLinks(Here, Message.procNum, IsBroadcast(Message),
                             Message.pDest, Message.brt = "MEMORY")
           ELSE {}

Forwarded == Enqueued(linkQueue, [Message EXCEPT !.procNum = Here], Forwarding)

Acting == Fresh /\ (IsBroadcast(Message) \/ Forwarding = {})

(* It goes no further, and should.                                         *)
Astray == ~IsBroadcast(Message) /\ Here # Message.pDest

(* lineTick() asserts at every hop that no ack is for the memory.          *)
AckToMemory == Topology = "line" /\ IsAck(Message) /\ Message.pDest = Memory

(* Off the line a broadcast passes the memory.                             *)
Passing == Topology # "line" /\ IsBroadcast(Message) /\ Here = Memory

LinkFree(ticks) ==
  /\ pendingReq' = [pendingReq EXCEPT ![turn] = NULL]
  /\ countDown' = [countDown EXCEPT ![turn] = ticks]
  /\ NextLink
  /\ UNCHANGED <<p1Sent, globalMsgCount>>

Seen ==
  last_msgs' =
    IF Topology # "line" /\ Fresh /\ IsBroadcast(Message)
    THEN [last_msgs EXCEPT ![Here][Message.pSrc] = Message.msgNum]
    ELSE last_msgs

(* Nothing to do here: an old broadcast, a message to another node, or a   *)
(* broadcast that passes the memory.                                       *)
PassOn ==
  /\ Arriving /\ ~AckToMemory
  /\ ~Acting \/ Passing \/ (IsAck(Message) /\ Astray)
  /\ LinkFree(0) /\ Seen
  /\ linkQueue' = Forwarded
  /\ UNCHANGED <<coreVars, activeRequests, memVars>>

(* A broadcast, or the data from memory, is snooped; the reply goes back   *)
(* to its source.                                                          *)
Reply == SnoopOf(Message.brt, Message.addr, Here).send

SnoopHere ==
  /\ Arriving /\ Acting /\ ~IsAck(Message) /\ Here # Memory
  /\ IF \/ Astray
        \/ ~SnoopAsserts(Message.brt, Message.addr, {Here})
        \/ Reply # "NO_REQ" /\ Here = Message.pSrc
     THEN Crash
     ELSE /\ Snoop(Message.brt, Message.addr, {Here})
          /\ linkQueue' = IF Reply = "NO_REQ" THEN Forwarded
                          ELSE Sent(Forwarded, Reply, Message.addr, Here,
                                    Message.pSrc, Message.msgNum)
          /\ LinkFree(0) /\ Seen
          /\ UNCHANGED <<activeRequests, memVars>>

(* On the line the request goes to the memory at once, and the link waits  *)
(* for the memory; else it is queued there.                                *)
ReachMemory ==
  /\ Arriving /\ Acting /\ ~IsAck(Message) /\ Here = Memory /\ ~Passing
  /\ LET r == [addr |-> Message.addr, procNum |-> Message.pSrc]
     IN  IF \/ Message.brt # "MEMORY" \/ Astray
            \/ Topology = "line" /\ memRequest # NULL
         THEN Crash
         ELSE /\ IF Topology = "line"
                 THEN /\ memRequest' = r /\ memCountDown' = DRAM_FETCH_TICKS
                      /\ LinkFree(DRAM_FETCH_TICKS)
                      /\ UNCHANGED memoryRequests
                 ELSE /\ memoryRequests' = Append(memoryRequests, r)
                      /\ LinkFree(0)
                      /\ UNCHANGED <<memRequest, memCountDown>>
              /\ UNCHANGED <<coreVars, linkQueue, activeRequests, last_msgs,
                             memoryCountdown>>

(* An ack at its destination.  After the last one the source gets its block*)
(* if some ack carried it, or asks the memory.                             *)
Counted(e) ==
  [e EXCEPT !.numAcks = @ + 1,
            !.dataAvail = @ \/ HasData(Message),
            !.shared = @ \/ Message.brt \in {"SHARED", "SHARED_DATA"}]

Answer(e) == IF e.shared THEN "SHARED" ELSE "DATA"

(* A reply to the answer would have no destination.                        *)
AnswerAsserts(e) ==
  /\ SnoopAsserts(Answer(e), e.addr, {Here})
  /\ SnoopOf(Answer(e), e.addr, Here).send = "NO_REQ"

CountAck(e) ==
  LET d == Counted(e) IN
  IF d.numAcks > ProcessorCount - 1 THEN Crash
  ELSE IF d.numAcks < ProcessorCount - 1
  THEN /\ activeRequests' = [activeRequests EXCEPT ![Here] = (@ \ {e}) \cup {d}]
       /\ LinkFree(0)
       /\ UNCHANGED <<coreVars, linkQueue, last_msgs, memVars>>
  ELSE IF d.dataAvail /\ ~AnswerAsserts(d) THEN Crash
  ELSE /\ activeRequests' = [activeRequests EXCEPT ![Here] = @ \ {e}]
       /\ IF d.dataAvail
          THEN Snoop(Answer(d), d.addr, {Here}) /\ UNCHANGED linkQueue
          ELSE /\ linkQueue' = Sent(linkQueue, "MEMORY", d.addr, Here, Memory, -2)
               /\ UNCHANGED coreVars
       /\ LinkFree(0)
       /\ UNCHANGED <<last_msgs, memVars>>

ReceiveAck ==
  /\ Arriving /\ IsAck(Message)
  /\ AckToMemory \/ (Acting /\ ~Astray)
  /\ IF Here # Memory /\ Message.pDest # Memory /\ Tracked(Here, Message.msgNum)
     THEN \E e \in activeRequests[Here] : e.msgNum = Message.msgNum /\ CountAck(e)
     ELSE Crash

(* The end of ringTick() and meshTick().                                   *)
ServeMemory ==
  /\ phase = "interconnect" /\ turn = NumLinks
  /\ LET left == IF memoryCountdown > 0 THEN memoryCountdown - 1 ELSE 0
     IN  IF left > 0 \/ memoryRequests = <<>>
         THEN /\ memoryCountdown' = left /\ Goto("cache")
              /\ UNCHANGED <<coreVars, linkVars, activeVars, memoryRequests,
                             memRequest, memCountDown>>
         ELSE IF memRequest # NULL THEN Crash
         ELSE /\ memRequest' = Head(memoryRequests)
              /\ memCountDown' = DRAM_FETCH_TICKS
              /\ memoryCountdown' = DRAM_FETCH_TICKS
              /\ memoryRequests' = Tail(memoryRequests)
              /\ Goto("cache")
              /\ UNCHANGED <<coreVars, linkVars, activeVars>>
----------------------------------------------------------------------------
CoreStep ==
  /\ CacheTick \/ Blocked \/ TraceEnd \/ FetchOther \/ Stopped
  /\ UNCHANGED <<linkVars, activeVars, memVars>>

(* The three tick functions differ in what they do with a broadcast and    *)
(* with a request to the memory, which the actions tell apart.             *)
LinkTick == LinkCount \/ LinkIdle \/ LinkSend \/ PassOn \/ SnoopHere
            \/ ReachMemory \/ ReceiveAck

LineTick == Topology = "line" /\ LinkTick
RingTick == Topology = "ring" /\ (LinkTick \/ ServeMemory)
MeshTick == Topology = "mesh" /\ (LinkTick \/ ServeMemory)

Next == MemoryTick \/ LineTick \/ RingTick \/ MeshTick \/ Fetch \/ CoreStep

(* The engine calls tick() in a loop, so a step that can be taken is.      *)
Spec == Init /\ [][Next]_vars /\ WF_vars(Next)
----------------------------------------------------------------------------
(* The messages in the network that satisfy P, each copy counted.          *)
Waiting == UNION {{<<l, n, i>> : i \in DOMAIN linkQueue[l][n]} :
                    l \in LinkIds, n \in Nodes}

InFlight(P(_)) ==
  Cardinality({l \in LinkIds : pendingReq[l] # NULL /\ P(pendingReq[l])})
  + Cardinality({w \in Waiting : P(linkQueue[w[1]][w[2]][w[3]])})

(* The processors that a broadcast of p has not reached yet.  The line has *)
(* no last_msgs: there a copy on its way will reach all that lie beyond.   *)
Beyond(l, n) == IF n = Proc1(l) THEN {q \in Procs : q >= Proc2(l)}
                                ELSE {q \in Procs : q <= Proc1(l)}

Unreached(p, num) ==
  IF Topology = "line"
  THEN LET copies(l) == {m \in OnLink(l) : /\ IsBroadcast(m)
                                           /\ m.pSrc = p /\ m.msgNum = num}
       IN  UNION {UNION {Beyond(l, m.procNum) : m \in copies(l)} : l \in LinkIds}
  ELSE {q \in Procs \ {p} : last_msgs[q][p] < num}

(* No answer is lost or counted twice: of the n - 1 that a broadcast waits *)
(* for, each has been counted, is on its way, or is still to be given by a *)
(* processor that the broadcast will reach.                                *)
AddsUp(p, e) ==
  LET AckOf(m) == IsAck(m) /\ m.pDest = p /\ m.msgNum = e.msgNum
  IN  e.numAcks + InFlight(AckOf) + Cardinality(Unreached(p, e.msgNum))
        = ProcessorCount - 1

AcksAddUp == \A p \in Procs : \A e \in activeRequests[p] : AddsUp(p, e)

(* A processor that waits for a block is waited upon by exactly one thing: *)
(* its broadcast, its request to the memory, or the memory's answer; and   *)
(* nothing is under way for a processor that does not wait.                *)
Broadcasting(p, a) ==
  {num \in 1 .. globalMsgCount :
     /\ ~Tracked(p, num)
     /\ \E l \in LinkIds : \E m \in OnLink(l) :
          /\ IsBroadcast(m) /\ m.msgNum = num
          /\ m.pSrc = p /\ m.procNum = p /\ m.addr = a
     /\ Unreached(p, num) = Procs \ {p}}

Carriers(p, a) ==
  LET ToMemory(m)   == m.brt = "MEMORY" /\ m.pSrc = p /\ m.addr = a
      FromMemory(m) == m.pSrc = Memory /\ m.pDest = p /\ m.addr = a
      asked         == [addr |-> a, procNum |-> p]
  IN  Cardinality(Broadcasting(p, a))
      + Cardinality({e \in activeRequests[p] : e.addr = a /\ AddsUp(p, e)})
      + InFlight(ToMemory) + InFlight(FromMemory)
      + Cardinality({i \in DOMAIN memoryRequests : memoryRequests[i] = asked})
      + Cardinality({memRequest} \cap {asked})

OneCarrier ==
  \A p \in Procs, a \in Addrs : Carriers(p, a) = IF Transient(p, a) THEN 1 ELSE 0

(* The memory is asked only when no cache had the block, so no transfer    *)
(* between caches ever makes it drop (squelch) a request it serves.        *)
NoSquelch == memRequest # NULL => ~CacheTransfer(memRequest)
=============================================================================
