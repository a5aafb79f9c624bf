------------------------------ MODULE CacheSim ------------------------------
(***************************************************************************)
(* The set-associative cache cacheSim/cacheSim.c with its victim cache and *)
(* its four lists of requests, over the coherence component (invlReq,      *)
(* permReq and busReq of coherence.c) and a bus that answers in order.     *)
(* There is one processor: a second cache would be snooped, and a snoop    *)
(* that has nothing to do ends the program (CoherCallback).  The processor *)
(* issues up to fetchRate memory operations in a tick in which it is not   *)
(* blocked, as simProcessor does.                                          *)
(*                                                                         *)
(* A tick is                                                               *)
(*   "coherence" -> "permissions" -> "callbacks" -> "processor"            *)
(* and memoryRequest is the phase "request", one step per block.           *)
(***************************************************************************)
EXTENDS Coherence, Integers, Sequences, FiniteSets

CONSTANTS
  BlockSize,        \* 1 << b
  Sets,             \* 1 << s
  Lines,            \* -E
  VictimEntries,    \* -i, when there is a victim cache
  Distant,          \* (1 << R) - 1, the largest value, when RRIP replaces lines
  Configurations,   \* [useVictim, useRRIP, fetchRate]: -i, -R and simProcessor's -f
  MaxDelay,         \* ticks an answer of the bus may take
  Accesses,         \* operations of the trace: [isRead, memAddress, size]
  MaxOps,           \* length of the trace
  NULL

ASSUME CacheAssumption ==
  /\ BlockSize \in Nat \ {0} /\ Sets \in Nat \ {0} /\ Lines \in Nat \ {0}
  /\ VictimEntries \in Nat \ {0} /\ Distant \in Nat \ {0}
  /\ Configurations \subseteq [useVictim : BOOLEAN, useRRIP : BOOLEAN, fetchRate : Nat \ {0}]
  /\ MaxDelay \in Nat \ {0} /\ MaxOps \in Nat
ASSUME AccessesAssumption ==
  Accesses \subseteq [isRead : BOOLEAN, memAddress : Nat, size : Nat \ {0}]

(* Blocks are numbered: block n holds the addresses from n * BlockSize on. *)
Blocks == UNION {{x.memAddress \div BlockSize, x.memAddress \div BlockSize + 1} :
                   x \in Accesses}
ASSUME NullAssumption == NULL \notin Blocks \cup [addr : Blocks, timeStamp : Nat]

VARIABLES
  phase,
  useVictim, useRRIP, fetchRate,      \* the configuration
  cacheSets,              \* per set and line, a block and a time stamp, or NULL
  victimCache,            \* the same per victim entry
  accessCounter, victimCounter,
  readyReq, pendReq, readyPermReq, pendPermReq,    \* lists, newest first
  serving,                \* blocks memoryRequest has still to ask for
  isRead,                 \* kind of the operation it serves
  coherStates,            \* coherence: the state of each block
  busQueue,               \* requests on the bus, the oldest first
  countDown,              \* ticks until the bus answers the oldest
  pendingMem, fetches, opsLeft    \* the processor

options == <<useVictim, useRRIP, fetchRate>>
arrays  == <<cacheSets, victimCache, accessCounter, victimCounter>>
lists   == <<readyReq, pendReq, readyPermReq, pendPermReq>>
request == <<serving, isRead>>
below   == <<coherStates, busQueue, countDown>>
core    == <<pendingMem, fetches, opsLeft>>
vars == <<phase, options, arrays, lists, request, below, core>>

Phases == {"coherence", "permissions", "callbacks", "processor", "request",
           "halted", "aborted"}
CacheLines == [addr : Blocks, timeStamp : Nat] \cup {NULL}
PendingRequests ==
  [addr : Blocks, isRead : BOOLEAN, evictedAddr : Blocks \cup {NULL}]

TypeOK ==
  /\ phase \in Phases
  /\ useVictim \in BOOLEAN /\ useRRIP \in BOOLEAN /\ fetchRate \in Nat \ {0}
  /\ cacheSets \in [0 .. Sets - 1 -> [1 .. Lines -> CacheLines]]
  /\ victimCache \in [1 .. VictimEntries -> CacheLines]
  /\ accessCounter \in Nat /\ victimCounter \in Nat
  /\ \A list \in {readyReq, pendReq, readyPermReq, pendPermReq} :
       list \in Seq(PendingRequests)
  /\ serving \in Seq(Blocks) /\ Len(serving) <= 2 /\ isRead \in BOOLEAN
  /\ coherStates \in [Blocks -> CoherenceStates]
  /\ busQueue \in Seq(Blocks) /\ countDown \in 0 .. MaxDelay
  /\ pendingMem \in BOOLEAN /\ fetches \in 0 .. fetchRate
  /\ opsLeft \in 0 .. MaxOps

Init ==
  /\ phase = "coherence"
  /\ \E c \in Configurations :
       useVictim = c.useVictim /\ useRRIP = c.useRRIP /\ fetchRate = c.fetchRate
  /\ cacheSets = [s \in 0 .. Sets - 1 |-> [i \in 1 .. Lines |-> NULL]]
  /\ victimCache = [i \in 1 .. VictimEntries |-> NULL]
  /\ accessCounter = 0 /\ victimCounter = 0
  /\ readyReq = <<>> /\ pendReq = <<>>
  /\ readyPermReq = <<>> /\ pendPermReq = <<>>
  /\ serving = <<>> /\ isRead = TRUE
  /\ coherStates = [a \in Blocks |-> "INVALID"]
  /\ busQueue = <<>> /\ countDown = 0
  /\ pendingMem = FALSE /\ fetches = 0 /\ opsLeft = MaxOps

(* An assert() fails or a NULL pointer is followed.                        *)
Abort ==
  /\ phase' = "aborted"
  /\ UNCHANGED <<options, arrays, lists, request, below, core>>
----------------------------------------------------------------------------
(* Calls of the coherence component, with the list the request pr is       *)
(* pushed on; the first request on an idle bus starts its countdown.       *)
Push(pr, list) == <<pr>> \o list

Send(queue) ==
  /\ busQueue' = queue
  /\ IF busQueue = <<>> /\ queue # <<>>
     THEN countDown' \in 1 .. MaxDelay ELSE UNCHANGED countDown

PermReq(pr) ==
  LET step == CacheStep(pr.isRead, coherStates[pr.addr]) IN
  /\ coherStates' = [coherStates EXCEPT ![pr.addr] = step.next]
  /\ Send(IF step.send = "NO_REQ" THEN busQueue ELSE Append(busQueue, pr.addr))
  /\ IF step.perm
     THEN readyReq' = Push(pr, readyReq) /\ UNCHANGED pendReq
     ELSE pendReq' = Push(pr, pendReq) /\ UNCHANGED readyReq

(* invlReq: MI says that there is a flush to wait for.  (The message that  *)
(* would be the flush is not sent: coherence.c:235 is a comment.)          *)
Flush(a) == Scheme = "MI" /\ coherStates[a] # "INVALID"

(* Mutant: the block leaves the cache and stays with coherence.            *)
InvlReqMut(pr, a) ==
  /\ UNCHANGED coherStates
  /\ readyPermReq' = Push([pr EXCEPT !.evictedAddr = a], readyPermReq)
  /\ UNCHANGED <<pendPermReq, busQueue, countDown, readyReq, pendReq>>

InvlReq(pr, a) ==
  LET evicting == [pr EXCEPT !.evictedAddr = a] IN
  /\ coherStates' = [coherStates EXCEPT ![a] = "INVALID"]
  /\ IF Flush(a)
     THEN pendPermReq' = Push(evicting, pendPermReq) /\ UNCHANGED readyPermReq
     ELSE readyPermReq' = Push(evicting, readyPermReq) /\ UNCHANGED pendPermReq
  /\ UNCHANGED <<busQueue, countDown, readyReq, pendReq>>
----------------------------------------------------------------------------
(* cacheRequest for one block.                                             *)
SetOf(addr) == addr % Sets                       \* getSet
TagOf(addr) == addr \div Sets                    \* getTag; getVictimTag is addr

block == Head(serving)
Set == cacheSets[SetOf(block)]
Pr == [addr |-> block, isRead |-> isRead, evictedAddr |-> NULL]

HitLines == {i \in 1 .. Lines : Set[i] # NULL /\ TagOf(Set[i].addr) = TagOf(block)}
FreeLines == {i \in 1 .. Lines : Set[i] = NULL}
VictimHits ==
  {i \in 1 .. VictimEntries : useVictim /\ victimCache[i] # NULL
                                        /\ victimCache[i].addr = block}
First(S) == CHOOSE i \in S : \A j \in S : i <= j
Oldest(array, S) ==
  First({i \in S : \A j \in S : array[i].timeStamp <= array[j].timeStamp})
Farthest(array, S) ==
  First({i \in S : \A j \in S : array[i].timeStamp >= array[j].timeStamp})

(* The line to replace: least recently used, or with the largest RRIP      *)
(* value, which is first raised to the maximum in all lines of the set.    *)
VictimIndex == IF useRRIP THEN Farthest(Set, 1 .. Lines) ELSE Oldest(Set, 1 .. Lines)

(* Mutant: a miss ages the set by the largest value.                       *)
AgedMut ==
  [i \in 1 .. Lines |->
     IF useRRIP THEN [Set[i] EXCEPT !.timeStamp = @ + Distant] ELSE Set[i]]

Aged ==
  IF ~useRRIP THEN Set
  ELSE [i \in 1 .. Lines |->
          [Set[i] EXCEPT !.timeStamp = @ + (Distant - Set[VictimIndex].timeStamp)]]

Stamp(onHit) ==
  IF useRRIP THEN (IF onHit THEN 0 ELSE Distant - 1) ELSE accessCounter

Fill(set, i) ==
  cacheSets' = [cacheSets EXCEPT ![SetOf(block)] =
                  [set EXCEPT ![i] = [addr |-> block, timeStamp |-> Stamp(FALSE)]]]

Served ==
  /\ phase = "request" /\ serving # <<>>
  /\ serving' = Tail(serving)
  /\ accessCounter' = accessCounter + 1
  /\ UNCHANGED <<isRead, options, core>>

NoHit == HitLines = {}

Hit ==
  /\ Served /\ ~NoHit
  /\ cacheSets' = [cacheSets EXCEPT ![SetOf(block)][First(HitLines)].timeStamp = Stamp(TRUE)]
  /\ readyReq' = Push(Pr, readyReq)
  /\ phase' = phase
  /\ UNCHANGED <<victimCache, victimCounter, pendReq, readyPermReq, pendPermReq, below>>

(* assert(!foundInVictim): a block is not a victim while its set has room. *)
FillFree ==
  /\ phase = "request" /\ serving # <<>>
  /\ NoHit /\ FreeLines # {}
  /\ IF VictimHits # {} THEN Abort ELSE
     /\ Served
     /\ Fill(Set, First(FreeLines))
     /\ PermReq(Pr)
     /\ phase' = phase
     /\ UNCHANGED <<victimCache, victimCounter, readyPermReq, pendPermReq>>

(* Mutant: the block that comes in is put into the victim cache.           *)
PlaceInVictimCacheMut(cleared, e) ==
  /\ victimCache' = [cleared EXCEPT ![e] = [addr |-> block, timeStamp |-> victimCounter]]
  /\ victimCounter' = victimCounter + 1

(* The line that leaves the set goes into entry e of the victim cache.     *)
PlaceInVictimCache(cleared, e) ==
  /\ victimCache' = [cleared EXCEPT ![e] =
       [addr |-> Set[VictimIndex].addr, timeStamp |-> victimCounter]]
  /\ victimCounter' = victimCounter + 1

FreeEntries(victims) == {i \in 1 .. VictimEntries : victims[i] = NULL}

Replacing ==
  /\ Served /\ NoHit /\ FreeLines = {}
  /\ Fill(Aged, VictimIndex)
  /\ phase' = phase

(* Found in the victim cache: the two blocks change places, and the        *)
(* request is ready at once.                                               *)
Swap ==
  /\ Replacing /\ VictimHits # {}
  /\ LET cleared == [victimCache EXCEPT ![First(VictimHits)] = NULL]
     IN  PlaceInVictimCache(cleared, First(FreeEntries(cleared)))
  /\ readyReq' = Push(Pr, readyReq)
  /\ UNCHANGED <<pendReq, readyPermReq, pendPermReq, below>>

(* The victim cache has room: nothing leaves, permission is asked at once. *)
Spill ==
  /\ Replacing /\ useVictim /\ VictimHits = {}
  /\ FreeEntries(victimCache) # {}
  /\ PlaceInVictimCache(victimCache, First(FreeEntries(victimCache)))
  /\ PermReq(Pr)
  /\ UNCHANGED <<readyPermReq, pendPermReq>>

(* The victim cache is full: its oldest block is evicted first.            *)
SpillEvict ==
  /\ Replacing /\ useVictim /\ VictimHits = {}
  /\ FreeEntries(victimCache) = {}
  /\ LET e == Oldest(victimCache, 1 .. VictimEntries)
     IN  /\ PlaceInVictimCache(victimCache, e)
         /\ InvlReq(Pr, victimCache[e].addr)

Evict ==
  /\ Replacing /\ ~useVictim
  /\ InvlReq(Pr, Set[VictimIndex].addr)
  /\ UNCHANGED <<victimCache, victimCounter>>

(* memoryRequest returns.                                                  *)
RequestDone ==
  /\ phase = "request" /\ serving = <<>>
  /\ phase' = "processor"
  /\ UNCHANGED <<options, arrays, lists, request, below, core>>
----------------------------------------------------------------------------
(* Mutant: the second half of a split access is a block too far.           *)
BlocksOfMut(x) ==
  LET first == x.memAddress \div BlockSize
  IN  IF (x.memAddress % BlockSize) + x.size > BlockSize
      THEN <<first, first + 2>> ELSE <<first>>

(* memoryRequest: an access that does not start at its block and does not  *)
(* fit in it is split in two.                                              *)
BlocksOf(x) ==
  LET first  == x.memAddress \div BlockSize
      offset == x.memAddress % BlockSize
  IN  IF offset # 0 /\ offset + x.size > BlockSize
      THEN <<first, first + 1>> ELSE <<first>>

FetchMemory ==
  /\ phase = "processor"
  /\ fetches > 0 /\ opsLeft > 0
  /\ \E x \in Accesses : serving' = BlocksOf(x) /\ isRead' = x.isRead
  /\ pendingMem' = TRUE
  /\ fetches' = fetches - 1 /\ opsLeft' = opsLeft - 1
  /\ phase' = "request"
  /\ UNCHANGED <<options, arrays, lists, below>>

(* The other operations of the tick are not for the cache.                 *)
EndTick ==
  /\ phase = "processor"
  /\ phase' = IF opsLeft = 0 /\ ~pendingMem THEN "halted" ELSE "coherence"
  /\ fetches' = 0
  /\ UNCHANGED <<options, arrays, lists, request, below, pendingMem, opsLeft>>
----------------------------------------------------------------------------
(* coherCallback: the first request of the list that matches changes list. *)
Without(list, i) == SubSeq(list, 1, i - 1) \o SubSeq(list, i + 1, Len(list))

(* Mutant: the address of the eviction is compared.                        *)
ForDataMut(addr) == {i \in DOMAIN pendReq : pendReq[i].evictedAddr = addr}
ForData(addr)    == {i \in DOMAIN pendReq : pendReq[i].addr = addr}
Flushing(addr)   == {i \in DOMAIN pendPermReq : pendPermReq[i].evictedAddr = addr}

(* NO_ACTION is taken for the end of a flush; a list without a match is    *)
(* searched past its end.  INVALIDATE is ignored.                          *)
CallbackAsserts(ca, addr) ==
  CASE ca = "DATA_RECV" -> ForData(addr) # {}
    [] ca = "NO_ACTION" -> Flushing(addr) # {}
    [] OTHER            -> TRUE

CoherCallback(ca, addr) ==
  CASE ca = "DATA_RECV" ->
         LET i == First(ForData(addr))
         IN  /\ readyReq' = Push(pendReq[i], readyReq)
             /\ pendReq' = Without(pendReq, i)
             /\ UNCHANGED <<readyPermReq, pendPermReq>>
    [] ca = "NO_ACTION" ->
         LET i == First(Flushing(addr))
         IN  /\ readyPermReq' = Push(pendPermReq[i], readyPermReq)
             /\ pendPermReq' = Without(pendPermReq, i)
             /\ UNCHANGED <<readyReq, pendReq>>
    [] OTHER -> UNCHANGED lists

(* tick of coherence: the bus counts, and delivers the oldest request's    *)
(* block as DATA.  A cache that answers a delivery fails an assertion of   *)
(* the bus.                                                                *)
BusCounts ==
  /\ phase = "coherence" /\ countDown # 1
  /\ countDown' = IF countDown > 0 THEN countDown - 1 ELSE 0
  /\ phase' = "permissions"
  /\ UNCHANGED <<options, arrays, lists, request, coherStates, busQueue, core>>

BusDelivers ==
  /\ phase = "coherence" /\ countDown = 1
  /\ LET addr == Head(busQueue)
         snoop == SnoopStep("DATA", coherStates[addr])
     IN  IF ~CallbackAsserts(snoop.ca, addr) \/ snoop.send = "DATA" THEN Abort ELSE
         /\ CoherCallback(snoop.ca, addr)
         /\ coherStates' = [coherStates EXCEPT ![addr] = snoop.next]
         /\ busQueue' = Tail(busQueue)
         /\ IF Tail(busQueue) = <<>> THEN countDown' = 0
                                     ELSE countDown' \in 1 .. MaxDelay
         /\ phase' = "permissions"
         /\ UNCHANGED <<options, arrays, request, core>>

(* tick: the requests whose eviction is over ask for permission.           *)
AskPermission ==
  /\ phase = "permissions" /\ readyPermReq # <<>>
  /\ PermReq(Head(readyPermReq))
  /\ readyPermReq' = Tail(readyPermReq)
  /\ UNCHANGED <<phase, options, arrays, request, pendPermReq, core>>

AllAsked ==
  /\ phase = "permissions" /\ readyPermReq = <<>>
  /\ phase' = "callbacks"
  /\ UNCHANGED <<options, arrays, lists, request, below, core>>

(* Mutant: every request that is ready is called back.                     *)
CalledBackMut == readyReq # <<>>

(* tick: all ready requests are dropped; the last one is called back if    *)
(* nothing else is on file.                                                *)
CalledBack == readyReq # <<>> /\ pendReq = <<>> /\ pendPermReq = <<>>

Callbacks ==
  /\ phase = "callbacks"
  /\ readyReq' = <<>>
  /\ pendingMem' = (pendingMem /\ ~CalledBack)
  /\ fetches' = IF pendingMem' THEN 0 ELSE fetchRate
  /\ phase' = "processor"
  /\ UNCHANGED <<options, arrays, pendReq, readyPermReq, pendPermReq, request,
                 below, opsLeft>>

Stopped == phase \in {"halted", "aborted"} /\ UNCHANGED vars

CacheRequest == Hit \/ FillFree \/ Swap \/ Spill \/ SpillEvict \/ Evict

Tick == BusCounts \/ BusDelivers \/ AskPermission \/ AllAsked \/ Callbacks

Next == FetchMemory \/ CacheRequest \/ RequestDone \/ EndTick \/ Tick \/ Stopped

(* The engine calls tick() in a loop.                                      *)
Spec == Init /\ [][Next]_vars /\ WF_vars(Next)
----------------------------------------------------------------------------
Places ==
  {<<"line", s, i>> : s \in 0 .. Sets - 1, i \in 1 .. Lines}
  \cup {<<"victim", 0, i>> : i \in 1 .. VictimEntries}

LineAt(place) ==
  IF place[1] = "line" THEN cacheSets[place[2]][place[3]] ELSE victimCache[place[3]]

Holding(addr) ==
  {place \in Places : LineAt(place) # NULL /\ LineAt(place).addr = addr}

(* No block is in the cache twice, in two lines or in a line and the       *)
(* victim cache, and each is in its set: otherwise one copy could be       *)
(* evicted and given back to coherence under the other (cacheRequest with  *)
(* findInVictimCache and placeInVictimCache).                              *)
NoneTwice ==
  \A addr \in Blocks :
    /\ Cardinality(Holding(addr)) <= 1
    /\ \A place \in Holding(addr) : place[1] = "line" => place[2] = addr % Sets

(* Replacement can tell the lines apart: LRU stamps differ and lie in the  *)
(* past, RRIP values fit their bits although a miss ages the whole set.    *)
StampsInOrder ==
  \A s \in 0 .. Sets - 1 : \A i, j \in 1 .. Lines :
    cacheSets[s][i] # NULL /\ cacheSets[s][j] # NULL =>
      IF useRRIP THEN cacheSets[s][i].timeStamp <= Distant
      ELSE /\ cacheSets[s][i].timeStamp < accessCounter
           /\ i # j => cacheSets[s][i].timeStamp # cacheSets[s][j].timeStamp

Asking(list, addr) == {i \in 1 .. Len(list) : list[i].addr = addr}

(* The cache and the coherence component agree on every block.  One that   *)
(* is not in the cache has been given back; one that is has permission, or *)
(* waits for the bus with one request on file, or for the end of the       *)
(* eviction that made room for it - so that each answer of the bus finds   *)
(* its request, and a hit without permission is followed by the answer.    *)
CoherenceKnows ==
  phase # "aborted" => \A addr \in Blocks :
    LET state   == coherStates[addr]
        waiting == Cardinality(Asking(pendReq, addr))
        evicts  == Cardinality(Asking(readyPermReq, addr))
                   + Cardinality(Asking(pendPermReq, addr))
    IN  /\ waiting = (IF state \in TransientStates THEN 1 ELSE 0)
        /\ waiting = Cardinality({i \in 1 .. Len(busQueue) : busQueue[i] = addr})
        /\ Holding(addr) = {} => state = "INVALID" /\ evicts = 0
        /\ Holding(addr) # {} => evicts = (IF state = "INVALID" THEN 1 ELSE 0)

(* No assertion of the cache fails and no list is searched past its end.   *)
NoAssertionFails == phase # "aborted"

(* The processor is called back once per blocking, not before both halves  *)
(* of a split access have permission, and always in the end (the test of   *)
(* the four lists in tick).                                                *)
Port == INSTANCE MemoryPort WITH
  outstanding <- Len(serving) + Len(pendReq) + Len(readyPermReq) + Len(pendPermReq)

ImplementsPort == Port!Spec
=============================================================================
