# A verification of the CADSS simulator

CADSS (`README.md` of the repository) simulates processors that execute traces over
caches, a coherence protocol, an interconnect and a memory. This directory holds TLA+
models of its components: the coherence protocols, the interconnects (bus, line, ring and
mesh) and the memory with the simple cache and processor that drive them; the
set-associative cache with its victim cache; the out-of-order processor; the branch
predictor; and the splay tree in which the coherence states are kept. Each of the larger
ones is shown to implement a short abstract specification of what its users rely on. TLC
checks small instances; TLAPS proves for all sizes the safety of the bus and of the line,
of the set-associative cache, of the out-of-order core and of the branch predictor, that
ring and mesh keep their types, and that bus, cache and core implement their abstract
specifications as far as safety goes.

## The system

The engine is one thread. It calls `tick()` of the processor component until no processor
makes progress (`engine/engine.c:441-466`). Everything else happens inside that call, in
this order:

    processor tick -> cache tick -> coherence tick -> interconnect tick -> memory tick

and each component does its own work after the one below it returned. So a tick walks
through the phases memory, interconnect, cache, processor. Calls in the other direction
are callbacks: memory -> interconnect (`memReqCallback`), interconnect -> coherence
(`busReq`), coherence -> cache (`coherCallback`), cache -> processor (`memOpCallback`).
There are no threads, no failures and no lost calls. What makes the system hard is that a
memory operation is spread over many ticks, in which the other processors go on.

| component | state | operations | must hold |
|---|---|---|---|
| processor (`processor/processor.c`) | blocked on memory or branch, number of the memory operation | `tick` fetches one operation per free processor; `memOpCallback` unblocks | each operation is answered once, every trace is run to its end |
| cache (`simpleCache/cache.c`) | requests without permission, requests to call back | `memoryRequest`, `coherCallback`, `tick` | answers match requests; no assertion fails |
| coherence (`coherence/coherence.c`, `protocol.c`) | a state per processor and block | `permReq` (own cache), `busReq` (a message was seen), `invlReq` | single writer or many readers |
| bus (`interconnectProj.c` -t 0, `interconnect/interconnect.c`) | one pending request, a queue per processor, a countdown, the round robin | `busReq`, `busTick`, `memReqCallback`, `busReqCacheTransfer` | no request is lost; snoop and delivery act as one; each request is answered |
| line, ring, mesh (`interconnectProj.c` -t 1, 2, 3) | per link a message, a countdown and two queues; broadcasts that wait for acks; numbers of the last broadcasts seen; queue at the memory | `req`, `findLink`, `forwardIfNeeded`, `lineTick`, `ringTick`, `meshTick` | each broadcast reaches each cache once, acks add up, routes are short, every message arrives |
| memory (`memory/memory.c`) | one request, a countdown | `busReq`, `tick` with the squelch | free when asked; never squelches what nobody else answers |
| cacheSim | sets of lines, victim cache, four lists of requests (ready, waiting for permission, waiting for an eviction, evicted) | `memoryRequest`, `coherCallback`, `tick` | cache and coherence agree on every block; each blocking of the processor is answered once, in the end |
| simProcessor | dispatch and schedule queues, register file with tags, functional units, result buses | `tick` (five stages), `memOpCallback` | no result is lost, registers follow the last writer, operations run in dataflow order, the simulation stops when all is done |
| branchSim | counters, history, BTB | `branchRequest` | a two-level predictor: no two contexts share a counter, a group predicts taken only once one of its branches has left a target |
| state tree (`coherence/stree.c`) | nodes with links to parent and children | `tree_insert`, `tree_remove`, `tree_find`, `tree_find_nearest` | a map, whatever shape the tree has |
| trace, taskLib, engine options, debugger, `cache/`, `branch/` | files, option tables | | decoding, I/O and stubs |

The behaviours that are hard to test are listed under `hazards` in `PROJECT.json`, each at
its line: what happens between a snoop and the delivery ninety ticks later; requests whose
state has changed before they get the bus; two countdowns, one in the memory and one in
the bus, that must agree; acks of several broadcasts matched by number; copies of a
broadcast that come late; the arithmetic of the topologies; blocks evicted while requests
for them are under way; the one callback that answers several requests; results that
overtake one another on their way to the register file.

## Modules

    Processors        the set of processors
      Coherence       the protocol tables (no state)
      Links           topologies and routes (no state)
      Ownership       what coherence promises
        Cores         processor + simpleCache + coherence component   CoresProofs
        Routing       one message in an idle network            NetworkProofs
          Bus         Cores + bus + memory        MCBus      BusProofs
                      implements Ownership
          Network     Cores + Links + memory      MCNetwork  NetworkProofs

    MemoryPort        what a processor needs of a cache
      CacheSim        cacheSim + invlReq          MCCacheSim    CacheSimProofs
                      implements MemoryPort
      SimProcessor    the out-of-order core       MCSimProcessor  SimProcessorProofs
                      over MemoryPort, implements Dataflow
    Dataflow          what an out-of-order core promises
    BranchSim         implements TwoLevel         MCBranchSim  BranchProofs
    TwoLevel          a two-level predictor without bits
    STree             implements StateMap                     STreeProofs
    StateMap          a map that changes one key at a time
    Numbers           lemmas of arithmetic, used by the proofs of Network, CacheSim,
                      SimProcessor and BranchSim

* **Coherence** is `protocol.c`: `CacheMI ... CacheMESIF` are the `cache*` functions,
  `SnoopMI ... SnoopMESIF` the `snoop*` functions, as functions of the state that return
  the next state, what is sent and the cache action.
* **Cores** is what the two interconnects share. `phase` and `turn` are the place in the
  tick and the index of the C loop that is running there. Each processor's `FetchMemory`
  is `tick` of the processor together with `memoryRequest` and `permReq`, up to the
  message sent; `Snoop` is `busReq` of coherence with `coherCallback` for one message and
  a set of caches; `CacheTick` is the end of simpleCache's tick with every
  `memOpCallback`. The trace is the environment: any operation, on any block, up to
  `MaxOps` per processor.
* **Bus** is `busTick` and memory's `tick`, one action per branch: `BusCount`, `BusSnoop`
  (the memory is asked and all other caches snoop), `BusDeliver`, `BusGrant`, `BusIdle`;
  `MemoryIdle` and `MemoryServe` (squelch, count, respond).
* **Links** is the part of `init` that lays out the links, with `findLink` and the choice
  of links in `req` and `forwardIfNeeded`. **Routing** follows one message hop by hop.
* **Network** is the three tick functions. They do one thing per link in each round:
  `LinkCount`, `LinkIdle`, `LinkSend` (with the tracking of broadcasts), or an arrival -
  `PassOn`, `SnoopHere`, `ReachMemory`, `ReceiveAck`; ring and mesh end with
  `ServeMemory`. Their differences (line: the last link is blocked while memory works, no
  duplicate check) are in the guards.
* **Ownership** is the abstract specification of coherence: rights to read and to write a
  block that are granted in one step, only while nobody has a right that conflicts. `Bus`
  maps the coherence states to rights (`HeldIn`, `WantedIn`) and a blocked processor to an
  operation that is going on.
* **CacheSim** is `cacheSim.c` with `invlReq` and `permReq`, for one processor.
  `cacheRequest` is one action per way through it: `Hit`, `FillFree` (a free line), `Swap`
  (found in the victim cache), `Spill` (room in the victim cache), `SpillEvict` and `Evict`.
  `tick` is `BusCounts` or `BusDelivers` (with `coherCallback`), `AskPermission` per evicted
  request and `Callbacks`. The bus below it answers its oldest request as the bus of
  `busTick` does, after any number of ticks up to `MaxDelay`. `Distant` is the largest RRIP value, 2^R - 1. The configuration (victim
  cache, RRIP, simProcessor's fetch rate) is chosen at the start.
* **MemoryPort** is the interface `cache.h` as simProcessor uses it: a request blocks the
  processor, several may be opened before it is blocked, one callback comes when all have
  ended. It is the property `ImplementsPort` of CacheSim and the lower half of
  SimProcessor, so the two are composed through it.
* **SimProcessor** is `tick` of `simProcessor.c` stage by stage: `StartFetch` and `Fetch*`
  (one action per kind of operation), `StateUpdate`, `Execute`, `Schedule`, `Dispatch` (one
  operation each) and `EndTick` (`shiftCDBs`, `removeAllFromSQ` and what `tick` returns).
  A reservation station is named by its number in the order of dispatch, which is the tag
  it gets. The schedule queue and the units are sets of stations: their lists are ordered by
  tag whatever happens (a station is put at the head when it is dispatched, and lists are
  otherwise only filtered or emptied), so the order is that of the names. The list of the
  completed is a sequence, since `removeByMinTag` searches it.
* **Dataflow** is what is promised: operations start after the last earlier writers of
  their sources are done, and all are done in the end. `SimProcessor` maps a station that
  is issued to *started* and one that is out of the queue or on its way out to *done*.
* **BranchSim** is `branchSim.c` for models 0 and 2, **TwoLevel** the predictor as a table
  of contexts. The refinement mapping is in MCBranchSim, because the history of TwoLevel is
  a sequence of outcomes and that of the code the bits of a word.
* **STree** is `stree.c` with its links; a node is named by its key. A call (`Ask`) is one
  step per turn of its loops: `Descend` is the way down, which the four operations share,
  `Splay` two rotations or one, `Minimum` a turn of `subtree_minimum`. `phase` is the loop,
  `at` the pointer that runs in it. Nothing in the program runs between those steps: they are
  there so that what holds in a loop can be said, and proved, of every turn.
  **StateMap** is the map that `getState` and `setState` of `coherence.c` take it for; a
  call takes effect in it when it returns.
* **MCBus** and **MCNetwork** are the instances for TLC. MCNetwork adds the history
  variable `raced`: the blocks on which two caches have had transactions under way at
  once, one of them a write.

A failing `assert` (with a list that is searched past its end) and a NULL pointer that is followed take `phase` to `"aborted"`.

Two versions of `busReqCacheTransfer` exist. The one in `interconnectProj.c` scans
`links[]`, which is NULL on the bus; the older `interconnect.c:362`, whose bus is
otherwise the same (with `CACHE_DELAY` 10 for 1), does not. `ScanLinks` chooses, and
`CACHE_DELAY` is a parameter. The safety runs and proofs of the bus are about the older
one, because with the other the first memory access ends the program (`bus_links`). The
older file is not in the build as it is (its directory is not in the top `CMakeLists.txt`
and it has no `req`), so `ScanLinks = FALSE` stands for interconnectProj's bus with that
one function taken over.

### Abstractions

Data values do not exist in the simulator. Block addresses are model values. The stall
message of the processor, verbose printing and the debugger are left out. The number in a
cache's tag (`makeTag`) is kept as the pair it encodes. Lists in the C code that are
searched by key (`pendReq`, `readyReq`, `activeRequests`) are sets; `checkActiveRequests`
asserts that keys do not repeat. The uninitialised `p1Sent` of ring and mesh links
(`interconnectProj.c:353, 394, 416`) starts with any value. The arrays that are one
element short (`:339`, and `perProcMsgCount[processorCount]` at `:703`, which nothing
reads) are modelled as if they were long enough.

In CacheSim a block is its number, the dirty bit, which nothing reads, is left out, and
time stamps are counted without wrapping at 2^64. There is one processor: a second one
would be snooped, and cacheSim's `coherCallback` follows a NULL pointer at every snoop with
nothing to do (`cacheSim.c:193`), so no longer execution with two exists. In SimProcessor
addresses and predictions are left out: a branch is predicted or not, an access takes one
block or two. Of the trace only ALU operations are kept (`trace`), since they are what the
queues carry. Its two scratch arrays of 1024 entries (`readyToFire`, `toRemoveFromSQ`,
`simProcessor.c:388, 547`) are sets: no more stations fire in a tick than the schedule width
and the free units allow, and no more are removed than there are buses, so the model is
about options that stay within them. Counters and targets of BranchSim are numbers, masks are remainders.

## What the runs show

The bus and network runs take MSI and a symmetric environment unless said otherwise; every
processor has a trace of any two operations.

| run | size | shows |
|---|---|---|
| `bus_msi` | 3 processors, 2 blocks, `CACHE_DELAY` 2, memory 3, transfer 2 | the safety properties of the bus (below), `ImplementsOwnership` and `RunsToEnd` |
| `line_msi` | 3 processors, 1 block, memory 2 | acks add up, exactly one thing is under way for each waiting cache, nothing is squelched, no assertion fails, all traces end |
| `ring_msi` | the same on the ring, any `p1Sent` | one thing is under way for each waiting cache and all traces end, with two paths for each broadcast |
| `mesh_msi` | the same on a 2 x 2 mesh | no assertion fails and one thing is under way for each waiting cache, with copies of a broadcast on every link |
| `routes_mesh` | 6 processors and the memory, last row of one | shortest paths, all messages delivered |
| `cache_sim` | 2 sets of 2 lines, victim cache of 1, R = 2, any 4 of 6 accesses to 6 blocks, answers after 1 or 2 ticks, with and without victim cache, LRU with two operations fetched in a tick and RRIP with one | cache and coherence agree, no block is held twice, replacement can tell lines apart, no assertion fails, and the cache is a `MemoryPort` |
| `sim_processor` | fetch 4, widths 1, 2 fast and 1 long unit, 1 bus, 2 registers, any 4 of 5 kinds of ALU operation, memory operations and branches | the queues implement `Dataflow`, no result is lost, registers follow the last writer, every trace ends and then the simulation stops |
| `branch_sim` | 8 counters, history of 2 bits, 3 branches (one group under GSELECT, two of them one entry under DEFAULT), 2 targets, both models | the predictor is a `TwoLevel` predictor, and a group predicts taken only once one of its branches has left a target |
| `stree` | 5 keys, 2 records, any sequence of operations | in every turn of every loop: links agree, the nearest key is found, the tree is a `StateMap` |
| `bus_links`, `bus_mesi`, `cache_conflict` | | disagreements, below |

The bus properties: `SWMR` (single writer or many readers), `NoAssertionFails`,
`RequestsMatch` (processor, cache and coherence state agree on what is awaited),
`RequestsBacked` (each waiting cache has exactly one request of the right type on the bus
or in its queue, and nothing else is queued), `SnoopHolds` (from snoop to delivery no
other cache regains the block), `MemoryInStep` (the two countdowns differ by what the
order of the ticks says), `RunsToEnd`, and `ImplementsOwnership`: ninety ticks of snoops,
memory and transfers look to the processors as if blocks were granted and revoked in
single steps, no operation goes on before it had its right, and each goes on.

On the networks SWMR is **not** a property: two caches that broadcast for one block at the
same time ack each other from their waiting states, both ask the memory and both become
writers. Nothing in the source says that this cannot happen, so it is not reported as a
finding; `SWMRUnlessRaced` says that this is the *only* way to lose it under MSI.
`OneCarrier` and `AcksAddUp` count broadcasts, entries, acks and memory requests over all
links and queues, and are what a lost, doubled or mismatched message would break.

`CoherenceKnows` is what keeps cacheSim alive: a block that is in the cache has
permission, or exactly one request on the bus and on file, or waits for the end of exactly
one eviction; one that is not in the cache is INVALID with coherence. With it every DATA
finds its request, and a hit on a block without permission is followed by the answer
(`ImplementsPort`). It holds as long as no line is replaced whose block still waits, which
`cache_conflict` shows the code does not see to. With LRU and two lines per set two
operations can be under way at once, and in `cache_sim` they are. RRIP is different: a new
line gets the value 2^R - 2 and so is replaced before any line that was hit, also while its
own request waits. With two operations per tick `CoherenceKnows` (and a few steps later
`NoAssertionFails`) is then violated with two lines per set as well
(`Configurations <- Overlapping` in `cache_sim.cfg` shows it), so `cache_sim` lets RRIP
fetch one operation per tick, as `ex_branch.config` does.

In SimProcessor `NoLostWakeup` says where a tag that is waited for can be: in a station
that has not been broadcast, or on a bus that will still be heard. `RegistersCurrent` says
that a register is ready exactly when its last writer is done, which needs the comparison
of tags in `stateUpdate` when two writers of a register are under way. `ImplementsDataflow`
and `RunsToEnd` follow the operations from there to the end.

**Bounds.** Two operations per processor let a processor upgrade, lose and ask again for a
block; three processors give two requests that queue behind a third, and acks that pass a
node in the middle; the second block on the bus lets the pending request and the snoops be
about different blocks. The delays (90, 10, 10) only matter by their order and by whether
they are larger than the steps that race with them: 3, 2 and 2 keep the memory slower than
a transfer and leave ticks in which processors act. The proofs hold for all delays.
`last_msgs`, `globalMsgCount` and `memOpTag` are bounded by `MaxOps`, and no constraint
cuts the state space. Four operations in SimProcessor are a producer, two writers of one
register and a reader of it, on two kinds of units; widths of one and one bus make every
queue full and results wait for the bus; three stages of the long unit let three fast ones
overtake it. The six accesses of CacheSim hit, miss in both sets, collide and cross block
boundaries; four of them evict a block, take it back out of the victim cache and evict
again. Five keys in a tree are enough for all four double rotations below the root and for
the removal of an inner node whose successor is not its child.

Three branches and two bits of history: every shift of the history loses an outcome, all
counters of a group are trained to both ends, and branches share counters in both models.
That groups do not share one is, beyond what the refinement shows for one group beside an
untouched one, `IndexInjective`.

**Fairness.** `WF(Next)`: the engine calls `tick()` in a loop, and a tick that can be made
is made. No fairness is given to one processor or link over another: who is served is for
the arbiter and the loops of the code to decide. Deadlock is checked in every run;
`Stopped` (`Halted` in SimProcessor) is the only step of a finished program. SimProcessor
has strong fairness on `MemoryAdvances` and `MemoryAnswers` besides: the cache below it is
only an interface there, and that it answers a processor that waits is `ImplementsPort`,
which `cache_sim` checks of the code of the cache. CacheSim and the bus need `WF(Next)` only.
In STree a call that has begun runs on (`WF(Step)`: it is sequential C code), and nothing
says that another call is made.

### Disagreements found

| run | what | where |
|---|---|---|
| `bus_links` | the bus follows the NULL `links` array at the first memory tick | `interconnectProj.c:1785` |
| `bus_mesi` | `SHARED_DATA` is unknown to the bus; a reader becomes EXCLUSIVE beside a SHARE copy | `interconnectProj.c:508` |
| `cache_conflict` | a block is evicted while its own request is on the bus; the answer finds no request and the NULL list of evictions is followed | `cacheSim.c:442` |

More can be seen by changing a line or two of a `.cfg`:

* `Topology = "ring"` and the invariant `AcksAddUp` in `line_msi.cfg`: the second copy of a
  broadcast leaves its source after all acks are back, and the broadcast is entered again
  as waiting for acks, for good (`interconnectProj.c:1284`).
* `Topology = "ring"`, `ProcessorCount = 5` in `routes_mesh.cfg`, `Shortest`: the distance to
  the right is wrong for destinations below the source, so that messages never go right
  (`:540-546`), although the comment at `:537` says when they should.
* `Scheme = "MESI"`, `ProcessorCount = 2` in `line_msi.cfg`, `SWMRUnlessRaced`: that a block is
  shared is forgotten when its data comes from the memory, and it ends EXCLUSIVE beside
  SHARE (`:986`).
* `Scheme = "MI"` in `cache_sim.cfg`, `ImplementsPort`: `invlReq` reports a flush to wait for
  but the message that would end it is a comment (`coherence.c:235`), so the processor waits
  for ever. `ex_coher.config` asks for MI.

* `BHR = 0 \/ answer # 0`, defined in BranchSim and made an invariant in `branch_sim.cfg`:
  under GSELECT two taken branches at 8 leave the history 11 and a third raises the counter
  for it; then 24, which is in the same group and was never taken, is predicted taken and
  gets its empty entry of the target buffer, 0 (`branchSim.c:152`), where the comment at
  `:172` says "either return a predicted address from BTB or pcAddress + 4".

And without a run: an idle bus goes to whoever asks first, also while others are queued
(`interconnectProj.c:479`), so the round robin `:451` is not one; `schedule` calls its
selection "FIFO" (`simProcessor.c:435`) but goes through the queue from its newest entry;
the trace library's collection "of only memory reads and writes" (`Task.hpp:118`) begins with
the first action of a task whatever it is, because the loop that would skip to a memory
operation is a comment (`Task.cpp:206-207`).

## What is proved

### The bus

`BusProofs` proves the following for every number of processors, every set of blocks,
every length of trace and every value of the three delays:

* `TypeCorrect`: `TypeOK`, for all five schemes and both versions of
  `busReqCacheTransfer`.
* Under `BasicScheme` (MI or MSI): `InductiveInvariant`, and from it `BusSWMR`,
  `BusRequestsMatch`, `BusRequestsBacked`, `BusSnoopHolds` and `BusMemoryInStep`.
* `BusNoAssertionFails`: under MI or MSI no assertion fails, if the memory does not scan
  `links[]`.

Assumed are only the named assumptions on the constants: `ProcessorCount` is positive,
`MaxOps` a natural number, the delays are positive, `NULL` is no request. MESI and its
extensions are left out of the safety theorems because they do not hold there
(`bus_mesi`).

The inductive invariant `IInv` is `TypeOK`, `SWMR`, `RequestsMatch`, `RequestsBacked`,
`SnoopHolds` and `MemoryInStep` with `StatesUsed` (only states of the scheme occur).
`SWMR` alone is not inductive: a delivery makes a cache MODIFIED, and that no other cache
has a copy then is `SnoopHolds`, which is established by the snoop and kept because the
only way to gain a copy is a delivery, and only the request that has the bus is delivered.
That the delivery finds a cache that waits is `RequestsBacked`; that its answer makes the
state it waits in what the request asked for is the table lemma `AnswerTable`. That the
cache finds its request is `RequestsMatch`. `MemoryInStep` says that the memory is free
when the snoop asks it and that an answer comes for the request that has the bus. The
other lemmas are one per action (`BusSnoopKeeps`, `BusDeliverKeeps`, `FetchKeeps`, ...);
three table lemmas (`PermTable`, `SnoopTable`, `AnswerTable`) are all the proof knows of
the protocols. They are in `CoresProofs`, with what snoops, answers, fetches and the cores'
own ticks do to types and to `RequestsMatch`, and serve the networks as well.

### The bus implements Ownership

`BusProofs` proves `BusImplementsOwnership` too: under MI or MSI `Spec` implies
`Promise!Safety`, for every number of processors and blocks. The initial states map to the
abstract ones, and each action, under `IInv` before and after the step, is mapped to one:
a fetch that hits or misses to `Request`, a snoop to `Revoke`, a delivery to `Grant` (that
no other cache has a right is `SnoopHolds`, that the cache waits is `RequestsBacked`), the
tick of the caches to `Retire` (that only operations with their right are called back is
`RequestsMatch`); the countdowns, the memory and the arbiter change no right. What a step
does to rights is taken from one lemma per protocol table. The module ends with a proof about the
abstract specification, of any three variables, that a right to write excludes all others
(`RightsExclusive`), so this holds for whatever is shown to implement it.

### The networks

`NetworkProofs` proves `NetworkTypeCorrect` for line, ring and mesh, all five schemes, every
number of processors and blocks and every delay: messages stay on links that exist, every
next link found by `findLink` and `forwardIfNeeded` is a link of the node, lists and
counters keep their ranges. Most of it is arithmetic: the smallest square
that holds the nodes of a mesh has full rows and a last one that is not empty (`MeshShape`),
and the links counted row by row join nodes that exist (`LinkEnds`). `Typed` is the
invariant: `TypeOK` and `Good`, that broadcasts and requests to the memory come from a
processor.

For the **line** under MI or MSI it proves for all sizes and delays every safety property
that `line_msi` checks of the code's own state: `LineNoAssertionFails`, `LineAcksComplete`
(`AcksAddUp`), `LineOneCarrier`, `LineNoSquelch`, and `LineRequestsMatch` besides; and, about
`MCSpec`, what coherence is worth there, `LineSWMRUnlessRaced` (below). The first five follow
from one inductive invariant, `LInv`. It looks at the network as the set `Net` of the places
where messages are (a link and a message, carried or queued), and says:

* `Orderly`: a queue holds messages of its node only, and none twice, so that a set loses
  nothing (`FlightCounted` gets the counts of `InFlight` back from it);
* `MessagesOK`: there are four kinds of messages - broadcasts, replies, requests to the
  memory and its answers - and each is on its way: its source behind, its destination ahead;
* `Single`: two messages that agree in source, destination, number and direction are
  one. A broadcast is at most two copies, one to each side;
* `CopiesOK`, `RepliesOK`, `EntriesOK`: a broadcast that is not tracked yet is whole, at its
  source; a reply is for an entry that exists and comes from a processor that no copy has
  still ahead; and per entry the acks counted, the processors whose reply is on its way
  (`Replying`) and those ahead of a copy (`Missing`) add up to n - 1 (`Sums`). That the three
  never overlap is what makes each handler move one processor from one of them to the next;
* `ErrandsOK`: for every processor there is at most one errand (a broadcast not tracked, an
  entry, a request under way, a request at the memory, an answer under way), and exactly one if
  its cache waits for a block, with that block;
* `CarriedOK`, `MemoryInStep`: what a link carries it carries for one tick, and a broadcast
  that is carried is tracked; while the memory works the last link is blocked and their
  two countdowns agree, which is why no request meets a busy memory;
* `Typed`, `StatesUsed` and `RequestsMatch`.

The proof has three layers. Lemmas on `Accounts` (`Moved`, `Spread`, `ReplyCounted`, `LastReply`,
`Asked`, `Served`, `Returned`, `Begun`, `Fetched`) say what each kind of step does to a set of
places and the entries, and know nothing of queues and links. Lemmas on queues
(`EnqueuedNet`, `FreedNet`, `SentNet`, `ForwardNet`) say which places a handler adds and takes.
Per action one lemma (`PassOnKeeps`, `LinkSendKeeps`, `SnoopHereKeeps`, `ReceiveAckKeeps`,
`ReachMemoryKeeps`, `MemoryTickKeeps`, `LineFetchKeeps`, ...) puts them together. TLC checked
`LInv` on lines of 2 to 4 processors before it was proved. Under the other schemes the
line loses the word that a block is shared (above), and `StatesUsed` is about MI and MSI.

`LineSWMRUnlessRaced` says that a block for which no write ever competed with another
request has one writer or many readers. Its invariant `SInv` adds `KeptApart` to `LInv`, for
the blocks that are not in `raced`: of two processors, one that waits to write has its `BUSWR`
still to reach the other as long as that one has a copy (`Reaches`), one that waits to read
has its `BUSRD` still to reach an owner, and a writer is the only one that waits. `SWMR`
alone is not inductive: what makes a cache MODIFIED is the last ack or the memory's answer,
and that its broadcast has then reached everybody is in the accounts (`NothingToReach`). The lemmas
per action say to this end which of four things a step is for the caches (`LineStep`): none
changes, one snoops a broadcast, one gets its answer, or one misses. TLC checked `KeptApart` on
lines of 2 and 3 processors before it was proved.

The last part of `NetworkProofs` is about one message in an idle network (`Routing`),
on every line and every mesh: `ShortestRoutes` is the invariant `Shortest` of
`routes_mesh`, and `RoutesEnd` says that a message makes at most as many hops as there are nodes
and is then processed by its destination and nobody else. On some rings `Shortest` is false,
hence `Topology # "ring"`. The argument:

* `FarIs`, `FarAlong`: on the mesh the distance `Far` is that of the rows plus that of the
  columns, and along a link it changes by at most 1;
* `MeshNearer`: the link that `findLink` names always leads one nearer. This is where the short
  last row matters: if a message cannot go along its row, then its destination is in another
  row, and the link to it along the column exists. `MeshLinks` says which links the
  arithmetic of `init` makes, and that there is one wherever two neighbours exist;
* `BallIs`: hence the nodes that `Shortest` counts link by link (`Ball`) are those at that `Far`.
  `Ball` is a recursive function, and the prover has no induction over it; the proof takes the
  least distance at which it would differ instead (`SmallestOf`), and shows that there is none;
* `PassedTowards`: on the line `forwardIfNeeded` does not ask `findLink`, but sends a message to
  the other side than it came from, which is the same;
* the inductive invariant `OnShortestPath`: one hop is under way, and the hops made and what is
  left of the way add up to the distance of source and destination. `Shortest` alone says nothing
  of where a message on the line came from, so it is not inductive. TLC checked
  `OnShortestPath` on lines of 3 and 4 processors and meshes of 3, 4 and 6 before it was proved.

### The branch predictor

`BranchProofs` proves `BranchTypeCorrect` and `BranchTargetKnown` for all sizes of the
counter array and the history, all addresses and targets, with the conjunction of the two
as the inductive invariant, and `IndexInjective`: under GSELECT two branches share a counter
only if address bits and history agree. The arithmetic (a quotient and a remainder are
determined by the sum they make up, an index stays in its array) is in lemmas of its own.

### The set-associative cache

`CacheSimProofs` is about every block size, number of sets, lines and victim entries, every
set of accesses and of configurations, and every delay of the bus.

Without any further condition it proves `CacheTypeCorrect`, `CacheStampsInOrder`,
`CacheNoneTwice` and `CacheImplementsPort` (`Spec` implies `Port!Safety`: the processor is
called back once per blocking, and not before all of its accesses have permission). The
inductive invariant `IInv` is `TypeOK` and `StampsInOrder` with

* `CourseOK` and `BusCountsRequests`: what the lists are between the phases, and that the
  countdown runs exactly while a request is on the bus;
* `Layout`: every line is in its set, no two lines of a set and no two victims hold one
  block, and (`VictimsOut`) the set of a block in the victim cache is *full of other
  blocks*. `NoneTwice` alone is not inductive: a block found in the victim cache goes back
  to its set only when that set has no free line and is swapped there, otherwise the code
  would fill the free line and leave the copy. `VictimsOut` says why there is never a free
  line: no line is ever emptied, only replaced.

`CacheCoherenceKnows` and `CacheNoAssertionFails` have the hypothesis `Spaced`: more than one set,
and in every configuration `fetchRate` is 1, or it is at most the number of lines and
replacement is LRU. Without it they are false, which is what `cache_conflict` shows
(with one set, the two halves of a split access count as two uses of the same set). Their
invariant `KInv` follows every block through coherence:

* `RequestsAgree`: no list has two requests for one block, none is in two lists of evictions,
  and the bus has exactly the requests on file;
* `StatesAgree`: transient exactly if its request is on file, INVALID exactly if it
  waits for an eviction or is in neither place;
* `VictimsSettled` and `LinesInUse`: a block without permission is in a line, and that line is
  among the *k* last used of its set, where *k* is the number of operations since the
  processor was called back that used the set (`Uses`). As `fetchRate` is at most
  `Lines`, the line that LRU replaces is older than all of them, so a replaced block has
  always its permission (`ReplacedSettled`). It is here that RRIP needs a rate of 1: it
  replaces a new line before an old one.
* `ServingApart`: the halves of a split access are in different sets.

TLC checked `KInv` on the instances of `cache_sim`, with MSI, MI and MESIF, before it was
proved.

### The out-of-order core

`SimProcessorProofs` is about every width, number of units and result buses, every set of
registers and every trace. It proves `SimTypeCorrect`, `SimNoLostWakeup`,
`SimRegistersCurrent`, `SimNothingLost` (an issued station is in exactly one of the units, the
list of the completed and the stations on their way out) and `SimImplementsDataflow` (`Spec`
implies `Writers!Safety`, the safety part of `ImplementsDataflow`). The inductive
invariant `IInv` is `TypeOK` with

* `AccessesLeft`, `QueueIsRest`: the dispatch queue is the rest of the trace;
* `PhasesOK`: which lists are empty in which stage;
* `StationsOK`, `NothingLost`, `OnePlaceEach`, `BusesOK`: where stations can be;
* `SourcesOK`: a source waits for the *last earlier writer* of its register, or that one is
  done. This is what makes `Dataflow` follow, and it rests on `RegistersOK`, the same of
  the register file: a register that is not ready has the tag of its last writer. The
  comparison of tags in `stateUpdate` keeps it when an earlier writer is done later.
* `NoLostWakeup`, which needs the buses: a source may wait for a station that is done only
  between its broadcast and the end of the next `schedule`.

`Start` of `Dataflow` is `Schedule` (a station with no source left to wait for is fired, and
by `SourcesOK` its producers are done), `Finish` is `StateUpdate`, `Issue` the dispatch queue's
end of `Fetch`. That the arbitration for units and buses never takes more than there are
is a matter of counting (`InOrderEnumerates`, `ChosenFew`, `FewTaken`).

### The state tree

`STreeProofs` is about every set of integer keys, finite or not, every set of records and every
sequence of calls. It proves each invariant that `stree` checks - `TypeCorrect`, `LinksHold`
(`LinksAgree`), `NearestHolds` (`NearestFound`) -, that every search ends at its node
(`SearchFinds`), and `AnswersAsMap`: `Spec` implies `Map!Safety`, the safety part of
`ImplementsMap`.

What a search tree needs is an order on whole subtrees, and the set of the nodes below a node
is defined by recursion, out of the prover's reach. It is not needed: the invariant says that
there is *some* family `D` of sets with the laws of subtrees (`Subtrees`: `D[v]` is `v` and what is
below its children, to the left smaller, to the right larger; it is closed under links; the
root's is everything). Each change of links names the family it leaves behind: a rotation
changes the sets of the two nodes it turns (`RotatedOrder`), a leaf is added to the sets on its
way (`LeafKeeps`), a removal takes the node that moves up out of the sets above it
(`PlaceKeeps`). What the assignments of the code write, with their NULL checks, is worked out
once per operator (`RotateWrites`, `PlaceWrites`, `FreedWrites`, ...) and the rest of a proof
knows only that. A turn of `splay` is one or two rotations (`SplayTurnKeeps`).

The inductive invariant `IInv` is `TypeOK`, `Linked`, `Subtrees` with what each loop knows:

* `Way`: where the search is, the key is below it if it is anywhere;
* `InsertWay`: for every node above `p` the new key belongs on the side of `p`, without which
  the leaf would break the order of a node higher up;
* `NearestWay`: a key that the search has left out is not above the one it keeps, or above
  what is looked for;
* `Rising`: the node that is splayed is in the tree, with the record it was given;
* `Lowest`: what `subtree_minimum` has passed is larger than what is below it;
* `Counted`: there are `node_count` nodes, not counting a leaf that `tree_insert` is still
  splaying.

TLC checked `IInv`, with `D` computed, on trees of four keys before it was proved.

### Only model-checked

* Liveness: `RunsToEnd`, `AllDelivered`, and the temporal parts of `ImplementsOwnership`,
  `ImplementsPort`, `ImplementsDataflow` and `ImplementsMap` (that no loop of the state tree runs
  for ever). Fairness and ENABLED are out of the prover's reach.
* Ring and mesh beyond their types (`ring_msi`, `mesh_msi`). There a processor gets copies of
  a broadcast over several paths and `last_msgs` sorts them out, also long after the
  broadcast is over, so the accounts of the line do not carry over.
* `Delivered` for a broadcast: which of its copies are dropped depends on their order. For a
  message to one node it is part of `RoutesEnd`.
* `Shortest` on the ring, where it is false for some sizes (above).
* The refinement of TwoLevel by BranchSim, whose mapping goes through the bits of a word of
  any length, and a recursive definition.

## Not modelled, and the plan

Done: the coherence protocols, bus, line, ring and mesh with the simple cache and processor;
cacheSim; simProcessor; branchSim; the state tree; Ownership; the safety of the bus, of
CacheSim, of SimProcessor, of BranchSim and of the state tree, the types of all networks, the
safety of the line, the routes of line and mesh, and the refinements by Bus, CacheSim, SimProcessor and STree. What a
later version could add:

1. **NetworkProofs**: what a broadcast does on the ring, and what of `KeptApart` holds there.
2. **MOESI and MESIF on the bus**: which of the properties survive the lost `SHARED_DATA`.

Left out for good:

* model 1 (GSHARE) of branchSim: its `getIndex` returns nothing, so that every access is to
  an undefined index;
* cacheSim with more than one processor, which ends at the first snoop (`cacheSim.c:193`);
* the trace reader and `taskLib` (`Task.cpp`, `TaskGraph.cpp`): decoding of text and binary
  files; the list of operations they deliver is the environment of Cores, CacheSim and
  SimProcessor, and is any list there;
* option files, `dlopen`, `getopt` and the debugger: I/O before or beside the simulation;
* `cache/`, `branch/` and `branchCPP/`: stubs with a fixed delay and a perfect prediction.
  The copy of `stree.c` in `simpleCache/` is compiled in and not called.
