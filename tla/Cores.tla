------------------------------- MODULE Cores --------------------------------
(***************************************************************************)
(* What sits above the interconnect: the blocking sample processor         *)
(* (processor/processor.c), the always-hit cache of the coherence project  *)
(* (simpleCache/cache.c) and the coherence component                       *)
(* (coherence/coherence.c).  The modules Bus and Network extend this one   *)
(* with the interconnect and the memory and compose the actions.           *)
(*                                                                         *)
(* The simulator is one thread.  A tick of the engine is one walk through  *)
(* the phases                                                              *)
(*     "memory" -> "interconnect" -> "cache" -> "processor"                *)
(* the third and the fourth of which are here; `turn' is the index of the  *)
(* C loop the phase runs.  What the environment chooses is the trace: the  *)
(* operation each processor fetches.                                       *)
(***************************************************************************)
EXTENDS Coherence, Processors, Sequences, FiniteSets

CONSTANTS Addrs,    \* cache blocks: memAddress & ~(blockSize - 1)
          MaxOps    \* operations in the trace of each processor

ASSUME MaxOpsAssumption == MaxOps \in Nat

VARIABLES
  phase,          \* where in the tick the simulator is
  turn,           \* loop index of the phase
  progress,       \* processor.c tick(): local variable progress
  coherStates,    \* per processor, the state of each block
  pendReq,        \* simpleCache: requests without permission yet
  readyReq,       \* simpleCache: requests called back at the end of the tick
  pendingMem,     \* processor: blocked on a memory operation
  pendingBranch,  \* processor: blocked on a mispredicted branch
  memOpTag,       \* processor: number of the current memory operation
  opsLeft         \* trace: operations getNextOp has left

coreVars == <<coherStates, pendReq, readyReq, pendingMem, pendingBranch,
              memOpTag, opsLeft>>
controlVars == <<phase, turn, progress>>

Phases == {"memory", "interconnect", "cache", "processor",
           "halted", "aborted"}

(* A simpleCache request; its tag is makeTag(proc, tag) in the code, which *)
(* memOpCallback shifts back to the number of the operation.               *)
Requests == [proc : Procs, addr : Addrs, tag : Nat]

CoresTypeOK ==
  /\ phase \in Phases
  /\ turn \in Nat
  /\ phase = "processor" => turn \in Procs
  /\ progress \in BOOLEAN
  /\ coherStates \in [Procs -> [Addrs -> CoherenceStates]]
  /\ pendReq \subseteq Requests
  /\ readyReq \subseteq Requests
  /\ pendingMem \in [Procs -> BOOLEAN]
  /\ pendingBranch \in [Procs -> 0 .. 1]
  /\ memOpTag \in [Procs -> Nat]
  /\ opsLeft \in [Procs -> 0 .. MaxOps]

CoresInit ==
  /\ phase = "memory" /\ turn = 0 /\ progress = FALSE
  /\ coherStates = [p \in Procs |-> [a \in Addrs |-> "INVALID"]]
  /\ pendReq = {} /\ readyReq = {}
  /\ pendingMem = [p \in Procs |-> FALSE]
  /\ pendingBranch = [p \in Procs |-> 0]
  /\ memOpTag = [p \in Procs |-> 0]
  /\ opsLeft = [p \in Procs |-> MaxOps]
----------------------------------------------------------------------------
(* The coherence component: busReq(brt, a, p, ...) for every p in targets. *)

SnoopOf(brt, a, p) == SnoopStep(brt, coherStates[p][a])

Received(brt, a, targets) ==
  {p \in targets : SnoopOf(brt, a, p).ca = "DATA_RECV"}

(* Mutant: the callback looks for the address only.                        *)
AnsweredMut(brt, a, targets) ==
  {r \in pendReq : r.addr = a /\ Received(brt, a, targets) # {}}

(* The request a DATA_RECV callback finds in pendReq.                      *)
Answered(brt, a, targets) ==
  {r \in pendReq : r.addr = a /\ r.proc \in Received(brt, a, targets)}

(* The assertions of coherCallback: something is pending at every call,    *)
(* and data that arrives is awaited.                                       *)
SnoopAsserts(brt, a, targets) ==
  /\ targets # {} => pendReq # {}
  /\ \A p \in Received(brt, a, targets) :
       \E r \in pendReq : r.addr = a /\ r.proc = p

(* The new states and the effect of coherCallback; what the snoops send is *)
(* left to the interconnect.                                               *)
Snoop(brt, a, targets) ==
  /\ coherStates' = [p \in Procs |->
        IF p \in targets
        THEN [coherStates[p] EXCEPT ![a] = SnoopOf(brt, a, p).next]
        ELSE coherStates[p]]
  /\ pendReq' = pendReq \ Answered(brt, a, targets)
  /\ readyReq' = readyReq \cup Answered(brt, a, targets)
  /\ UNCHANGED <<pendingMem, pendingBranch, memOpTag, opsLeft>>

(* assert() fails, or a NULL pointer is followed: the process ends.        *)
Abort == phase' = "aborted" /\ UNCHANGED <<turn, progress, coreVars>>

(* The loop of a phase goes on to its next index, or the phase ends.       *)
Goto(next) == phase' = next /\ turn' = 0 /\ UNCHANGED progress
----------------------------------------------------------------------------
(* Mutant: the callback compares with the number of the next operation.    *)
CompletedMut(p) == \E r \in readyReq : r.proc = p /\ r.tag = memOpTag[p] + 1

(* simpleCache tick(): every ready request is called back.  memOpCallback  *)
(* unblocks the processor when the tag is that of its pending operation.   *)
Completed(p) == \E r \in readyReq : r.proc = p /\ r.tag = memOpTag[p]

CacheTick ==
  /\ phase = "cache"
  /\ readyReq' = {}
  /\ memOpTag' = [p \in Procs |-> IF Completed(p) THEN memOpTag[p] + 1
                                                  ELSE memOpTag[p]]
  /\ pendingMem' = [p \in Procs |-> pendingMem[p] /\ ~Completed(p)]
  /\ phase' = "processor" /\ turn' = 0 /\ progress' = FALSE
  /\ UNCHANGED <<coherStates, pendReq, pendingBranch, opsLeft>>

(* The loop of processor.c tick() goes to the next processor.  After the   *)
(* last one the engine ticks again as long as some processor progressed.   *)
NextProcessor(moved) ==
  /\ progress' = (progress \/ moved)
  /\ IF turn < ProcessorCount - 1
     THEN turn' = turn + 1 /\ UNCHANGED phase
     ELSE turn' = 0 /\ phase' = IF progress' THEN "memory" ELSE "halted"

Blocked ==
  /\ phase = "processor"
  /\ pendingMem[turn] \/ pendingBranch[turn] > 0
  /\ pendingBranch' =
       IF pendingMem[turn] THEN pendingBranch
                           ELSE [pendingBranch EXCEPT ![turn] = @ - 1]
  /\ NextProcessor(TRUE)
  /\ UNCHANGED <<coherStates, pendReq, readyReq, pendingMem, memOpTag, opsLeft>>

CanFetch ==
  /\ phase = "processor"
  /\ ~pendingMem[turn]
  /\ pendingBranch[turn] = 0

(* getNextOp returns NULL: the trace of this processor is at its end.      *)
TraceEnd ==
  /\ CanFetch
  /\ opsLeft[turn] = 0
  /\ NextProcessor(FALSE)
  /\ UNCHANGED coreVars

(* An ALU operation costs the tick; so does a branch, and a mispredicted   *)
(* one the next tick too.                                                  *)
FetchOther ==
  /\ CanFetch
  /\ opsLeft[turn] > 0
  /\ opsLeft' = [opsLeft EXCEPT ![turn] = @ - 1]
  /\ \E mispredicted \in 0 .. 1 :
       pendingBranch' = [pendingBranch EXCEPT ![turn] = mispredicted]
  /\ NextProcessor(TRUE)
  /\ UNCHANGED <<coherStates, pendReq, readyReq, pendingMem, memOpTag>>

(* A load or a store: memoryRequest asks for permission and files the      *)
(* request; `CacheStep(...).send' is what permReq broadcasts.              *)
PermOf(isRead, a) == CacheStep(isRead, coherStates[turn][a])

FetchMemory(isRead, a) ==
  /\ CanFetch
  /\ opsLeft[turn] > 0
  /\ opsLeft' = [opsLeft EXCEPT ![turn] = @ - 1]
  /\ pendingMem' = [pendingMem EXCEPT ![turn] = TRUE]
  /\ coherStates' = [coherStates EXCEPT ![turn][a] = PermOf(isRead, a).next]
  /\ LET r == [proc |-> turn, addr |-> a, tag |-> memOpTag[turn]]
     IN  IF PermOf(isRead, a).perm
         THEN readyReq' = readyReq \cup {r} /\ UNCHANGED pendReq
         ELSE pendReq' = pendReq \cup {r} /\ UNCHANGED readyReq
  /\ NextProcessor(TRUE)
  /\ UNCHANGED <<pendingBranch, memOpTag>>

(* The run is over: the engine has left its loop, or the process is gone.  *)
Stopped ==
  /\ phase \in {"halted", "aborted"}
  /\ UNCHANGED <<controlVars, coreVars>>
----------------------------------------------------------------------------
Transient(p, a) == coherStates[p][a] \in TransientStates

(* Single writer or many readers: while a cache holds a block MODIFIED or  *)
(* EXCLUSIVE no other cache holds a copy of it.                            *)
Owners  == {"MODIFIED", "EXCLUSIVE"}
Copies  == {"MODIFIED", "EXCLUSIVE", "OWNED", "SHARE", "FORWARD"}

SingleWriter(a) ==
  \A p, q \in Procs :
    p # q /\ coherStates[p][a] \in Owners => coherStates[q][a] \notin Copies

SWMR == \A a \in Addrs : SingleWriter(a)

(* A blocked processor and the cache agree on what it waits for: the       *)
(* request on file is for the current operation, no processor has two, and *)
(* a request without permission is backed by a state in which coherence    *)
(* has asked for the block - the reply can be matched when it comes.       *)
RequestsMatch ==
  /\ \A r \in pendReq \cup readyReq :
       pendingMem[r.proc] /\ r.tag = memOpTag[r.proc]
  /\ \A r, s \in pendReq \cup readyReq : r.proc = s.proc => r = s
  /\ pendReq \cap readyReq = {}
  /\ \A p \in Procs : pendingMem[p] => \E r \in pendReq \cup readyReq : r.proc = p
  /\ \A p \in Procs, a \in Addrs :
       Transient(p, a) <=> \E r \in pendReq : r.proc = p /\ r.addr = a

(* No assert() of the components fails and no NULL pointer is followed.    *)
NoAssertionFails == phase # "aborted"

(* Every trace is executed to its end.                                     *)
RunsToEnd == <>(phase = "halted" /\ opsLeft = [p \in Procs |-> 0])
=============================================================================
