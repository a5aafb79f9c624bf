---------------------------- MODULE SimProcessor ----------------------------
(***************************************************************************)
(* The out-of-order core simProcessor/simProcessor.c with one processor: a *)
(* dispatch queue, a schedule queue of reservation stations, fast and long *)
(* functional units, a register file with tags and the common data buses   *)
(* (CDBs).  The cache is MemoryPort, which CacheSim implements; whether a  *)
(* branch was predicted is open.                                           *)
(*                                                                         *)
(* A tick is                                                               *)
(*   "memory" -> "fetch" -> "update" -> "execute" -> "schedule"            *)
(*            -> "dispatch".                                               *)
(* Reservation stations are numbered in the order of their dispatch: the   *)
(* number is the tag of the result, if there is one.  The schedule queue is*)
(* a list to whose head stations are added, so its order is that of the    *)
(* numbers, the largest first, and so is the order in which stations go    *)
(* into the units: these are sets here.                                    *)
(***************************************************************************)
EXTENDS Integers, Sequences, FiniteSets

CONSTANTS
  FetchRate,         \* -f
  DispatchWidth,     \* -d
  ScheduleWidth,     \* -m
  NumFastALU,        \* -j
  NumLongALU,        \* -k
  NumCDB,            \* -c
  Registers,
  Ops,               \* ALU operations of the trace: [isLong, src1, src2, dest]
  MaxOps             \* length of the trace

NoReg == -1

ASSUME WidthsAssumption ==
  \A width \in {FetchRate, DispatchWidth, ScheduleWidth, NumFastALU, NumLongALU, NumCDB} :
    width \in Nat \ {0}
ASSUME OpsAssumption ==
  /\ Registers \subseteq Nat /\ MaxOps \in Nat
  /\ Ops \subseteq [isLong : BOOLEAN, src1 : Registers \cup {NoReg},
                    src2 : Registers \cup {NoReg}, dest : Registers \cup {NoReg}]

Units(isLong) == IF isLong THEN NumLongALU ELSE NumFastALU
MaxDQ == DispatchWidth * (ScheduleWidth * NumFastALU + ScheduleWidth * NumLongALU)
MaxSQ(isLong) == ScheduleWidth * Units(isLong)

VARIABLES
  phase,
  pendingMem, outstanding,     \* the cache, as MemoryPort
  pendingBranch,               \* ticks to wait for a branch
  opsLeft,
  slots,                       \* rounds left of the loop of this stage
  progress,                    \* what tick returns, so far
  DQ,                          \* operations, the oldest first
  SQ,                          \* reservation stations
  tagCounter,
  rf,                          \* per register: ready, and the tag it waits for
  fast, long,                  \* stations in the units; long has three stages
  completed,                   \* stations that wait for a CDB, newest first
  cdbs, cdbsIssued,            \* tags on the buses, and on those of the next tick
  toRemove,                    \* stations to take out of SQ at the end of the tick
  trace                        \* history: the ALU operations fetched so far

memory   == <<pendingMem, outstanding>>
frontEnd == <<pendingBranch, opsLeft, DQ, trace>>
window   == <<SQ, tagCounter, rf>>
backEnd  == <<fast, long, completed>>
buses    == <<cdbs, cdbsIssued, toRemove>>
vars == <<phase, slots, progress, memory, frontEnd, window, backEnd, buses>>

Port == INSTANCE MemoryPort

Phases == {"memory", "fetch", "update", "execute", "schedule", "dispatch", "halted"}

(* A source is 0 when it is ready, otherwise the tag it waits for.         *)
Tags == 1 .. tagCounter
Stations == [tag : Tags, op : Ops, waits : [1 .. 2 -> 0 .. tagCounter], issued : BOOLEAN]

InSQ(isLong) == Cardinality({rs \in SQ : rs.op.isLong = isLong})

(* The queues and units stay within their room.                            *)
TypeOK ==
  /\ phase \in Phases
  /\ pendingMem \in BOOLEAN /\ outstanding \in 0 .. 2 * MaxOps
  /\ pendingBranch \in 0 .. 1 /\ opsLeft \in 0 .. MaxOps
  /\ slots \in Nat /\ progress \in BOOLEAN
  /\ trace \in Seq(Ops) /\ tagCounter \in 0 .. Len(trace)
  /\ DQ \in Seq(Ops) /\ Len(DQ) <= MaxDQ
  /\ SQ \subseteq Stations /\ \A isLong \in BOOLEAN : InSQ(isLong) <= MaxSQ(isLong)
  /\ rf \in [Registers -> [ready : BOOLEAN, tag : 0 .. tagCounter]]
  /\ fast \subseteq Tags /\ Cardinality(fast) <= NumFastALU
  /\ long \in [1 .. 3 -> SUBSET Tags]
  /\ \A stage \in 1 .. 3 : Cardinality(long[stage]) <= NumLongALU
  /\ completed \in Seq(Tags)
  /\ cdbs \subseteq Tags /\ cdbsIssued \subseteq Tags /\ toRemove \subseteq Tags
  /\ Cardinality(cdbs) <= NumCDB /\ Cardinality(toRemove) <= NumCDB

Init ==
  /\ phase = "memory" /\ slots = 0 /\ progress = FALSE
  /\ Port!Init
  /\ pendingBranch = 0 /\ opsLeft = MaxOps
  /\ DQ = <<>> /\ trace = <<>>
  /\ SQ = {} /\ tagCounter = 0
  /\ rf = [r \in Registers |-> [ready |-> TRUE, tag |-> 0]]
  /\ fast = {} /\ long = [stage \in 1 .. 3 |-> {}] /\ completed = <<>>
  /\ cdbs = {} /\ cdbsIssued = {} /\ toRemove = {}
----------------------------------------------------------------------------
(* The tick of the cache comes first; memOpCallback is Port!Answer.        *)
MemoryAdvances ==
  /\ phase = "memory" /\ Port!Advance
  /\ UNCHANGED <<phase, slots, progress, frontEnd, window, backEnd, buses>>

MemoryAnswers ==
  /\ phase = "memory" /\ Port!Answer
  /\ UNCHANGED <<phase, slots, progress, frontEnd, window, backEnd, buses>>

(* A processor that waits for memory or for a branch does not fetch.       *)
Waiting == pendingMem \/ pendingBranch > 0

StartFetch ==
  /\ phase = "memory"
  /\ pendingBranch' = IF ~pendingMem /\ pendingBranch > 0 THEN pendingBranch - 1
                                                          ELSE pendingBranch
  /\ slots' = IF Waiting THEN 0 ELSE FetchRate
  /\ progress' = Waiting
  /\ phase' = "fetch"
  /\ UNCHANGED <<memory, opsLeft, DQ, trace, window, backEnd, buses>>

(* Mutant: the queue takes one more.                                       *)
IsFullDQMut == Len(DQ) > MaxDQ
IsFullDQ == Len(DQ) >= MaxDQ

Fetching ==
  /\ phase = "fetch" /\ slots > 0 /\ opsLeft > 0 /\ ~IsFullDQ
  /\ slots' = slots - 1 /\ opsLeft' = opsLeft - 1 /\ progress' = TRUE
  /\ UNCHANGED <<phase, window, backEnd, buses>>

FetchALU ==
  /\ Fetching
  /\ \E op \in Ops : DQ' = Append(DQ, op) /\ trace' = Append(trace, op)
  /\ UNCHANGED <<memory, pendingBranch>>

(* The loop goes on after a memory operation and after a branch, and the   *)
(* last branch of the tick decides whether the processor waits.            *)
FetchMemory ==
  /\ Fetching
  /\ \E blocks \in 1 .. 2 : Port!Request(blocks)
  /\ UNCHANGED <<pendingBranch, DQ, trace>>

FetchBranch ==
  /\ Fetching
  /\ pendingBranch' \in {0, 1}
  /\ UNCHANGED <<memory, DQ, trace>>

FetchEnd ==
  /\ phase = "fetch" /\ (slots = 0 \/ opsLeft = 0 \/ IsFullDQ)
  /\ slots' = 0
  /\ phase' = "update"
  /\ UNCHANGED <<progress, memory, frontEnd, window, backEnd, buses>>
----------------------------------------------------------------------------
(* The numbers of a finite set in increasing order, and the elements of a  *)
(* list at the positions of a set.                                         *)
InOrder(S) ==
  [j \in 1 .. Cardinality(S) |-> CHOOSE n \in S : Cardinality({m \in S : m <= n}) = j]
Sublist(list, S) == [j \in 1 .. Cardinality(S) |-> list[InOrder(S)[j]]]

Station(n) == CHOOSE rs \in SQ : rs.tag = n
DestOf(n)  == Station(n).op.dest

(* removeByMinTag: station i of the list goes before station j.  Without a *)
(* result the tag is -1; of equal tags the first in the list goes.         *)
OrderTag(n) == IF DestOf(n) = NoReg THEN -1 ELSE n
Before(i, j) ==
  \/ OrderTag(completed[i]) < OrderTag(completed[j])
  \/ OrderTag(completed[i]) = OrderTag(completed[j]) /\ i < j

Chosen == {i \in 1 .. Len(completed) :
             Cardinality({j \in 1 .. Len(completed) : Before(j, i)}) < NumCDB}
Updated == {completed[i] : i \in Chosen}

(* Mutant: a result makes its register ready although a later operation    *)
(* writes it too.                                                          *)
RegisterReadyMut(r) == rf[r].ready \/ \E n \in Updated : DestOf(n) = r
RegisterReady(r) ==
  rf[r].ready \/ \E n \in Updated : DestOf(n) = r /\ rf[r].tag = n

StateUpdate ==
  /\ phase = "update"
  /\ completed' = Sublist(completed, (1 .. Len(completed)) \ Chosen)
  /\ cdbsIssued' = {n \in Updated : DestOf(n) # NoReg}
  /\ rf' = [r \in Registers |-> [rf[r] EXCEPT !.ready = RegisterReady(r)]]
  /\ toRemove' = Updated
  /\ phase' = "execute"
  /\ UNCHANGED <<slots, progress, memory, frontEnd, SQ, tagCounter, fast, long, cdbs>>
----------------------------------------------------------------------------
(* Fast units are done in one tick, long ones are a pipeline of three.  The*)
(* list is extended at its head, by the oldest station last.               *)
Execute ==
  /\ phase = "execute"
  /\ completed' = InOrder(long[3]) \o InOrder(fast) \o completed
  /\ fast' = {}
  /\ long' = [stage \in 1 .. 3 |-> IF stage = 1 THEN {} ELSE long[stage - 1]]
  /\ phase' = "schedule"
  /\ UNCHANGED <<slots, progress, memory, frontEnd, window, buses>>
----------------------------------------------------------------------------
(* Mutant: only the first source listens to the buses.                     *)
WokenMut(rs) == IF rs.waits[1] \in cdbs THEN [rs EXCEPT !.waits[1] = 0] ELSE rs

Woken(rs) ==
  [rs EXCEPT !.waits = [s \in 1 .. 2 |-> IF rs.waits[s] \in cdbs THEN 0 ELSE rs.waits[s]]]

(* Mutant: one operand is enough.                                          *)
CanFireMut(rs) == ~rs.issued /\ \E s \in 1 .. 2 : rs.waits[s] = 0
CanFire(rs) == ~rs.issued /\ \A s \in 1 .. 2 : rs.waits[s] = 0

FreeUnits(isLong) ==
  Units(isLong) - Cardinality(IF isLong THEN long[1] ELSE fast)

(* The loop of schedule over the queue comes to station rs after those with*)
(* larger numbers and fires it when it is ready, unless the width is used  *)
(* up or no unit of its kind is free.                                      *)
MayFire(rs, fired) ==
  LET before == {other \in fired : other.tag > rs.tag}
      kind   == {other \in before : other.op.isLong = rs.op.isLong}
  IN  /\ CanFire(rs)
      /\ Cardinality(before) < ScheduleWidth
      /\ Cardinality(kind) < FreeUnits(rs.op.isLong)

Firing(fired, isLong) == {rs.tag : rs \in {x \in fired : x.op.isLong = isLong}}

Schedule ==
  /\ phase = "schedule"
  /\ LET woken == {Woken(rs) : rs \in SQ} IN
     \E fired \in SUBSET woken :
       /\ \A rs \in woken : rs \in fired <=> MayFire(rs, fired)
       /\ SQ' = {[rs EXCEPT !.issued = @ \/ rs \in fired] : rs \in woken}
       /\ fast' = fast \cup Firing(fired, FALSE)
       /\ long' = [long EXCEPT ![1] = @ \cup Firing(fired, TRUE)]
  /\ cdbs' = {}
  /\ slots' = DispatchWidth
  /\ phase' = "dispatch"
  /\ UNCHANGED <<progress, memory, frontEnd, tagCounter, rf, completed, cdbsIssued, toRemove>>
----------------------------------------------------------------------------
IsFullSQ(isLong) == InSQ(isLong) >= MaxSQ(isLong)

CanDispatch == slots > 0 /\ DQ # <<>> /\ ~IsFullSQ(Head(DQ).isLong)

Awaited(r) == IF r = NoReg \/ rf[r].ready THEN 0 ELSE rf[r].tag

(* The sources are looked up before the result is renamed.                 *)
Dispatch ==
  /\ phase = "dispatch" /\ CanDispatch
  /\ LET op  == Head(DQ)
         tag == tagCounter + 1
     IN  /\ SQ' = SQ \cup {[tag |-> tag, op |-> op, issued |-> FALSE,
                           waits |-> <<Awaited(op.src1), Awaited(op.src2)>>]}
         /\ rf' = [r \in Registers |-> IF r = op.dest THEN [ready |-> FALSE, tag |-> tag]
                                                     ELSE rf[r]]
         /\ tagCounter' = tag
  /\ DQ' = Tail(DQ)
  /\ slots' = slots - 1
  /\ UNCHANGED <<phase, progress, memory, pendingBranch, opsLeft, trace, backEnd, buses>>

(* Mutant: the buses are handed on before they were heard.                 *)
NextCDBsMut == cdbsIssued \ cdbsIssued
NextCDBs == cdbsIssued

(* shiftCDBs and removeAllFromSQ, and the end of tick.                     *)
EndTick ==
  /\ phase = "dispatch" /\ ~CanDispatch
  /\ cdbs' = NextCDBs /\ cdbsIssued' = {}
  /\ SQ' = {rs \in SQ : rs.tag \notin toRemove}
  /\ toRemove' = {}
  /\ phase' = IF progress \/ toRemove # {} \/ DQ # <<>> \/ SQ' # {}
              THEN "memory" ELSE "halted"
  /\ slots' = 0 /\ progress' = FALSE
  /\ UNCHANGED <<memory, frontEnd, tagCounter, rf, backEnd>>

Halted == phase = "halted" /\ UNCHANGED vars

Fetch == FetchALU \/ FetchMemory \/ FetchBranch \/ FetchEnd

Next ==
  \/ MemoryAdvances \/ MemoryAnswers \/ StartFetch \/ Fetch
  \/ StateUpdate \/ Execute \/ Schedule \/ Dispatch \/ EndTick \/ Halted

(* The engine calls tick in a loop, and the cache answers in the end.      *)
Spec ==
  /\ Init /\ [][Next]_vars /\ WF_vars(Next)
  /\ SF_vars(MemoryAdvances) /\ SF_vars(MemoryAnswers)
----------------------------------------------------------------------------
InFlight == {rs.tag : rs \in SQ} \ toRemove
IssuedTags == {rs.tag : rs \in {x \in SQ : x.issued}}
DoneTags == Tags \ InFlight

(* What is waited for will be broadcast: the station that a source or a    *)
(* register waits for is still to come to a CDB, or its tag is on one that *)
(* the source hears (the order of the stages in tick, and shiftCDBs).      *)
NoLostWakeup ==
  /\ \A rs \in SQ : \A s \in 1 .. 2 :
       rs.waits[s] \in InFlight \cup cdbs \cup cdbsIssued \cup {0}
  /\ \A r \in Registers : ~rf[r].ready => rf[r].tag \in InFlight

Writers == INSTANCE Dataflow WITH started <- DoneTags \cup IssuedTags, done <- DoneTags

(* A register is ready exactly when the last operation dispatched that     *)
(* writes it is done, whatever the order in which earlier writers of the   *)
(* same register are (the comparison of tags in stateUpdate, and the       *)
(* renaming in dispatch).                                                  *)
RegistersCurrent ==
  \A r \in Registers :
    rf[r].ready <=> Writers!Writer(trace, tagCounter + 1, r) \subseteq DoneTags

(* The queues, tags and buses give what a dataflow machine gives: an       *)
(* operation is executed after the last earlier writers of its sources     *)
(* have broadcast, and each is executed (schedule, stateUpdate, dispatch). *)
ImplementsDataflow == Writers!Spec

(* Every trace is executed to its end and the simulation stops then, with  *)
(* nothing in the queues and nothing asked of the cache (progress).        *)
RunsToEnd == <>(phase = "halted" /\ opsLeft = 0 /\ ~pendingMem
                  /\ DoneTags = DOMAIN trace)
=============================================================================
