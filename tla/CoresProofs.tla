---------------------------- MODULE CoresProofs -----------------------------
(* What the proofs of the bus and of the networks know of the protocols,   *)
(* the caches and the processors.                                          *)
EXTENDS Cores, TLAPS

(* The states a scheme uses. *)
MIStates == {"INVALID", "MODIFIED", "INVALID_MODIFIED"}
MSIStates == MIStates \cup {"SHARE", "INVALID_SHARED", "SHARED_MODIFIED"}
UsedStates == IF Scheme = "MI" THEN MIStates ELSE MSIStates

BasicScheme == Scheme \in {"MI", "MSI"}

(* What permReq does for a block that is not waited for: a hit changes     *)
(* nothing, and a miss broadcasts one request and enters the state that    *)
(* waits for its answer.                                                   *)
LEMMA PermTable ==
  ASSUME BasicScheme, NEW isRead \in BOOLEAN,
         NEW st \in UsedStates \ TransientStates
  PROVE  LET s == CacheStep(isRead, st)
         IN  /\ s.perm \in BOOLEAN
             /\ s.perm => s.next = st /\ s.send = "NO_REQ"
             /\ ~s.perm =>
                  /\ s.next \in UsedStates \cap TransientStates
                  /\ \/ s.send = "BUSRD" /\ s.next = "INVALID_SHARED"
                     \/ /\ s.send = "BUSWR"
                        /\ s.next \in {"INVALID_MODIFIED", "SHARED_MODIFIED"}
  BY DEF BasicScheme, UsedStates, MIStates, MSIStates, TransientStates, CacheStep,
         CacheMI, CacheMSI, CacheShared, Perm, Wait, Miss

(* What the snoop of another cache's request does: a state that waits is   *)
(* left alone, the others lose ownership, and a write leaves no copy.      *)
LEMMA SnoopTable ==
  ASSUME BasicScheme, NEW brt \in {"BUSRD", "BUSWR"}, NEW st \in UsedStates
  PROVE  LET s == SnoopStep(brt, st)
         IN  /\ s.next \in UsedStates
             /\ s.ca # "DATA_RECV"
             /\ s.send \in {"ACK", "DATA"}
             /\ s.send = "DATA" <=> st = "MODIFIED"
             /\ st \in TransientStates => s.next = st
             /\ st \notin TransientStates => s.next \in {"INVALID", "SHARE"}
             /\ s.next = "SHARE" => brt = "BUSRD" /\ st \in {"SHARE", "MODIFIED"}
  BY DEF BasicScheme, UsedStates, MIStates, MSIStates, TransientStates, SnoopStep,
         SnoopMI, SnoopMSI, SnoopWritePending, Ack, AckRecv, AckInval, AckFor,
         Snooped, Unsupported

(* What the answer does at the cache that waits for it.                    *)
LEMMA AnswerTable ==
  ASSUME BasicScheme, NEW st \in UsedStates \cap TransientStates
  PROVE  LET s == SnoopStep("DATA", st)
         IN  /\ s.ca = "DATA_RECV"
             /\ s.send = "NO_REQ"
             /\ s.next = IF st = "INVALID_SHARED" THEN "SHARE" ELSE "MODIFIED"
             /\ s.next \in UsedStates
  BY DEF BasicScheme, UsedStates, MIStates, MSIStates, TransientStates, SnoopStep,
         SnoopMI, SnoopMSI, SnoopWritePending, Ack, AckRecv, AckInval, AckFor,
         Snooped, Unsupported
----------------------------------------------------------------------------
(* Type correctness, under every scheme.                                   *)

PermResults == [perm : BOOLEAN, send : BusReqTypes, next : CoherenceStates]

LEMMA PermType ==
  ASSUME NEW isRead \in BOOLEAN, NEW st \in CoherenceStates
  PROVE  CacheStep(isRead, st) \in PermResults
<1>1. ASSUME NEW s \in CoherenceStates
      PROVE  /\ Perm(s) \in PermResults
             /\ Wait(s) \in PermResults
             /\ Miss("BUSRD", s) \in PermResults
             /\ Miss("BUSWR", s) \in PermResults
  BY DEF PermResults, Perm, Wait, Miss, BusReqTypes
<1>2. /\ "INVALID" \in CoherenceStates /\ "INVALID_MODIFIED" \in CoherenceStates
      /\ "SHARED_MODIFIED" \in CoherenceStates
      /\ "INVALID_SHARED" \in CoherenceStates
      /\ "INVALID_SHARED_EXCLUSIVE" \in CoherenceStates
      /\ "EXCLUSIVE" \in CoherenceStates /\ "MODIFIED" \in CoherenceStates
  BY DEF CoherenceStates
<1>3. CacheMI(isRead, st) \in PermResults
  BY <1>1, <1>2 DEF CacheMI
<1>4. ASSUME NEW readMiss \in CoherenceStates
      PROVE  CacheShared(isRead, st, readMiss) \in PermResults
  BY <1>1, <1>2 DEF CacheShared
<1>5. CacheMSI(isRead, st) \in PermResults /\ CacheMESI(isRead, st) \in PermResults
  BY <1>1, <1>2, <1>4 DEF CacheMSI, CacheMESI
<1>6. CacheMOESI(isRead, st) \in PermResults /\ CacheMESIF(isRead, st) \in PermResults
  BY <1>1, <1>2, <1>5 DEF CacheMOESI, CacheMESIF
<1> QED
  BY <1>3, <1>5, <1>6, SchemeAssumption DEF Schemes, CacheStep

LEMMA SnoopType ==
  ASSUME NEW brt, NEW st \in CoherenceStates
  PROVE  SnoopStep(brt, st).next \in CoherenceStates
  BY SchemeAssumption
  DEF Schemes, CoherenceStates, SnoopStep, SnoopMI, SnoopMSI, SnoopMESI,
      SnoopMOESI, SnoopMESIF, SnoopOwner, SnoopWritePending, Ack, AckRecv,
      AckInval, AckFor, Snooped, Unsupported

(* The core part of a snoop keeps its types, whatever the message is.      *)
LEMMA SnoopKeepsType ==
  ASSUME CoresTypeOK, NEW brt, NEW a \in Addrs, NEW targets \in SUBSET Procs,
         Snoop(brt, a, targets), phase' \in Phases, phase' # "processor",
         turn' \in Nat, progress' \in BOOLEAN
  PROVE  CoresTypeOK'
<1>1. \A p \in Procs : SnoopOf(brt, a, p).next \in CoherenceStates
  BY SnoopType DEF SnoopOf, CoresTypeOK
<1>2. coherStates' \in [Procs -> [Addrs -> CoherenceStates]]
  BY <1>1 DEF Snoop, CoresTypeOK
<1>3. pendReq' \subseteq Requests /\ readyReq' \subseteq Requests
  BY DEF Snoop, Answered, CoresTypeOK
<1> QED
  BY <1>2, <1>3 DEF Snoop, CoresTypeOK

LEMMA NextProcessorType ==
  ASSUME CoresTypeOK, NEW moved \in BOOLEAN, phase = "processor",
         NextProcessor(moved)
  PROVE  /\ phase' \in Phases /\ turn' \in Nat
         /\ progress' \in BOOLEAN
         /\ phase' = "processor" => turn' \in Procs
<1>1. turn \in Procs /\ turn \in Nat /\ 0 \in Procs /\ 0 \in Nat
  BY ProcessorAssumption DEF CoresTypeOK, Procs
<1>2. turn < ProcessorCount - 1 => turn + 1 \in Procs /\ turn + 1 \in Nat
  BY <1>1, ProcessorAssumption DEF Procs
<1>3. progress' \in BOOLEAN
  BY DEF CoresTypeOK, NextProcessor
<1> QED
  BY <1>1, <1>2, <1>3 DEF NextProcessor, Phases

(* The core part of a fetch keeps its types.                              *)
LEMMA FetchMemoryType ==
  ASSUME CoresTypeOK, NEW isRead \in BOOLEAN, NEW a \in Addrs,
         FetchMemory(isRead, a)
  PROVE  CoresTypeOK'
<1>1. phase = "processor" /\ turn \in Procs
  BY DEF FetchMemory, CanFetch, CoresTypeOK
<1>2. PermOf(isRead, a) \in PermResults
  BY <1>1, PermType DEF PermOf, CoresTypeOK
<1>3. coherStates' \in [Procs -> [Addrs -> CoherenceStates]]
  BY <1>1, <1>2 DEF FetchMemory, PermResults, CoresTypeOK
<1>4. [proc |-> turn, addr |-> a, tag |-> memOpTag[turn]] \in Requests
  BY <1>1 DEF Requests, CoresTypeOK
<1>5. pendReq' \subseteq Requests /\ readyReq' \subseteq Requests
  BY <1>4 DEF FetchMemory, CoresTypeOK
<1>6. opsLeft' \in [Procs -> 0 .. MaxOps]
  BY <1>1, MaxOpsAssumption DEF FetchMemory, CoresTypeOK
<1>7. pendingMem' \in [Procs -> BOOLEAN]
  BY <1>1 DEF FetchMemory, CoresTypeOK
<1> QED
  BY <1>1, <1>3, <1>5, <1>6, <1>7, NextProcessorType DEF FetchMemory, CoresTypeOK

(* The steps of the cores alone.                                           *)
CoresAlone == CacheTick \/ Blocked \/ TraceEnd \/ FetchOther \/ Stopped

LEMMA CoresAloneType ==
  ASSUME CoresTypeOK, CoresAlone
  PROVE  CoresTypeOK'
<1>1. CASE CacheTick
  <2>1. pendingMem' \in [Procs -> BOOLEAN]
    BY <1>1 DEF CacheTick, CoresTypeOK
  <2>2. memOpTag' \in [Procs -> Nat]
    BY <1>1 DEF CacheTick, CoresTypeOK
  <2>3. 0 \in Procs /\ 0 \in Nat
    BY ProcessorAssumption DEF Procs
  <2> QED
    BY <1>1, <2>1, <2>2, <2>3 DEF CacheTick, CoresTypeOK, Phases
<1>2. CASE Blocked
  <2>1. turn \in Procs
    BY <1>2 DEF Blocked, CoresTypeOK
  <2>2. pendingBranch' \in [Procs -> 0 .. 1]
    <3>1. CASE pendingMem[turn]
      BY <1>2, <3>1 DEF Blocked, CoresTypeOK
    <3>2. CASE pendingBranch[turn] > 0
      BY <1>2, <2>1, <3>2 DEF Blocked, CoresTypeOK
    <3> QED
      BY <1>2, <3>1, <3>2 DEF Blocked
  <2> QED
    BY <1>2, <2>2, NextProcessorType DEF Blocked, CoresTypeOK
<1>3. CASE TraceEnd
  BY <1>3, NextProcessorType DEF TraceEnd, CanFetch, CoresTypeOK, coreVars
<1>4. CASE FetchOther
  <2>1. turn \in Procs
    BY <1>4 DEF FetchOther, CanFetch, CoresTypeOK
  <2>2. opsLeft' \in [Procs -> 0 .. MaxOps]
    BY <1>4, <2>1, MaxOpsAssumption DEF FetchOther, CoresTypeOK
  <2>3. pendingBranch' \in [Procs -> 0 .. 1]
    BY <1>4, <2>1 DEF FetchOther, CoresTypeOK
  <2> QED
    BY <1>4, <2>2, <2>3, NextProcessorType
    DEF FetchOther, CanFetch, CoresTypeOK
<1>5. CASE Stopped
  BY <1>5 DEF Stopped, CoresTypeOK, coreVars, controlVars
<1> QED
  BY <1>1, <1>2, <1>3, <1>4, <1>5 DEF CoresAlone
----------------------------------------------------------------------------
(* The safety of the cores under MI and MSI: only the states of the scheme *)
(* are set, and what is requested, awaited and pending agrees.             *)

StatesUsed ==
  \A p \in Procs, a \in Addrs : coherStates[p][a] \in UsedStates

CoresOK == CoresTypeOK /\ StatesUsed /\ RequestsMatch

(* A broadcast that is snooped changes no state that waits.                *)
LEMMA SnoopKeepsCores ==
  ASSUME BasicScheme, CoresOK, NEW brt \in {"BUSRD", "BUSWR"}, NEW a \in Addrs,
         NEW targets \in SUBSET Procs, Snoop(brt, a, targets)
  PROVE  /\ StatesUsed' /\ RequestsMatch'
         /\ \A p \in Procs, b \in Addrs : Transient(p, b)' <=> Transient(p, b)
<1>1. ASSUME NEW p \in Procs, NEW b \in Addrs
      PROVE  coherStates'[p][b] = IF p \in targets /\ b = a
                                  THEN SnoopOf(brt, a, p).next
                                  ELSE coherStates[p][b]
  BY DEF Snoop, CoresOK, CoresTypeOK
<1>2. \A p \in Procs :
        LET st == coherStates[p][a]
            s  == SnoopOf(brt, a, p)
        IN  /\ s.next \in UsedStates /\ s.ca # "DATA_RECV"
            /\ st \in TransientStates => s.next = st
            /\ st \notin TransientStates => s.next \in {"INVALID", "SHARE"}
  BY SnoopTable DEF SnoopOf, CoresOK, StatesUsed
<1>3. StatesUsed'
  BY <1>1, <1>2 DEF CoresOK, StatesUsed
<1>4. ASSUME NEW p \in Procs, NEW b \in Addrs
      PROVE  Transient(p, b)' <=> Transient(p, b)
  BY <1>1, <1>2 DEF Transient, TransientStates
<1>5. pendReq' = pendReq /\ readyReq' = readyReq /\ UNCHANGED <<pendingMem, memOpTag>>
  BY <1>2 DEF Snoop, Answered, Received
<1>6. RequestsMatch'
  BY <1>4, <1>5 DEF CoresOK, RequestsMatch
<1> QED
  BY <1>3, <1>4, <1>6

(* The answer comes to a cache that waits for it.                          *)
LEMMA AnswerKeepsCores ==
  ASSUME BasicScheme, CoresOK, NEW a \in Addrs, NEW p0 \in Procs, Transient(p0, a)
  PROVE  /\ SnoopAsserts("DATA", a, {p0}) /\ SnoopOf("DATA", a, p0).send = "NO_REQ"
         /\ Snoop("DATA", a, {p0}) =>
              /\ StatesUsed' /\ RequestsMatch'
              /\ \A p \in Procs, b \in Addrs :
                   Transient(p, b)' <=> Transient(p, b) /\ ~(p = p0 /\ b = a)
<1> DEFINE st == coherStates[p0][a]
<1>1. st \in UsedStates \cap TransientStates
  BY DEF CoresOK, StatesUsed, Transient
<1>2. /\ SnoopOf("DATA", a, p0).ca = "DATA_RECV"
      /\ SnoopOf("DATA", a, p0).send = "NO_REQ"
      /\ SnoopOf("DATA", a, p0).next =
           IF st = "INVALID_SHARED" THEN "SHARE" ELSE "MODIFIED"
      /\ SnoopOf("DATA", a, p0).next \in UsedStates
  BY <1>1, AnswerTable DEF SnoopOf
<1>3. \E r \in pendReq : r.addr = a /\ r.proc = p0
  BY DEF CoresOK, RequestsMatch
<1>4. SnoopAsserts("DATA", a, {p0})
  BY <1>3 DEF SnoopAsserts, Received
<1>5. ASSUME Snoop("DATA", a, {p0})
      PROVE  /\ StatesUsed' /\ RequestsMatch'
             /\ \A p \in Procs, b \in Addrs :
                  Transient(p, b)' <=> Transient(p, b) /\ ~(p = p0 /\ b = a)
  <2>1. /\ pendReq' = pendReq \ {r \in pendReq : r.addr = a /\ r.proc = p0}
        /\ readyReq' = readyReq \cup {r \in pendReq : r.addr = a /\ r.proc = p0}
        /\ UNCHANGED <<pendingMem, memOpTag>>
    BY <1>2, <1>5 DEF Snoop, Answered, Received
  <2>2. ASSUME NEW p \in Procs, NEW b \in Addrs
        PROVE  coherStates'[p][b] = IF p = p0 /\ b = a
                                    THEN SnoopOf("DATA", a, p0).next
                                    ELSE coherStates[p][b]
    BY <1>5 DEF Snoop, CoresOK, CoresTypeOK
  <2>3. StatesUsed'
    BY <1>2, <2>2 DEF CoresOK, StatesUsed
  <2>4. ASSUME NEW p \in Procs, NEW b \in Addrs
        PROVE  Transient(p, b)' <=> Transient(p, b) /\ ~(p = p0 /\ b = a)
    BY <1>2, <2>2 DEF Transient, TransientStates
  <2>5. RequestsMatch'
    <3>1. pendReq' \cup readyReq' = pendReq \cup readyReq
      BY <2>1
    <3>2. pendReq' \cap readyReq' = {}
      BY <2>1 DEF CoresOK, RequestsMatch
    <3>3. ASSUME NEW p \in Procs, NEW b \in Addrs
          PROVE  Transient(p, b)' <=> \E r \in pendReq' : r.proc = p /\ r.addr = b
      BY <2>1, <2>4 DEF CoresOK, RequestsMatch
    <3> QED
      BY <2>1, <3>1, <3>2, <3>3 DEF CoresOK, RequestsMatch
  <2> QED
    BY <2>3, <2>4, <2>5
<1> QED
  BY <1>2, <1>4, <1>5

(* A memory operation is fetched by a processor that waits for nothing.    *)
LEMMA FetchKeepsCores ==
  ASSUME BasicScheme, CoresOK, NEW isRead \in BOOLEAN, NEW a \in Addrs,
         FetchMemory(isRead, a)
  PROVE  /\ turn \in Procs /\ \A b \in Addrs : ~Transient(turn, b)
         /\ StatesUsed' /\ RequestsMatch'
         /\ \/ /\ PermOf(isRead, a).send = "NO_REQ"
               /\ \A p \in Procs, b \in Addrs : Transient(p, b)' <=> Transient(p, b)
            \/ /\ PermOf(isRead, a).send \in {"BUSRD", "BUSWR"}
               /\ \A p \in Procs, b \in Addrs :
                    Transient(p, b)' <=> Transient(p, b) \/ (p = turn /\ b = a)
<1> DEFINE s == PermOf(isRead, a)
           new == [proc |-> turn, addr |-> a, tag |-> memOpTag[turn]]
<1>1. turn \in Procs /\ ~pendingMem[turn]
  BY DEF FetchMemory, CanFetch, CoresOK, CoresTypeOK
<1>2. \A r \in pendReq \cup readyReq : r.proc # turn
  BY <1>1 DEF CoresOK, RequestsMatch
<1>3. \A b \in Addrs : ~Transient(turn, b)
  BY <1>1, <1>2 DEF CoresOK, RequestsMatch
<1>4. coherStates[turn][a] \in UsedStates \ TransientStates
  BY <1>1, <1>3 DEF CoresOK, StatesUsed, Transient
<1>5. /\ s.perm \in BOOLEAN
      /\ s.perm => s.next = coherStates[turn][a] /\ s.send = "NO_REQ"
      /\ ~s.perm => /\ s.next \in UsedStates \cap TransientStates
                    /\ s.send \in {"BUSRD", "BUSWR"}
  BY <1>4, PermTable DEF PermOf
<1>6. ASSUME NEW p \in Procs, NEW b \in Addrs
      PROVE  coherStates'[p][b] = IF p = turn /\ b = a THEN s.next ELSE coherStates[p][b]
  BY <1>1 DEF FetchMemory, CoresOK, CoresTypeOK
<1>7. /\ pendingMem'[turn] /\ memOpTag' = memOpTag
      /\ \A p \in Procs : p # turn => pendingMem'[p] = pendingMem[p]
  BY <1>1 DEF FetchMemory, CoresOK, CoresTypeOK
<1>8. new.proc = turn /\ new.addr = a /\ new.tag = memOpTag[turn]
  OBVIOUS
<1>9. /\ s.perm => pendReq' = pendReq /\ readyReq' = readyReq \cup {new}
      /\ ~s.perm => pendReq' = pendReq \cup {new} /\ readyReq' = readyReq
  BY DEF FetchMemory
<1> HIDE DEF s, new
<1>10. pendReq' \cup readyReq' = (pendReq \cup readyReq) \cup {new}
  BY <1>5, <1>9
<1>11. ASSUME NEW r \in pendReq \cup readyReq
       PROVE  r.proc \in Procs /\ r.proc # turn
  BY <1>2, <1>11 DEF CoresOK, CoresTypeOK, Requests
<1>12. StatesUsed'
  BY <1>4, <1>5, <1>6 DEF CoresOK, StatesUsed
<1>13. ASSUME NEW p \in Procs, NEW b \in Addrs
       PROVE  Transient(p, b)' <=> Transient(p, b) \/ (~s.perm /\ p = turn /\ b = a)
  BY <1>4, <1>5, <1>6 DEF Transient
<1>14. RequestsMatch'
  <2>1. \A r \in pendReq' \cup readyReq' :
           pendingMem'[r.proc] /\ r.tag = memOpTag'[r.proc]
    BY <1>7, <1>8, <1>10, <1>11 DEF CoresOK, RequestsMatch
  <2>2. \A r, t \in pendReq' \cup readyReq' : r.proc = t.proc => r = t
    BY <1>8, <1>10, <1>11 DEF CoresOK, RequestsMatch
  <2>3. pendReq' \cap readyReq' = {}
    BY <1>2, <1>5, <1>8, <1>9 DEF CoresOK, RequestsMatch
  <2>4. \A p \in Procs : pendingMem'[p] =>
           \E r \in pendReq' \cup readyReq' : r.proc = p
    BY <1>7, <1>8, <1>10 DEF CoresOK, RequestsMatch
  <2>5. ASSUME NEW p \in Procs, NEW b \in Addrs
        PROVE  Transient(p, b)' <=> \E r \in pendReq' : r.proc = p /\ r.addr = b
    <3>1. Transient(p, b) <=> \E r \in pendReq : r.proc = p /\ r.addr = b
      BY DEF CoresOK, RequestsMatch
    <3>2. pendReq' = IF s.perm THEN pendReq ELSE pendReq \cup {new}
      BY <1>5, <1>9
    <3> QED
      BY <1>5, <1>8, <1>13, <3>1, <3>2
  <2> QED
    BY <2>1, <2>2, <2>3, <2>4, <2>5 DEF RequestsMatch
<1> QED
  BY <1>1, <1>3, <1>5, <1>12, <1>13, <1>14 DEF s

(* What the cache calls back was answered, so nothing that waits changes.  *)
LEMMA CoresAloneKeepsCores ==
  ASSUME CoresOK, CoresAlone
  PROVE  StatesUsed' /\ RequestsMatch' /\ UNCHANGED coherStates
<1>1. UNCHANGED <<coherStates, pendReq>>
  BY DEF CoresAlone, CacheTick, Blocked, TraceEnd, FetchOther, Stopped, coreVars
<1>2. StatesUsed'
  BY <1>1 DEF CoresOK, StatesUsed
<1>3. CASE CacheTick
  <2>1. \A r \in pendReq \cup readyReq : r.proc \in Procs /\ r \in Requests
    BY DEF CoresOK, CoresTypeOK, Requests
  <2>2. \A r \in pendReq : ~Completed(r.proc)
    BY DEF Completed, CoresOK, RequestsMatch
  <2>3. /\ readyReq' = {}
        /\ \A p \in Procs :
             /\ pendingMem'[p] <=> pendingMem[p] /\ ~Completed(p)
             /\ ~Completed(p) => memOpTag'[p] = memOpTag[p]
    BY <1>3 DEF CacheTick
  <2>4. \A r \in pendReq : pendingMem'[r.proc] /\ r.tag = memOpTag'[r.proc]
    BY <2>1, <2>2, <2>3 DEF CoresOK, RequestsMatch
  <2>5. ASSUME NEW p \in Procs, pendingMem'[p]
        PROVE  \E r \in pendReq : r.proc = p
    <3>1. pendingMem[p] /\ ~Completed(p)
      BY <2>3, <2>5
    <3>2. PICK r \in pendReq \cup readyReq : r.proc = p
      BY <3>1 DEF CoresOK, RequestsMatch
    <3>3. r \notin readyReq
      BY <3>1, <3>2 DEF Completed, CoresOK, RequestsMatch
    <3> QED
      BY <3>2, <3>3
  <2>6. RequestsMatch'
    BY <1>1, <2>3, <2>4, <2>5 DEF CoresOK, RequestsMatch, Transient
  <2> QED
    BY <1>1, <1>2, <2>6
<1>4. CASE Blocked \/ TraceEnd \/ FetchOther \/ Stopped
  <2>1. UNCHANGED <<readyReq, pendingMem, memOpTag>>
    BY <1>4 DEF Blocked, TraceEnd, FetchOther, Stopped, coreVars
  <2> QED
    BY <1>1, <1>2, <2>1 DEF CoresOK, RequestsMatch, Transient
<1> QED
  BY <1>3, <1>4 DEF CoresAlone

LEMMA CoresInitOK ==
  ASSUME CoresInit
  PROVE  /\ StatesUsed /\ RequestsMatch
         /\ \A p \in Procs, a \in Addrs : ~Transient(p, a)
<1>1. \A p \in Procs, a \in Addrs : coherStates[p][a] = "INVALID"
  BY DEF CoresInit
<1>2. StatesUsed
  BY <1>1 DEF StatesUsed, UsedStates, MIStates, MSIStates
<1>3. \A p \in Procs, a \in Addrs : ~Transient(p, a)
  BY <1>1 DEF Transient, TransientStates
<1> QED
  BY <1>2, <1>3 DEF CoresInit, RequestsMatch
=============================================================================
