----------------------------- MODULE Coherence -----------------------------
(***************************************************************************)
(* The coherence protocols of coherence/protocol.c as pure tables.  For    *)
(* each scheme, Cache*(isRead, st) is what a permission request of the     *)
(* processor's own cache does in state st, and Snoop*(reqType, st) is what *)
(* a message seen on the interconnect does.  The two switch tables do not  *)
(* look at the address or at the processor, so neither do these.           *)
(***************************************************************************)

CONSTANT Scheme          \* the scheme chosen with -s (coherence.c: cs)

Schemes == {"MI", "MSI", "MESI", "MOESI", "MESIF"}

ASSUME SchemeAssumption == Scheme \in Schemes

CoherenceStates ==
  {"INVALID", "MODIFIED", "SHARE", "EXCLUSIVE", "OWNED", "FORWARD",
   "INVALID_SHARED", "INVALID_SHARED_EXCLUSIVE", "INVALID_MODIFIED",
   "SHARED_MODIFIED"}

(* States in which a request of this cache is under way. *)
TransientStates ==
  {"INVALID_SHARED", "INVALID_SHARED_EXCLUSIVE", "INVALID_MODIFIED",
   "SHARED_MODIFIED"}

(* bus_req_type; "NO_REQ" stands for "nothing is sent". *)
BusReqTypes ==
  {"NO_REQ", "BUSRD", "BUSWR", "DATA", "SHARED", "MEMORY", "ACK",
   "SHARED_DATA"}

CacheActions == {"NO_ACTION", "DATA_RECV", "INVALIDATE"}
----------------------------------------------------------------------------
(* What a permission request returns: permAvail, the message broadcast and *)
(* the next state.                                                         *)
Perm(st)       == [perm |-> TRUE,  send |-> "NO_REQ", next |-> st]
Wait(st)       == [perm |-> FALSE, send |-> "NO_REQ", next |-> st]
Miss(brt, st)  == [perm |-> FALSE, send |-> brt, next |-> st]

CacheMI(isRead, st) ==
  CASE st = "INVALID"          -> Miss("BUSWR", "INVALID_MODIFIED")
    [] st = "MODIFIED"         -> Perm(st)
    [] st = "INVALID_MODIFIED" -> Wait(st)
    [] OTHER                   -> Wait("INVALID")

(* The part common to the four schemes that have a SHARE state; a read     *)
(* miss waits in readMiss.                                                 *)
CacheShared(isRead, st, readMiss) ==
  CASE st = "INVALID" ->
         IF isRead THEN Miss("BUSRD", readMiss)
                   ELSE Miss("BUSWR", "INVALID_MODIFIED")
    [] st = "SHARE" ->
         IF isRead THEN Perm(st) ELSE Miss("BUSWR", "SHARED_MODIFIED")
    [] st = "MODIFIED" -> Perm(st)
    [] st = "SHARED_MODIFIED" -> IF isRead THEN Perm(st) ELSE Wait(st)
    [] st = "INVALID_MODIFIED" -> Wait(st)
    [] st = readMiss ->
         IF isRead THEN Wait(st) ELSE Miss("BUSWR", "INVALID_MODIFIED")
    [] OTHER -> Wait("INVALID")

CacheMSI(isRead, st) == CacheShared(isRead, st, "INVALID_SHARED")

CacheMESI(isRead, st) ==
  IF st = "EXCLUSIVE"
  THEN Perm(IF isRead THEN "EXCLUSIVE" ELSE "MODIFIED")
  ELSE CacheShared(isRead, st, "INVALID_SHARED_EXCLUSIVE")

CacheMOESI(isRead, st) ==
  IF st = "OWNED"
  THEN IF isRead THEN Perm(st) ELSE Miss("BUSWR", "SHARED_MODIFIED")
  ELSE CacheMESI(isRead, st)

CacheMESIF(isRead, st) ==
  IF st = "FORWARD"
  THEN IF isRead THEN Perm(st) ELSE Miss("BUSWR", "SHARED_MODIFIED")
  ELSE CacheMESI(isRead, st)

(* The switch of permReq in coherence.c. *)
CacheStep(isRead, st) ==
  CASE Scheme = "MI"    -> CacheMI(isRead, st)
    [] Scheme = "MSI"   -> CacheMSI(isRead, st)
    [] Scheme = "MESI"  -> CacheMESI(isRead, st)
    [] Scheme = "MOESI" -> CacheMOESI(isRead, st)
    [] Scheme = "MESIF" -> CacheMESIF(isRead, st)
----------------------------------------------------------------------------
(* What a snoop returns: the message sent back to the source, the cache    *)
(* action passed to the cache's callback, and the next state.              *)
Snooped(send, ca, st) == [send |-> send, ca |-> ca, next |-> st]

(* ack() answers BUSRD and BUSWR only. *)
AckFor(reqType) == IF reqType \in {"BUSRD", "BUSWR"} THEN "ACK" ELSE "NO_REQ"

Ack(reqType, st)     == Snooped(AckFor(reqType), "NO_ACTION", st)
AckRecv(reqType, st) == Snooped(AckFor(reqType), "DATA_RECV", st)
(* Mutant: the invalidation leaves the copy in place.                      *)
AckInvalMut(reqType) == Snooped(AckFor(reqType), "INVALIDATE", "SHARE")
AckInval(reqType)    == Snooped(AckFor(reqType), "INVALIDATE", "INVALID")

(* A state the scheme does not have: printed, and the line is dropped.      *)
(* (snoopMI leaves the program there; MI never sets such a state.)         *)
Unsupported == Snooped("NO_REQ", "NO_ACTION", "INVALID")

(* MI: a MODIFIED line is given up and sent whatever the message is.       *)
SnoopMI(reqType, st) ==
  CASE st = "INVALID"  -> Ack(reqType, st)
    [] st = "MODIFIED" -> Snooped("DATA", "INVALIDATE", "INVALID")
    [] st = "INVALID_MODIFIED" ->
         IF reqType \in {"DATA", "SHARED"} THEN AckRecv(reqType, "MODIFIED")
                                           ELSE Ack(reqType, st)
    [] OTHER -> Unsupported

(* The two write-pending states take DATA as ownership in every scheme     *)
(* with a SHARE state.                                                     *)
SnoopWritePending(reqType, st) ==
  IF reqType = "DATA" THEN AckRecv(reqType, "MODIFIED") ELSE Ack(reqType, st)

SnoopMSI(reqType, st) ==
  CASE st = "INVALID"  -> Ack(reqType, st)
    [] st = "MODIFIED" ->
         CASE reqType = "BUSRD" -> Snooped("DATA", "NO_ACTION", "SHARE")
           [] reqType = "BUSWR" -> Snooped("DATA", "INVALIDATE", "INVALID")
           [] OTHER             -> Snooped("DATA", "NO_ACTION", "MODIFIED")
    [] st = "SHARE" ->
         IF reqType = "BUSWR" THEN AckInval(reqType) ELSE Ack(reqType, st)
    [] st \in {"SHARED_MODIFIED", "INVALID_MODIFIED"} ->
         SnoopWritePending(reqType, st)
    [] st = "INVALID_SHARED" ->
         IF reqType = "DATA" THEN AckRecv(reqType, "SHARE") ELSE Ack(reqType, st)
    [] OTHER -> Unsupported

(* A cache that holds the only up-to-date copy: it answers a read with     *)
(* SHARED_DATA and keeps afterRead, and a write with DATA.                 *)
SnoopOwner(reqType, st, afterRead) ==
  CASE reqType = "BUSRD" -> Snooped("SHARED_DATA", "NO_ACTION", afterRead)
    [] reqType = "BUSWR" -> Snooped("DATA", "INVALIDATE", "INVALID")
    [] OTHER             -> Ack(reqType, st)

SnoopMESI(reqType, st) ==
  CASE st = "INVALID"   -> Ack(reqType, st)
    [] st = "MODIFIED"  -> SnoopOwner(reqType, st, "SHARE")
    [] st = "EXCLUSIVE" ->
         CASE reqType = "BUSRD"  -> Snooped("SHARED", "NO_ACTION", "SHARE")
           [] reqType = "SHARED" -> Ack(reqType, "SHARE")
           [] reqType = "BUSWR"  -> AckInval(reqType)
           [] OTHER              -> Ack(reqType, st)
    [] st = "SHARE" ->
         CASE reqType = "BUSWR" -> AckInval(reqType)
           [] reqType = "BUSRD" -> Snooped("SHARED", "NO_ACTION", "SHARE")
           [] OTHER             -> Ack(reqType, st)
    [] st \in {"SHARED_MODIFIED", "INVALID_MODIFIED"} ->
         SnoopWritePending(reqType, st)
    [] st = "INVALID_SHARED_EXCLUSIVE" ->
         CASE reqType = "DATA"   -> AckRecv(reqType, "EXCLUSIVE")
           [] reqType = "SHARED" -> AckRecv(reqType, "SHARE")
           [] OTHER              -> Ack(reqType, st)
    [] OTHER -> Unsupported

SnoopMOESI(reqType, st) ==
  IF st \in {"MODIFIED", "OWNED"} THEN SnoopOwner(reqType, st, "OWNED")
                                  ELSE SnoopMESI(reqType, st)

(* MESIF: the FORWARD copy answers a read; a plain SHARE copy only acks.   *)
SnoopMESIF(reqType, st) ==
  CASE st = "FORWARD" -> SnoopOwner(reqType, st, "SHARE")
    [] st = "SHARE" ->
         IF reqType = "BUSWR" THEN AckInval(reqType) ELSE Ack(reqType, st)
    [] st = "INVALID_SHARED_EXCLUSIVE" /\ reqType = "SHARED" ->
         AckRecv(reqType, "FORWARD")
    [] OTHER -> SnoopMESI(reqType, st)

(* The switch of busReq in coherence.c. *)
SnoopStep(reqType, st) ==
  CASE Scheme = "MI"    -> SnoopMI(reqType, st)
    [] Scheme = "MSI"   -> SnoopMSI(reqType, st)
    [] Scheme = "MESI"  -> SnoopMESI(reqType, st)
    [] Scheme = "MOESI" -> SnoopMOESI(reqType, st)
    [] Scheme = "MESIF" -> SnoopMESIF(reqType, st)
=============================================================================
