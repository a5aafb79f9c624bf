------------------------------ MODULE StateMap ------------------------------
(***************************************************************************)
(* What the users of stree.h rely on: a map from keys to records that      *)
(* answers one call at a time.  A call takes effect, and is answered, in   *)
(* one step.  STree is shown to implement it.                              *)
(***************************************************************************)
EXTENDS Integers

CONSTANTS Keys, Records, NULL

VARIABLES
  map,        \* per key, the record filed under it or NULL
  call,       \* the last call
  pending,    \* it has not been answered
  answer      \* the record it was answered with, or NULL

mapVars == <<map, call, pending, answer>>

Calls ==
  [op : {"find", "nearest", "remove"}, key : Keys, record : {NULL}]
    \cup [op : {"insert"}, key : Keys, record : Records]

Init ==
  /\ map = [k \in Keys |-> NULL]
  /\ call = NULL /\ pending = FALSE /\ answer = NULL

Ask(c) ==
  /\ ~pending /\ pending' = TRUE
  /\ call' = c /\ answer' = NULL
  /\ UNCHANGED map

Answer(op, a) ==
  /\ pending /\ pending' = FALSE
  /\ call.op = op /\ answer' = a
  /\ UNCHANGED call

Insert == Answer("insert", NULL) /\ map' = [map EXCEPT ![call.key] = call.record]
Remove == Answer("remove", map[call.key]) /\ map' = [map EXCEPT ![call.key] = NULL]
Find   == Answer("find", map[call.key]) /\ UNCHANGED map

(* stree.h: "Find element with largest key <= given key".                  *)
Nearest(m, k) ==
  LET below == {n \in Keys : n <= k /\ m[n] # NULL}
  IN  IF below = {} THEN NULL ELSE m[CHOOSE n \in below : \A o \in below : o <= n]

FindNearest == Answer("nearest", Nearest(map, call.key)) /\ UNCHANGED map

Answered == Insert \/ Remove \/ Find \/ FindNearest

Next == (\E c \in Calls : Ask(c)) \/ Answered

Safety == Init /\ [][Next]_mapVars

(* Every call is answered.                                                 *)
Spec == Safety /\ WF_mapVars(Answered)
=============================================================================
