------------------------------ MODULE Routing -------------------------------
(***************************************************************************)
(* One message on its way through a network that is otherwise idle, hop by *)
(* hop: req() puts it on the link findLink() names, and forwardIfNeeded()  *)
(* passes it on.  The copies of a broadcast are followed through           *)
(* `reached', the nodes that have had one, and `moving', the hops that are *)
(* still to be made.                                                       *)
(***************************************************************************)
EXTENDS Links, FiniteSets

VARIABLES pSrc,       \* the node that sends it
          pDest,      \* the node it is for, or -1 for a broadcast
          moving,     \* hops <<from, to>> under way
          reached,    \* nodes that have processed the message (last_msgs)
          hops        \* hops made by a message to one node

routeVars == <<pSrc, pDest, moving, reached, hops>>

RouteTypeOK ==
  /\ pSrc \in Nodes
  /\ pDest \in Nodes \cup {-1}
  /\ moving \subseteq Nodes \X Nodes
  /\ reached \subseteq Nodes
  /\ hops \in Nat

(* Everything a node may send: a broadcast comes from a processor.         *)
RouteInit ==
  /\ pSrc \in Nodes
  /\ pDest \in (Nodes \ {pSrc}) \cup {-1}
  /\ pDest = -1 => pSrc \in Procs
  /\ moving = {<<pSrc, Other(l, pSrc)>> :
                 l \in IF pDest = -1 THEN BroadcastLinks(pSrc)
                                    ELSE {FindLink(pSrc, pDest)}}
  /\ reached = {}
  /\ hops = 1

(* Mutant: without last_msgs.                                              *)
FirstCopyMut(n) == TRUE

(* A message is sent on the first time it comes to a node; on the line     *)
(* there is only one way to come.                                          *)
FirstCopy(n) == n \notin reached /\ n # pSrc

Hop ==
  \E h \in moving :
    LET n == h[2]
        on == ForwardLinks(n, h[1], pDest = -1, pDest, pDest = Memory)
    IN  /\ reached' = reached \cup IF on = {} \/ pDest = -1 THEN {n} ELSE {}
        /\ IF pDest = -1 /\ ~FirstCopy(n)
           THEN moving' = moving \ {h} /\ hops' = hops
           ELSE /\ moving' = (moving \ {h}) \cup {<<n, Other(l, n)>> : l \in on}
                /\ hops' = IF pDest = -1 \/ on = {} THEN hops ELSE hops + 1
        /\ UNCHANGED <<pSrc, pDest>>

RouteEnded == moving = {} /\ UNCHANGED routeVars

RouteNext == Hop \/ RouteEnded
RouteSpec == RouteInit /\ [][RouteNext]_routeVars /\ WF_routeVars(RouteNext)
----------------------------------------------------------------------------
(* Per node, the nodes at most k links away from it.                       *)
Ball[k \in Nat] ==
  [n \in Nodes |->
     IF k = 0 THEN {n}
     ELSE Ball[k - 1][n] \cup
          {m \in Nodes : \E l \in LinkIds : m \in Ends(l) /\ Other(l, m) \in Ball[k - 1][n]}]

(* A message to one node takes a shortest path (findLink with              *)
(* forwardIfNeeded): after h hops it is where the rest of one begins.      *)
Shortest ==
  pDest # -1 => \A h \in moving :
    \E k \in 0 .. Size : /\ pDest \in Ball[k][h[2]]
                         /\ \A j \in 0 .. hops + k - 1 : pDest \notin Ball[j][pSrc]

(* A broadcast comes to every processor, and a message to one node to that *)
(* node and to no other: nothing is lost on the way and nothing circles.   *)
Delivered == IF pDest = -1 THEN Procs \ {pSrc} \subseteq reached
                           ELSE reached = {pDest}

AllDelivered == <>[](moving = {} /\ Delivered)
=============================================================================
