------------------------------- MODULE Links --------------------------------
(***************************************************************************)
(* The networks of interconnectProj.c (-t 1, 2, 3): which nodes a link     *)
(* joins and on which links a message leaves a node.  The nodes are the    *)
(* processors and the memory, which is the last one.                       *)
(***************************************************************************)
EXTENDS Processors

CONSTANT Topology

ASSUME TopologyAssumption ==
  /\ Topology \in {"line", "ring", "mesh"}
  /\ ProcessorCount > 1       \* a single processor is put on the bus

Memory == ProcessorCount
Nodes  == 0 .. ProcessorCount
Size   == ProcessorCount + 1
----------------------------------------------------------------------------
(* init(): the mesh is as square as it can be, with a last row that may be *)
(* short; the links along the rows come first, then those along columns.   *)
Cols == CHOOSE c \in 1 .. Size : c * c >= Size /\ (c - 1) * (c - 1) < Size

LastRow  == IF Size % Cols = 0 THEN Cols ELSE Size % Cols
FullRows == IF Size % Cols = 0 THEN (Size \div Cols) - 1 ELSE Size \div Cols
RowLinks == (Cols - 1) * FullRows + (LastRow - 1)
ColLinks == Cols * (FullRows - 1) + LastRow

NumLinks == CASE Topology = "line" -> ProcessorCount
              [] Topology = "ring" -> ProcessorCount + 1
              [] Topology = "mesh" -> RowLinks + ColLinks

LinkIds == 0 .. NumLinks - 1

Proc1(l) ==
  IF Topology = "mesh"
  THEN IF l < RowLinks THEN (l \div (Cols - 1)) * Cols + (l % (Cols - 1))
                       ELSE l - RowLinks
  ELSE l

Proc2(l) ==
  CASE Topology = "line" -> l + 1
    [] Topology = "ring" -> IF l < ProcessorCount THEN l + 1 ELSE 0
    [] Topology = "mesh" -> Proc1(l) + (IF l < RowLinks THEN 1 ELSE Cols)

Ends(l)     == {Proc1(l), Proc2(l)}
Other(l, p) == IF p = Proc1(l) THEN Proc2(l) ELSE Proc1(l)
LinksAt(p)  == {l \in LinkIds : p \in Ends(l)}

First(S) == CHOOSE l \in S : \A k \in S : l <= k
----------------------------------------------------------------------------
(* findLink(): the link on which a message to one node leaves p.           *)
FindLinkLine(p, dest) ==
  First({l \in LinkIds : \/ p = Proc1(l) /\ dest >= Proc2(l)
                         \/ p = Proc2(l) /\ dest <= Proc1(l)})

GoRight(p, dest) ==
  LET distRight == IF dest - p < 0 THEN ProcessorCount - (dest - p) ELSE dest - p
      distLeft  == IF p - dest < 0 THEN dest - p ELSE p - dest
  IN  distRight < distLeft

FindLinkRing(p, dest) ==
  First({l \in LinkIds : p = IF GoRight(p, dest) THEN Proc1(l) ELSE Proc2(l)})

(* Mutant: the column is compared the wrong way round.                     *)
FindLinkMeshMut(p, dest) ==
  LET right == {l \in LinkIds : l < RowLinks /\ Proc1(l) = p}
      left  == {l \in LinkIds : l < RowLinks /\ Proc2(l) = p}
      down  == {l \in LinkIds : l >= RowLinks /\ Proc1(l) = p}
      up    == {l \in LinkIds : l >= RowLinks /\ Proc2(l) = p}
  IN  CASE p < dest /\ down # {} -> First(down)
        [] p > dest /\ up # {} -> First(up)
        [] p % Cols < dest % Cols /\ right # {} -> First(right)
        [] OTHER -> First(left)

(* First along the row to the right column, then along the column, each    *)
(* "if possible": a short last row makes a message go up first.            *)
FindLinkMesh(p, dest) ==
  LET right == {l \in LinkIds : l < RowLinks /\ Proc1(l) = p}
      left  == {l \in LinkIds : l < RowLinks /\ Proc2(l) = p}
      down  == {l \in LinkIds : l >= RowLinks /\ Proc1(l) = p}
      up    == {l \in LinkIds : l >= RowLinks /\ Proc2(l) = p}
  IN  IF p % Cols < dest % Cols /\ right # {} THEN First(right)
      ELSE IF p % Cols > dest % Cols /\ left # {} THEN First(left)
      ELSE IF p < dest /\ down # {} THEN First(down)
      ELSE First(up)

FindLink(p, dest) == CASE Topology = "line" -> FindLinkLine(p, dest)
                       [] Topology = "ring" -> FindLinkRing(p, dest)
                       [] Topology = "mesh" -> FindLinkMesh(p, dest)

(* Mutant: a broadcast leaves on the first link only.                      *)
BroadcastLinksMut(p) == {First(LinksAt(p))}

(* req(): the links on which a broadcast leaves its source.  On the line   *)
(* the last link is the memory's and takes no broadcast.                   *)
BroadcastLinks(p) ==
  IF Topology = "line" THEN LinksAt(p) \ {ProcessorCount - 1} ELSE LinksAt(p)

(* forwardIfNeeded(): the links on which node p passes on what came from   *)
(* its neighbour cameFrom - a broadcast, or a message to another node.     *)
Away(p, cameFrom) == {l \in LinksAt(p) : Other(l, p) # cameFrom}

ForwardLinks(p, cameFrom, broadcast, dest, toMemory) ==
  LET line == IF toMemory THEN Away(p, cameFrom)
                          ELSE Away(p, cameFrom) \ {ProcessorCount - 1}
      one(S) == IF S = {} THEN {} ELSE {First(S)}
  IN  IF ~broadcast /\ dest = p THEN {}
      ELSE CASE Topology = "line" -> one(line)
             [] Topology = "ring" -> one(Away(p, cameFrom))
             [] Topology = "mesh" ->
                  IF broadcast THEN Away(p, cameFrom) ELSE {FindLinkMesh(p, dest)}
=============================================================================
