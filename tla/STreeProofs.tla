---------------------------- MODULE STreeProofs -----------------------------
(***************************************************************************)
(* The state tree is a search tree in every turn of every loop, whatever   *)
(* the keys, and answers as a map would.  No definition of the subtree     *)
(* below a node is needed: a family D of sets with the laws of subtrees    *)
(* (Subtrees) is carried along, and each rotation, leaf and removal is     *)
(* shown to leave such a family behind.                                    *)
(***************************************************************************)
EXTENDS STree, FiniteSetTheorems, TLAPS

(* Key a belongs on side s of key b.                                       *)
Less(s, a, b) == IF s = "left" THEN a < b ELSE a > b

(* D gives the nodes of the subtree below each node.                       *)
Under(t, D, s, v) == IF t.child[s][v] = NULL THEN {} ELSE D[t.child[s][v]]

Subtrees(t, D) ==
  /\ D \in [Keys -> SUBSET Keys]
  /\ \A v \in Nodes(t) :
       /\ D[v] = {v} \cup Under(t, D, "left", v) \cup Under(t, D, "right", v)
       /\ \A s \in Sides : \A j \in Under(t, D, s, v) : Less(s, j, v)
       /\ \A j \in D[v] : /\ j \in Nodes(t)
                          /\ j # v => t.parent[j] \in D[v]
                          /\ \A s \in Sides :
                               t.child[s][j] # NULL => t.child[s][j] \in D[v]
  /\ t.root # NULL => D[t.root] = Nodes(t)

LEMMA SideFacts ==
  /\ \A s \in Sides : Opp(s) \in Sides /\ Opp(s) # s /\ Opp(Opp(s)) = s
  /\ \A s, u \in Sides : u = s \/ u = Opp(s)
  /\ \A s \in Sides : \A a, b \in Keys : ~(Less(s, a, b) /\ Less(Opp(s), a, b))
  /\ \A s \in Sides : \A a \in Keys : ~Less(s, a, a)
  /\ \A s \in Sides : \A a, b \in Keys : Less(s, a, b) <=> Less(Opp(s), b, a)
  /\ \A s \in Sides : \A a, b, c \in Keys : Less(s, a, b) /\ Less(s, b, c) => Less(s, a, c)
  /\ \A a, b \in Keys : a # b => Toward(a, b) \in Sides /\ Less(Toward(a, b), a, b)
  /\ \A s \in Sides : \A a, b \in Keys : Less(s, a, b) => s = Toward(a, b)
  BY KeysAssumption DEF Sides, Opp, Less, Toward

(* The family of a node: it differs from its parent and its children.      *)
LEMMA Family ==
  ASSUME NEW t \in Trees, Linked(t), NEW D, Subtrees(t, D),
         NEW x \in Nodes(t), NEW s \in Sides, t.child[s][x] # NULL
  PROVE  LET y == t.child[s][x] IN
         /\ y \in Nodes(t) /\ y # x /\ t.parent[y] = x /\ t.child[Opp(s)][x] # y
         /\ D[y] \subseteq D[x] /\ y \in D[x] /\ x \in D[x] /\ y \in D[y]
         /\ x \notin D[y] /\ t.parent[x] # y
         /\ Less(s, y, x)
         /\ t.child[s][y] # x /\ t.child[Opp(s)][y] # x
<1> DEFINE y == t.child[s][x]
<1>1. y \in Nodes(t) /\ t.parent[y] = x
  BY DEF Linked
<1>2. y \in D[y] /\ x \in D[x]
  BY <1>1 DEF Subtrees
<1>3. D[y] = Under(t, D, s, x)
  BY DEF Under
<1>4. D[y] \subseteq D[x]
  BY <1>3 DEF Subtrees, Sides
<1>5. \A j \in D[y] : Less(s, j, x)
  BY <1>3 DEF Subtrees
<1>6. x \in Keys /\ y \in Keys
  BY <1>1 DEF Nodes
<1>7. x \notin D[y] /\ y # x /\ Less(s, y, x)
  BY <1>2, <1>5, <1>6, SideFacts
<1>8. t.child[Opp(s)][x] # y
  <2>1. SUFFICES ASSUME t.child[Opp(s)][x] = y PROVE FALSE
    OBVIOUS
  <2>2. D[y] = Under(t, D, Opp(s), x)
    BY <2>1 DEF Under
  <2>3. Less(Opp(s), y, x)
    BY <1>2, <2>2, SideFacts DEF Subtrees
  <2> QED
    BY <1>7, <2>3, <1>6, SideFacts
<1>9. \A u \in Sides : t.child[u][y] # NULL => t.child[u][y] \in D[y]
  BY <1>1, <1>2 DEF Subtrees
<1>10. x # NULL
  BY <1>6, KeysAssumption
<1>11. \A u \in Sides : t.child[u][y] # x
  BY <1>7, <1>9, <1>10
<1>12. t.parent[x] # y
  <2>1. SUFFICES ASSUME t.parent[x] = y PROVE FALSE
    OBVIOUS
  <2>2. y # NULL
    OBVIOUS
  <2>3. \E u \in Sides : t.child[u][y] = x
    BY <2>1, <2>2 DEF Linked
  <2> QED
    BY <2>3, <1>11
<1> QED
  BY <1>1, <1>2, <1>4, <1>7, <1>8, <1>11, <1>12, SideFacts

(* What a rotation writes.                                                 *)
Rotated(t, r, x, s) ==
  LET y     == t.child[s][x]
      inner == t.child[Opp(s)][y]
  IN  /\ r \in Trees /\ r.record = t.record /\ r.nodeCount = t.nodeCount
      /\ r.root = IF t.parent[x] = NULL THEN y ELSE t.root
      /\ \A k \in Keys :
           r.parent[k] = IF k = x THEN y ELSE IF k = y THEN t.parent[x]
                         ELSE IF k = inner THEN x ELSE t.parent[k]
      /\ \A u \in Sides : \A k \in Keys :
           r.child[u][k] = IF k = x THEN IF u = s THEN inner ELSE t.child[u][x]
                           ELSE IF k = y THEN IF u = s THEN t.child[u][y] ELSE x
                           ELSE IF k = t.parent[x] /\ t.child[u][k] = x THEN y
                           ELSE t.child[u][k]

(* The side on which a node hangs below its parent, and on no other.       *)
LEMMA HangsOn ==
  ASSUME NEW t \in Trees, Linked(t), NEW D, Subtrees(t, D),
         NEW x \in Nodes(t), t.parent[x] # NULL
  PROVE  /\ SideOf(t, x) \in Sides /\ t.parent[x] \in Nodes(t) /\ t.parent[x] # x
         /\ t.child[SideOf(t, x)][t.parent[x]] = x
         /\ t.child[Opp(SideOf(t, x))][t.parent[x]] # x
<1> DEFINE p == t.parent[x]
<1>1. p \in Nodes(t)
  BY DEF Linked
<1>2. PICK s \in Sides : t.child[s][p] = x
  BY DEF Linked
<1>3. x # NULL
  BY KeysAssumption DEF Nodes
<1>4. t.child[Opp(s)][p] # x /\ p # x
  BY <1>1, <1>2, <1>3, Family
<1>5. SideOf(t, x) = s
  BY <1>2, <1>4 DEF SideOf, Sides, Opp
<1> QED
  BY <1>1, <1>2, <1>4, <1>5

LEMMA RotateWrites ==
  ASSUME NEW t \in Trees, Linked(t), NEW D, Subtrees(t, D),
         NEW x \in Nodes(t), NEW s \in Sides, t.child[s][x] # NULL
  PROVE  Rotated(t, Rotate(t, x, s), x, s)
<1> DEFINE y     == t.child[s][x]
           o     == Opp(s)
           p     == t.parent[x]
           inner == t.child[o][y]
           moved == [t EXCEPT !.child[s][x] = inner,
                              !.parent = Put(Put(@, inner, x), y, p)]
           turned == Relink(moved, x, y)
           r     == Rotate(t, x, s)
<1>1. /\ y \in Nodes(t) /\ y # x /\ t.child[o][x] # y /\ p # y
      /\ t.child[s][y] # x /\ inner # x
  BY Family
<1>2. x \in Keys /\ y \in Keys /\ o \in Sides /\ o # s /\ x # NULL /\ y # NULL
  BY <1>1, SideFacts, KeysAssumption DEF Nodes
<1>3. p \in Pointers /\ inner \in Pointers
  BY <1>2 DEF Trees
<1>4. /\ moved.root = t.root /\ moved.nodeCount = t.nodeCount /\ moved.record = t.record
      /\ moved.child = [t.child EXCEPT ![s][x] = inner]
      /\ moved.parent = Put(Put(t.parent, inner, x), y, p)
      /\ moved \in [root : {t.root}, nodeCount : {t.nodeCount}, record : {t.record},
                    child : {moved.child}, parent : {moved.parent}]
  BY DEF Trees
<1>5. /\ moved.parent \in [Keys -> Pointers]
      /\ \A k \in Keys : moved.parent[k] = IF k = y THEN p ELSE IF k = inner THEN x ELSE t.parent[k]
  <2> DEFINE f == Put(t.parent, inner, x)
  <2>1. /\ f \in [Keys -> Pointers]
        /\ \A k \in Keys : f[k] = IF k = inner THEN x ELSE t.parent[k]
    BY <1>2, <1>3, KeysAssumption DEF Put, Trees, Pointers
  <2>2. moved.parent = Put(f, y, p)
    BY <1>4
  <2>3. moved.parent = [f EXCEPT ![y] = p]
    BY <1>2, <2>2 DEF Put
  <2> HIDE DEF f, moved, y, p, inner
  <2> QED
    BY <1>2, <1>3, <2>1, <2>3 DEF Pointers
<1>6. /\ moved.child \in [Sides -> [Keys -> Pointers]]
      /\ \A u \in Sides : \A k \in Keys :
           moved.child[u][k] = IF k = x /\ u = s THEN inner ELSE t.child[u][k]
  BY <1>2, <1>3, <1>4 DEF Trees
<1>7. moved \in Trees /\ moved.parent[x] = p
  BY <1>1, <1>2, <1>4, <1>5, <1>6 DEF Trees
<1> HIDE DEF moved
<1>8. /\ turned \in Trees /\ turned.record = t.record /\ turned.nodeCount = t.nodeCount
      /\ turned.parent = moved.parent
      /\ turned.root = IF p = NULL THEN y ELSE t.root
      /\ \A u \in Sides : \A k \in Keys :
           turned.child[u][k] = IF k = p /\ t.child[u][k] = x THEN y ELSE moved.child[u][k]
  <2>1. CASE p = NULL
    <3>1. turned = [moved EXCEPT !.root = y]
      BY <1>7, <2>1 DEF Relink
    <3>2. y \in Pointers /\ NULL \notin Keys
      BY <1>2, KeysAssumption DEF Pointers
    <3> QED
      BY <1>4, <1>7, <2>1, <3>1, <3>2 DEF Trees
  <2>2. CASE p # NULL
    <3> DEFINE q == SideOf(moved, x)
    <3>1. /\ SideOf(t, x) \in Sides /\ p \in Nodes(t) /\ p # x
          /\ t.child[SideOf(t, x)][p] = x /\ t.child[Opp(SideOf(t, x))][p] # x
      BY <2>2, HangsOn
    <3>2. p \in Keys /\ y \in Pointers
      BY <3>1, <1>2 DEF Nodes, Pointers
    <3>3. moved.child["left"][p] = t.child["left"][p]
      BY <1>6, <3>1, <3>2 DEF Sides
    <3>4. q = SideOf(t, x)
      BY <1>7, <3>3 DEF SideOf
    <3> HIDE DEF q
    <3>5. q \in Sides /\ \A u \in Sides : u = q <=> t.child[u][p] = x
      BY <3>1, <3>4, SideFacts
    <3>6. turned = [moved EXCEPT !.child[q][p] = y]
      BY <1>7, <2>2 DEF Relink, q
    <3>7. turned.child = [moved.child EXCEPT ![q][p] = y]
      BY <1>7, <3>6 DEF Trees
    <3>8. \A u \in Sides : \A k \in Keys :
            turned.child[u][k] = IF u = q /\ k = p THEN y ELSE moved.child[u][k]
      BY <1>6, <3>2, <3>5, <3>7
    <3>9. /\ turned.record = moved.record /\ turned.root = moved.root
          /\ turned.nodeCount = moved.nodeCount /\ turned.parent = moved.parent
      BY <1>7, <3>6 DEF Trees
    <3>10. turned.child \in [Sides -> [Keys -> Pointers]]
      BY <1>6, <3>2, <3>5, <3>7
    <3>11. turned \in Trees
      BY <1>7, <3>6, <3>10 DEF Trees
    <3>12. \A u \in Sides : \A k \in Keys :
             turned.child[u][k] = IF k = p /\ t.child[u][k] = x THEN y ELSE moved.child[u][k]
      BY <3>5, <3>8
    <3> QED
      BY <1>4, <2>2, <3>9, <3>11, <3>12
  <2> QED
    BY <2>1, <2>2
<1>9. r = [turned EXCEPT !.child[o] = [@ EXCEPT ![y] = x], !.parent[x] = y]
  <2>1. inner = Get(t.child[o], y)
    BY <1>2 DEF Get
  <2>2. r = [turned EXCEPT !.child[o] = Put(@, y, x), !.parent[x] = y]
    BY <2>1 DEF Rotate, moved
  <2> QED
    BY <1>2, <2>2 DEF Put
<1> HIDE DEF turned, r
<1>10. /\ r \in Trees /\ r.record = t.record /\ r.nodeCount = t.nodeCount /\ r.root = turned.root
       /\ r.child = [turned.child EXCEPT ![o] = [@ EXCEPT ![y] = x]]
       /\ r.parent = [turned.parent EXCEPT ![x] = y]
  BY <1>2, <1>8, <1>9 DEF Trees, Pointers
<1>11. \A k \in Keys :
         r.parent[k] = IF k = x THEN y ELSE IF k = y THEN p ELSE IF k = inner THEN x ELSE t.parent[k]
  BY <1>1, <1>2, <1>5, <1>8, <1>10 DEF Trees
<1>12. \A u \in Sides : \A k \in Keys :
         r.child[u][k] = IF u = o /\ k = y THEN x ELSE turned.child[u][k]
  BY <1>2, <1>8, <1>10 DEF Trees
<1>13. p # x
  <2>1. CASE p = NULL
    BY <2>1, <1>2
  <2>2. CASE p # NULL
    BY <2>2, HangsOn
  <2> QED
    BY <2>1, <2>2
<1>14. \A u \in Sides : u = s \/ u = o
  BY SideFacts
<1>15. \A u \in Sides : \A k \in Keys :
         r.child[u][k] = IF k = x THEN IF u = s THEN inner ELSE t.child[u][x]
                         ELSE IF k = y THEN IF u = s THEN t.child[u][y] ELSE x
                         ELSE IF k = p /\ t.child[u][k] = x THEN y
                         ELSE t.child[u][k]
  BY <1>1, <1>2, <1>6, <1>8, <1>12, <1>13, <1>14
<1> QED
  BY <1>8, <1>10, <1>11, <1>15 DEF Rotated, r

(* A rotation keeps the links and the order of the keys.                   *)
LEMMA RotatedLinks ==
  ASSUME NEW t \in Trees, Linked(t), NEW D, Subtrees(t, D),
         NEW x \in Nodes(t), NEW s \in Sides, t.child[s][x] # NULL,
         NEW r, Rotated(t, r, x, s)
  PROVE  Linked(r) /\ Nodes(r) = Nodes(t)
<1> DEFINE y     == t.child[s][x]
           o     == Opp(s)
           p     == t.parent[x]
           inner == t.child[o][y]
           N     == Nodes(t)
<1>1. /\ y \in N /\ y # x /\ t.child[o][x] # y /\ p # y /\ t.parent[y] = x
      /\ t.child[s][y] # x /\ inner # x /\ o \in Sides /\ o # s
  BY Family, SideFacts
<1>2. N \subseteq Keys /\ NULL \notin Keys /\ x \in Keys /\ y \in Keys
  BY <1>1, KeysAssumption DEF Nodes
<1>3. Nodes(r) = N
  BY DEF Nodes, Rotated
<1>4. \A u \in Sides : \A k \in N : t.child[u][k] # NULL =>
        /\ t.child[u][k] \in N /\ t.parent[t.child[u][k]] = k
        /\ t.child[u][k] # k /\ t.child[Opp(u)][k] # t.child[u][k]
  <2> SUFFICES ASSUME NEW u \in Sides, NEW k \in N, t.child[u][k] # NULL
               PROVE  /\ t.child[u][k] \in N /\ t.parent[t.child[u][k]] = k
                      /\ t.child[u][k] # k /\ t.child[Opp(u)][k] # t.child[u][k]
    OBVIOUS
  <2> QED
    BY Family
<1>5. p # NULL => p \in N /\ p # x /\ t.child[SideOf(t, x)][p] = x /\ SideOf(t, x) \in Sides
  BY HangsOn
<1>6. inner # NULL => inner \in N /\ inner # y /\ t.parent[inner] = y
  BY <1>1, <1>4
<1>7. \A k \in Keys :
         r.parent[k] = IF k = x THEN y ELSE IF k = y THEN p ELSE IF k = inner THEN x ELSE t.parent[k]
  BY DEF Rotated
<1>8. \A u \in Sides : \A k \in Keys :
         r.child[u][k] = IF k = x THEN IF u = s THEN inner ELSE t.child[u][x]
                         ELSE IF k = y THEN IF u = s THEN t.child[u][y] ELSE x
                         ELSE IF k = p /\ t.child[u][k] = x THEN y
                         ELSE t.child[u][k]
  BY DEF Rotated
<1>9. r.root = IF p = NULL THEN y ELSE t.root
  BY DEF Rotated
<1>10. \A u \in Sides : u = s \/ u = o
  BY SideFacts
<1> HIDE DEF y, o, p, inner, N
<1>11. ASSUME NEW k \in N, NEW u \in Sides, r.child[u][k] # NULL
       PROVE  r.child[u][k] \in N /\ r.parent[r.child[u][k]] = k
  <2>1. CASE k = x
    <3>1. CASE u = s
      BY <1>1, <1>2, <1>6, <1>7, <1>8, <1>11, <2>1, <3>1
    <3>2. CASE u # s
      <4>1. u = o /\ r.child[u][k] = t.child[o][x]
        BY <1>2, <1>8, <1>10, <2>1, <3>2
      <4>2. t.child[o][x] \in N /\ t.parent[t.child[o][x]] = x /\ t.child[o][x] # x
        BY <1>1, <1>4, <1>11, <2>1, <4>1
      <4>3. t.child[o][x] # inner
        BY <1>1, <1>6, <4>2, <1>2
      <4> QED
        BY <1>1, <1>2, <1>7, <2>1, <4>1, <4>2, <4>3
    <3> QED
      BY <3>1, <3>2
  <2>2. CASE k = y
    <3>1. CASE u = s
      <4>1. r.child[u][k] = t.child[s][y]
        BY <1>1, <1>2, <1>8, <2>2, <3>1
      <4>2. t.child[s][y] \in N /\ t.parent[t.child[s][y]] = y /\ t.child[s][y] # y /\ t.child[s][y] # inner
        BY <1>1, <1>4, <1>11, <2>2, <4>1 DEF inner, o
      <4> QED
        BY <1>1, <1>2, <1>7, <2>2, <4>1, <4>2
    <3>2. CASE u # s
      <4>1. r.child[u][k] = x
        BY <1>1, <1>2, <1>8, <2>2, <3>2
      <4>2. r.parent[x] = y /\ x \in N
        BY <1>2, <1>7 DEF N
      <4> QED
        BY <2>2, <4>1, <4>2
    <3> QED
      BY <3>1, <3>2
  <2>3. CASE k # x /\ k # y
    <3>1. CASE k = p /\ t.child[u][k] = x
      BY <1>1, <1>2, <1>7, <1>8, <2>3, <3>1
    <3>2. CASE ~(k = p /\ t.child[u][k] = x)
      <4>1. r.child[u][k] = t.child[u][k]
        BY <1>2, <1>8, <2>3, <3>2
      <4>2. t.child[u][k] \in N /\ t.parent[t.child[u][k]] = k
        BY <1>4, <1>11, <4>1
      <4>3. t.child[u][k] # x
        BY <3>2, <4>2 DEF p
      <4>4. t.child[u][k] # y /\ (t.child[u][k] = inner => FALSE)
        BY <1>1, <1>2, <1>6, <2>3, <4>2
      <4> QED
        BY <1>2, <1>7, <4>1, <4>2, <4>3, <4>4
    <3> QED
      BY <3>1, <3>2
  <2> QED
    BY <2>1, <2>2, <2>3
<1>12. ASSUME NEW k \in N
       PROVE  r.parent[k] = NULL <=> r.root = k
  <2>1. \A j \in N : t.parent[j] = NULL <=> t.root = j
    BY DEF Linked, N
  <2>2. x \in N
    BY DEF N
  <2>3. k \in Keys /\ x # NULL /\ y # NULL
    BY <1>2
  <2>4. CASE k = x
    BY <1>1, <1>7, <1>9, <2>1, <2>2, <2>3, <2>4 DEF p
  <2>5. CASE k = y
    BY <1>1, <1>7, <1>9, <2>1, <2>2, <2>3, <2>5 DEF p
  <2>6. CASE k # x /\ k # y
    <3>1. CASE k = inner
      <4>1. r.parent[k] = x /\ t.parent[k] = y
        BY <1>2, <1>6, <1>7, <2>3, <2>6, <3>1
      <4>2. t.root # k
        BY <2>1, <2>3, <4>1
      <4> QED
        BY <1>9, <2>3, <2>6, <4>1, <4>2
    <3>2. CASE k # inner
      <4>1. r.parent[k] = t.parent[k]
        BY <1>7, <2>3, <2>6, <3>2
      <4>2. p = NULL => t.root # k /\ t.parent[k] # NULL
        BY <2>1, <2>2, <2>6 DEF p
      <4> QED
        BY <1>9, <2>1, <2>6, <4>1, <4>2
    <3> QED
      BY <3>1, <3>2
  <2> QED
    BY <2>4, <2>5, <2>6
<1>13. ASSUME NEW k \in N, r.parent[k] # NULL
       PROVE  r.parent[k] \in N /\ \E u \in Sides : r.child[u][r.parent[k]] = k
  <2>1. x \in N /\ k \in Keys
    BY <1>2 DEF N
  <2>2. CASE k = x
    BY <1>1, <1>2, <1>7, <1>8, <2>1, <2>2
  <2>3. CASE k = y
    <3>1. r.parent[k] = p /\ p # NULL
      BY <1>1, <1>7, <1>13, <2>1, <2>3
    <3> QED
      BY <1>1, <1>2, <1>5, <1>8, <2>3, <3>1
  <2>4. CASE k = inner /\ k # x /\ k # y
    BY <1>1, <1>2, <1>7, <1>8, <2>1, <2>4
  <2>5. CASE k # inner /\ k # x /\ k # y
    <3> DEFINE q == t.parent[k]
    <3>1. r.parent[k] = q
      BY <1>7, <2>1, <2>5
    <3>2. q \in N
      BY <1>13, <3>1 DEF Linked, N
    <3>3. PICK u \in Sides : t.child[u][q] = k
      BY <1>13, <3>1 DEF Linked, N
    <3> HIDE DEF q
    <3>4. r.child[u][q] = k
      <4>1. CASE q = x
        BY <1>2, <1>8, <2>5, <3>3, <4>1 DEF y
      <4>2. CASE q = y
        BY <1>1, <1>2, <1>8, <1>10, <2>5, <3>3, <4>2 DEF inner
      <4>3. CASE q # x /\ q # y
        BY <1>2, <1>8, <2>5, <3>2, <3>3, <4>3
      <4> QED
        BY <4>1, <4>2, <4>3
    <3> QED
      BY <3>1, <3>2, <3>4
  <2> QED
    BY <2>2, <2>3, <2>4, <2>5
<1>14. IF N = {} THEN r.root = NULL ELSE r.root \in N
  BY <1>1, <1>9 DEF Linked, N
<1> QED
  BY <1>3, <1>11, <1>12, <1>13, <1>14 DEF Linked, N

LEMMA RotatedOrder ==
  ASSUME NEW t \in Trees, Linked(t), NEW D, Subtrees(t, D),
         NEW x \in Nodes(t), NEW s \in Sides, t.child[s][x] # NULL,
         NEW r, Rotated(t, r, x, s)
  PROVE  \E E : Subtrees(r, E)
<1> DEFINE y     == t.child[s][x]
           o     == Opp(s)
           p     == t.parent[x]
           inner == t.child[o][y]
           N     == Nodes(t)
           near  == Under(t, D, o, x)
           mid   == Under(t, D, o, y)
           far   == Under(t, D, s, y)
           E     == [D EXCEPT ![y] = D[x], ![x] = {x} \cup near \cup mid]
<1>1. /\ y \in N /\ y # x /\ t.child[o][x] # y /\ p # y /\ t.parent[y] = x
      /\ t.child[s][y] # x /\ inner # x /\ o \in Sides /\ o # s
      /\ x \in D[x] /\ y \in D[y] /\ D[y] \subseteq D[x] /\ x \notin D[y] /\ Less(s, y, x)
  BY Family, SideFacts
<1>2. N \subseteq Keys /\ NULL \notin Keys /\ x \in N /\ x \in Keys /\ y \in Keys
  BY <1>1, KeysAssumption DEF Nodes
<1>3. Nodes(r) = N /\ Linked(r)
  BY RotatedLinks
<1>4. /\ D \in [Keys -> SUBSET Keys]
      /\ \A v \in N : \A u \in Sides :
           /\ D[v] = {v} \cup Under(t, D, u, v) \cup Under(t, D, Opp(u), v)
           /\ \A j \in Under(t, D, u, v) : Less(u, j, v)
      /\ \A v \in N : \A j \in D[v] :
           /\ j \in N /\ (j # v => t.parent[j] \in D[v])
           /\ \A u \in Sides : t.child[u][j] # NULL => t.child[u][j] \in D[v]
      /\ t.root # NULL => D[t.root] = N
  BY DEF Subtrees, Sides, Opp
<1>5. \A k \in Keys :
         r.parent[k] = IF k = x THEN y ELSE IF k = y THEN p ELSE IF k = inner THEN x ELSE t.parent[k]
  BY DEF Rotated
<1>6. \A u \in Sides : \A k \in Keys :
         r.child[u][k] = IF k = x THEN IF u = s THEN inner ELSE t.child[u][x]
                         ELSE IF k = y THEN IF u = s THEN t.child[u][y] ELSE x
                         ELSE IF k = p /\ t.child[u][k] = x THEN y
                         ELSE t.child[u][k]
  BY DEF Rotated
<1>7. r.root = IF p = NULL THEN y ELSE t.root
  BY DEF Rotated
<1>8. \A u \in Sides : u = s \/ u = o
  BY SideFacts
<1>9. /\ D[x] = {x} \cup near \cup D[y] /\ D[y] = {y} \cup mid \cup far
      /\ \A j \in near : Less(o, j, x)
      /\ \A j \in D[y] : Less(s, j, x)
      /\ \A j \in mid : Less(o, j, y)
      /\ \A j \in far : Less(s, j, y)
  <2>1. D[y] = Under(t, D, s, x)
    BY <1>1, <1>2 DEF Under
  <2> QED
    BY <1>1, <1>2, <1>4, <2>1, SideFacts
<1>10. near \subseteq Keys /\ mid \subseteq Keys /\ far \subseteq Keys
  BY <1>1, <1>2, <1>4, <1>9
<1>11. /\ E \in [Keys -> SUBSET Keys] /\ E[y] = D[x] /\ E[x] = {x} \cup near \cup mid
       /\ \A k \in Keys \ {x, y} : E[k] = D[k]
  BY <1>1, <1>2, <1>4, <1>10
<1>12. \A v \in N : \A u \in Sides : t.child[u][v] # NULL =>
         t.child[u][v] \in N /\ t.parent[t.child[u][v]] = v /\ t.child[u][v] # v
  BY Family
<1>13. inner # NULL => inner \in N /\ inner # y /\ mid = D[inner]
  BY <1>1, <1>12 DEF Under
<1> HIDE DEF y, o, p, inner, N, near, mid, far, E
<1>14. Under(r, E, s, x) = mid /\ Under(r, E, o, x) = near
  <2>1. r.child[s][x] = inner /\ r.child[o][x] = t.child[o][x]
    BY <1>1, <1>2, <1>6
  <2>2. t.child[o][x] # NULL => t.child[o][x] \in N /\ t.child[o][x] # y /\ t.child[o][x] # x
    BY <1>1, <1>2, <1>12
  <2>3. Under(r, E, o, x) = near
    BY <1>2, <1>11, <2>1, <2>2 DEF Under, near
  <2>4. Under(r, E, s, x) = mid
    BY <1>1, <1>2, <1>11, <1>13, <2>1 DEF Under, mid, inner
  <2> QED
    BY <2>3, <2>4
<1>15. Under(r, E, s, y) = far /\ Under(r, E, o, y) = E[x]
  <2>1. r.child[s][y] = t.child[s][y] /\ r.child[o][y] = x
    BY <1>1, <1>2, <1>6
  <2>2. t.child[s][y] # NULL => t.child[s][y] \in N /\ t.child[s][y] # y /\ t.child[s][y] # x
    BY <1>1, <1>2, <1>12
  <2>3. Under(r, E, s, y) = far
    BY <1>2, <1>11, <2>1, <2>2 DEF Under, far
  <2>4. Under(r, E, o, y) = E[x]
    BY <1>2, <2>1 DEF Under
  <2> QED
    BY <2>3, <2>4
<1>16. ASSUME NEW v \in N, v # x, v # y, NEW u \in Sides
       PROVE  Under(r, E, u, v) = Under(t, D, u, v)
  <2>1. v \in Keys
    BY <1>2
  <2>2. CASE t.child[u][v] = x
    <3>1. v = p
      BY <1>2, <1>12, <2>2 DEF p
    <3>2. r.child[u][v] = y
      BY <1>6, <1>16, <2>1, <2>2, <3>1
    <3> QED
      BY <1>2, <1>11, <2>2, <3>2 DEF Under
  <2>3. CASE t.child[u][v] # x
    <3>1. r.child[u][v] = t.child[u][v]
      BY <1>6, <1>16, <2>1, <2>3
    <3>2. t.child[u][v] # NULL => t.child[u][v] \in Keys \ {x, y}
      BY <1>1, <1>2, <1>12, <1>16, <2>3
    <3> QED
      BY <1>11, <3>1, <3>2 DEF Under
  <2> QED
    BY <2>2, <2>3
<1>17. ASSUME NEW v \in N, NEW u \in Sides
       PROVE  /\ E[v] = {v} \cup Under(r, E, u, v) \cup Under(r, E, Opp(u), v)
              /\ \A j \in Under(r, E, u, v) : Less(u, j, v)
  <2>1. Opp(u) \in Sides /\ Opp(o) = s /\ Opp(s) = o
    BY SideFacts DEF o
  <2>2. CASE v = x
    <3>1. \A j \in mid : Less(s, j, x)
      BY <1>9
    <3> QED
      BY <1>8, <1>9, <1>11, <1>14, <2>1, <2>2, <3>1
  <2>3. CASE v = y
    <3>1. \A j \in E[x] : Less(o, j, y)
      <4>1. Less(o, x, y)
        BY <1>1, <1>2, SideFacts DEF o
      <4>2. \A j \in near : Less(o, j, y)
        BY <1>1, <1>2, <1>9, <1>10, <4>1, SideFacts
      <4> QED
        BY <1>9, <1>11, <4>1, <4>2
    <3>2. E[y] = {y} \cup far \cup E[x]
      BY <1>9, <1>11
    <3> QED
      BY <1>8, <1>9, <1>15, <2>1, <2>3, <3>1, <3>2
  <2>4. CASE v # x /\ v # y
    BY <1>2, <1>4, <1>11, <1>16, <2>1, <2>4
  <2> QED
    BY <2>2, <2>3, <2>4
<1>18. ASSUME NEW v \in N, NEW j \in E[v]
       PROVE  /\ j \in N /\ (j # v => r.parent[j] \in E[v])
              /\ \A u \in Sides : r.child[u][j] # NULL => r.child[u][j] \in E[v]
  <2>1. y = t.child[s][x] /\ inner = t.child[o][y] /\ p = t.parent[x]
    BY DEF y, inner, p
  <2>2. /\ y \in D[x] /\ inner # NULL => inner \in D[x]
        /\ inner # NULL => t.parent[inner] = y
    <3>1. y \in D[x]
      BY <1>1
    <3>2. inner # NULL => inner \in D[x]
      BY <1>1, <1>2, <1>4, <2>1, <3>1
    <3> QED
      BY <3>1, <3>2, <1>1, <1>12, <2>1
  <2>3. \A k \in D[x] : k \in Keys
    BY <1>2, <1>4
  <2>4. CASE v = y
    <3>1. E[v] = D[x] /\ j \in N /\ j \in Keys
      BY <1>2, <1>4, <1>11, <1>18, <2>4
    <3>2. j # y => r.parent[j] \in D[x]
      BY <1>1, <1>2, <1>4, <1>5, <3>1, <1>18
    <3>3. ASSUME NEW u \in Sides, r.child[u][j] # NULL
          PROVE  r.child[u][j] \in D[x]
      <4>1. t.child[u][j] # NULL => t.child[u][j] \in D[x]
        BY <1>2, <1>4, <1>18, <3>1
      <4> QED
        BY <1>1, <1>2, <1>6, <2>2, <3>1, <3>3, <4>1
    <3> QED
      BY <2>4, <3>1, <3>2, <3>3
  <2>5. CASE v = x
    <3>1. \A w \in N : \A k \in Under(t, D, o, w) :
            /\ t.child[o][w] # NULL /\ k \in N /\ k \in D[t.child[o][w]]
            /\ k = t.child[o][w] \/ t.parent[k] \in Under(t, D, o, w)
            /\ \A u \in Sides : t.child[u][k] # NULL => t.child[u][k] \in Under(t, D, o, w)
      BY <1>1, <1>4, <1>12 DEF Under
    <3>2. x \notin near /\ y \notin near /\ x \notin mid /\ y \notin mid /\ (inner # NULL => inner \notin near)
      <4>1. \A j1 \in near : Less(o, j1, x) /\ j1 \in Keys
        BY <1>9, <1>10
      <4>2. \A j1 \in D[y] : ~Less(o, j1, x)
        <5>1. \A j1 \in D[y] : Less(s, j1, x) /\ j1 \in Keys
          BY <1>1, <1>2, <1>4, <1>9
        <5> QED
          BY <1>2, <5>1, SideFacts DEF o
      <4>3. inner # NULL => inner \in D[y]
        BY <1>1, <1>4, <2>1
      <4>4. x \notin near
        BY <1>1, <1>2, <4>1, SideFacts
      <4>5. y \notin mid
        BY <1>1, <1>2, <1>9, SideFacts
      <4>6. x \notin mid
        BY <1>1, <1>9
      <4> QED
        BY <1>1, <4>1, <4>2, <4>3, <4>4, <4>5, <4>6
    <3>3. CASE j = x
      <4>1. \A u \in Sides : r.child[u][x] = IF u = s THEN inner ELSE t.child[u][x]
        BY <1>2, <1>6
      <4>2. inner # NULL => inner \in mid
        BY <1>4, <1>13
      <4>3. t.child[o][x] # NULL => t.child[o][x] \in near
        BY <1>1, <1>2, <1>4, <1>12 DEF near, Under
      <4> QED
        BY <1>2, <1>8, <1>11, <2>5, <3>3, <4>1, <4>2, <4>3
    <3>4. CASE j \in near
      <4>1. /\ j \in N /\ j \in Keys /\ j # x /\ j # y
            /\ t.child[o][x] \in N /\ t.parent[t.child[o][x]] = x
            /\ j = t.child[o][x] \/ t.parent[j] \in near
        BY <1>1, <1>2, <1>12, <3>1, <3>2, <3>4 DEF near
      <4>2. j # inner
        BY <1>2, <3>2, <3>4, <4>1
      <4>3. r.parent[j] = t.parent[j]
        BY <1>5, <4>1, <4>2
      <4>4. \A u \in Sides : r.child[u][j] # NULL => r.child[u][j] \in near
        <5> SUFFICES ASSUME NEW u \in Sides, r.child[u][j] # NULL
                     PROVE  r.child[u][j] \in near
          OBVIOUS
        <5>1. t.child[u][j] # NULL => t.child[u][j] \in near
          BY <1>2, <3>1, <3>4 DEF near
        <5>2. t.child[u][j] # x
          BY <1>2, <3>2, <5>1
        <5> QED
          BY <1>6, <4>1, <5>1, <5>2
      <4> QED
        BY <1>11, <2>5, <4>1, <4>3, <4>4
    <3>5. CASE j \in mid
      <4>1. /\ j \in N /\ j \in Keys /\ j # x /\ j # y
            /\ j = inner \/ t.parent[j] \in mid
        BY <1>1, <1>2, <3>1, <3>2, <3>5 DEF mid, inner
      <4>2. r.parent[j] = x \/ r.parent[j] \in mid
        BY <1>5, <4>1
      <4>3. \A u \in Sides : r.child[u][j] # NULL => r.child[u][j] \in mid
        <5> SUFFICES ASSUME NEW u \in Sides, r.child[u][j] # NULL
                     PROVE  r.child[u][j] \in mid
          OBVIOUS
        <5>1. t.child[u][j] # NULL => t.child[u][j] \in mid
          BY <1>1, <3>1, <3>5 DEF mid
        <5>2. t.child[u][j] # x
          BY <1>2, <3>2, <5>1
        <5> QED
          BY <1>6, <4>1, <5>1, <5>2
      <4> QED
        BY <1>11, <2>5, <4>1, <4>2, <4>3
    <3> QED
      BY <1>11, <1>18, <2>5, <3>3, <3>4, <3>5
  <2>6. CASE v # x /\ v # y
    <3>1. E[v] = D[v] /\ j \in N /\ j \in Keys
      BY <1>2, <1>4, <1>11, <1>18, <2>6
    <3>2. x \in D[v] => y \in D[v] /\ (p \in D[v])
      BY <1>1, <1>2, <1>4, <2>1, <2>6
    <3>3. y \in D[v] => x \in D[v] /\ (inner # NULL => inner \in D[v])
      BY <1>1, <1>2, <1>4, <2>1, <2>6
    <3>4. j # v => r.parent[j] \in D[v]
      <4>1. ASSUME j = inner, j # v PROVE x \in D[v]
        <5>1. y \in D[v]
          BY <1>2, <1>4, <1>18, <2>2, <3>1, <4>1
        <5> QED
          BY <3>3, <5>1
      <4> QED
        BY <1>4, <1>5, <1>18, <3>1, <3>2, <3>3, <4>1
    <3>5. ASSUME NEW u \in Sides, r.child[u][j] # NULL
          PROVE  r.child[u][j] \in D[v]
      <4>1. t.child[u][j] # NULL => t.child[u][j] \in D[v]
        BY <1>4, <1>18, <3>1
      <4> QED
        BY <1>2, <1>6, <1>18, <3>1, <3>2, <3>3, <3>5, <4>1
    <3> QED
      BY <3>1, <3>4, <3>5
  <2> QED
    BY <2>4, <2>5, <2>6
<1>19. r.root # NULL => E[r.root] = N
  <2>1. t.root # NULL /\ t.root \in N /\ (p = NULL <=> t.root = x)
    BY <1>2 DEF Linked, N, p
  <2>2. t.root # y
    BY <1>1, <1>2, <2>1 DEF Linked, N
  <2> QED
    BY <1>2, <1>4, <1>7, <1>11, <2>1, <2>2
<1>20. Subtrees(r, E)
  BY <1>3, <1>11, <1>17, <1>18, <1>19 DEF Subtrees, Sides, Opp
<1> QED
  BY <1>20

(* A tree in which every search ends where it should.                      *)
Sound(t) == t \in Trees /\ Linked(t) /\ \E D : Subtrees(t, D)

LEMMA RotateKeeps ==
  ASSUME NEW t, Sound(t), NEW x \in Nodes(t), NEW s \in Sides, t.child[s][x] # NULL
  PROVE  /\ Rotated(t, Rotate(t, x, s), x, s)
         /\ Sound(Rotate(t, x, s)) /\ Nodes(Rotate(t, x, s)) = Nodes(t)
<1> DEFINE r == Rotate(t, x, s)
<1>1. PICK D : Subtrees(t, D)
  BY DEF Sound
<1>2. t \in Trees /\ Linked(t)
  BY DEF Sound
<1>3. Rotated(t, r, x, s)
  BY <1>1, <1>2, RotateWrites
<1> HIDE DEF r
<1>4. Linked(r) /\ Nodes(r) = Nodes(t)
  BY <1>1, <1>2, <1>3, RotatedLinks
<1>5. \E E : Subtrees(r, E)
  BY <1>1, <1>2, <1>3, RotatedOrder
<1>6. r \in Trees
  BY <1>3 DEF Rotated
<1> QED
  BY <1>3, <1>4, <1>5, <1>6 DEF Sound, r

(* A turn of splay keeps the tree sound and every record in it.            *)
LEMMA SplayTurnKeeps ==
  ASSUME NEW t, Sound(t), NEW x \in Nodes(t), t.parent[x] # NULL
  PROVE  /\ Sound(SplayTurn(t, x)) /\ SplayTurn(t, x).record = t.record
         /\ SplayTurn(t, x).nodeCount = t.nodeCount
<1> DEFINE p == t.parent[x]
           s == SideOf(t, x)
           g == t.parent[p]
           o == SideOf(t, p)
<1>1. PICK D : Subtrees(t, D)
  BY DEF Sound
<1>2. t \in Trees /\ Linked(t)
  BY DEF Sound
<1>3. s \in Sides /\ p \in Nodes(t) /\ p # x /\ t.child[s][p] = x /\ t.child[Opp(s)][p] # x
  BY <1>1, <1>2, HangsOn
<1>4. x \in Keys /\ p \in Keys /\ NULL \notin Keys
  BY <1>3, KeysAssumption DEF Nodes
<1>5. /\ \A u \in Sides : t.child[u][x] # p
      /\ t.parent[p] # x
  BY <1>1, <1>2, <1>3, <1>4, Family, SideFacts
<1>6. CASE g = NULL
  <2>1. SplayTurn(t, x) = Rotate(t, p, s)
    BY <1>6 DEF SplayTurn
  <2>2. Sound(Rotate(t, p, s)) /\ Rotated(t, Rotate(t, p, s), p, s)
    BY <1>3, <1>4, RotateKeeps
  <2> QED
    BY <2>1, <2>2 DEF Rotated
<1>7. CASE g # NULL
  <2>1. o \in Sides /\ g \in Nodes(t) /\ g # p /\ t.child[o][g] = p /\ t.child[Opp(o)][g] # p
    BY <1>1, <1>2, <1>3, <1>7, HangsOn
  <2>2. g \in Keys
    BY <2>1 DEF Nodes
  <2>3. CASE s = o
    <3> DEFINE t1 == Rotate(t, g, o)
    <3>1. Sound(t1) /\ Rotated(t, t1, g, o) /\ Nodes(t1) = Nodes(t)
      BY <1>4, <2>1, <1>3, RotateKeeps
    <3>2. t1.parent[x] = p /\ t1.child[s][p] = x
      <4>1. x # g /\ t.child[Opp(o)][p] # x
        BY <1>3, <1>5, <2>3
      <4> QED
        BY <1>3, <1>4, <2>1, <2>3, <3>1, <4>1 DEF Rotated
    <3>3. SplayTurn(t, x) = Rotate(t1, p, s)
      BY <1>7, <2>3, <3>2 DEF SplayTurn
    <3> HIDE DEF t1
    <3>4. Sound(Rotate(t1, p, s)) /\ Rotated(t1, Rotate(t1, p, s), p, s)
      BY <1>3, <1>4, <3>1, <3>2, RotateKeeps
    <3> QED
      BY <3>1, <3>3, <3>4 DEF Rotated
  <2>4. CASE s # o
    <3> DEFINE t1 == Rotate(t, p, s)
    <3>1. Sound(t1) /\ Rotated(t, t1, p, s) /\ Nodes(t1) = Nodes(t)
      BY <1>3, <1>4, RotateKeeps
    <3>2. t1.parent[x] = g /\ t1.child[o][g] = x
      <4>1. x # g
        BY <1>5
      <4> QED
        BY <1>3, <1>4, <2>1, <2>2, <3>1, <4>1 DEF Rotated
    <3>3. SplayTurn(t, x) = Rotate(t1, g, o)
      BY <1>7, <2>4, <3>2 DEF SplayTurn
    <3> HIDE DEF t1
    <3>4. Sound(Rotate(t1, g, o)) /\ Rotated(t1, Rotate(t1, g, o), g, o)
      BY <1>4, <2>1, <3>1, <3>2, RotateKeeps
    <3> QED
      BY <3>1, <3>3, <3>4 DEF Rotated
  <2> QED
    BY <2>3, <2>4
<1> QED
  BY <1>6, <1>7

(* A leaf under p, which has no child towards the key, keeps the tree sound *)
(* if the key belongs on that side of every node above p.                  *)
LEMMA LeafKeeps ==
  ASSUME NEW t \in Trees, Linked(t), NEW D, Subtrees(t, D),
         NEW k \in Keys \ Nodes(t), NEW r \in Records, NEW p \in Pointers,
         IF p = NULL THEN t.root = NULL
         ELSE /\ p \in Nodes(t) /\ t.child[Toward(k, p)][p] = NULL
              /\ \A v \in Nodes(t) : \A s \in Sides :
                   p \in Under(t, D, s, v) => Less(s, k, v)
  PROVE  LET l == WithLeaf(t, k, p, r) IN
         /\ Sound(l) /\ Nodes(l) = Nodes(t) \cup {k}
         /\ l.record = [t.record EXCEPT ![k] = r] /\ l.nodeCount = t.nodeCount
<1> DEFINE l == WithLeaf(t, k, p, r)
           side == Toward(k, p)
           N == Nodes(t)
           E == [v \in Keys |-> IF v = k THEN {k}
                                ELSE IF v \in N /\ p \in D[v] THEN D[v] \cup {k} ELSE D[v]]
<1>1. N \subseteq Keys /\ NULL \notin Keys /\ NULL \notin Records /\ r # NULL
  BY KeysAssumption DEF Nodes
<1>2. p # NULL => /\ p \in N /\ p \in Keys /\ p # k /\ side \in Sides /\ t.child[side][p] = NULL
                  /\ Less(side, k, p)
  BY <1>1, SideFacts
<1>3. /\ l \in Trees
      /\ l.record = [t.record EXCEPT ![k] = r] /\ l.nodeCount = t.nodeCount
      /\ l.root = IF p = NULL THEN k ELSE t.root
      /\ \A j \in Keys : l.parent[j] = IF j = k THEN p ELSE t.parent[j]
      /\ \A u \in Sides : \A j \in Keys :
           l.child[u][j] = IF j = k THEN NULL
                           ELSE IF j = p /\ u = side THEN k ELSE t.child[u][j]
  <2> DEFINE record == [t.record EXCEPT ![k] = r]
             parent == [t.parent EXCEPT ![k] = p]
             child  == [u \in Sides |-> [t.child[u] EXCEPT ![k] = NULL]]
             leaf   == [t EXCEPT !.record = record, !.parent = parent, !.child = child]
  <2>1. /\ record \in [Keys -> Records \cup {NULL}] /\ parent \in [Keys -> Pointers]
        /\ \A j \in Keys : parent[j] = IF j = k THEN p ELSE t.parent[j]
    BY DEF Trees
  <2>2. /\ child \in [Sides -> [Keys -> Pointers]]
        /\ \A u \in Sides : \A j \in Keys :
             child[u][j] = IF j = k THEN NULL ELSE t.child[u][j]
    BY DEF Trees, Sides, Pointers
  <2> HIDE DEF record, parent, child
  <2>3. /\ leaf \in Trees
        /\ leaf.record = record /\ leaf.nodeCount = t.nodeCount /\ leaf.root = t.root
        /\ leaf.parent = parent /\ leaf.child = child
    BY <2>1, <2>2 DEF Trees
  <2>4. l = IF p = NULL THEN [leaf EXCEPT !.root = k] ELSE [leaf EXCEPT !.child[side][p] = k]
    BY DEF WithLeaf, record, parent, child
  <2> HIDE DEF leaf, l, side
  <2>5. /\ leaf.record = [t.record EXCEPT ![k] = r]
        /\ leaf.child \in [Sides -> [Keys -> Pointers]]
        /\ \A u \in Sides : \A j \in Keys :
             leaf.child[u][j] = IF j = k THEN NULL ELSE t.child[u][j]
        /\ \A j \in Keys : leaf.parent[j] = IF j = k THEN p ELSE t.parent[j]
    <3>1. leaf.record = [t.record EXCEPT ![k] = r]
      BY <2>3 DEF record
    <3> QED
      BY <2>1, <2>2, <2>3, <3>1
  <2>6. CASE p = NULL
    <3>1. /\ l.record = leaf.record /\ l.nodeCount = leaf.nodeCount /\ l.root = k
          /\ l.parent = leaf.parent /\ l.child = leaf.child /\ l \in Trees
      BY <2>3, <2>4, <2>6 DEF Trees, Pointers
    <3> QED
      BY <1>1, <2>3, <2>6, <2>5, <3>1
  <2>7. CASE p # NULL
    <3>1. /\ l.record = leaf.record /\ l.nodeCount = leaf.nodeCount /\ l.root = leaf.root
          /\ l.parent = leaf.parent /\ l.child = [leaf.child EXCEPT ![side][p] = k]
      BY <2>3, <2>4, <2>7 DEF Trees
    <3>2. /\ l.child \in [Sides -> [Keys -> Pointers]]
          /\ \A u \in Sides : \A j \in Keys :
               l.child[u][j] = IF u = side /\ j = p THEN k ELSE leaf.child[u][j]
      BY <1>2, <2>7, <2>5, <3>1 DEF Pointers
    <3>3. l \in Trees
      BY <2>3, <2>4, <2>7, <3>2 DEF Trees
    <3> QED
      <4>1. \A u \in Sides : \A j \in Keys :
              l.child[u][j] = IF j = k THEN NULL
                              ELSE IF j = p /\ u = side THEN k ELSE t.child[u][j]
        BY <1>2, <2>7, <2>5, <3>2
      <4> QED
        BY <2>3, <2>7, <2>5, <3>1, <3>3, <4>1
  <2> QED
    BY <2>6, <2>7
<1> HIDE DEF l, side
<1>4. Nodes(l) = N \cup {k}
  BY <1>1, <1>3 DEF Nodes, Trees
<1>5. \A v \in N : \A u \in Sides : t.child[u][v] # NULL =>
        /\ t.child[u][v] \in N /\ t.child[u][v] # k /\ t.parent[t.child[u][v]] = v
        /\ D[t.child[u][v]] = Under(t, D, u, v) /\ Under(t, D, u, v) \subseteq D[v]
  <2> SUFFICES ASSUME NEW v \in N, NEW u \in Sides, t.child[u][v] # NULL
               PROVE  /\ t.child[u][v] \in N /\ t.child[u][v] # k /\ t.parent[t.child[u][v]] = v
                      /\ D[t.child[u][v]] = Under(t, D, u, v) /\ Under(t, D, u, v) \subseteq D[v]
    OBVIOUS
  <2>1. t.child[u][v] \in N /\ t.parent[t.child[u][v]] = v /\ D[t.child[u][v]] \subseteq D[v]
    BY Family
  <2> QED
    BY <2>1 DEF Under
<1>6. /\ D \in [Keys -> SUBSET Keys]
      /\ \A v \in N : \A u \in Sides :
           /\ D[v] = {v} \cup Under(t, D, u, v) \cup Under(t, D, Opp(u), v)
           /\ \A j \in Under(t, D, u, v) : Less(u, j, v)
      /\ \A v \in N : \A j \in D[v] :
           /\ j \in N /\ (j # v => t.parent[j] \in D[v])
           /\ \A u \in Sides : t.child[u][j] # NULL => t.child[u][j] \in D[v]
      /\ t.root # NULL => D[t.root] = N
  BY DEF Subtrees, Sides, Opp
<1>7. \A v \in N : v \in D[v] /\ D[v] \subseteq N
  BY <1>6 DEF Sides
<1>8. Linked(l)
  <2>1. \A j \in N : j \in Keys /\ j # k
    BY <1>1
  <2>2. N = {} <=> t.root = NULL
    BY <1>1 DEF Linked
  <2>3. ASSUME NEW j \in N \cup {k}, NEW u \in Sides, l.child[u][j] # NULL
        PROVE  l.child[u][j] \in N \cup {k} /\ l.parent[l.child[u][j]] = j
    BY <1>1, <1>2, <1>3, <1>5, <2>1, <2>3
  <2>4. ASSUME NEW j \in N \cup {k}
        PROVE  l.parent[j] = NULL <=> l.root = j
    <3>1. j \in N => (t.parent[j] = NULL <=> t.root = j)
      BY DEF Linked
    <3> QED
      <4>1. CASE j = k
        BY <1>1, <1>2, <1>3, <2>2, <4>1 DEF Linked
      <4>2. CASE j \in N
        <5>1. p # NULL
          BY <1>1, <2>2, <4>2
        <5> QED
          BY <1>3, <2>1, <3>1, <4>2, <5>1
      <4> QED
        BY <4>1, <4>2
  <2>5. ASSUME NEW j \in N \cup {k}, l.parent[j] # NULL
        PROVE  l.parent[j] \in N \cup {k} /\ \E u \in Sides : l.child[u][l.parent[j]] = j
    <3>1. CASE j = k
      BY <1>2, <1>3, <2>5, <3>1
    <3>2. CASE j \in N
      <4>1. l.parent[j] = t.parent[j]
        BY <1>3, <2>1, <3>2
      <4>2. t.parent[j] \in N /\ \E u \in Sides : t.child[u][t.parent[j]] = j
        BY <2>5, <3>2, <4>1 DEF Linked
      <4>3. PICK u \in Sides : t.child[u][t.parent[j]] = j
        BY <4>2
      <4>4. l.child[u][t.parent[j]] = j
        BY <1>1, <1>2, <1>3, <2>1, <3>2, <4>2, <4>3
      <4> QED
        BY <4>1, <4>2, <4>4
    <3> QED
      BY <3>1, <3>2
  <2>6. l.root \in N \cup {k}
    BY <1>2, <1>3, <2>2 DEF Linked
  <2> QED
    BY <1>4, <2>3, <2>4, <2>5, <2>6 DEF Linked
<1>9. \E F : Subtrees(l, F)
  <2>1. /\ E \in [Keys -> SUBSET Keys] /\ E[k] = {k}
        /\ \A v \in N : E[v] = IF p \in D[v] THEN D[v] \cup {k} ELSE D[v]
    <3>1. \A v \in Keys : D[v] \subseteq Keys /\ D[v] \cup {k} \subseteq Keys
      BY <1>6
    <3> QED
      BY <1>1, <3>1
  <2> HIDE DEF E
  <2>2. \A u \in Sides : Under(l, E, u, k) = {}
    BY <1>3 DEF Under
  <2>3. ASSUME NEW v \in N, NEW u \in Sides
        PROVE  Under(l, E, u, v) = IF p \in Under(t, D, u, v) \/ (v = p /\ u = side)
                                   THEN Under(t, D, u, v) \cup {k} ELSE Under(t, D, u, v)
    <3>1. v \in Keys /\ v # k
      BY <1>1
    <3>2. CASE v = p /\ u = side
      <4>1. p # NULL
        BY <1>1, <3>1, <3>2
      <4>2. l.child[u][v] = k /\ t.child[u][v] = NULL
        BY <1>2, <1>3, <3>1, <3>2, <4>1
      <4> QED
        BY <1>1, <2>1, <3>2, <4>2 DEF Under
    <3>3. CASE ~(v = p /\ u = side)
      <4>1. l.child[u][v] = t.child[u][v]
        BY <1>3, <3>1, <3>3
      <4> QED
        BY <1>5, <2>1, <3>3, <4>1 DEF Under
    <3> QED
      BY <3>2, <3>3
  <2>4. ASSUME NEW v \in N, NEW u \in Sides
        PROVE  /\ E[v] = {v} \cup Under(l, E, u, v) \cup Under(l, E, Opp(u), v)
               /\ \A j \in Under(l, E, u, v) : Less(u, j, v)
    <3>1. Opp(u) \in Sides /\ (u = side \/ Opp(u) = side \/ p = NULL)
      BY <1>2, SideFacts
    <3>2. D[v] = {v} \cup Under(t, D, u, v) \cup Under(t, D, Opp(u), v)
      BY <1>6
    <3>3. p \in D[v] => p # NULL
      BY <1>1, <1>6
    <3>4. p \in Under(t, D, u, v) \/ (v = p /\ u = side) => Less(u, k, v)
      <4>1. v = p => p # NULL
        BY <1>1
      <4>2. p \in Under(t, D, u, v) => p # NULL
        BY <3>2, <3>3
      <4> QED
        BY <1>2, <4>1, <4>2
    <3>5. \A j \in Under(l, E, u, v) : Less(u, j, v)
      BY <1>6, <2>3, <3>4
    <3>6. /\ Under(l, E, u, v) = IF p \in Under(t, D, u, v) \/ (v = p /\ u = side)
                                 THEN Under(t, D, u, v) \cup {k} ELSE Under(t, D, u, v)
          /\ Under(l, E, Opp(u), v) = IF p \in Under(t, D, Opp(u), v) \/ (v = p /\ Opp(u) = side)
                                 THEN Under(t, D, Opp(u), v) \cup {k} ELSE Under(t, D, Opp(u), v)
      BY <2>3, <3>1
    <3>7. p \in D[v] <=> \/ p \in Under(t, D, u, v) \/ (v = p /\ u = side)
                         \/ p \in Under(t, D, Opp(u), v) \/ (v = p /\ Opp(u) = side)
      BY <1>6, <3>1, <3>2, <3>3
    <3>8. E[v] = IF p \in D[v] THEN D[v] \cup {k} ELSE D[v]
      BY <2>1
    <3> QED
      BY <3>2, <3>5, <3>6, <3>7, <3>8
  <2>5. ASSUME NEW v \in N, NEW j \in E[v]
        PROVE  /\ j \in N \cup {k} /\ (j # v => l.parent[j] \in E[v])
               /\ \A u \in Sides : l.child[u][j] # NULL => l.child[u][j] \in E[v]
    <3>1. CASE j = k
      <4>1. p \in D[v] /\ p \in E[v]
        BY <1>7, <2>1, <2>5, <3>1
      <4> QED
        BY <1>3, <3>1, <4>1
    <3>2. CASE j # k
      <4>1. j \in D[v] /\ j \in N /\ j \in Keys
        BY <1>1, <1>7, <2>1, <2>5, <3>2
      <4>2. l.parent[j] = t.parent[j]
        BY <1>3, <3>2, <4>1
      <4>3. \A u \in Sides : l.child[u][j] # NULL => l.child[u][j] \in E[v]
        <5>1. /\ \A u \in Sides : t.child[u][j] # NULL => t.child[u][j] \in E[v]
              /\ j = p => k \in E[v]
          <6>1. \A u \in Sides : t.child[u][j] # NULL => t.child[u][j] \in D[v]
            BY <1>6, <4>1
          <6>2. D[v] \subseteq E[v] /\ (p \in D[v] => k \in E[v])
            BY <2>1
          <6> QED
            BY <4>1, <6>1, <6>2
        <5> QED
          BY <1>3, <3>2, <4>1, <5>1
      <4> QED
        <5>1. j # v => t.parent[j] \in E[v]
          <6>1. j # v => t.parent[j] \in D[v]
            BY <1>6, <4>1
          <6>2. D[v] \subseteq E[v]
            BY <2>1
          <6> QED
            BY <6>1, <6>2
        <5> QED
          BY <4>1, <4>2, <4>3, <5>1
    <3> QED
      BY <3>1, <3>2
  <2>6. l.root # NULL => E[l.root] = N \cup {k}
    <3>1. CASE p = NULL
      BY <1>1, <1>3, <2>1, <3>1 DEF Linked
    <3>2. CASE p # NULL
      <4>1. l.root = t.root /\ t.root \in N /\ p \in N
        BY <1>2, <1>3, <3>2 DEF Linked
      <4>2. t.root # NULL
        BY <1>1, <4>1
      <4> QED
        <5>1. D[t.root] = N
          BY <1>6, <4>2
        <5> QED
          BY <2>1, <4>1, <5>1
    <3> QED
      BY <3>1, <3>2
  <2>7. Subtrees(l, E)
    <3>1. \A v \in N \cup {k} :
           /\ E[v] = {v} \cup Under(l, E, "left", v) \cup Under(l, E, "right", v)
           /\ \A s \in Sides : \A j \in Under(l, E, s, v) : Less(s, j, v)
      BY <2>1, <2>2, <2>4 DEF Sides, Opp
    <3>2. \A v \in N \cup {k} : \A j \in E[v] :
            /\ j \in N \cup {k} /\ (j # v => l.parent[j] \in E[v])
            /\ \A s \in Sides : l.child[s][j] # NULL => l.child[s][j] \in E[v]
      BY <1>3, <2>1, <2>5
    <3> QED
      BY <1>4, <2>1, <2>6, <3>1, <3>2 DEF Subtrees
  <2> QED
    BY <2>7
<1> QED
  BY <1>3, <1>4, <1>8, <1>9 DEF Sound, l

(* Below the root: no subtree holds the root but its own, and no link      *)
(* leads to it.                                                            *)
LEMMA RootAlone ==
  ASSUME NEW t \in Trees, Linked(t), NEW D, Subtrees(t, D),
         NEW z \in Nodes(t), t.parent[z] = NULL
  PROVE  /\ t.root = z /\ D[z] = Nodes(t)
         /\ \A v \in Nodes(t) \ {z} : t.parent[v] # NULL
         /\ \A v \in Nodes(t) \ {z} : z \notin D[v]
         /\ \A v \in Nodes(t) : \A s \in Sides : t.child[s][v] # z
<1>1. t.root = z /\ \A v \in Nodes(t) \ {z} : t.parent[v] # NULL
  BY DEF Linked
<1>2. z # NULL /\ NULL \notin Keys
  BY KeysAssumption DEF Nodes
<1>3. D[z] = Nodes(t)
  BY <1>1, <1>2 DEF Subtrees
<1>4. \A v \in Nodes(t) \ {z} : z \notin D[v]
  <2> SUFFICES ASSUME NEW v \in Nodes(t) \ {z}, z \in D[v] PROVE FALSE
    OBVIOUS
  <2>1. NULL \in D[v]
    BY DEF Subtrees
  <2>2. \A j \in D[v] : j \in Nodes(t)
    BY DEF Subtrees
  <2> QED
    BY <1>2, <2>1, <2>2 DEF Nodes
<1>5. \A v \in Nodes(t) : \A s \in Sides : t.child[s][v] # z
  <2> SUFFICES ASSUME NEW v \in Nodes(t), NEW s \in Sides, t.child[s][v] = z PROVE FALSE
    OBVIOUS
  <2>1. t.parent[z] = v
    BY <1>2 DEF Linked
  <2> QED
    BY <1>2, <2>1 DEF Nodes
<1> QED
  BY <1>1, <1>3, <1>4, <1>5

(* What free writes.                                                       *)
FreedFrom(m, r, z) ==
  /\ r \in Trees /\ r.root = m.root
  /\ r.record = [m.record EXCEPT ![z] = NULL] /\ r.nodeCount = m.nodeCount - 1
  /\ \A j \in Keys : r.parent[j] = IF j = z THEN NULL ELSE m.parent[j]
  /\ \A u \in Sides : \A j \in Keys :
       r.child[u][j] = IF j = z THEN NULL ELSE m.child[u][j]

LEMMA FreedWrites ==
  ASSUME NEW m \in Trees, m.nodeCount # 0, NEW z \in Keys
  PROVE  FreedFrom(m, Freed(m, z), z)
<1> DEFINE child == [u \in Sides |-> [m.child[u] EXCEPT ![z] = NULL]]
           parent == [m.parent EXCEPT ![z] = NULL]
           record == [m.record EXCEPT ![z] = NULL]
           r == Freed(m, z)
<1>1. r = [m EXCEPT !.child = child, !.parent = parent, !.record = record,
                    !.nodeCount = @ - 1]
  BY DEF Freed, Trees
<1>2. /\ child \in [Sides -> [Keys -> Pointers]]
      /\ \A u \in Sides : \A j \in Keys :
           child[u][j] = IF j = z THEN NULL ELSE m.child[u][j]
  BY DEF Trees, Sides, Pointers
<1>3. /\ parent \in [Keys -> Pointers] /\ record \in [Keys -> Records \cup {NULL}]
      /\ \A j \in Keys : parent[j] = IF j = z THEN NULL ELSE m.parent[j]
  BY DEF Trees, Pointers
<1>4. m.nodeCount - 1 \in Nat /\ m.root \in Pointers
  BY DEF Trees
<1> HIDE DEF child, parent, r
<1>5. r \in Trees
  BY <1>1, <1>2, <1>3, <1>4 DEF Trees
<1>6. /\ r.root = m.root /\ r.nodeCount = m.nodeCount - 1 /\ r.record = record
      /\ r.child = child /\ r.parent = parent
  BY <1>1 DEF Trees
<1> QED
  BY <1>2, <1>3, <1>5, <1>6 DEF r, FreedFrom

(* The root goes and its only child takes its place: no subtree changes.   *)
LEMMA RootRemovedKeeps ==
  ASSUME NEW t \in Trees, Linked(t), NEW D, Subtrees(t, D), t.nodeCount # 0,
         NEW z \in Nodes(t), t.parent[z] = NULL, ~HasBoth(t, z)
  PROVE  LET r == Freed(Replace(t, z, OnlyChild(t, z)), z) IN
         /\ Sound(r) /\ Nodes(r) = Nodes(t) \ {z}
         /\ r.record = [t.record EXCEPT ![z] = NULL] /\ r.nodeCount = t.nodeCount - 1
<1> DEFINE c == OnlyChild(t, z)
           N == Nodes(t)
           r == Freed(Replace(t, z, c), z)
<1>1. N \subseteq Keys /\ NULL \notin Keys /\ z \in Keys /\ z \in N
  BY KeysAssumption DEF Nodes
<1>2. PICK s \in Sides : t.child[Opp(s)][z] = NULL /\ c = t.child[s][z]
  BY DEF HasBoth, OnlyChild, Sides, Opp
<1>3. c \in Pointers /\ (c # NULL => c \in N /\ c # z /\ t.parent[c] = z)
  <2>1. c # NULL => c \in N /\ c # z /\ t.parent[c] = z
    BY <1>1, <1>2, Family
  <2> QED
    BY <1>1, <2>1 DEF Pointers
<1> HIDE DEF c
<1>4. /\ t.root = z /\ D[z] = N
      /\ \A v \in N \ {z} : t.parent[v] # NULL
      /\ \A v \in N \ {z} : z \notin D[v]
      /\ \A v \in N : \A u \in Sides : t.child[u][v] # z
  BY RootAlone
<1>5. /\ r \in Trees /\ r.root = c
      /\ r.record = [t.record EXCEPT ![z] = NULL] /\ r.nodeCount = t.nodeCount - 1
      /\ \A j \in Keys : r.parent[j] = IF j = z \/ j = c THEN NULL ELSE t.parent[j]
      /\ \A u \in Sides : \A j \in Keys :
           r.child[u][j] = IF j = z THEN NULL ELSE t.child[u][j]
  <2> DEFINE f == Put(t.parent, c, NULL)
             m == Replace(t, z, c)
  <2>1. m = [t EXCEPT !.root = c, !.parent = f]
    BY <1>1 DEF Replace, Relink, Trees
  <2>2. f \in [Keys -> Pointers] /\ \A j \in Keys : f[j] = IF j = c THEN NULL ELSE t.parent[j]
    BY <1>1, <1>3 DEF Put, Trees, Pointers
  <2>3. /\ m \in Trees /\ m.root = c /\ m.parent = f /\ m.child = t.child
        /\ m.record = t.record /\ m.nodeCount = t.nodeCount
    BY <1>3, <2>1, <2>2 DEF Trees
  <2>4. r = Freed(m, z)
    OBVIOUS
  <2> HIDE DEF f, m, r
  <2>5. FreedFrom(m, r, z)
    BY <1>1, <2>3, <2>4, FreedWrites
  <2> QED
    BY <2>2, <2>3, <2>5 DEF FreedFrom
<1> HIDE DEF r
<1>6. Nodes(r) = N \ {z}
  BY <1>1, <1>5 DEF Nodes, Trees
<1>7. N = {z} \cup Under(t, D, s, z)
  <2>1. D[z] = {z} \cup Under(t, D, s, z) \cup Under(t, D, Opp(s), z)
    BY <1>1 DEF Subtrees, Sides, Opp
  <2> QED
    BY <1>2, <1>4, <2>1 DEF Under
<1>8. Under(t, D, s, z) = IF c = NULL THEN {} ELSE D[c]
  BY <1>2 DEF Under
<1>9. \A j \in N \ {z} : j = c \/ t.parent[j] # z
  <2> SUFFICES ASSUME NEW j \in N \ {z}, t.parent[j] = z PROVE j = c
    OBVIOUS
  <2>1. PICK u \in Sides : t.child[u][z] = j
    BY <1>1 DEF Linked
  <2> QED
    BY <1>1, <1>2, <2>1, SideFacts
<1>10. Linked(r)
  <2>1. ASSUME NEW j \in N \ {z}, NEW u \in Sides, r.child[u][j] # NULL
        PROVE  r.child[u][j] \in N \ {z} /\ r.parent[r.child[u][j]] = j
    <3>1. r.child[u][j] = t.child[u][j]
      BY <1>1, <1>5
    <3>2. t.child[u][j] \in N /\ t.parent[t.child[u][j]] = j
      BY <2>1, <3>1 DEF Linked
    <3> QED
      BY <1>1, <1>3, <1>4, <1>5, <2>1, <3>1, <3>2
  <2>2. ASSUME NEW j \in N \ {z}
        PROVE  r.parent[j] = NULL <=> r.root = j
    BY <1>1, <1>4, <1>5
  <2>3. ASSUME NEW j \in N \ {z}, r.parent[j] # NULL
        PROVE  r.parent[j] \in N \ {z} /\ \E u \in Sides : r.child[u][r.parent[j]] = j
    <3>1. r.parent[j] = t.parent[j] /\ j # c
      BY <1>1, <1>5, <2>3
    <3>2. t.parent[j] \in N \ {z}
      BY <1>9, <2>3, <3>1 DEF Linked
    <3>3. PICK u \in Sides : t.child[u][t.parent[j]] = j
      BY <2>3, <3>1 DEF Linked
    <3> QED
      BY <1>1, <1>5, <3>1, <3>2, <3>3
  <2>4. IF N \ {z} = {} THEN r.root = NULL ELSE r.root \in N \ {z}
    BY <1>1, <1>3, <1>5, <1>7, <1>8
  <2> QED
    BY <1>6, <2>1, <2>2, <2>3, <2>4 DEF Linked
<1>11. Subtrees(r, D)
  <2>1. \A v \in N \ {z} : \A u \in Sides : Under(r, D, u, v) = Under(t, D, u, v)
    BY <1>1, <1>5 DEF Under
  <2>2. ASSUME NEW v \in N \ {z}
        PROVE  /\ D[v] = {v} \cup Under(r, D, "left", v) \cup Under(r, D, "right", v)
               /\ \A u \in Sides : \A j \in Under(r, D, u, v) : Less(u, j, v)
    BY <2>1 DEF Subtrees, Sides
  <2>3. ASSUME NEW v \in N \ {z}, NEW j \in D[v]
        PROVE  /\ j \in N \ {z} /\ (j # v => r.parent[j] \in D[v])
               /\ \A u \in Sides : r.child[u][j] # NULL => r.child[u][j] \in D[v]
    <3>1. /\ j \in N /\ (j # v => t.parent[j] \in D[v])
          /\ \A u \in Sides : t.child[u][j] # NULL => t.child[u][j] \in D[v]
      BY DEF Subtrees
    <3>2. j # z /\ (j # v => t.parent[j] # z)
      BY <1>4, <3>1
    <3> QED
      BY <1>1, <1>3, <1>5, <3>1, <3>2
  <2>4. r.root # NULL => D[r.root] = N \ {z}
    <3>1. c # NULL => z \notin D[c]
      BY <1>3, <1>4
    <3> QED
      BY <1>5, <1>7, <1>8, <3>1
  <2>5. D \in [Keys -> SUBSET Keys]
    BY DEF Subtrees
  <2> QED
    BY <1>6, <2>2, <2>3, <2>4, <2>5 DEF Subtrees
<1> QED
  BY <1>5, <1>6, <1>10, <1>11 DEF Sound, r, c

(* What replace writes, at the root and below it.                          *)
LEMMA ReplaceRootWrites ==
  ASSUME NEW m \in Trees, NEW u \in Keys, m.parent[u] = NULL, NEW v \in Keys
  PROVE  LET r == Replace(m, u, v) IN
         /\ r \in Trees /\ r.root = v /\ r.record = m.record /\ r.nodeCount = m.nodeCount
         /\ r.child = m.child
         /\ \A j \in Keys : r.parent[j] = IF j = v THEN NULL ELSE m.parent[j]
<1> DEFINE r == Replace(m, u, v)
           f == [m.parent EXCEPT ![v] = NULL]
<1>1. r = [m EXCEPT !.root = v, !.parent = f]
  BY KeysAssumption DEF Replace, Relink, Trees, Put
<1>2. f \in [Keys -> Pointers] /\ \A j \in Keys : f[j] = IF j = v THEN NULL ELSE m.parent[j]
  BY DEF Trees, Pointers
<1>3. v \in Pointers
  BY DEF Pointers
<1> HIDE DEF r, f
<1>4. /\ r.root = v /\ r.record = m.record /\ r.nodeCount = m.nodeCount
      /\ r.child = m.child /\ r.parent = f
  BY <1>1 DEF Trees
<1>5. r \in Trees
  BY <1>1, <1>2, <1>3 DEF Trees
<1> QED
  BY <1>2, <1>4, <1>5 DEF r

LEMMA ReplaceBelowWrites ==
  ASSUME NEW t \in Trees, Linked(t), NEW D, Subtrees(t, D),
         NEW y \in Nodes(t), t.parent[y] # NULL, NEW v \in Pointers
  PROVE  LET r == Replace(t, y, v) IN
         /\ r \in Trees /\ r.root = t.root /\ r.record = t.record /\ r.nodeCount = t.nodeCount
         /\ \A j \in Keys : r.parent[j] = IF j = v THEN t.parent[y] ELSE t.parent[j]
         /\ \A s \in Sides : \A j \in Keys :
              r.child[s][j] = IF j = t.parent[y] /\ t.child[s][j] = y THEN v ELSE t.child[s][j]
<1> DEFINE r == Replace(t, y, v)
           q == t.parent[y]
           side == SideOf(t, y)
           f == Put(t.parent, v, q)
           g == [t.child EXCEPT ![side][q] = v]
<1>1. /\ side \in Sides /\ q \in Nodes(t) /\ q # y
      /\ t.child[side][q] = y /\ t.child[Opp(side)][q] # y
  BY HangsOn
<1>2. q \in Keys /\ NULL \notin Keys /\ q \in Pointers
  BY <1>1, KeysAssumption DEF Nodes, Pointers
<1>3. r = [t EXCEPT !.child = g, !.parent = f]
  BY DEF Replace, Relink, Trees
<1>4. f \in [Keys -> Pointers] /\ \A j \in Keys : f[j] = IF j = v THEN q ELSE t.parent[j]
  BY <1>2 DEF Trees, Put, Pointers
<1> HIDE DEF side, q, r, f
<1>5. /\ g \in [Sides -> [Keys -> Pointers]]
      /\ \A s \in Sides : \A j \in Keys :
           g[s][j] = IF s = side /\ j = q THEN v ELSE t.child[s][j]
  BY <1>1, <1>2 DEF Trees
<1>6. \A s \in Sides : s = side <=> t.child[s][q] = y
  BY <1>1, SideFacts
<1> HIDE DEF g
<1>7. /\ r.root = t.root /\ r.record = t.record /\ r.nodeCount = t.nodeCount
      /\ r.child = g /\ r.parent = f
  BY <1>3 DEF Trees
<1>8. r \in Trees
  BY <1>3, <1>4, <1>5 DEF Trees
<1>9. \A s \in Sides : \A j \in Keys :
        r.child[s][j] = IF j = q /\ t.child[s][j] = y THEN v ELSE t.child[s][j]
  BY <1>5, <1>6, <1>7
<1> QED
  BY <1>4, <1>7, <1>8, <1>9 DEF r, q

(* What a tree is after y, the smallest node on the right of the root z,   *)
(* has taken its place.                                                    *)
Placed(t, r, z, y) ==
  LET l     == t.child["left"][z]
      right == t.child["right"][z]
      low   == t.child["right"][y]
      q     == t.parent[y]
  IN  /\ r \in Trees /\ r.root = y
      /\ r.record = [t.record EXCEPT ![z] = NULL] /\ r.nodeCount = t.nodeCount - 1
      /\ \A j \in Keys :
           r.parent[j] = IF j = z \/ j = y THEN NULL
                         ELSE IF j = l \/ j = right THEN y
                         ELSE IF j = low /\ q # z THEN q ELSE t.parent[j]
      /\ \A u \in Sides : \A j \in Keys :
           r.child[u][j] = IF j = z THEN NULL
                           ELSE IF j = y THEN IF u = "left" THEN l
                                              ELSE IF q = z THEN low ELSE right
                           ELSE IF j = q /\ t.child[u][j] = y THEN low
                           ELSE t.child[u][j]

LEMMA PlaceWrites ==
  ASSUME NEW t \in Trees, Linked(t), NEW D, Subtrees(t, D), t.nodeCount # 0,
         NEW z \in Nodes(t), t.parent[z] = NULL, HasBoth(t, z),
         NEW y \in D[t.child["right"][z]], t.child["left"][y] = NULL
  PROVE  /\ Placed(t, Freed(InPlaceOf(t, z, y), z), z, y)
         /\ y \in Nodes(t) /\ y # z /\ t.parent[y] \in Nodes(t) /\ t.parent[y] # y
         /\ t.child["left"][z] # y /\ (t.child["right"][y] # NULL => t.parent[t.child["right"][y]] = y)
<1> DEFINE l     == t.child["left"][z]
           right == t.child["right"][z]
           low   == t.child["right"][y]
           q     == t.parent[y]
           N     == Nodes(t)
<1>1. N \subseteq Keys /\ NULL \notin Keys /\ z \in N /\ z \in Keys
  BY KeysAssumption DEF Nodes
<1>2. /\ l \in N /\ right \in N /\ t.parent[l] = z /\ t.parent[right] = z
      /\ l # right /\ l # z /\ right # z /\ D[right] \subseteq D[z] /\ z \notin D[right]
      /\ "left" \in Sides /\ "right" \in Sides
  BY Family DEF HasBoth, Sides, Opp
<1>3. y \in N /\ y \in Keys /\ y # z
  BY <1>1, <1>2 DEF Subtrees
<1>4. q \in N /\ q # NULL /\ q # y /\ q \in Keys
  <2>1. q # NULL
    BY <1>3, RootAlone
  <2> QED
    BY <1>1, <1>3, <2>1, HangsOn
<1>5. y # l
  <2>1. Less("right", y, z)
    <3>1. D[right] = Under(t, D, "right", z)
      BY <1>1, <1>2 DEF Under
    <3> QED
      BY <1>2, <3>1 DEF Subtrees
  <2>2. l \in D[l]
    BY <1>2 DEF Subtrees
  <2>3. Less("left", l, z)
    BY <1>1, <1>2, <2>2 DEF Subtrees, Under
  <2> QED
    BY <1>1, <1>3, <2>1, <2>3, SideFacts DEF Opp
<1>6. low # NULL => low \in N /\ t.parent[low] = y /\ low # y
  BY <1>2, <1>3, Family
<1>7. low \in Pointers
  BY <1>2, <1>3 DEF Trees
<1>8. low # NULL => low # z /\ low # right /\ low # l
  BY <1>1, <1>2, <1>3, <1>4, <1>6
<1> DEFINE out == Replace(t, y, low)
           t1  == IF q = z THEN t
                  ELSE [out EXCEPT !.child["right"][y] = out.child["right"][z],
                                   !.parent[out.child["right"][z]] = y]
           t2  == Replace(t1, z, y)
           t3  == [t2 EXCEPT !.child["left"][y] = t2.child["left"][z],
                             !.parent[t2.child["left"][z]] = y]
<1>9. InPlaceOf(t, z, y) = t3
  BY DEF InPlaceOf
<1> HIDE DEF l, right, low, q, N, t2, t3
<1>10. /\ t1 \in Trees /\ t1.root = t.root /\ t1.record = t.record /\ t1.nodeCount = t.nodeCount
       /\ \A j \in Keys : t1.parent[j] = IF q = z THEN t.parent[j] ELSE IF j = right THEN y
                                          ELSE IF j = low THEN q ELSE t.parent[j]
       /\ \A u \in Sides : \A j \in Keys :
            t1.child[u][j] = IF q = z THEN t.child[u][j]
                             ELSE IF j = y THEN IF u = "left" THEN t.child[u][j] ELSE right
                             ELSE IF j = q /\ t.child[u][j] = y THEN low ELSE t.child[u][j]
  <2>1. CASE q = z
    BY <2>1
  <2>2. CASE q # z
    <3>1. /\ out \in Trees /\ out.root = t.root /\ out.record = t.record /\ out.nodeCount = t.nodeCount
          /\ \A j \in Keys : out.parent[j] = IF j = low THEN q ELSE t.parent[j]
          /\ \A s \in Sides : \A j \in Keys :
               out.child[s][j] = IF j = q /\ t.child[s][j] = y THEN low ELSE t.child[s][j]
      BY <1>3, <1>4, <1>7, ReplaceBelowWrites DEF q, N
    <3>2. out.child["right"][z] = right
      BY <1>1, <1>2, <2>2, <3>1 DEF right
    <3>3. t1 = [out EXCEPT !.child["right"][y] = right, !.parent[right] = y]
      BY <2>2, <3>2
    <3> DEFINE g == [out.child EXCEPT !["right"][y] = right]
               f == [out.parent EXCEPT ![right] = y]
    <3> HIDE DEF out, t1
    <3>4. t1 = [out EXCEPT !.child = g, !.parent = f]
      BY <3>1, <3>3 DEF Trees
    <3>5. right \in Keys /\ right \in Pointers /\ y \in Pointers
      BY <1>1, <1>2, <1>3 DEF Pointers
    <3>6. /\ g \in [Sides -> [Keys -> Pointers]]
          /\ \A u \in Sides : \A j \in Keys :
               g[u][j] = IF u = "right" /\ j = y THEN right ELSE out.child[u][j]
      BY <1>2, <1>3, <3>1, <3>5 DEF Trees
    <3>7. /\ f \in [Keys -> Pointers]
          /\ \A j \in Keys : f[j] = IF j = right THEN y ELSE out.parent[j]
      BY <3>1, <3>5 DEF Trees
    <3> HIDE DEF f, g
    <3>8. /\ t1.root = out.root /\ t1.record = out.record /\ t1.nodeCount = out.nodeCount
          /\ t1.child = g /\ t1.parent = f
      BY <3>1, <3>4 DEF Trees
    <3>9. t1 \in Trees
      BY <3>1, <3>4, <3>6, <3>7 DEF Trees
    <3>10. \A j \in Keys : t1.parent[j] = IF j = right THEN y ELSE IF j = low THEN q ELSE t.parent[j]
      BY <3>1, <3>7, <3>8
    <3>11. \A u \in Sides : \A j \in Keys :
            t1.child[u][j] = IF j = y THEN IF u = "left" THEN t.child[u][j] ELSE right
                             ELSE IF j = q /\ t.child[u][j] = y THEN low ELSE t.child[u][j]
      BY <1>4, <3>1, <3>6, <3>8 DEF Sides
    <3> QED
      BY <2>2, <3>1, <3>8, <3>9, <3>10, <3>11
  <2> QED
    BY <2>1, <2>2
<1> HIDE DEF t1
<1>11. t1.parent[z] = NULL
  BY <1>1, <1>2, <1>8, <1>10
<1>12. /\ t2 \in Trees /\ t2.root = y /\ t2.record = t1.record /\ t2.nodeCount = t1.nodeCount
       /\ t2.child = t1.child
       /\ \A j \in Keys : t2.parent[j] = IF j = y THEN NULL ELSE t1.parent[j]
  BY <1>1, <1>3, <1>10, <1>11, ReplaceRootWrites DEF t2
<1>13. t2.child["left"][z] = l
  BY <1>1, <1>2, <1>3, <1>10, <1>12 DEF l
<1>14. /\ t3 \in Trees /\ t3.root = y /\ t3.record = t.record /\ t3.nodeCount = t.nodeCount
       /\ \A j \in Keys : t3.parent[j] = IF j = l THEN y ELSE t2.parent[j]
       /\ \A u \in Sides : \A j \in Keys :
            t3.child[u][j] = IF u = "left" /\ j = y THEN l ELSE t1.child[u][j]
  <2> DEFINE g == [t2.child EXCEPT !["left"][y] = l]
             f == [t2.parent EXCEPT ![l] = y]
  <2>1. t3 = [t2 EXCEPT !.child = g, !.parent = f]
    BY <1>12, <1>13 DEF Trees, t3
  <2>2. l \in Keys /\ l \in Pointers /\ y \in Pointers
    BY <1>1, <1>2, <1>3 DEF Pointers
  <2>3. /\ g \in [Sides -> [Keys -> Pointers]]
        /\ \A u \in Sides : \A j \in Keys :
             g[u][j] = IF u = "left" /\ j = y THEN l ELSE t1.child[u][j]
    BY <1>2, <1>3, <1>12, <2>2 DEF Trees
  <2>4. /\ f \in [Keys -> Pointers]
        /\ \A j \in Keys : f[j] = IF j = l THEN y ELSE t2.parent[j]
    BY <1>12, <2>2 DEF Trees
  <2> HIDE DEF f, g
  <2>5. /\ t3.root = t2.root /\ t3.record = t2.record /\ t3.nodeCount = t2.nodeCount
        /\ t3.child = g /\ t3.parent = f
    BY <1>12, <2>1 DEF Trees
  <2>6. t3 \in Trees
    BY <1>12, <2>1, <2>3, <2>4 DEF Trees
  <2> QED
    BY <1>10, <1>12, <2>3, <2>4, <2>5, <2>6
<1> DEFINE r == Freed(t3, z)
<1>15. FreedFrom(t3, r, z)
  BY <1>1, <1>14, FreedWrites
<1> HIDE DEF r
<1>16. \A j \in Keys :
         r.parent[j] = IF j = z \/ j = y THEN NULL
                       ELSE IF j = l \/ j = right THEN y
                       ELSE IF j = low /\ q # z THEN q ELSE t.parent[j]
  <2>1. q = z => right = y
    <3>1. \E u \in Sides : t.child[u][q] = y
      BY <1>3, <1>4 DEF Linked, N, q
    <3> QED
      BY <1>5, <3>1 DEF Sides, l, right
  <2> QED
    BY <1>2, <1>3, <1>5, <1>10, <1>12, <1>14, <1>15, <2>1 DEF FreedFrom
<1>17. \A u \in Sides : \A j \in Keys :
         r.child[u][j] = IF j = z THEN NULL
                         ELSE IF j = y THEN IF u = "left" THEN l
                                            ELSE IF q = z THEN low ELSE right
                         ELSE IF j = q /\ t.child[u][j] = y THEN low
                         ELSE t.child[u][j]
  <2>1. \A u \in Sides : u = "left" \/ u = "right"
    BY DEF Sides
  <2> QED
    BY <1>10, <1>14, <1>15, <2>1 DEF FreedFrom, low
<1>18. Placed(t, r, z, y)
  BY <1>14, <1>15, <1>16, <1>17 DEF Placed, FreedFrom, l, right, low, q
<1> QED
  BY <1>3, <1>4, <1>5, <1>6, <1>9, <1>18 DEF r, l, low, q, N

LEMMA PlaceKeeps ==
  ASSUME NEW t \in Trees, Linked(t), NEW D, Subtrees(t, D), t.nodeCount # 0,
         NEW z \in Nodes(t), t.parent[z] = NULL, HasBoth(t, z),
         NEW y \in D[t.child["right"][z]], t.child["left"][y] = NULL,
         \A j \in D[t.child["right"][z]] : j \in D[y] \/ j > y
  PROVE  LET r == Freed(InPlaceOf(t, z, y), z) IN
         /\ Sound(r) /\ Nodes(r) = Nodes(t) \ {z}
         /\ r.record = [t.record EXCEPT ![z] = NULL] /\ r.nodeCount = t.nodeCount - 1
<1> DEFINE l     == t.child["left"][z]
           right == t.child["right"][z]
           low   == t.child["right"][y]
           q     == t.parent[y]
           N     == Nodes(t)
           r     == Freed(InPlaceOf(t, z, y), z)
           E     == [v \in Keys |-> IF v = y THEN N \ {z} ELSE D[v] \ {y}]
<1>1. N \subseteq Keys /\ NULL \notin Keys /\ z \in N /\ z \in Keys
  BY KeysAssumption DEF Nodes
<1>2. /\ Placed(t, r, z, y)
      /\ y \in N /\ y # z /\ y \in Keys /\ q \in N /\ q # y /\ q # NULL /\ l # y
      /\ low # NULL => t.parent[low] = y
  BY <1>1, PlaceWrites
<1>3. \A v \in N : \A u \in Sides : t.child[u][v] # NULL =>
        /\ t.child[u][v] \in N /\ t.parent[t.child[u][v]] = v /\ t.child[u][v] # v
        /\ D[t.child[u][v]] = Under(t, D, u, v) /\ Under(t, D, u, v) \subseteq D[v]
        /\ t.child[u][v] \in D[t.child[u][v]] /\ v \notin D[t.child[u][v]]
  <2> SUFFICES ASSUME NEW v \in N, NEW u \in Sides, t.child[u][v] # NULL
               PROVE  /\ t.child[u][v] \in N /\ t.parent[t.child[u][v]] = v /\ t.child[u][v] # v
                      /\ D[t.child[u][v]] = Under(t, D, u, v) /\ Under(t, D, u, v) \subseteq D[v]
                      /\ t.child[u][v] \in D[t.child[u][v]] /\ v \notin D[t.child[u][v]]
    OBVIOUS
  <2>1. /\ t.child[u][v] \in N /\ t.parent[t.child[u][v]] = v /\ D[t.child[u][v]] \subseteq D[v]
        /\ t.child[u][v] # v /\ t.child[u][v] \in D[t.child[u][v]] /\ v \notin D[t.child[u][v]]
    BY Family
  <2> QED
    BY <2>1 DEF Under
<1>4. /\ D \in [Keys -> SUBSET Keys]
      /\ \A v \in N : \A u \in Sides :
           /\ D[v] = {v} \cup Under(t, D, u, v) \cup Under(t, D, Opp(u), v)
           /\ \A j \in Under(t, D, u, v) : Less(u, j, v)
      /\ \A v \in N : \A j \in D[v] :
           /\ j \in N /\ (j # v => t.parent[j] \in D[v])
           /\ \A u \in Sides : t.child[u][j] # NULL => t.child[u][j] \in D[v]
  BY DEF Subtrees, Sides, Opp
<1>5. /\ D[z] = N
      /\ \A v \in N \ {z} : t.parent[v] # NULL
      /\ \A v \in N \ {z} : z \notin D[v]
      /\ \A v \in N : \A u \in Sides : t.child[u][v] # z
  BY RootAlone
<1>6. /\ r \in Trees /\ r.root = y
      /\ r.record = [t.record EXCEPT ![z] = NULL] /\ r.nodeCount = t.nodeCount - 1
      /\ \A j \in Keys :
           r.parent[j] = IF j = z \/ j = y THEN NULL
                         ELSE IF j = l \/ j = right THEN y
                         ELSE IF j = low /\ q # z THEN q ELSE t.parent[j]
      /\ \A u \in Sides : \A j \in Keys :
           r.child[u][j] = IF j = z THEN NULL
                           ELSE IF j = y THEN IF u = "left" THEN l
                                              ELSE IF q = z THEN low ELSE right
                           ELSE IF j = q /\ t.child[u][j] = y THEN low
                           ELSE t.child[u][j]
  BY <1>2 DEF Placed
<1>7. /\ "left" \in Sides /\ "right" \in Sides /\ Opp("left") = "right" /\ Opp("right") = "left"
      /\ \A u \in Sides : u = "left" \/ u = "right"
  BY DEF Sides, Opp
<1>8. /\ l \in N \ {z} /\ right \in N \ {z} /\ t.parent[l] = z /\ t.parent[right] = z
      /\ D[l] = Under(t, D, "left", z) /\ D[right] = Under(t, D, "right", z)
      /\ N = {z} \cup D[l] \cup D[right] /\ z \notin D[l] /\ z \notin D[right]
  <2>1. l # NULL /\ right # NULL
    BY DEF HasBoth
  <2> QED
    BY <1>1, <1>3, <1>4, <1>5, <1>7, <2>1
<1>9. low # NULL => low \in N /\ low # y /\ low # z /\ y \notin D[low]
  BY <1>2, <1>3, <1>5, <1>7
<1>10. y \in D[right] /\ t.child["left"][y] = NULL
  OBVIOUS
<1>11. \A j \in N \ {z} : t.parent[j] = z => j = l \/ j = right
  <2> SUFFICES ASSUME NEW j \in N \ {z}, t.parent[j] = z PROVE j = l \/ j = right
    OBVIOUS
  <2>1. \E u \in Sides : t.child[u][z] = j
    BY <1>1 DEF Linked
  <2> QED
    BY <1>7, <2>1
<1>12. q = z <=> y = right
  BY <1>2, <1>8, <1>11
<1>13. \A j \in N : t.parent[j] = y => j = low
  <2> SUFFICES ASSUME NEW j \in N, t.parent[j] = y PROVE j = low
    OBVIOUS
  <2>1. \E u \in Sides : t.child[u][y] = j
    BY <1>1, <1>2 DEF Linked
  <2> QED
    BY <1>1, <1>7, <1>10, <2>1
<1>14. \A j \in D[right] \ {y} : Less("right", j, y)
  <2> SUFFICES ASSUME NEW j \in D[right] \ {y} PROVE Less("right", j, y)
    OBVIOUS
  <2>1. CASE j \in D[y]
    <3>1. D[y] = {y} \cup Under(t, D, "right", y) \cup Under(t, D, "left", y)
      BY <1>2, <1>4, <1>7
    <3>2. Under(t, D, "left", y) = {}
      BY <1>10 DEF Under
    <3> QED
      BY <1>2, <1>4, <1>7, <2>1, <3>1, <3>2
  <2>2. CASE j > y
    BY <2>2 DEF Less
  <2> QED
    BY <2>1, <2>2
<1>15. \A j \in D[l] : Less("left", j, y)
  <2>1. Less("left", z, y)
    BY <1>1, <1>2, <1>4, <1>7, <1>8, <1>10, SideFacts
  <2>2. \A j \in D[l] : Less("left", j, z) /\ j \in Keys
    BY <1>1, <1>4, <1>7, <1>8
  <2> QED
    BY <1>1, <1>2, <1>7, <2>1, <2>2, SideFacts
<1> HIDE DEF l, right, low, q, N, r, E
<1>16. Nodes(r) = N \ {z}
  BY <1>1, <1>6 DEF Nodes, Trees, N
<1>17. Linked(r)
  <2>1. /\ l \in N /\ l # z /\ l # y /\ right \in N /\ right # z /\ y \in N /\ y # z
        /\ t.parent[l] = z /\ t.parent[right] = z
        /\ low # NULL => low # l /\ low # right
    BY <1>2, <1>8
  <2>2. ASSUME NEW j \in N \ {z}, NEW u \in Sides, r.child[u][j] # NULL
        PROVE  r.child[u][j] \in N \ {z} /\ r.parent[r.child[u][j]] = j
    <3>1. CASE j = y
      BY <1>1, <1>2, <1>6, <1>7, <1>9, <1>12, <2>1, <2>2, <3>1
    <3>2. CASE j = q /\ t.child[u][j] = y /\ j # y
      <4>1. r.child[u][j] = low
        BY <1>1, <1>6, <3>2
      <4>2. low \in N \ {z} /\ low # y /\ low # l /\ low # right
        BY <1>9, <2>1, <2>2, <4>1
      <4> QED
        BY <1>1, <1>6, <3>2, <4>1, <4>2
    <3>3. CASE j # y /\ ~(j = q /\ t.child[u][j] = y)
      <4>1. r.child[u][j] = t.child[u][j]
        BY <1>1, <1>6, <3>3
      <4>2. t.child[u][j] \in N /\ t.parent[t.child[u][j]] = j /\ t.child[u][j] # z
        BY <1>3, <1>5, <2>2, <4>1
      <4>3. t.child[u][j] # y
        BY <3>3, <4>2 DEF q
      <4>4. t.child[u][j] # l /\ t.child[u][j] # right
        BY <2>1, <4>2
      <4>5. t.child[u][j] # low
        BY <1>2, <2>2, <3>3, <4>1, <4>2
      <4> QED
        BY <1>1, <1>6, <4>1, <4>2, <4>3, <4>4, <4>5
    <3> QED
      BY <3>1, <3>2, <3>3
  <2>3. ASSUME NEW j \in N \ {z}
        PROVE  r.parent[j] = NULL <=> r.root = j
    BY <1>1, <1>2, <1>5, <1>6
  <2>4. ASSUME NEW j \in N \ {z}, r.parent[j] # NULL
        PROVE  r.parent[j] \in N \ {z} /\ \E u \in Sides : r.child[u][r.parent[j]] = j
    <3>1. j \in Keys /\ j # y
      BY <1>1, <1>6, <2>4
    <3>2. CASE j = l \/ j = right
      <4>1. r.parent[j] = y
        BY <1>6, <3>1, <3>2
      <4>2. j = right => q # z
        BY <1>12, <3>1
      <4>3. r.child["left"][y] = l /\ (j = right => r.child["right"][y] = right)
        BY <1>2, <1>6, <1>7, <4>2
      <4> QED
        BY <1>7, <2>1, <3>2, <4>1, <4>3
    <3>3. CASE j = low /\ q # z /\ j # l /\ j # right
      <4>1. r.parent[j] = q
        BY <1>6, <3>1, <3>3, <2>4
      <4>2. PICK u \in Sides : t.child[u][q] = y
        BY <1>1, <1>2 DEF Linked, N, q
      <4>3. r.child[u][q] = j
        BY <1>1, <1>2, <1>6, <3>3, <4>2
      <4> QED
        BY <1>2, <3>3, <4>1, <4>3
    <3>4. CASE j # l /\ j # right /\ ~(j = low /\ q # z)
      <4> DEFINE p == t.parent[j]
      <4>1. r.parent[j] = p
        BY <1>6, <3>1, <3>4, <2>4
      <4>2. p \in N /\ p # z
        BY <1>11, <2>4, <3>4, <4>1 DEF Linked, N
      <4>3. PICK u \in Sides : t.child[u][p] = j
        BY <2>4, <4>1 DEF Linked, N
      <4>4. p = y => j = low /\ q = z /\ u = "right"
        BY <1>1, <1>7, <1>10, <1>13, <2>4, <3>4, <4>3
      <4> HIDE DEF p
      <4>5. r.child[u][p] = j
        BY <1>1, <1>6, <1>7, <3>1, <4>2, <4>3, <4>4
      <4> QED
        BY <4>1, <4>2, <4>5
    <3> QED
      BY <3>2, <3>3, <3>4
  <2>5. r.root \in N \ {z}
    BY <1>2, <1>6
  <2> QED
    BY <1>16, <2>2, <2>3, <2>4, <2>5 DEF Linked
<1>18. Subtrees(r, E)
  <2>1. /\ E \in [Keys -> SUBSET Keys] /\ E[y] = N \ {z}
        /\ \A v \in Keys \ {y} : E[v] = D[v] \ {y}
    BY <1>1, <1>2, <1>4 DEF E
  <2>2. ASSUME NEW v \in N \ {z}, v # y, NEW u \in Sides
        PROVE  Under(r, E, u, v) = Under(t, D, u, v) \ {y}
    <3>1. CASE v = q /\ t.child[u][v] = y
      <4>1. r.child[u][v] = low
        BY <1>1, <1>6, <2>2, <3>1
      <4>2. Under(t, D, u, v) = D[y]
        BY <1>1, <1>2, <3>1 DEF Under
      <4>3. D[y] = {y} \cup Under(t, D, "left", y) \cup Under(t, D, "right", y)
        BY <1>2, <1>4, <1>7
      <4>4. Under(t, D, "left", y) = {} /\ Under(t, D, "right", y) = IF low = NULL THEN {} ELSE D[low]
        BY <1>10 DEF Under, low
      <4>5. Under(r, E, u, v) = IF low = NULL THEN {} ELSE D[low] \ {y}
        BY <1>1, <1>9, <2>1, <4>1 DEF Under
      <4> QED
        BY <4>2, <4>3, <4>4, <4>5
    <3>2. CASE ~(v = q /\ t.child[u][v] = y)
      <4>1. r.child[u][v] = t.child[u][v]
        BY <1>1, <1>6, <2>2, <3>2
      <4>2. t.child[u][v] # NULL => t.child[u][v] \in Keys /\ t.child[u][v] # y
        BY <1>1, <1>3, <3>2 DEF q
      <4> QED
        BY <2>1, <4>1, <4>2 DEF Under
    <3> QED
      BY <3>1, <3>2
  <2>3. /\ Under(r, E, "left", y) = D[l]
        /\ Under(r, E, "right", y) = D[right] \ {y}
    <3>1. y \notin D[l]
      BY <1>2, <1>7, <1>15, SideFacts
    <3>2. /\ r.child["left"][y] = l /\ r.child["right"][y] = IF q = z THEN low ELSE right
          /\ l \in Keys /\ l # y /\ l # NULL
      BY <1>1, <1>2, <1>6, <1>7, <1>8
    <3>3. Under(r, E, "left", y) = D[l]
      <4>1. Under(r, E, "left", y) = E[l]
        BY <3>2 DEF Under
      <4>2. l \in Keys \ {y, z} => E[l] = D[l] \ {y}
        BY <2>1
      <4>3. l # z
        BY <1>8
      <4> QED
        BY <3>1, <3>2, <4>1, <4>2, <4>3
    <3>4. CASE q = z
      <4>1. D[right] = {y} \cup Under(t, D, "left", y) \cup Under(t, D, "right", y)
        BY <1>2, <1>4, <1>7, <1>12, <3>4
      <4>2. Under(t, D, "left", y) = {} /\ Under(t, D, "right", y) = IF low = NULL THEN {} ELSE D[low]
        BY <1>10 DEF Under, low
      <4>3. Under(r, E, "right", y) = IF low = NULL THEN {} ELSE D[low] \ {y}
        BY <1>1, <1>9, <2>1, <3>2, <3>4 DEF Under
      <4>4. low # NULL => y \notin D[low]
        BY <1>9
      <4> QED
        BY <3>3, <4>1, <4>2, <4>3, <4>4
    <3>5. CASE q # z
      <4>1. right \in Keys /\ right # y /\ right # NULL
        BY <1>1, <1>8, <1>12, <3>5
      <4> QED
        BY <2>1, <3>2, <3>3, <3>5, <4>1 DEF Under
    <3> QED
      BY <3>4, <3>5
  <2>4. ASSUME NEW v \in N \ {z}
        PROVE  /\ E[v] = {v} \cup Under(r, E, "left", v) \cup Under(r, E, "right", v)
               /\ \A u \in Sides : \A j \in Under(r, E, u, v) : Less(u, j, v)
    <3>1. CASE v = y
      <4>1. y \notin D[l]
        BY <1>2, <1>7, <1>15, SideFacts
      <4>2. E[y] = {y} \cup D[l] \cup (D[right] \ {y})
        BY <1>8, <1>10, <2>1, <4>1, <1>2
      <4> QED
        BY <1>7, <1>14, <1>15, <2>3, <3>1, <4>2
    <3>2. CASE v # y
      <4>1. D[v] = {v} \cup Under(t, D, "left", v) \cup Under(t, D, "right", v)
        BY <1>4, <1>7
      <4>2. /\ Under(r, E, "left", v) = Under(t, D, "left", v) \ {y}
            /\ Under(r, E, "right", v) = Under(t, D, "right", v) \ {y}
        BY <1>7, <2>2, <3>2
      <4>3. E[v] = D[v] \ {y}
        BY <1>1, <2>1, <3>2
      <4>4. \A u \in Sides : \A j \in Under(r, E, u, v) : Less(u, j, v)
        BY <1>4, <2>2, <3>2
      <4> QED
        BY <3>2, <4>1, <4>2, <4>3, <4>4
    <3> QED
      BY <3>1, <3>2
  <2>5. ASSUME NEW v \in N \ {z}, NEW j \in E[v]
        PROVE  /\ j \in N \ {z} /\ (j # v => r.parent[j] \in E[v])
               /\ \A u \in Sides : r.child[u][j] # NULL => r.child[u][j] \in E[v]
    <3>1. CASE v = y
      <4>1. j \in N \ {z} /\ E[v] = N \ {z}
        BY <2>1, <2>5, <3>1
      <4>2. \A u \in Sides : r.child[u][j] # NULL => r.child[u][j] \in N \ {z}
        BY <1>16, <1>17, <4>1 DEF Linked
      <4>3. j # y => r.parent[j] \in N \ {z}
        BY <1>6, <1>16, <1>17, <4>1 DEF Linked
      <4> QED
        BY <3>1, <4>1, <4>2, <4>3
    <3>2. CASE v # y
      <4>1. E[v] = D[v] \ {y} /\ j \in D[v] /\ j # y /\ j \in N /\ j \in Keys
        BY <1>1, <1>4, <2>1, <2>5, <3>2
      <4>2. z \notin D[v]
        BY <1>5
      <4>3. /\ j # v => t.parent[j] \in D[v]
            /\ \A u \in Sides : t.child[u][j] # NULL => t.child[u][j] \in D[v]
        BY <1>4, <4>1
      <4>4. y \in D[v] => q \in D[v] /\ (low # NULL => low \in D[v])
        BY <1>4, <1>7, <3>2 DEF q, low
      <4>5. j # v => r.parent[j] \in D[v] \ {y}
        <5> SUFFICES ASSUME j # v PROVE r.parent[j] \in D[v] \ {y}
          OBVIOUS
        <5>1. j # z /\ j # l /\ j # right
          BY <1>8, <4>1, <4>2, <4>3
        <5>2. t.parent[j] = y => j = low /\ q \in D[v]
          BY <1>13, <4>1, <4>3, <4>4
        <5>3. CASE j = low
          <6>1. t.parent[j] = y
            BY <1>1, <1>2, <4>1, <5>3
          <6>2. q \in D[v]
            BY <5>2, <6>1
          <6> QED
            BY <1>2, <1>6, <4>1, <4>2, <5>1, <5>3, <6>2
        <5>4. CASE j # low
          BY <1>6, <4>1, <4>3, <5>1, <5>2, <5>4
        <5> QED
          BY <5>3, <5>4
      <4>6. ASSUME NEW u \in Sides, r.child[u][j] # NULL
            PROVE  r.child[u][j] \in D[v] \ {y}
        <5>1. j # z
          BY <4>1, <4>2
        <5>2. CASE j = q /\ t.child[u][j] = y
          <6>1. r.child[u][j] = low /\ y \in D[v]
            BY <1>1, <1>2, <1>6, <4>1, <4>3, <5>1, <5>2
          <6> QED
            BY <1>9, <4>4, <4>6, <6>1
        <5>3. CASE ~(j = q /\ t.child[u][j] = y)
          <6>1. r.child[u][j] = t.child[u][j]
            BY <1>6, <4>1, <5>1, <5>3
          <6>2. t.child[u][j] # y
            BY <1>1, <1>3, <4>1, <4>6, <5>3, <6>1 DEF q
          <6> QED
            BY <4>3, <4>6, <6>1, <6>2
        <5> QED
          BY <5>2, <5>3
      <4> QED
        BY <4>1, <4>2, <4>5, <4>6
    <3> QED
      BY <3>1, <3>2
  <2>6. E[r.root] = N \ {z}
    BY <1>6, <2>1
  <2> QED
    BY <1>16, <2>1, <2>4, <2>5, <2>6 DEF Subtrees
<1> QED
  BY <1>6, <1>16, <1>17, <1>18 DEF Sound, r, N
----------------------------------------------------------------------------
(* The way down knows that the key is below it, if it is anywhere, ...     *)
Way(D) ==
  phase = "search" =>
    /\ at # NULL => at \in Nodes(tree)
    /\ call.key \in Nodes(tree) => at # NULL /\ call.key \in D[at]

(* ... an insertion that its key belongs below from, on this side of every *)
(* node above, ...                                                         *)
InsertWay(D) ==
  phase = "search" /\ call.op = "insert" =>
    IF from = NULL THEN at = tree.root
    ELSE /\ from \in Nodes(tree) /\ from # call.key
         /\ at = tree.child[Toward(call.key, from)][from]
         /\ \A v \in Nodes(tree) : \A s \in Sides :
              from \in Under(tree, D, s, v) => Less(s, call.key, v)

(* ... and the search for the nearest key that all it has left out are      *)
(* below the one it keeps, or above the key.                               *)
NearestWay(D) ==
  phase = "search" /\ call.op = "nearest" =>
    /\ from # NULL => from \in Nodes(tree) /\ from < call.key
    /\ \A j \in Nodes(tree) :
         j <= call.key => (from # NULL /\ j <= from) \/ (at # NULL /\ j \in D[at])

Rising ==
  phase = "splay" =>
    /\ call.key \in Nodes(tree) /\ call.op \in {"insert", "remove"}
    /\ call.op = "insert" => tree.record[call.key] = call.record

(* subtree_minimum has left nothing smaller behind.                        *)
Lowest(D) ==
  phase = "minimum" =>
    /\ call.op = "remove" /\ tree.root = call.key
    /\ call.key \in Nodes(tree) /\ HasBoth(tree, call.key)
    /\ at \in Under(tree, D, "right", call.key)
    /\ \A j \in Under(tree, D, "right", call.key) : j \in D[at] \/ j > at

Counted ==
  /\ IsFiniteSet(Nodes(tree))
  /\ tree.nodeCount = Cardinality(Nodes(tree) \ Uncounted)

Searched(D) ==
  Subtrees(tree, D) /\ Way(D) /\ InsertWay(D) /\ NearestWay(D) /\ Lowest(D)

IInv == TypeOK /\ Linked(tree) /\ Counted /\ Rising /\ \E D : Searched(D)

LEMMA CallFacts ==
  ASSUME call \in Calls
  PROVE  /\ call.key \in Keys /\ call.op \in {"find", "nearest", "remove", "insert"}
         /\ call.op = "insert" => call.record \in Records
         /\ call.op # "insert" => call.record = NULL
  BY DEF Calls

(* A call that returns leaves the invariant, if the tree is sound.         *)
LEMMA Returned ==
  ASSUME Sound(tree'), phase' = "idle", call' \in Calls, at' = NULL, from' = NULL,
         answer' \in Records \cup {NULL}, IsFiniteSet(Nodes(tree')),
         tree'.nodeCount = Cardinality(Nodes(tree'))
  PROVE  IInv'
<1>1. TypeOK'
  BY DEF TypeOK, Sound, Pointers
<1>2. Linked(tree') /\ Rising'
  BY DEF Sound, Rising
<1>3. Counted'
  <2>1. Uncounted' = {}
    BY DEF Uncounted
  <2> QED
    BY <2>1 DEF Counted, Nodes
<1>4. PICK D : Subtrees(tree', D)
  BY DEF Sound
<1>5. Searched(D)'
  BY <1>4 DEF Searched, Way, InsertWay, NearestWay, Lowest
<1> QED
  BY <1>1, <1>2, <1>3, <1>5 DEF IInv

LEMMA AskStep ==
  ASSUME IInv, NEW c \in Calls, Ask(c)
  PROVE  IInv'
<1>1. PICK D : Searched(D)
  BY DEF IInv
<1>2. /\ tree' = tree /\ phase' = "search" /\ call' = c
      /\ at' = tree.root /\ from' = NULL /\ answer' = NULL /\ phase = "idle"
  BY DEF Ask
<1>3. TypeOK'
  <2>1. tree \in Trees
    BY DEF IInv, TypeOK
  <2>2. tree.root \in Pointers
    BY <2>1 DEF Trees
  <2> QED
    BY <1>2, <2>1, <2>2 DEF TypeOK, Pointers
<1>4. Linked(tree') /\ Subtrees(tree', D) /\ Rising' /\ Lowest(D)' /\ InsertWay(D)'
  BY <1>1, <1>2 DEF IInv, Rising, Lowest, Searched, InsertWay
<1>5. Counted'
  BY <1>2 DEF IInv, Counted, Uncounted, Nodes
<1>6. /\ tree.root # NULL => tree.root \in Nodes(tree)
      /\ \A j \in Nodes(tree) : tree.root # NULL /\ j \in D[tree.root]
  <2>1. Linked(tree) /\ (tree.root # NULL => D[tree.root] = Nodes(tree))
    BY <1>1 DEF IInv, Searched, Subtrees
  <2>2. Nodes(tree) # {} => tree.root # NULL
    BY <2>1, KeysAssumption DEF Linked, Nodes
  <2> QED
    BY <2>1, <2>2 DEF Linked
<1>7. Way(D)' /\ NearestWay(D)'
  BY <1>2, <1>6 DEF Way, NearestWay
<1> QED
  BY <1>3, <1>4, <1>5, <1>7 DEF IInv, Searched

(* The root is in no subtree but its own.                                  *)
LEMMA RootAbove ==
  ASSUME NEW t \in Trees, Linked(t), NEW D, Subtrees(t, D), t.root # NULL,
         NEW v \in Nodes(t), NEW s \in Sides
  PROVE  t.root \notin Under(t, D, s, v)
<1>1. t.root \in Nodes(t) /\ t.parent[t.root] = NULL
  BY KeysAssumption DEF Linked
<1>2. \A w \in Nodes(t) \ {t.root} : t.root \notin D[w]
  BY <1>1, RootAlone
<1>3. t.child[s][v] # NULL => t.child[s][v] \in Nodes(t) \ {t.root}
  BY <1>1, KeysAssumption DEF Linked, Nodes
<1> QED
  BY <1>2, <1>3 DEF Under

(* The way down: where the key can be, one level below.                    *)
LEMMA Below ==
  ASSUME NEW t \in Trees, Linked(t), NEW D, Subtrees(t, D),
         NEW v \in Nodes(t), NEW k \in Keys, k # v
  PROVE  LET w == t.child[Toward(k, v)][v] IN
         /\ Toward(k, v) \in Sides
         /\ w # NULL => w \in Nodes(t) /\ t.parent[w] = v
         /\ k \in D[v] => w # NULL /\ k \in D[w]
         /\ \A j \in D[v] : j # v => \/ w # NULL /\ j \in D[w]
                                     \/ Less(Opp(Toward(k, v)), j, v)
<1> DEFINE s == Toward(k, v)
           w == t.child[s][v]
<1>1. v \in Keys /\ s \in Sides /\ Less(s, k, v) /\ Opp(s) \in Sides
  BY SideFacts DEF Nodes
<1>2. w # NULL => w \in Nodes(t) /\ t.parent[w] = v
  BY <1>1 DEF Linked
<1>3. D[v] = {v} \cup Under(t, D, s, v) \cup Under(t, D, Opp(s), v)
  BY <1>1 DEF Subtrees, Sides, Opp
<1>4. \A j \in Under(t, D, Opp(s), v) : Less(Opp(s), j, v)
  BY <1>1 DEF Subtrees
<1>5. k \notin Under(t, D, Opp(s), v)
  BY <1>1, <1>4, SideFacts
<1>6. \A j \in Under(t, D, s, v) : w # NULL /\ j \in D[w]
  BY DEF Under
<1> HIDE DEF s, w
<1>7. k \in D[v] => w # NULL /\ k \in D[w]
  BY <1>3, <1>5, <1>6
<1>8. \A j \in D[v] : j # v => (w # NULL /\ j \in D[w]) \/ Less(Opp(s), j, v)
  BY <1>3, <1>4, <1>6
<1> QED
  BY <1>1, <1>2, <1>7, <1>8 DEF s, w

LEMMA DescendInsertWay ==
  ASSUME TypeOK, Linked(tree), NEW D, Searched(D), Descend, call.op = "insert"
  PROVE  InsertWay(D)'
<1> DEFINE k == call.key
           N == Nodes(tree)
           s0 == Toward(k, at)
<1>1. /\ tree \in Trees /\ Subtrees(tree, D) /\ Way(D) /\ InsertWay(D)
      /\ call \in Calls /\ phase = "search"
  BY DEF TypeOK, Searched, Descend
<1>2. k \in Keys /\ NULL \notin Keys /\ N \subseteq Keys
  BY <1>1, CallFacts, KeysAssumption DEF Nodes
<1>3. at \in N /\ at # k /\ at \in Keys
  BY <1>1, <1>2 DEF Way, Descend
<1>4. /\ tree' = tree /\ call' = call /\ phase' = "search"
      /\ at' = tree.child[s0][at] /\ from' = at
  BY DEF Descend
<1>5. \A v \in N : \A s \in Sides : at \in Under(tree, D, s, v) => Less(s, k, v)
  <2> SUFFICES ASSUME NEW v \in N, NEW s \in Sides, at \in Under(tree, D, s, v)
               PROVE  Less(s, k, v)
    OBVIOUS
  <2>1. from # NULL
    <3>1. from = NULL => at = tree.root
      BY <1>1 DEF InsertWay
    <3> QED
      BY <1>1, <1>2, <1>3, <3>1, RootAbove
  <2>2. /\ from \in N /\ from # k /\ at = tree.child[Toward(k, from)][from]
        /\ from \in Under(tree, D, s, v) => Less(s, k, v)
    BY <1>1, <2>1 DEF InsertWay
  <2>3. /\ from \in Keys /\ v \in Keys
        /\ Toward(k, from) \in Sides /\ Less(Toward(k, from), k, from)
    BY <1>2, <2>2, SideFacts
  <2>4. tree.parent[at] = from
    BY <1>2, <1>3, <2>2, <2>3 DEF Linked
  <2>5. CASE v = from
    <3>1. Less(s, at, from)
      BY <1>1, <2>5 DEF Subtrees
    <3>2. Less(Toward(k, from), at, from)
      <4>1. tree.child[Toward(k, from)][from] # NULL
        BY <1>2, <1>3, <2>2
      <4> QED
        BY <1>1, <2>2, <2>3, <4>1, Family
    <3>3. s = Toward(k, from)
      BY <1>3, <2>3, <3>1, <3>2, SideFacts
    <3> QED
      BY <2>3, <2>5, <3>3
  <2>6. CASE v # from
    <3> DEFINE w == tree.child[s][v]
    <3>1. w # NULL /\ at \in D[w] /\ Under(tree, D, s, v) = D[w]
      BY DEF Under
    <3>2. w \in N /\ tree.parent[w] = v
      BY <3>1 DEF Linked
    <3>3. at # w
      BY <2>4, <2>6, <3>2
    <3>4. from \in D[w]
      BY <1>1, <2>4, <3>1, <3>2, <3>3 DEF Subtrees
    <3> QED
      BY <2>2, <3>1, <3>4
  <2> QED
    BY <2>5, <2>6
<1>6. at # NULL
  BY <1>2, <1>3
<1> HIDE DEF N, k
<1> QED
  BY <1>3, <1>4, <1>5, <1>6 DEF InsertWay, N, k

LEMMA DescendNearestWay ==
  ASSUME TypeOK, Linked(tree), NEW D, Searched(D), Descend, call.op = "nearest"
  PROVE  NearestWay(D)'
<1> DEFINE k == call.key
           N == Nodes(tree)
           w == tree.child[Toward(k, at)][at]
<1>1. /\ tree \in Trees /\ Subtrees(tree, D) /\ Way(D) /\ NearestWay(D)
      /\ call \in Calls /\ phase = "search"
  BY DEF TypeOK, Searched, Descend
<1>2. k \in Keys /\ NULL \notin Keys /\ N \subseteq Keys /\ Keys \subseteq Int
  BY <1>1, CallFacts, KeysAssumption DEF Nodes
<1>3. at \in N /\ at # k /\ at \in Keys /\ at # NULL
  BY <1>1, <1>2 DEF Way, Descend
<1>4. /\ tree' = tree /\ call' = call /\ at' = w
      /\ from' = IF k > at /\ (from = NULL \/ from < at) THEN at ELSE from
  BY DEF Descend
<1>5. from # NULL => from \in N /\ from \in Keys /\ from < k
  BY <1>1, <1>2 DEF NearestWay
<1>6. /\ from' # NULL => from' \in N /\ from' < k
      /\ from # NULL => from' # NULL /\ from <= from'
      /\ k > at => from' # NULL /\ at <= from'
  <2>1. k \in Int /\ at \in Int /\ (from # NULL => from \in Int)
    BY <1>2, <1>3, <1>5
  <2> HIDE DEF k, N
  <2>2. CASE k > at /\ (from = NULL \/ from < at)
    BY <1>3, <1>4, <2>1, <2>2
  <2>3. CASE ~(k > at /\ (from = NULL \/ from < at))
    BY <1>3, <1>4, <1>5, <2>1, <2>3
  <2> QED
    BY <2>2, <2>3
<1>7. \A j \in N : j <= k => (from' # NULL /\ j <= from') \/ (w # NULL /\ j \in D[w])
  <2> SUFFICES ASSUME NEW j \in N, j <= k, ~(w # NULL /\ j \in D[w])
               PROVE  from' # NULL /\ j <= from'
    OBVIOUS
  <2>1. (from # NULL /\ j <= from) \/ j \in D[at]
    BY <1>1 DEF NearestWay
  <2>2. j \in Int /\ k \in Int /\ at \in Int /\ (from' # NULL => from' \in Int)
        /\ (from # NULL => from \in Int)
    BY <1>2, <1>3, <1>5, <1>6
  <2>3. CASE from # NULL /\ j <= from
    BY <1>6, <2>2, <2>3
  <2>4. CASE j \in D[at]
    <3>1. j = at \/ Less(Opp(Toward(k, at)), j, at)
      BY <1>1, <1>2, <1>3, <2>4, Below
    <3>2. k > at /\ j <= at
      BY <1>3, <2>2, <3>1 DEF Less, Opp, Toward
    <3> QED
      BY <1>6, <2>2, <3>2
  <2> QED
    BY <2>1, <2>3, <2>4
<1> HIDE DEF N, k, w
<1> QED
  BY <1>4, <1>6, <1>7 DEF NearestWay, N, k

LEMMA DescendStep ==
  ASSUME IInv, Descend
  PROVE  IInv'
<1>1. PICK D : Searched(D)
  BY DEF IInv
<1>2. /\ tree \in Trees /\ Linked(tree) /\ TypeOK /\ Subtrees(tree, D) /\ Way(D)
      /\ call \in Calls /\ phase = "search" /\ at # NULL /\ at # call.key
  BY <1>1 DEF IInv, Searched, TypeOK, Descend
<1>3. call.key \in Keys /\ at \in Nodes(tree) /\ NULL \notin Keys /\ at \in Keys
  BY <1>2, CallFacts, KeysAssumption DEF Way, Nodes
<1>4. /\ tree' = tree /\ call' = call /\ phase' = phase /\ answer' = answer
      /\ at' = tree.child[Toward(call.key, at)][at] /\ from' \in {at, from}
  BY DEF Descend
<1>5. /\ at' # NULL => at' \in Nodes(tree)
      /\ call.key \in D[at] => at' # NULL /\ call.key \in D[at']
  BY <1>2, <1>3, <1>4, Below
<1>6. TypeOK'
  <2>1. at' \in Pointers
    BY <1>5 DEF Nodes, Pointers
  <2> QED
    BY <1>2, <1>4, <2>1 DEF TypeOK
<1>7. Linked(tree') /\ Counted' /\ Rising' /\ Subtrees(tree', D)
  BY <1>2, <1>4 DEF IInv, Counted, Uncounted, Rising
<1>8. Way(D)' /\ Lowest(D)'
  BY <1>2, <1>4, <1>5 DEF Way, Lowest
<1>9. InsertWay(D)'
  BY <1>1, <1>2, <1>4, DescendInsertWay DEF InsertWay
<1>10. NearestWay(D)'
  BY <1>1, <1>2, <1>4, DescendNearestWay DEF NearestWay
<1> QED
  BY <1>6, <1>7, <1>8, <1>9, <1>10 DEF IInv, Searched

(* The steps that end the way down.                                        *)
LEMMA EndOfWay ==
  ASSUME TypeOK, NEW D, Searched(D), phase = "search"
  PROVE  /\ call.key \in Keys
         /\ at = call.key => call.key \in Nodes(tree)
         /\ at = NULL => call.key \notin Nodes(tree)
<1>1. call \in Calls /\ Way(D)
  BY DEF TypeOK, Searched
<1>2. call.key \in Keys /\ NULL \notin Keys
  BY <1>1, CallFacts, KeysAssumption
<1> QED
  BY <1>1, <1>2 DEF Way

(* Nothing but the answer changes in a call that only looks.               *)
LEMMA ReturnedAsItWas ==
  ASSUME IInv, phase = "search", tree' = tree, NEW a \in Records \cup {NULL}, Return(a)
  PROVE  IInv'
<1>1. Sound(tree') /\ call' \in Calls
  BY DEF IInv, TypeOK, Searched, Sound, Return
<1>2. IsFiniteSet(Nodes(tree')) /\ tree'.nodeCount = Cardinality(Nodes(tree'))
  <2>1. Uncounted = {}
    BY DEF Uncounted
  <2> QED
    BY <2>1 DEF IInv, Counted
<1> QED
  BY <1>1, <1>2, Returned DEF Return

LEMMA FindStep ==
  ASSUME IInv, Find
  PROVE  IInv'
<1>1. tree \in Trees /\ at \in Pointers
  BY DEF IInv, TypeOK
<1>2. Get(tree.record, at) \in Records \cup {NULL}
  BY <1>1 DEF Get, Trees, Pointers
<1> QED
  BY <1>2, ReturnedAsItWas DEF Find, Found, Missed

LEMMA FindNearestStep ==
  ASSUME IInv, FindNearest
  PROVE  IInv'
<1>1. tree \in Trees /\ at \in Pointers /\ from \in Pointers
  BY DEF IInv, TypeOK
<1>2. Nearest \in Records \cup {NULL}
  BY <1>1 DEF Nearest, Get, Trees, Pointers
<1> QED
  BY <1>2, ReturnedAsItWas DEF FindNearest, Found, Missed

LEMMA RemoveUnknownStep ==
  ASSUME IInv, RemoveUnknown
  PROVE  IInv'
  BY ReturnedAsItWas DEF RemoveUnknown, Missed

LEMMA InsertKnownStep ==
  ASSUME IInv, InsertKnown
  PROVE  IInv' /\ call.key \in Keys /\ tree'.record = [tree.record EXCEPT ![call.key] = call.record]
<1> DEFINE k == call.key
           record == [tree.record EXCEPT ![k] = call.record]
<1>1. PICK D : Searched(D)
  BY DEF IInv
<1>2. /\ tree \in Trees /\ Linked(tree) /\ TypeOK /\ Subtrees(tree, D) /\ Counted
      /\ call \in Calls /\ phase = "search" /\ call.op = "insert" /\ at = k
      /\ Return(NULL)
  BY <1>1 DEF IInv, Searched, TypeOK, InsertKnown, Found
<1>3. k \in Keys /\ k \in Nodes(tree) /\ call.record \in Records /\ NULL \notin Records
  BY <1>1, <1>2, EndOfWay, CallFacts, KeysAssumption
<1>4. tree' = [tree EXCEPT !.record = record]
  BY <1>2 DEF InsertKnown, Trees
<1>5. /\ record \in [Keys -> Records \cup {NULL}]
      /\ \A j \in Keys : record[j] # NULL <=> tree.record[j] # NULL
  BY <1>2, <1>3 DEF Trees, Nodes
<1> HIDE DEF record
<1>6. /\ tree' \in Trees /\ tree'.record = record
      /\ tree'.root = tree.root /\ tree'.nodeCount = tree.nodeCount
      /\ tree'.child = tree.child /\ tree'.parent = tree.parent
  BY <1>2, <1>4, <1>5 DEF Trees
<1>7. Nodes(tree') = Nodes(tree)
  BY <1>5, <1>6 DEF Nodes
<1>8. Linked(tree')
  BY <1>2, <1>6, <1>7 DEF Linked
<1>9. Subtrees(tree', D)
  BY <1>2, <1>6, <1>7 DEF Subtrees, Under
<1>10. IsFiniteSet(Nodes(tree')) /\ tree'.nodeCount = Cardinality(Nodes(tree'))
  <2>1. Uncounted = {}
    BY <1>2 DEF Uncounted
  <2> QED
    BY <1>2, <1>6, <1>7, <2>1 DEF Counted
<1>11. IInv'
  <2>1. Sound(tree')
    BY <1>6, <1>8, <1>9 DEF Sound
  <2> QED
    BY <1>2, <1>10, <2>1, Returned DEF Return
<1> QED
  BY <1>3, <1>6, <1>11 DEF record

(* A call in the loop of splay, before and after a turn or on entry.       *)
LEMMA Rises ==
  ASSUME Sound(tree'), phase' = "splay", call' \in Calls, at' \in Pointers,
         from' \in Pointers, answer' \in Records \cup {NULL}, Rising', Counted'
  PROVE  IInv'
<1>1. TypeOK'
  BY DEF TypeOK, Sound
<1>2. PICK D : Subtrees(tree', D)
  BY DEF Sound
<1>3. Searched(D)'
  BY <1>2 DEF Searched, Way, InsertWay, NearestWay, Lowest
<1> QED
  BY <1>1, <1>3 DEF IInv, Sound

LEMMA InsertLeafStep ==
  ASSUME IInv, InsertLeaf
  PROVE  /\ IInv' /\ call.key \in Keys \ Nodes(tree)
         /\ tree'.record = [tree.record EXCEPT ![call.key] = call.record]
<1> DEFINE k == call.key
<1>1. PICK D : Searched(D)
  BY DEF IInv
<1>2. /\ tree \in Trees /\ Linked(tree) /\ TypeOK /\ Subtrees(tree, D) /\ Counted
      /\ call \in Calls /\ phase = "search" /\ call.op = "insert" /\ at = NULL
      /\ InsertWay(D) /\ from \in Pointers /\ answer \in Records \cup {NULL}
  BY <1>1 DEF IInv, Searched, TypeOK, InsertLeaf, Missed
<1>3. k \in Keys \ Nodes(tree) /\ call.record \in Records /\ NULL \notin Records
  BY <1>1, <1>2, EndOfWay, CallFacts, KeysAssumption
<1>4. /\ tree' = WithLeaf(tree, k, from, call.record)
      /\ phase' = "splay" /\ at' = k /\ call' = call /\ from' = from /\ answer' = answer
  BY DEF InsertLeaf
<1>5. IF from = NULL THEN tree.root = NULL
      ELSE /\ from \in Nodes(tree) /\ tree.child[Toward(k, from)][from] = NULL
           /\ \A v \in Nodes(tree) : \A s \in Sides :
                from \in Under(tree, D, s, v) => Less(s, k, v)
  BY <1>2 DEF InsertWay
<1>6. /\ Sound(tree') /\ Nodes(tree') = Nodes(tree) \cup {k}
      /\ tree'.record = [tree.record EXCEPT ![k] = call.record]
      /\ tree'.nodeCount = tree.nodeCount
  BY <1>2, <1>3, <1>4, <1>5, LeafKeeps
<1>7. tree'.record[k] = call.record
  BY <1>2, <1>3, <1>6 DEF Trees
<1>8. Rising'
  BY <1>2, <1>4, <1>6, <1>7 DEF Rising
<1>9. Counted'
  <2>1. Uncounted = {} /\ Uncounted' = {k}
    BY <1>2, <1>4 DEF Uncounted
  <2>2. IsFiniteSet(Nodes(tree')) /\ Nodes(tree') \ {k} = Nodes(tree)
    BY <1>2, <1>3, <1>6, FS_AddElement DEF Counted
  <2> QED
    BY <1>2, <1>6, <2>1, <2>2 DEF Counted, Nodes
<1>10. IInv'
  <2>1. at' \in Pointers
    BY <1>3, <1>4 DEF Pointers
  <2> QED
    BY <1>2, <1>4, <1>6, <1>8, <1>9, <2>1, Rises
<1> QED
  BY <1>3, <1>6, <1>10

LEMMA RemoveFoundStep ==
  ASSUME IInv, RemoveFound
  PROVE  IInv'
<1>1. PICK D : Searched(D)
  BY DEF IInv
<1>2. /\ TypeOK /\ phase = "search" /\ call.op = "remove" /\ at = call.key
      /\ tree' = tree /\ phase' = "splay" /\ call' = call
      /\ at' = at /\ from' = from /\ answer' = answer
  BY DEF IInv, RemoveFound, Found
<1>3. call.key \in Nodes(tree)
  BY <1>1, <1>2, EndOfWay
<1>4. Sound(tree')
  BY <1>1, <1>2 DEF IInv, TypeOK, Sound, Searched
<1>5. Rising'
  BY <1>2, <1>3 DEF Rising
<1>6. Counted'
  <2>1. Uncounted = {} /\ Uncounted' = {}
    BY <1>2 DEF Uncounted
  <2> QED
    BY <1>2, <2>1 DEF IInv, Counted, Nodes
<1> QED
  BY <1>2, <1>4, <1>5, <1>6, Rises DEF TypeOK

LEMMA SplayStep ==
  ASSUME IInv, Splay
  PROVE  IInv' /\ tree'.record = tree.record
<1> DEFINE k == call.key
<1>1. PICK D : Searched(D)
  BY DEF IInv
<1>2. /\ TypeOK /\ phase = "splay" /\ tree.parent[k] # NULL
      /\ tree' = SplayTurn(tree, k) /\ phase' = "splay" /\ call' = call
      /\ at' = at /\ from' = from /\ answer' = answer
  BY DEF IInv, Splay
<1>3. k \in Nodes(tree) /\ Rising /\ Counted
  BY <1>2 DEF IInv, Rising
<1>4. Sound(tree)
  BY <1>1 DEF IInv, TypeOK, Sound, Searched
<1>5. Sound(tree') /\ tree'.record = tree.record /\ tree'.nodeCount = tree.nodeCount
  BY <1>2, <1>3, <1>4, SplayTurnKeeps
<1>6. Nodes(tree') = Nodes(tree)
  BY <1>5 DEF Nodes
<1>7. Rising'
  BY <1>2, <1>3, <1>5, <1>6 DEF Rising
<1>8. Counted'
  <2>1. Uncounted' = Uncounted
    BY <1>2 DEF Uncounted
  <2> QED
    BY <1>3, <1>5, <1>6, <2>1 DEF Counted, Nodes
<1>9. IInv'
  BY <1>2, <1>5, <1>7, <1>8, Rises DEF TypeOK
<1> QED
  BY <1>5, <1>9

LEMMA InsertDoneStep ==
  ASSUME IInv, InsertDone
  PROVE  /\ IInv' /\ call.key \in Keys /\ tree'.record = tree.record
         /\ tree.record[call.key] = call.record
<1> DEFINE k == call.key
<1>1. PICK D : Searched(D)
  BY DEF IInv
<1>2. /\ tree \in Trees /\ Linked(tree) /\ TypeOK /\ Subtrees(tree, D) /\ Counted
      /\ Rising /\ call \in Calls /\ phase = "splay" /\ call.op = "insert" /\ Return(NULL)
  BY <1>1 DEF IInv, Searched, TypeOK, InsertDone, Splayed
<1>3. k \in Nodes(tree) /\ k \in Keys /\ tree.record[k] = call.record
  BY <1>2 DEF Rising, Nodes
<1>4. /\ tree' \in Trees /\ tree'.record = tree.record
      /\ tree'.root = tree.root /\ tree'.nodeCount = tree.nodeCount + 1
      /\ tree'.child = tree.child /\ tree'.parent = tree.parent
  BY <1>2 DEF Trees, InsertDone
<1>5. Nodes(tree') = Nodes(tree)
  BY <1>4 DEF Nodes
<1>6. Linked(tree')
  BY <1>2, <1>4, <1>5 DEF Linked
<1>7. Subtrees(tree', D)
  BY <1>2, <1>4, <1>5 DEF Subtrees, Under
<1>8. IsFiniteSet(Nodes(tree')) /\ tree'.nodeCount = Cardinality(Nodes(tree'))
  <2>1. Uncounted = {k}
    BY <1>2 DEF Uncounted
  <2>2. Cardinality(Nodes(tree) \ {k}) = Cardinality(Nodes(tree)) - 1
    BY <1>2, <1>3, FS_RemoveElement DEF Counted
  <2>3. Cardinality(Nodes(tree)) \in Nat
    BY <1>2, FS_CardinalityType DEF Counted
  <2> QED
    BY <1>2, <1>4, <1>5, <2>1, <2>2, <2>3 DEF Counted
<1>9. Sound(tree')
  BY <1>4, <1>6, <1>7 DEF Sound
<1>10. IInv'
  BY <1>2, <1>8, <1>9, Returned DEF Return
<1> QED
  BY <1>3, <1>4, <1>10

(* What is left when the node of the key has been freed.                   *)
LEMMA RemovedStep ==
  ASSUME IInv, phase # "search", call.key \in Nodes(tree), call.op = "remove",
         phase # "idle", tree.nodeCount # 0 => Sound(tree'),
         tree.nodeCount # 0 =>
           /\ Nodes(tree') = Nodes(tree) \ {call.key}
           /\ tree'.record = [tree.record EXCEPT ![call.key] = NULL]
           /\ tree'.nodeCount = tree.nodeCount - 1,
         Return(tree.record[call.key])
  PROVE  /\ IInv' /\ call.key \in Keys
         /\ tree'.record = [tree.record EXCEPT ![call.key] = NULL]
<1> DEFINE k == call.key
<1>1. tree \in Trees /\ Counted /\ call \in Calls /\ k \in Keys
  BY DEF IInv, TypeOK, Nodes
<1>2. /\ IsFiniteSet(Nodes(tree)) /\ tree.nodeCount = Cardinality(Nodes(tree))
      /\ Cardinality(Nodes(tree)) \in Nat /\ Cardinality(Nodes(tree)) # 0
  <2>1. Uncounted = {}
    BY DEF Uncounted
  <2>2. IsFiniteSet(Nodes(tree)) /\ tree.nodeCount = Cardinality(Nodes(tree))
    BY <1>1, <2>1 DEF Counted
  <2> QED
    BY <2>2, FS_CardinalityType, FS_EmptySet
<1>3. /\ IsFiniteSet(Nodes(tree) \ {k})
      /\ Cardinality(Nodes(tree) \ {k}) = Cardinality(Nodes(tree)) - 1
  BY <1>2, FS_RemoveElement
<1>4. IsFiniteSet(Nodes(tree')) /\ tree'.nodeCount = Cardinality(Nodes(tree'))
  BY <1>2, <1>3
<1>5. tree.record[k] \in Records \cup {NULL}
  BY <1>1 DEF Trees
<1>6. IInv'
  BY <1>1, <1>2, <1>4, <1>5, Returned DEF Return
<1> QED
  BY <1>1, <1>2, <1>6

LEMMA RemoveRootStep ==
  ASSUME IInv, RemoveRoot
  PROVE  /\ IInv' /\ call.key \in Keys
         /\ tree'.record = [tree.record EXCEPT ![call.key] = NULL]
<1>1. PICK D : Searched(D)
  BY DEF IInv
<1>2. /\ tree \in Trees /\ Linked(tree) /\ Subtrees(tree, D)
      /\ phase = "splay" /\ call.op = "remove" /\ call.key \in Nodes(tree)
      /\ tree.parent[call.key] = NULL /\ ~HasBoth(tree, call.key)
  BY <1>1 DEF IInv, Searched, TypeOK, Rising, RemoveRoot, Splayed
<1>3. /\ tree' = Freed(Replace(tree, call.key, OnlyChild(tree, call.key)), call.key)
      /\ Return(tree.record[call.key])
  BY DEF RemoveRoot
<1>4. tree.nodeCount # 0 =>
        /\ Sound(tree') /\ Nodes(tree') = Nodes(tree) \ {call.key}
        /\ tree'.record = [tree.record EXCEPT ![call.key] = NULL]
        /\ tree'.nodeCount = tree.nodeCount - 1
  BY <1>2, <1>3, RootRemovedKeeps
<1> QED
  BY <1>2, <1>3, <1>4, RemovedStep

LEMMA TakePlaceStep ==
  ASSUME IInv, TakePlace
  PROVE  /\ IInv' /\ call.key \in Keys
         /\ tree'.record = [tree.record EXCEPT ![call.key] = NULL]
<1>1. PICK D : Searched(D)
  BY DEF IInv
<1>2. /\ tree \in Trees /\ Linked(tree) /\ Subtrees(tree, D) /\ Lowest(D)
      /\ phase = "minimum" /\ tree.child["left"][at] = NULL
  BY <1>1 DEF IInv, Searched, TypeOK, TakePlace
<1>3. /\ call.op = "remove" /\ tree.root = call.key
      /\ call.key \in Nodes(tree) /\ HasBoth(tree, call.key)
      /\ at \in D[tree.child["right"][call.key]]
      /\ \A j \in D[tree.child["right"][call.key]] : j \in D[at] \/ j > at
  BY <1>2 DEF Lowest, HasBoth, Under
<1>4. tree.parent[call.key] = NULL
  BY <1>2, <1>3 DEF Linked
<1>5. /\ tree' = Freed(InPlaceOf(tree, call.key, at), call.key)
      /\ Return(tree.record[call.key])
  BY DEF TakePlace
<1>6. tree.nodeCount # 0 =>
        /\ Sound(tree') /\ Nodes(tree') = Nodes(tree) \ {call.key}
        /\ tree'.record = [tree.record EXCEPT ![call.key] = NULL]
        /\ tree'.nodeCount = tree.nodeCount - 1
  BY <1>2, <1>3, <1>4, <1>5, PlaceKeeps
<1> QED
  BY <1>2, <1>3, <1>5, <1>6, RemovedStep

(* subtree_minimum: it begins at the right child of the root, ...          *)
LEMMA LookForMinimumStep ==
  ASSUME IInv, LookForMinimum
  PROVE  IInv'
<1> DEFINE k == call.key
           c == tree.child["right"][k]
<1>1. PICK D : Searched(D)
  BY DEF IInv
<1>2. /\ TypeOK /\ tree \in Trees /\ Linked(tree) /\ Subtrees(tree, D) /\ Counted
      /\ phase = "splay" /\ call.op = "remove" /\ k \in Nodes(tree)
      /\ tree.parent[k] = NULL /\ HasBoth(tree, k)
  BY <1>1 DEF IInv, Searched, TypeOK, Rising, LookForMinimum, Splayed
<1>3. /\ tree' = tree /\ call' = call /\ phase' = "minimum" /\ at' = c
      /\ from' = from /\ answer' = answer
  BY DEF LookForMinimum
<1>4. /\ c # NULL /\ c \in Nodes(tree) /\ c \in Keys /\ c \in D[c]
      /\ Under(tree, D, "right", k) = D[c]
  <2>1. "right" \in Sides /\ c # NULL
    BY <1>2 DEF Sides, HasBoth
  <2>2. c \in Nodes(tree) /\ c \in D[c]
    BY <1>2, <2>1, Family
  <2> QED
    BY <2>1, <2>2 DEF Under, Nodes
<1>5. tree.root = k
  BY <1>2 DEF Linked
<1> HIDE DEF c, k
<1>6. Lowest(D)'
  BY <1>2, <1>3, <1>4, <1>5 DEF Lowest, k
<1>7. TypeOK'
  BY <1>2, <1>3, <1>4 DEF TypeOK, Pointers
<1>8. Linked(tree') /\ Rising' /\ Counted'
  <2>1. Uncounted = {} /\ Uncounted' = {}
    BY <1>2, <1>3 DEF Uncounted
  <2> QED
    BY <1>2, <1>3, <2>1 DEF Rising, Counted, Nodes
<1>9. Searched(D)'
  BY <1>2, <1>3, <1>6 DEF Searched, Way, InsertWay, NearestWay
<1> QED
  BY <1>7, <1>8, <1>9 DEF IInv

(* ... and goes down to the left, which leaves only larger keys behind.    *)
LEMMA MinimumStep ==
  ASSUME IInv, Minimum
  PROVE  IInv'
<1> DEFINE k == call.key
           w == tree.child["left"][at]
           N == Nodes(tree)
<1>1. PICK D : Searched(D)
  BY DEF IInv
<1> DEFINE B == Under(tree, D, "right", k)
<1>2. /\ TypeOK /\ tree \in Trees /\ Linked(tree) /\ Subtrees(tree, D) /\ Counted
      /\ phase = "minimum" /\ w # NULL /\ Lowest(D)
  BY <1>1 DEF IInv, Searched, TypeOK, Minimum
<1>3. /\ tree' = tree /\ call' = call /\ phase' = phase /\ at' = w
      /\ from' = from /\ answer' = answer
  BY DEF Minimum
<1>4. /\ call.op = "remove" /\ tree.root = k /\ k \in N /\ HasBoth(tree, k)
      /\ at \in B /\ \A j \in B : j \in D[at] \/ j > at
  BY <1>2 DEF Lowest
<1>5. PICK c : B = D[c] /\ c \in N
  <2>1. B = D[tree.child["right"][k]] /\ tree.child["right"][k] # NULL
    BY <1>4 DEF HasBoth, Under
  <2> QED
    BY <1>2, <1>4, <2>1 DEF Linked, Sides
<1>6. N \subseteq Keys /\ Keys \subseteq Int /\ "left" \in Sides /\ Opp("left") = "right"
  BY KeysAssumption DEF Nodes, Sides, Opp
<1> HIDE DEF B, w, N
<1>7. \A j \in B : j \in N /\ j \in Int
  BY <1>2, <1>5, <1>6 DEF Subtrees, N
<1>8. at \in N /\ at \in Int /\ w \in B /\ w \in N
  <2>1. at \in N /\ at \in Int
    BY <1>4, <1>7
  <2>2. w \in B
    BY <1>2, <1>4, <1>5, <1>6 DEF Subtrees, N, w
  <2> QED
    BY <1>7, <2>1, <2>2
<1>9. w < at /\ w \in Int
  <2>1. Less("left", w, at)
    BY <1>2, <1>6, <1>8, Family DEF N, w
  <2> QED
    BY <1>7, <1>8, <2>1 DEF Less
<1>10. \A j \in D[at] : j = at \/ j \in D[w] \/ j > at
  <2>1. D[at] = {at} \cup Under(tree, D, "left", at) \cup Under(tree, D, "right", at)
    BY <1>2, <1>8 DEF Subtrees, N
  <2>2. \A j \in Under(tree, D, "right", at) : j > at
    <3>1. \A j \in Under(tree, D, "right", at) : Less("right", j, at)
      BY <1>2, <1>8 DEF Subtrees, N, Sides
    <3> QED
      BY <3>1 DEF Less
  <2>3. Under(tree, D, "left", at) = D[w]
    BY <1>2 DEF Under, w
  <2> QED
    BY <2>1, <2>2, <2>3
<1>11. \A j \in B : j \in D[w] \/ j > w
  <2> SUFFICES ASSUME NEW j \in B, j \notin D[w] PROVE j > w
    OBVIOUS
  <2>1. j = at \/ j > at
    BY <1>4, <1>10
  <2>2. j \in Int
    BY <1>7
  <2> QED
    BY <1>8, <1>9, <2>1, <2>2
<1>12. Lowest(D)'
  BY <1>2, <1>3, <1>4, <1>8, <1>11 DEF Lowest, B, N
<1>13. TypeOK'
  BY <1>2, <1>3, <1>6, <1>8 DEF TypeOK, Pointers
<1>14. Linked(tree') /\ Rising' /\ Counted'
  <2>1. Uncounted' = Uncounted
    BY <1>3 DEF Uncounted
  <2> QED
    BY <1>2, <1>3, <2>1 DEF Rising, Counted, Nodes
<1>15. Searched(D)'
  BY <1>2, <1>3, <1>12 DEF Searched, Way, InsertWay, NearestWay
<1> QED
  BY <1>13, <1>14, <1>15 DEF IInv
----------------------------------------------------------------------------
LEMMA InitHolds == Init => IInv
<1> SUFFICES ASSUME Init PROVE IInv
  OBVIOUS
<1>1. /\ tree.root = NULL /\ tree.nodeCount = 0
      /\ tree.record = [k \in Keys |-> NULL]
      /\ phase = "idle" /\ call = NULL /\ at = NULL /\ from = NULL /\ answer = NULL
  BY DEF Init
<1>2. TypeOK
  BY DEF Init, TypeOK, Trees, Pointers
<1>3. Nodes(tree) = {}
  BY <1>1 DEF Nodes
<1>4. Linked(tree)
  BY <1>1, <1>3 DEF Linked
<1>5. Counted /\ Rising
  BY <1>1, <1>3, FS_EmptySet DEF Counted, Rising
<1>6. Subtrees(tree, [k \in Keys |-> {}])
  BY <1>1, <1>3 DEF Subtrees
<1>7. Searched([k \in Keys |-> {}])
  BY <1>1, <1>6 DEF Searched, Way, InsertWay, NearestWay, Lowest
<1> QED
  BY <1>2, <1>4, <1>5, <1>7 DEF IInv

LEMMA NextKeeps == IInv /\ [Next]_vars => IInv'
<1> SUFFICES ASSUME IInv, [Next]_vars PROVE IInv'
  OBVIOUS
<1>1. CASE UNCHANGED vars
  <2>1. /\ TypeOK' = TypeOK /\ Linked(tree') = Linked(tree) /\ Counted' = Counted
        /\ Rising' = Rising
    BY <1>1 DEF vars, TypeOK, Counted, Uncounted, Nodes, Rising
  <2>2. \A D : Searched(D)' = Searched(D)
    BY <1>1 DEF vars, Searched, Way, InsertWay, NearestWay, Lowest, Subtrees, Under, Nodes, HasBoth
  <2> QED
    BY <2>1, <2>2 DEF IInv
<1>2. CASE \E c \in Calls : Ask(c)
  BY <1>2, AskStep
<1>3. CASE Step
  BY <1>3, DescendStep, FindStep, FindNearestStep, InsertKnownStep, InsertLeafStep,
     RemoveUnknownStep, RemoveFoundStep, SplayStep, InsertDoneStep, RemoveRootStep,
     LookForMinimumStep, MinimumStep, TakePlaceStep DEF Step
<1> QED
  BY <1>1, <1>2, <1>3 DEF Next

(* Between any two turns of a loop the tree is sound and the loop knows    *)
(* what it needs for its end.                                              *)
THEOREM Inductive == Spec => []IInv
  BY InitHolds, NextKeeps, PTL DEF Spec

(* Every pointer of the tree and of the call under way is NULL or the key  *)
(* of a node's place, and node_count never falls below zero: tree_remove   *)
(* counts down only what tree_insert has counted.                          *)
THEOREM TypeCorrect == Spec => []TypeOK
<1>1. IInv => TypeOK
  BY DEF IInv
<1> QED
  BY <1>1, Inductive, PTL

(* No sequence of calls leaves a link of the tree wrong, in any turn of a  *)
(* splay, nor counts a node twice.                                         *)
THEOREM LinksHold == Spec => []LinksAgree
<1>1. IInv => LinksAgree
  BY DEF IInv, Counted, LinksAgree
<1> QED
  BY <1>1, Inductive, PTL

(* What the search for the nearest key returns.                            *)
LEMMA NearestRight ==
  ASSUME IInv, Found("nearest") \/ Missed("nearest")
  PROVE  LET below == {n \in Nodes(tree) : n <= call.key}
         IN  IF below = {} THEN Nearest = NULL
             ELSE Nearest = tree.record[CHOOSE n \in below : \A m \in below : m <= n]
<1> DEFINE k == call.key
           below == {n \in Nodes(tree) : n <= k}
           top == CHOOSE n \in below : \A m \in below : m <= n
<1>1. PICK D : Searched(D)
  BY DEF IInv
<1>2. /\ TypeOK /\ phase = "search" /\ call.op = "nearest" /\ (at = k \/ at = NULL)
      /\ NearestWay(D)
  BY <1>1 DEF IInv, Searched, Found, Missed
<1>3. /\ k \in Keys /\ (at = k => k \in Nodes(tree)) /\ (at = NULL => k \notin Nodes(tree))
      /\ Nodes(tree) \subseteq Keys /\ Keys \subseteq Int /\ NULL \notin Keys
  BY <1>1, <1>2, EndOfWay, KeysAssumption DEF Nodes
<1>4. /\ from # NULL => from \in Nodes(tree) /\ from < k
      /\ \A j \in Nodes(tree) :
           j <= k => (from # NULL /\ j <= from) \/ (at # NULL /\ j \in D[at])
  BY <1>2 DEF NearestWay
<1> HIDE DEF k
<1>5. below \subseteq Int
  BY <1>3
<1>6. ASSUME NEW n \in below, \A m \in below : m <= n
      PROVE  top = n
  <2>1. top \in below /\ \A m \in below : m <= top
    BY <1>6
  <2>2. top <= n /\ n <= top /\ top \in Int /\ n \in Int
    BY <1>5, <1>6, <2>1
  <2> QED
    BY <2>2
<1>7. CASE at = k
  <2>1. k \in below /\ \A m \in below : m <= k
    BY <1>3, <1>7
  <2>2. top = k
    BY <1>6, <2>1
  <2>3. Nearest = tree.record[k]
    BY <1>3, <1>7 DEF Nearest, Get
  <2> QED
    BY <2>1, <2>2, <2>3 DEF k
<1>8. CASE at = NULL /\ from # NULL
  <2>1. from \in below
    <3>1. from \in Nodes(tree) /\ from < k /\ from \in Int /\ k \in Int
      BY <1>3, <1>4, <1>8 DEF k
    <3> QED
      BY <3>1
  <2>2. \A m \in below : m <= from
    BY <1>4, <1>8
  <2>3. top = from
    BY <1>6, <2>1, <2>2
  <2>4. Nearest = tree.record[from]
    BY <1>8 DEF Nearest, Get
  <2> QED
    BY <2>1, <2>3, <2>4 DEF k
<1>9. CASE at = NULL /\ from = NULL
  <2>1. below = {}
    BY <1>4, <1>9
  <2>2. Nearest = NULL
    BY <1>9 DEF Nearest, Get
  <2> QED
    BY <2>1, <2>2 DEF k
<1> QED
  BY <1>2, <1>7, <1>8, <1>9

(* tree_find_nearest answers with the largest key that is not above the    *)
(* one asked for, however the rotations before it have shaped the tree.    *)
THEOREM NearestHolds == Spec => []NearestFound
<1>1. IInv => NearestFound
  BY NearestRight DEF NearestFound
<1> QED
  BY <1>1, Inductive, PTL

(* No key is lost in the tree: the way down ends at the node of the key if *)
(* the tree has one, and at NULL otherwise.                                *)
THEOREM SearchFinds ==
  Spec => [](phase = "search" /\ at \in {NULL, call.key} =>
               (at = call.key <=> call.key \in Nodes(tree)))
<1>1. IInv => (phase = "search" /\ at \in {NULL, call.key} =>
                 (at = call.key <=> call.key \in Nodes(tree)))
  <2> SUFFICES ASSUME IInv, phase = "search", at \in {NULL, call.key}
               PROVE  at = call.key <=> call.key \in Nodes(tree)
    OBVIOUS
  <2>1. PICK D : Searched(D)
    BY DEF IInv
  <2>2. /\ call.key \in Keys
        /\ at = call.key => call.key \in Nodes(tree)
        /\ at = NULL => call.key \notin Nodes(tree)
    BY <2>1, EndOfWay DEF IInv
  <2> QED
    BY <2>2
<1> QED
  BY <1>1, Inductive, PTL
----------------------------------------------------------------------------
LEMMA FiledWhole ==
  ASSUME NEW t \in Trees
  PROVE  [k \in Keys |-> IF k \in {} THEN NULL ELSE t.record[k]] = t.record
  BY DEF Trees

(* Between calls, and in every call but an insertion's splay, all that is  *)
(* in the tree is filed.                                                   *)
LEMMA FiledFacts ==
  ASSUME IInv, phase # "splay" \/ call.op # "insert"
  PROVE  Filed = tree.record /\ tree.record \in [Keys -> Records \cup {NULL}]
<1>1. Uncounted = {} /\ tree \in Trees
  BY DEF Uncounted, IInv, TypeOK
<1> QED
  BY <1>1, FiledWhole DEF Filed, Trees

LEMMA FiledNext ==
  ASSUME IInv', phase' # "splay" \/ call'.op # "insert"
  PROVE  Filed' = tree'.record
<1>1. Uncounted' = {} /\ tree' \in Trees
  BY DEF Uncounted, IInv, TypeOK
<1> QED
  BY <1>1, FiledWhole DEF Filed

(* The steps of a loop are the map's own business.                         *)
LEMMA LoopStutters ==
  ASSUME IInv, Descend \/ RemoveFound \/ Splay \/ LookForMinimum \/ Minimum
  PROVE  UNCHANGED Map!mapVars
<1>1. call' = call /\ answer' = answer /\ phase # "idle" /\ phase' # "idle"
  BY DEF Descend, RemoveFound, Found, Splay, LookForMinimum, Splayed, Minimum
<1>2. tree'.record = tree.record
  BY SplayStep DEF Descend, RemoveFound, LookForMinimum, Minimum
<1>3. Uncounted' = Uncounted
  BY <1>1 DEF Uncounted, Descend, RemoveFound, Found, Splay, LookForMinimum, Splayed, Minimum
<1> QED
  BY <1>1, <1>2, <1>3 DEF Map!mapVars, Filed

(* A leaf that is not counted is not filed.                                *)
LEMMA LeafStutters ==
  ASSUME IInv, InsertLeaf
  PROVE  UNCHANGED Map!mapVars
<1> DEFINE k == call.key
<1>1. /\ call' = call /\ answer' = answer /\ phase = "search" /\ phase' = "splay"
      /\ call.op = "insert"
  BY DEF InsertLeaf, Missed
<1>2. k \in Keys \ Nodes(tree) /\ tree'.record = [tree.record EXCEPT ![k] = call.record]
  BY InsertLeafStep
<1>3. Filed = tree.record /\ tree.record \in [Keys -> Records \cup {NULL}]
  BY <1>1, FiledFacts
<1>4. Filed' = [j \in Keys |-> IF j \in {k} THEN NULL ELSE tree'.record[j]]
  BY <1>1 DEF Filed, Uncounted
<1>5. tree.record[k] = NULL
  BY <1>2 DEF Nodes
<1>6. Filed' = Filed
  BY <1>2, <1>3, <1>4, <1>5
<1> QED
  BY <1>1, <1>6 DEF Map!mapVars

LEMMA Asks ==
  ASSUME IInv, NEW c \in Calls, Ask(c)
  PROVE  c \in Map!Calls /\ Map!Ask(c)
<1>1. Filed' = Filed
  BY DEF Ask, Filed, Uncounted
<1> QED
  BY <1>1 DEF Ask, Map!Ask, Calls, Map!Calls

LEMMA Inserts ==
  ASSUME IInv, InsertKnown \/ InsertDone
  PROVE  Map!Insert
<1> DEFINE k == call.key
<1>1. /\ Return(NULL) /\ phase # "idle" /\ call.op = "insert"
  BY DEF InsertKnown, Found, InsertDone, Splayed
<1>2. Filed' = [Filed EXCEPT ![k] = call.record]
  <2>1. CASE InsertKnown
    <3>1. /\ IInv' /\ k \in Keys
          /\ tree'.record = [tree.record EXCEPT ![k] = call.record]
      BY <2>1, InsertKnownStep
    <3>2. Filed = tree.record
      BY <2>1, FiledFacts DEF InsertKnown, Found
    <3>3. Filed' = tree'.record
      BY <1>1, <3>1, FiledNext DEF Return
    <3> QED
      BY <3>1, <3>2, <3>3
  <2>2. CASE InsertDone
    <3>1. /\ IInv' /\ k \in Keys /\ tree'.record = tree.record
          /\ tree.record[k] = call.record
      BY <2>2, InsertDoneStep
    <3>2. Filed = [j \in Keys |-> IF j \in {k} THEN NULL ELSE tree.record[j]]
      BY <2>2 DEF InsertDone, Splayed, Filed, Uncounted
    <3>3. Filed' = tree'.record
      BY <1>1, <3>1, FiledNext DEF Return
    <3>4. tree.record \in [Keys -> Records \cup {NULL}]
      BY DEF IInv, TypeOK, Trees
    <3> QED
      BY <3>1, <3>2, <3>3, <3>4
  <2> QED
    BY <2>1, <2>2
<1> QED
  BY <1>1, <1>2 DEF Return, Map!Insert, Map!Answer

LEMMA Removes ==
  ASSUME IInv, RemoveUnknown \/ RemoveRoot \/ TakePlace
  PROVE  Map!Remove
<1> DEFINE k == call.key
<1>1. PICK D : Searched(D)
  BY DEF IInv
<1>2. call.op = "remove" /\ phase # "idle"
  BY <1>1 DEF RemoveUnknown, Missed, RemoveRoot, Splayed, TakePlace, Searched, Lowest
<1>3. Filed = tree.record /\ tree.record \in [Keys -> Records \cup {NULL}]
  BY <1>2, FiledFacts
<1>4. /\ IInv' /\ k \in Keys /\ Return(tree.record[k])
      /\ tree'.record = [tree.record EXCEPT ![k] = NULL]
  <2>1. CASE RemoveUnknown
    <3>1. k \in Keys \ Nodes(tree)
      BY <1>1, <2>1, EndOfWay DEF RemoveUnknown, Missed, IInv
    <3>2. tree.record[k] = NULL
      BY <3>1 DEF Nodes
    <3>3. [tree.record EXCEPT ![k] = NULL] = tree.record
      BY <1>3, <3>2
    <3> QED
      BY <2>1, <3>1, <3>2, <3>3, RemoveUnknownStep DEF RemoveUnknown
  <2>2. CASE RemoveRoot
    BY <2>2, RemoveRootStep DEF RemoveRoot
  <2>3. CASE TakePlace
    BY <2>3, TakePlaceStep DEF TakePlace
  <2> QED
    BY <2>1, <2>2, <2>3
<1>5. Filed' = tree'.record
  BY <1>4, FiledNext DEF Return
<1> QED
  BY <1>2, <1>3, <1>4, <1>5 DEF Return, Map!Remove, Map!Answer

LEMMA Finds ==
  ASSUME IInv, Find \/ FindNearest
  PROVE  Map!Find \/ Map!FindNearest
<1> DEFINE k == call.key
<1>1. PICK D : Searched(D)
  BY DEF IInv
<1>2. phase = "search" /\ tree' = tree /\ (at = k \/ at = NULL) /\ TypeOK
  BY DEF Find, FindNearest, Found, Missed, IInv
<1>3. /\ k \in Keys /\ NULL \notin Keys
      /\ at = k => k \in Nodes(tree)
      /\ at = NULL => k \notin Nodes(tree)
  BY <1>1, <1>2, EndOfWay, KeysAssumption
<1>4. Filed = tree.record
  BY <1>2, FiledFacts
<1>5. Filed' = Filed
  <2>1. phase' = "idle"
    BY DEF Find, FindNearest, Return
  <2>2. Uncounted' = {} /\ Uncounted = {}
    BY <1>2, <2>1 DEF Uncounted
  <2> QED
    BY <1>2, <2>2 DEF Filed
<1>6. CASE Find
  <2>1. Get(tree.record, at) = tree.record[k]
    BY <1>2, <1>3 DEF Get, Nodes
  <2> QED
    BY <1>2, <1>4, <1>5, <1>6, <2>1 DEF Find, Found, Missed, Return, Map!Find, Map!Answer
<1>7. CASE FindNearest
  <2> DEFINE below == {n \in Nodes(tree) : n <= k}
  <2>1. Found("nearest") \/ Missed("nearest")
    BY <1>7 DEF FindNearest
  <2>2. IF below = {} THEN Nearest = NULL
        ELSE Nearest = tree.record[CHOOSE n \in below : \A m \in below : m <= n]
    BY <2>1, NearestRight
  <2>3. below = {n \in Keys : n <= k /\ Filed[n] # NULL}
    BY <1>4 DEF Nodes
  <2> HIDE DEF below
  <2>4. Nearest = Map!Nearest(Filed, k)
    BY <1>4, <2>2, <2>3 DEF Map!Nearest
  <2> QED
    BY <1>2, <1>5, <1>7, <2>1, <2>4
       DEF FindNearest, Found, Missed, Return, Map!FindNearest, Map!Answer
<1> QED
  BY <1>6, <1>7

(* The tree answers every call as a map would: an insertion or a removal   *)
(* changes what is found for its own key and loses no other, and a call    *)
(* changes the map once, when it returns.                                  *)
THEOREM AnswersAsMap == Spec => Map!Safety
<1>1. Init => Map!Init
  <2> SUFFICES ASSUME Init PROVE Map!Init
    OBVIOUS
  <2>1. Filed = [k \in Keys |-> NULL]
    BY DEF Init, Filed, Uncounted
  <2> QED
    BY <2>1 DEF Init, Map!Init
<1>2. IInv /\ [Next]_vars => [Map!Next]_(Map!mapVars)
  <2> SUFFICES ASSUME IInv, [Next]_vars PROVE [Map!Next]_(Map!mapVars)
    OBVIOUS
  <2>1. CASE UNCHANGED vars
    BY <2>1 DEF vars, Map!mapVars, Filed, Uncounted
  <2>2. CASE \E c \in Calls : Ask(c)
    <3>1. \E c \in Map!Calls : Map!Ask(c)
      BY <2>2, Asks
    <3> QED
      BY <3>1 DEF Map!Next
  <2>3. CASE Step
    <3>1. UNCHANGED Map!mapVars \/ Map!Answered
      BY <2>3, LoopStutters, LeafStutters, Inserts, Removes, Finds DEF Step, Map!Answered
    <3> QED
      BY <3>1 DEF Map!Next
  <2> QED
    BY <2>1, <2>2, <2>3 DEF Next
<1> QED
  BY <1>1, <1>2, Inductive, PTL DEF Spec, Map!Safety
=============================================================================
