------------------------------- MODULE STree --------------------------------
(***************************************************************************)
(* The splay tree coherence/stree.c, in which the coherence component      *)
(* keeps the state of every block of a processor (getState, setState and   *)
(* the tree_remove calls of coherence.c).  A node is named by its key, a   *)
(* pointer is a key or NULL, and the fields of the nodes are functions of  *)
(* the key.  A call is one step per turn of its loops (the way down, the   *)
(* splay, subtree_minimum), so that what holds in every turn of a loop is  *)
(* an invariant; nothing runs between the steps of a call.                 *)
(***************************************************************************)
EXTENDS Integers, FiniteSets

CONSTANTS Keys,       \* block addresses
          Records,    \* coherence states
          NULL

ASSUME KeysAssumption == Keys \subseteq Int /\ NULL \notin Keys \cup Records

VARIABLES
  tree,       \* root, node_count, and the fields of the nodes
  phase,      \* the loop the call is in, or "idle"
  call,       \* the last call
  at,         \* z on the way down, u in subtree_minimum
  from,       \* p of tree_insert, n of tree_find_nearest
  answer      \* the record the last call returned

vars == <<tree, phase, call, at, from, answer>>

Pointers == Keys \cup {NULL}
Sides    == {"left", "right"}

Calls ==
  [op : {"find", "nearest", "remove"}, key : Keys, record : {NULL}]
    \cup [op : {"insert"}, key : Keys, record : Records]

Trees == [root : Pointers, nodeCount : Nat, child : [Sides -> [Keys -> Pointers]],
          parent : [Keys -> Pointers], record : [Keys -> Records \cup {NULL}]]

TypeOK ==
  /\ tree \in Trees
  /\ phase \in {"idle", "search", "splay", "minimum"}
  /\ call \in Calls \cup {NULL} /\ (phase # "idle" => call \in Calls)
  /\ at \in Pointers /\ from \in Pointers
  /\ answer \in Records \cup {NULL}

(* tree_new.                                                               *)
Init ==
  /\ tree = [root |-> NULL, nodeCount |-> 0,
             child |-> [s \in Sides |-> [k \in Keys |-> NULL]],
             parent |-> [k \in Keys |-> NULL], record |-> [k \in Keys |-> NULL]]
  /\ phase = "idle" /\ call = NULL /\ at = NULL /\ from = NULL /\ answer = NULL
----------------------------------------------------------------------------
Opp(s) == IF s = "left" THEN "right" ELSE "left"

(* The side of node z on which key k belongs.                              *)
Toward(k, z) == IF k > z THEN "right" ELSE "left"

(* x->field = v, left out by an if when x is NULL.                         *)
Put(f, x, v) == IF x = NULL THEN f ELSE [f EXCEPT ![x] = v]
Get(f, x)    == IF x = NULL THEN NULL ELSE f[x]

(* The side on which x hangs below its parent.                             *)
SideOf(t, x) == IF x = t.child["left"][t.parent[x]] THEN "left" ELSE "right"

(* The link that leads to u, from its parent or the root, leads to v.      *)
Relink(t, u, v) ==
  IF t.parent[u] = NULL THEN [t EXCEPT !.root = v]
  ELSE [t EXCEPT !.child[SideOf(t, u)][t.parent[u]] = v]

(* Mutant: v keeps the parent it had.                                      *)
ReplaceMut(t, u, v) == Relink(t, u, v)

Replace(t, u, v) ==
  [Relink(t, u, v) EXCEPT !.parent = Put(@, v, t.parent[u])]

(* Mutant: the inner subtree is lost.                                      *)
RotateMut(t, x, s) ==
  LET y     == t.child[s][x]
      moved == [t EXCEPT !.child[s][x] = NULL,
                         !.parent = Put(@, y, t.parent[x])]
  IN  [Relink(moved, x, y) EXCEPT !.child[Opp(s)] = Put(@, y, x),
                                  !.parent[x] = y]

(* A rotation at x (right_rotate: s = "left"): the child on side s rises,  *)
(* x falls to the other side, and the subtree between them changes hands.  *)
Rotate(t, x, s) ==
  LET y     == t.child[s][x]
      inner == Get(t.child[Opp(s)], y)
      moved == [t EXCEPT !.child[s][x] = inner,
                         !.parent = Put(Put(@, inner, x), y, t.parent[x])]
  IN  [Relink(moved, x, y) EXCEPT !.child[Opp(s)] = Put(@, y, x),
                                  !.parent[x] = y]

(* One turn of splay: x rises by one level to the root, or by two.         *)
SplayTurn(t, x) ==
  LET p == t.parent[x]
      s == SideOf(t, x)
      o == SideOf(t, p)
      again(t1, side) == Rotate(t1, t1.parent[x], side)
  IN  IF t.parent[p] = NULL THEN Rotate(t, p, s)
      ELSE IF s = o THEN again(Rotate(t, t.parent[p], o), s)
           ELSE again(Rotate(t, p, s), o)
----------------------------------------------------------------------------
Ask(c) ==
  /\ phase = "idle" /\ phase' = "search"
  /\ call' = c /\ at' = tree.root /\ from' = NULL /\ answer' = NULL
  /\ UNCHANGED tree

Return(a) ==
  /\ phase' = "idle" /\ answer' = a /\ at' = NULL /\ from' = NULL
  /\ UNCHANGED call

(* One level down, towards the key.                                        *)
Descend ==
  /\ phase = "search" /\ at \notin {NULL, call.key}
  /\ at' = tree.child[Toward(call.key, at)][at]
  /\ from' = CASE call.op = "insert" -> at
               [] call.op = "nearest" /\ call.key > at /\ (from = NULL \/ from < at) -> at
               [] OTHER -> from
  /\ UNCHANGED <<tree, phase, call, answer>>

(* Where the way down of an operation has ended: at the key, or at NULL.   *)
Found(op)  == phase = "search" /\ call.op = op /\ at = call.key
Missed(op) == phase = "search" /\ call.op = op /\ at = NULL

Find ==
  /\ Found("find") \/ Missed("find")
  /\ Return(Get(tree.record, at)) /\ UNCHANGED tree

(* Mutant: of the keys passed on the way down the root is taken.           *)
NearestMut == Get(tree.record, IF at = NULL THEN tree.root ELSE at)

Nearest == Get(tree.record, IF at = NULL THEN from ELSE at)

FindNearest ==
  /\ Found("nearest") \/ Missed("nearest")
  /\ Return(Nearest) /\ UNCHANGED tree

(* A new record for a known key, ...                                       *)
InsertKnown ==
  /\ Found("insert")
  /\ tree' = [tree EXCEPT !.record[call.key] = call.record]
  /\ Return(NULL)

WithLeaf(t, k, p, r) ==
  LET leaf == [t EXCEPT !.record[k] = r, !.parent[k] = p,
                        !.child = [s \in Sides |-> [@[s] EXCEPT ![k] = NULL]]]
  IN  IF p = NULL THEN [leaf EXCEPT !.root = k]
      ELSE [leaf EXCEPT !.child[Toward(k, p)][p] = k]

(* ... or a new leaf, ...                                                  *)
InsertLeaf ==
  /\ Missed("insert")
  /\ tree' = WithLeaf(tree, call.key, from, call.record)
  /\ phase' = "splay" /\ at' = call.key
  /\ UNCHANGED <<call, from, answer>>

RemoveUnknown == Missed("remove") /\ Return(NULL) /\ UNCHANGED tree

RemoveFound ==
  /\ Found("remove") /\ phase' = "splay"
  /\ UNCHANGED <<tree, call, at, from, answer>>

Splay ==
  /\ phase = "splay" /\ tree.parent[call.key] # NULL
  /\ tree' = SplayTurn(tree, call.key)
  /\ UNCHANGED <<phase, call, at, from, answer>>

Splayed(op) == phase = "splay" /\ call.op = op /\ tree.parent[call.key] = NULL

(* Mutant: the new node is never counted.                                  *)
InsertDoneMut == Splayed("insert") /\ Return(NULL) /\ UNCHANGED tree

(* ... which is counted when it has come to the root.                      *)
InsertDone ==
  /\ Splayed("insert")
  /\ tree' = [tree EXCEPT !.nodeCount = @ + 1]
  /\ Return(NULL)

(* free(z): the node and its fields are gone.                              *)
Freed(t, z) ==
  [t EXCEPT !.child = [s \in Sides |-> [@[s] EXCEPT ![z] = NULL]],
            !.parent[z] = NULL, !.record[z] = NULL, !.nodeCount = @ - 1]

HasBoth(t, z) == t.child["left"][z] # NULL /\ t.child["right"][z] # NULL

OnlyChild(t, z) ==
  IF t.child["left"][z] = NULL THEN t.child["right"][z] ELSE t.child["left"][z]

RemoveRoot ==
  /\ Splayed("remove") /\ ~HasBoth(tree, call.key)
  /\ tree' = Freed(Replace(tree, call.key, OnlyChild(tree, call.key)), call.key)
  /\ Return(tree.record[call.key])

LookForMinimum ==
  /\ Splayed("remove") /\ HasBoth(tree, call.key)
  /\ phase' = "minimum" /\ at' = tree.child["right"][call.key]
  /\ UNCHANGED <<tree, call, from, answer>>

(* subtree_minimum.                                                        *)
Minimum ==
  /\ phase = "minimum" /\ tree.child["left"][at] # NULL
  /\ at' = tree.child["left"][at]
  /\ UNCHANGED <<tree, phase, call, from, answer>>

(* y, the smallest node on the right of z, takes the place of z.           *)
InPlaceOf(t, z, y) ==
  LET out == Replace(t, y, t.child["right"][y])
      t1  == IF t.parent[y] = z THEN t
             ELSE [out EXCEPT !.child["right"][y] = out.child["right"][z],
                              !.parent[out.child["right"][z]] = y]
      t2  == Replace(t1, z, y)
  IN  [t2 EXCEPT !.child["left"][y] = t2.child["left"][z],
                 !.parent[t2.child["left"][z]] = y]

TakePlace ==
  /\ phase = "minimum" /\ tree.child["left"][at] = NULL
  /\ tree' = Freed(InPlaceOf(tree, call.key, at), call.key)
  /\ Return(tree.record[call.key])

Step ==
  \/ Descend \/ Find \/ FindNearest \/ InsertKnown \/ InsertLeaf \/ RemoveUnknown
  \/ RemoveFound \/ Splay \/ InsertDone \/ RemoveRoot \/ LookForMinimum \/ Minimum
  \/ TakePlace

Next == (\E c \in Calls : Ask(c)) \/ Step

(* A call that has begun runs on.                                          *)
Spec == Init /\ [][Next]_vars /\ WF_vars(Step)
----------------------------------------------------------------------------
Nodes(t) == {k \in Keys : t.record[k] # NULL}

(* The leaf that tree_insert has put in and not counted yet.               *)
Uncounted == IF phase = "splay" /\ call.op = "insert" THEN {call.key} ELSE {}

Linked(t) ==
  /\ \A k \in Nodes(t) :
       /\ \A s \in Sides :
            t.child[s][k] # NULL => /\ t.child[s][k] \in Nodes(t)
                                    /\ t.parent[t.child[s][k]] = k
       /\ t.parent[k] = NULL <=> t.root = k
       /\ t.parent[k] # NULL => /\ t.parent[k] \in Nodes(t)
                                /\ \E s \in Sides : t.child[s][t.parent[k]] = k
  /\ IF Nodes(t) = {} THEN t.root = NULL ELSE t.root \in Nodes(t)

(* The links agree: a child's parent is its parent, only the root has no   *)
(* parent, no link leads to a node that was freed, and node_count counts   *)
(* the nodes - after any sequence of rotations, in every turn of a splay   *)
(* (left_rotate, right_rotate, replace and tree_remove write these links   *)
(* one by one).                                                            *)
LinksAgree ==
  /\ Linked(tree)
  /\ tree.nodeCount = Cardinality(Nodes(tree) \ Uncounted)

(* stree.h: "Find element with largest key <= given key": however the      *)
(* search has come down, it has passed the nearest node on its right and   *)
(* kept it.                                                                *)
NearestFound ==
  Found("nearest") \/ Missed("nearest") =>
    LET below == {n \in Nodes(tree) : n <= call.key}
    IN  IF below = {} THEN Nearest = NULL
        ELSE Nearest = tree.record[CHOOSE n \in below : \A m \in below : m <= n]

(* The records as a user of the tree knows them: one that is inserted is   *)
(* there when tree_insert has returned.                                    *)
Filed == [k \in Keys |-> IF k \in Uncounted THEN NULL ELSE tree.record[k]]

(* What the tree answers is what a map would, whatever shape it takes: an  *)
(* insertion or removal changes what is found for its own key and loses no *)
(* other, and every call returns (no loop runs for ever).                  *)
Map == INSTANCE StateMap WITH map <- Filed, pending <- phase # "idle"

ImplementsMap == Map!Spec
=============================================================================
