------------------------------ MODULE TwoLevel ------------------------------
(***************************************************************************)
(* What the branch predictor promises, without bits: an opinion for each   *)
(* context, moved one step by every outcome seen in that context.  A       *)
(* context is a group of branches and, with GSELECT, the sequence of the   *)
(* last outcomes.  The module BranchSim, where the opinions are one array  *)
(* and the history is one word, is shown to implement this.                *)
(***************************************************************************)
EXTENDS Integers, Sequences

CONSTANTS
  Branches, Targets,        \* addresses of branches, where taken ones go
  SmallGroups, LargeGroups, \* number of groups with and without history
  HistoryLength             \* outcomes remembered

VARIABLES
  g,                 \* the model
  opinion,           \* per context: what is expected
  history,           \* the last outcomes, the newest at the end
  target,            \* per group: the last target seen, 0 for none
  answer             \* what the last prediction was

Histories == [1 .. HistoryLength -> BOOLEAN]

Contexts ==
  IF g = "GSELECT" THEN (0 .. SmallGroups - 1) \X Histories
                   ELSE (0 .. LargeGroups - 1) \X {<<>>}

Context(pc) ==
  IF g = "GSELECT" THEN <<(pc \div 8) % SmallGroups, history>>
                   ELSE <<(pc \div 8) % LargeGroups, <<>>>>

Stronger(o) == CASE o = "strongly not" -> "weakly not"
                 [] o = "weakly not"   -> "weakly taken"
                 [] OTHER              -> "strongly taken"
Weaker(o)   == CASE o = "strongly taken" -> "weakly taken"
                 [] o = "weakly taken"   -> "weakly not"
                 [] OTHER                -> "strongly not"

Init ==
  /\ g \in {"DEFAULT", "GSELECT"}
  /\ opinion = [x \in Contexts |-> "weakly not"]
  /\ history = [i \in 1 .. HistoryLength |-> FALSE]
  /\ target = [x \in 0 .. LargeGroups - 1 |-> 0]
  /\ answer = 0

Branch(pc, next) ==
  LET taken == next # pc + 4
      group == (pc \div 8) % LargeGroups
  IN  /\ answer' = IF opinion[Context(pc)] \in {"weakly taken", "strongly taken"}
                   THEN target[group] ELSE pc + 4
      /\ opinion' = [opinion EXCEPT ![Context(pc)] =
                       IF taken THEN Stronger(@) ELSE Weaker(@)]
      /\ history' = Tail(Append(history, taken))
      /\ target' = IF taken THEN [target EXCEPT ![group] = next] ELSE target
      /\ UNCHANGED g

Next == \E pc \in Branches : \E next \in Targets \cup {pc + 4} : Branch(pc, next)

Spec == Init /\ [][Next]_<<g, opinion, history, target, answer>>
=============================================================================
