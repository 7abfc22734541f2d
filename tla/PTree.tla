-------------------------------- MODULE PTree --------------------------------
(***************************************************************************)
(* The balanced tree of ptree.c, which keeps nodes in an order its callers *)
(* choose: interval trees, open files, folders and tasks hang on it.  Left *)
(* and right being mirror images, an operation is written once for a side. *)
(*                                                                         *)
(* The tree t is a record of the node fields and the root that the         *)
(* functions return; `order' is what the tree should hold, kept aside.     *)
(***************************************************************************)
EXTENDS Integers, SequencesExt

CONSTANTS Nodes, NULL        \* NULL is not one of the nodes

VARIABLES t, order
vars == <<t, order>>

Sides == {"left", "right"}
Opp(s) == IF s = "left" THEN "right" ELSE "left"
Larger(a, b) == IF a > b THEN a ELSE b

psync_tree_height(u, e) == IF e = NULL THEN 0 ELSE u.height[e]
Heavier(u, e, s) == psync_tree_height(u, u[s][e]) - psync_tree_height(u, u[Opp(s)][e])
Recalc(u, e) ==
  [u EXCEPT !.height[e] = 1 + Larger(psync_tree_height(u, u.left[e]), psync_tree_height(u, u.right[e]))]

(* The link from p down to a child, or the root when p is NULL; and back.  *)
Hang(u, p, s, e) ==
  LET v == IF p = NULL THEN [u EXCEPT !.root = e] ELSE [u EXCEPT ![s][p] = e]
  IN  IF e = NULL THEN v ELSE [v EXCEPT !.parent[e] = p]
SideOf(u, e) == IF u.parent[e] # NULL /\ u.right[u.parent[e]] = e THEN "right" ELSE "left"

(* The outermost node below e on a side.                                   *)
RECURSIVE Outermost(_, _, _)
Outermost(u, e, s) == IF e = NULL \/ u[s][e] = NULL THEN e ELSE Outermost(u, u[s][e], s)
psync_tree_get_first(u) == Outermost(u, u.root, "left")
psync_tree_get_last(u) == Outermost(u, u.root, "right")

(* psync_tree_get_next (s = "right") and psync_tree_get_prev.              *)
RECURSIVE Climb(_, _, _)
Climb(u, e, s) ==
  LET p == u.parent[e] IN IF p # NULL /\ u[s][p] = e THEN Climb(u, p, s) ELSE p
Neighbour(u, e, s) ==
  IF u[s][e] # NULL THEN Outermost(u, u[s][e], Opp(s)) ELSE Climb(u, e, s)

(* psync_tree_get_first_safe and psync_tree_get_next_safe, the order in    *)
(* which a tree is freed.                                                  *)
RECURSIVE FirstLeaf(_, _)
FirstLeaf(u, e) ==
  IF e = NULL THEN e
  ELSE IF u.left[e] # NULL THEN FirstLeaf(u, u.left[e])
  ELSE IF u.right[e] # NULL THEN FirstLeaf(u, u.right[e]) ELSE e
psync_tree_get_next_safe(u, e) ==
  LET p == u.parent[e]
  IN  IF p = NULL THEN NULL
      ELSE IF u.right[p] \in {e, NULL} THEN p ELSE FirstLeaf(u, u.right[p])

-----------------------------------------------------------------------------
(* psync_tree_rotate_left (s = "left") and _right, with the link from      *)
(* above that the callers of these functions set.                          *)
Rotate(u, e, s) ==
  LET c == u[Opp(s)][e]
      top == Hang(u, u.parent[e], SideOf(u, e), c)
      low == Recalc(Hang(top, e, Opp(s), u[s][c]), e)
  IN  Recalc(Hang(low, c, s, e), c)

(* The rotations for a node whose side s is two levels deeper.             *)
Rebalance(u, e, s) ==
  LET c == u[s][e]
      v == IF Heavier(u, c, Opp(s)) > 0 THEN Rotate(u, c, s) ELSE u
  IN  Rotate(v, e, Opp(s))

HeavySide(u, e) == IF Heavier(u, e, "left") > 0 THEN "left" ELSE "right"
Skew(u, e) == Heavier(u, e, HeavySide(u, e))

RECURSIVE psync_tree_go_up_rebalance_add(_, _)
psync_tree_go_up_rebalance_add(u, e) ==
  IF Skew(u, e) = 0 THEN u
  ELSE IF Skew(u, e) = 1
  THEN LET v == Recalc(u, e)
       IN  IF u.parent[e] = NULL THEN v ELSE psync_tree_go_up_rebalance_add(v, u.parent[e])
  ELSE Rebalance(u, e, HeavySide(u, e))

(* After a deletion a rotation may shorten the subtree: go on upwards.     *)
RECURSIVE psync_tree_go_up_rebalance_del(_, _)
psync_tree_go_up_rebalance_del(u, e) ==
  LET v == IF Skew(u, e) = 0 THEN Recalc(u, e) ELSE Rebalance(u, e, HeavySide(u, e))
  IN  IF Skew(u, e) = 1 THEN u
      ELSE IF u.parent[e] = NULL THEN v ELSE psync_tree_go_up_rebalance_del(v, u.parent[e])

-----------------------------------------------------------------------------
(* psync_tree_get_add_after (s = "right") and _before, with their empty    *)
(* tree and NULL node cases.                                               *)
AddBeside(u, node, new, s) ==
  LET v == [u EXCEPT !.height[new] = 1, !.left[new] = NULL, !.right[new] = NULL]
      inner == u[s][node]
      at == IF inner = NULL THEN <<node, s>> ELSE <<Outermost(u, inner, Opp(s)), Opp(s)>>
  IN  IF u.root = NULL THEN Hang(v, NULL, s, new)
      ELSE psync_tree_go_up_rebalance_add(Hang(v, at[1], at[2], new), at[1])

psync_tree_add(u, node, new, s) ==
  IF u.root # NULL /\ node = NULL
  THEN AddBeside(u, Outermost(u, u.root, Opp(s)), new, Opp(s))
  ELSE AddBeside(u, node, new, s)

(* psync_tree_replace_me_with: node has at most one child, repl.           *)
psync_tree_replace_me_with(u, node, repl) ==
  LET p == u.parent[node]
      v == Hang(u, p, SideOf(u, node), repl)
  IN  IF p # NULL THEN psync_tree_go_up_rebalance_del(v, p)
      ELSE IF repl = NULL THEN v
      ELSE psync_tree_go_up_rebalance_del(v, repl)

(* With two children, the neighbour on the deeper side takes node's place. *)
M_ReplaceFromGrandparent(u, node) ==
  LET s == IF Heavier(u, node, "left") > 0 THEN "left" ELSE "right"
      el == Neighbour(u, node, s)
      p == u.parent[el]
      cut == Hang(u, p, IF p = node THEN s ELSE Opp(s), u[s][el])
      put == Hang([cut EXCEPT !.height[el] = u.height[node]], u.parent[node], SideOf(u, node), el)
  IN  psync_tree_go_up_rebalance_del(Hang(Hang(put, el, "left", cut.left[node]), el, "right", cut.right[node]), el)

ReplaceFromBelow(u, node) ==
  LET s == IF Heavier(u, node, "left") > 0 THEN "left" ELSE "right"
      el == Neighbour(u, node, s)
      p == u.parent[el]
      cut == Hang(u, p, IF p = node THEN s ELSE Opp(s), u[s][el])
      put == Hang([cut EXCEPT !.height[el] = u.height[node]], u.parent[node], SideOf(u, node), el)
      all == Hang(Hang(put, el, "left", cut.left[node]), el, "right", cut.right[node])
  IN  psync_tree_go_up_rebalance_del(all, IF p = node THEN el ELSE p)

psync_tree_get_del(u, node) ==
  IF u.left[node] = NULL THEN psync_tree_replace_me_with(u, node, u.right[node])
  ELSE IF u.right[node] = NULL THEN psync_tree_replace_me_with(u, node, u.left[node])
  ELSE ReplaceFromBelow(u, node)

-----------------------------------------------------------------------------
Init ==
  /\ t = [left |-> [n \in Nodes |-> NULL], right |-> [n \in Nodes |-> NULL],
          parent |-> [n \in Nodes |-> NULL], height |-> [n \in Nodes |-> 1], root |-> NULL]
  /\ order = <<>>

New == CHOOSE n \in Nodes : n \notin ToSet(order)

AddAfter(i) ==
  /\ Len(order) < Cardinality(Nodes)
  /\ t' = psync_tree_add(t, IF i = 0 THEN NULL ELSE order[i], New, "right")
  /\ order' = InsertAt(order, i + 1, New)

AddBefore(i) ==
  /\ Len(order) < Cardinality(Nodes)
  /\ t' = psync_tree_add(t, IF i > Len(order) THEN NULL ELSE order[i], New, "left")
  /\ order' = InsertAt(order, i, New)

Delete(i) ==
  /\ t' = psync_tree_get_del(t, order[i])
  /\ order' = RemoveAt(order, i)

Next ==
  \/ \E i \in 0 .. Len(order) : AddAfter(i)
  \/ \E i \in 1 .. Len(order) + 1 : AddBefore(i)
  \/ \E i \in DOMAIN order : Delete(i)

Spec == Init /\ [][Next]_vars

-----------------------------------------------------------------------------
RECURSIVE InOrder(_, _), RealHeight(_, _), Shape(_, _), FreeOrder(_, _)
InOrder(u, e) ==
  IF e = NULL THEN <<>> ELSE InOrder(u, u.left[e]) \o <<e>> \o InOrder(u, u.right[e])
RealHeight(u, e) ==
  IF e = NULL THEN 0 ELSE 1 + Larger(RealHeight(u, u.left[e]), RealHeight(u, u.right[e]))
FreeOrder(u, e) == IF e = NULL THEN <<>> ELSE <<e>> \o FreeOrder(u, psync_tree_get_next_safe(u, e))

(* The whole state with a node named by its place in the order: nodes are  *)
(* interchangeable.                                                        *)
Place(e) == IF e = NULL THEN 0 ELSE CHOOSE i \in DOMAIN order : order[i] = e
Shape(u, e) ==
  IF e = NULL THEN <<>>
  ELSE <<Shape(u, u.left[e]), Place(e), Place(u.parent[e]), u.height[e], Shape(u, u.right[e])>>
ShapeOfTree == <<Len(order), Shape(t, t.root)>>

(* The tree holds what was added and not deleted, in the chosen order.     *)
HoldsOrder == InOrder(t, t.root) = order

(* Every node has the height of its subtree and children that differ by    *)
(* one level at most.                                                      *)
Balanced ==
  \A e \in ToSet(order) :
    /\ t.height[e] = RealHeight(t, e)
    /\ Heavier(t, e, "left") \in -1 .. 1

(* Walking the parent pointers visits the same order, forwards and back.   *)
NeighboursAgree ==
  /\ order # <<>> => psync_tree_get_first(t) = Head(order) /\ psync_tree_get_last(t) = Last(order)
  /\ \A i \in DOMAIN order :
       /\ Neighbour(t, order[i], "right") = IF i = Len(order) THEN NULL ELSE order[i + 1]
       /\ Neighbour(t, order[i], "left") = IF i = 1 THEN NULL ELSE order[i - 1]

TreeOK == HoldsOrder /\ Balanced /\ NeighboursAgree

(* The safe traversal meets every node once, and a node after its          *)
(* children: nothing is read from a node that was freed.                   *)
FreesChildrenFirst ==
  LET f == FreeOrder(t, FirstLeaf(t, t.root))
      at(e) == CHOOSE i \in DOMAIN f : f[i] = e
  IN  /\ IsInjective(f) /\ ToSet(f) = ToSet(order)
      /\ \A e \in ToSet(f), s \in Sides : t[s][e] # NULL => at(t[s][e]) < at(e)
=============================================================================
