---------------------------- MODULE PIntervalTree ----------------------------
(***************************************************************************)
(* The interval trees of pintervaltree.c: which parts of a file were       *)
(* written or authenticated, which parts of a locked memory range are      *)
(* free.  The tree is the set of its intervals; the shape of the balanced  *)
(* tree under it (PTree) matters only for where a search ends, which is    *)
(* left open.  `points' is the set of points the tree should stand for.    *)
(***************************************************************************)
EXTENDS Integers

CONSTANT MaxPoint            \* bound on offsets
ASSUME MaxPointAssumption == MaxPoint \in Nat

VARIABLES tree, points
intervalsVars == <<tree, points>>

Offsets == 0 .. MaxPoint
Interval == [from : Offsets, to : Offsets]
New(from, to) == [from |-> from, to |-> to]

IntervalsInit == tree = {} /\ points = {}

-----------------------------------------------------------------------------
(* psync_interval_tree_consume_intervals: e, already in the tree or about  *)
(* to be, swallows the intervals that follow it up to the first one that   *)
(* reaches at least as far, whose end it takes.                            *)
M_ConsumedTouching(S, e) == {n \in S : n.from > e.from /\ n.from < e.to}

Consumed(S, e) ==
  {n \in S : /\ n.from > e.from /\ n.from <= e.to
             /\ \A m \in S : m.from > e.from /\ m.from < n.from => m.to < e.to}

consume_intervals(S, e) ==
  LET gone == Consumed(S, e)
      longer == {n \in gone : n.to >= e.to}
      end == IF longer = {} THEN e.to ELSE (CHOOSE n \in longer : TRUE).to
  IN  (S \ gone) \union {New(e.from, end)}

(* psync_interval_tree_add.  The search ends at the interval from lies in  *)
(* or touches the end of ...                                               *)
AddOnto(e, from, to) ==
  /\ e.from <= from /\ e.to >= from
  /\ IF e.to >= to THEN tree' = tree
     ELSE tree' = consume_intervals(tree \ {e}, New(e.from, to))

(* ... or at one of the two it falls between: the next one has no left     *)
(* child and may be extended down, or a new interval is put in.            *)
ExtendDown(e, from, to) ==
  /\ e.from > from /\ \A m \in tree : m.from > from => e.from <= m.from
  /\ e.from <= to /\ e.to >= to
  /\ tree' = (tree \ {e}) \union {New(from, e.to)}

AddNew(from, to) == tree' = consume_intervals(tree, New(from, to))

psync_interval_tree_add(from, to) ==
  /\ from < to
  /\ \/ \E e \in tree : AddOnto(e, from, to)
     \/ /\ \A e \in tree : ~(e.from <= from /\ e.to >= from)
        /\ AddNew(from, to) \/ \E e \in tree : ExtendDown(e, from, to)
  /\ points' = points \union (from .. to - 1)

-----------------------------------------------------------------------------
(* psync_interval_tree_remove: from the first interval that contains from  *)
(* or comes after it on.                                                   *)
ContainingOrAfter(p) == {e \in tree : e.to > p}

M_RemoveNoSplit(from, to) ==
  /\ from < to
  /\ tree' = (tree \ ContainingOrAfter(from))
             \union {New(e.from, from) : e \in {x \in ContainingOrAfter(from) : x.from < from}}
             \union {e \in tree : e.from >= to}
             \union {New(to, e.to) : e \in {x \in tree : from <= x.from /\ x.from < to /\ x.to > to}}
  /\ points' = points \ (from .. to - 1)

Split(e, from, to) ==
  /\ e.from < from /\ e.to > to
  /\ tree' = (tree \ {e}) \union {New(e.from, from), New(to, e.to)}

Trim(from, to) ==
  LET cut == {e \in ContainingOrAfter(from) : e.from < to}
      tail == {New(e.from, from) : e \in {x \in cut : x.from < from}}
      head == {New(to, e.to) : e \in {x \in cut : from <= x.from /\ x.to > to}}
  IN  tree' = (tree \ cut) \union tail \union head

psync_interval_tree_remove(from, to) ==
  /\ from < to
  /\ \/ \E e \in tree : Split(e, from, to)
     \/ (\A e \in tree : ~(e.from < from /\ e.to > to)) /\ Trim(from, to)
  /\ points' = points \ (from .. to - 1)

(* psync_interval_tree_cut_end: from the last interval down.               *)
psync_interval_tree_cut_end(end) ==
  /\ tree' = {New(e.from, IF e.to > end THEN end ELSE e.to) : e \in {x \in tree : x.from < end}}
  /\ points' = {p \in points : p < end}

IntervalsNext ==
  \/ \E from, to \in Offsets : psync_interval_tree_add(from, to) \/ psync_interval_tree_remove(from, to)
  \/ \E end \in Offsets : psync_interval_tree_cut_end(end)

IntervalsSpec == IntervalsInit /\ [][IntervalsNext]_intervalsVars

-----------------------------------------------------------------------------
TypeOK == tree \subseteq Interval /\ points \subseteq Offsets

(* No interval is empty, and two of them do not even touch: a test of one  *)
(* interval decides whether a range is covered.                            *)
Apart(S) ==
  /\ \A e \in S : e.from < e.to
  /\ \A e, f \in S : e # f => e.to < f.from \/ f.to < e.from
Canonical == Apart(tree)

(* The tree stands for the points added and not removed since.             *)
Covers(S, p) == \E e \in S : e.from <= p /\ p < e.to
Represents == \A p \in Offsets : p \in points <=> Covers(tree, p)
=============================================================================
