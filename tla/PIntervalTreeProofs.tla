------------------------- MODULE PIntervalTreeProofs -------------------------
(***************************************************************************)
(* The interval tree stays canonical and stands for its points, whatever   *)
(* the offsets and however many intervals there are.                       *)
(***************************************************************************)
EXTENDS PIntervalTree, TLAPS

USE MaxPointAssumption

Inv == TypeOK /\ Canonical /\ Represents

(* In an interval tree without touching intervals the first interval that  *)
(* reaches beyond e is also the last that starts inside it: the loop of    *)
(* psync_interval_tree_consume_intervals stops in time.                    *)
LEMMA ConsumedAll ==
  ASSUME NEW S \in SUBSET Interval, Apart(S),
         NEW e \in Interval
  PROVE  Consumed(S, e) = {n \in S : n.from > e.from /\ n.from <= e.to}
<1> SUFFICES ASSUME NEW n \in S, n.from > e.from, n.from <= e.to,
                    NEW m \in S, m.from > e.from, m.from < n.from
             PROVE  m.to < e.to
  BY DEF Consumed
<1>1. m # n /\ n.from < n.to
  BY DEF Apart, Interval, Offsets
<1>2. m.to < n.from
  BY <1>1 DEF Apart, Interval, Offsets
<1> QED  BY <1>2 DEF Interval, Offsets

(* psync_interval_tree_consume_intervals puts e into a tree none of whose  *)
(* intervals reaches it from below.                                        *)
LEMMA ConsumeIntervals ==
  ASSUME NEW S \in SUBSET Interval, Apart(S),
         NEW e \in Interval, e.from < e.to,
         \A m \in S : m.from <= e.from => m.to < e.from
  PROVE  /\ consume_intervals(S, e) \in SUBSET Interval
         /\ Apart(consume_intervals(S, e))
         /\ \A p \in Offsets :
              Covers(consume_intervals(S, e), p) <=> Covers(S, p) \/ (e.from <= p /\ p < e.to)
<1> DEFINE gone == Consumed(S, e)
           longer == {n \in gone : n.to >= e.to}
           end == IF longer = {} THEN e.to ELSE (CHOOSE n \in longer : TRUE).to
           whole == New(e.from, end)
<1>1. gone = {n \in S : n.from > e.from /\ n.from <= e.to}
  BY ConsumedAll
<1>2. consume_intervals(S, e) = (S \ gone) \union {whole}
  BY DEF consume_intervals
<1>3. \A n \in S \ gone : n.to < e.from \/ n.from > e.to
  BY <1>1 DEF Interval, Offsets
<1>4. /\ end \in Offsets /\ e.to <= end
      /\ \A n \in gone : n.to <= end
      /\ end = e.to \/ \E n \in gone : n.to = end
  <2>1. CASE longer = {}
    <3>1. end = e.to
      BY <2>1
    <3>2. \A n \in gone : n \in Interval /\ ~(n.to >= e.to)
      BY <2>1, <1>1
    <3> QED  BY <3>1, <3>2 DEF Interval, Offsets
  <2>2. CASE longer # {}
    <3> DEFINE l == CHOOSE n \in longer : TRUE
    <3>1. l \in longer /\ l \in S /\ l \in Interval /\ end = l.to /\ l.to >= e.to
      <4>1. l \in longer /\ end = l.to
        BY <2>2
      <4>2. l \in S /\ l.to >= e.to
        BY <4>1, <1>1
      <4> QED  BY <4>1, <4>2
    <3> HIDE DEF l
    <3>2. \A n \in gone : n.to <= l.to
      <4> SUFFICES ASSUME NEW n \in gone, n # l, n.to > l.to PROVE FALSE
        <5>1. \A n \in gone : n \in Interval
          BY <1>1
        <5> QED  BY <3>1, <5>1 DEF Interval, Offsets
      <4>1. l.to < n.from \/ n.to < l.from
        BY <3>1, <1>1 DEF Apart
      <4>2. l.from < l.to /\ n.from <= e.to /\ n \in Interval
        BY <3>1, <1>1 DEF Apart
      <4> QED  BY <3>1, <4>1, <4>2 DEF Interval, Offsets
    <3> QED  BY <3>1, <3>2 DEF Interval, Offsets
  <2> QED  BY <2>1, <2>2
<1>5. whole \in Interval /\ whole.from = e.from /\ whole.to = end
  BY <1>4 DEF New, Interval
<1>6. \A n \in S \ gone : n.to < e.from \/ n.from > end
  <2> SUFFICES ASSUME NEW n \in S \ gone, n.from > e.to, NEW g \in gone, g.to = end
               PROVE  n.from > end
    BY <1>3, <1>4
  <2>1. g.to < n.from \/ n.to < g.from
    BY <1>1 DEF Apart
  <2>2. n \in Interval /\ g \in Interval /\ n.from < n.to /\ g.from <= e.to
    BY <1>1 DEF Apart
  <2> QED  BY <2>1, <2>2 DEF Interval, Offsets
<1>7. consume_intervals(S, e) \in SUBSET Interval
  BY <1>2, <1>5
<1>8. Apart(consume_intervals(S, e))
  <2>1. whole.from < whole.to
    BY <1>4, <1>5 DEF Interval, Offsets
  <2>2. \A n \in S \ gone : n.to < whole.from \/ whole.to < n.from
    BY <1>5, <1>6 DEF Interval, Offsets
  <2> HIDE DEF whole, gone
  <2> QED  BY <1>2, <2>1, <2>2 DEF Apart
<1>9. \A p \in Offsets :
        Covers(consume_intervals(S, e), p) <=> Covers(S, p) \/ (e.from <= p /\ p < e.to)
  <2> TAKE p \in Offsets
  <2>1. Covers(consume_intervals(S, e), p) <=> Covers(S \ gone, p) \/ (e.from <= p /\ p < end)
    BY <1>2, <1>5 DEF Covers
  <2>2. ASSUME e.from <= p, p < end PROVE Covers(S, p) \/ (e.from <= p /\ p < e.to)
    BY <2>2, <1>1, <1>4 DEF Covers, Interval, Offsets
  <2>3. ASSUME Covers(gone, p) PROVE e.from <= p /\ p < end
    BY <2>3, <1>1, <1>4 DEF Covers, Interval, Offsets
  <2>4. Covers(S, p) <=> Covers(S \ gone, p) \/ Covers(gone, p)
    BY <1>1 DEF Covers
  <2>5. e.from <= p /\ p < e.to => e.from <= p /\ p < end
    BY <1>4 DEF Interval, Offsets
  <2> QED  BY <2>1, <2>2, <2>3, <2>4, <2>5
<1> QED  BY <1>7, <1>8, <1>9

-----------------------------------------------------------------------------
(* psync_interval_tree_add: the tree stays canonical and covers from..to   *)
(* besides what it covered.                                                *)
LEMMA AddCorrect ==
  ASSUME TypeOK, Canonical, NEW from \in Offsets, NEW to \in Offsets,
         psync_interval_tree_add(from, to)
  PROVE  /\ tree' \in SUBSET Interval /\ Apart(tree')
         /\ \A p \in Offsets : Covers(tree', p) <=> Covers(tree, p) \/ (from <= p /\ p < to)
<1>0. from < to /\ tree \in SUBSET Interval /\ Apart(tree)
  BY DEF psync_interval_tree_add, TypeOK, Canonical
<1>1. ASSUME NEW e \in tree, AddOnto(e, from, to)
      PROVE  /\ tree' \in SUBSET Interval /\ Apart(tree')
             /\ \A p \in Offsets : Covers(tree', p) <=> Covers(tree, p) \/ (from <= p /\ p < to)
  <2>1. e.from <= from /\ e.to >= from /\ e \in Interval
    BY <1>0, <1>1 DEF AddOnto
  <2>2. CASE e.to >= to
    <3>1. tree' = tree
      BY <1>1, <2>2 DEF AddOnto
    <3>2. \A p \in Offsets : from <= p /\ p < to => Covers(tree, p)
      BY <2>1, <2>2 DEF Covers, Interval, Offsets
    <3> QED  BY <1>0, <3>1, <3>2
  <2>3. CASE ~(e.to >= to)
    <3> DEFINE S == tree \ {e}
               w == New(e.from, to)
    <3>1. tree' = consume_intervals(S, w)
      BY <1>1, <2>3 DEF AddOnto
    <3>2. w \in Interval /\ w.from = e.from /\ w.to = to /\ w.from < w.to
      BY <1>0, <2>1 DEF New, Interval, Offsets
    <3>3. S \in SUBSET Interval /\ Apart(S)
      BY <1>0 DEF Apart
    <3>4. \A m \in S : m.from <= w.from => m.to < w.from
      <4> SUFFICES ASSUME NEW m \in S, m.from <= e.from PROVE m.to < e.from
        BY <3>2
      <4>1. (m.to < e.from \/ e.to < m.from) /\ e.from < e.to /\ m \in Interval
        BY <1>0 DEF Apart
      <4> QED  BY <4>1, <2>1 DEF Interval, Offsets
    <3>5. /\ tree' \in SUBSET Interval /\ Apart(tree')
          /\ \A p \in Offsets : Covers(tree', p) <=> Covers(S, p) \/ (e.from <= p /\ p < to)
      <4> HIDE DEF S, w
      <4> QED  BY <3>1, <3>2, <3>3, <3>4, ConsumeIntervals
    <3>6. \A p \in Offsets : Covers(tree, p) <=> Covers(S, p) \/ (e.from <= p /\ p < e.to)
      BY DEF Covers
    <3>7. \A p \in Offsets : (e.from <= p /\ p < to)
                             <=> (e.from <= p /\ p < e.to) \/ (from <= p /\ p < to)
      BY <2>1, <2>3, <1>0 DEF Interval, Offsets
    <3> QED  BY <3>5, <3>6, <3>7
  <2> QED  BY <2>2, <2>3
<1>2. ASSUME \A e \in tree : ~(e.from <= from /\ e.to >= from), AddNew(from, to)
      PROVE  /\ tree' \in SUBSET Interval /\ Apart(tree')
             /\ \A p \in Offsets : Covers(tree', p) <=> Covers(tree, p) \/ (from <= p /\ p < to)
  <2> DEFINE w == New(from, to)
  <2>1. w \in Interval /\ w.from = from /\ w.to = to
    BY DEF New, Interval
  <2>2. \A m \in tree : m.from <= from => m.to < from
    BY <1>0, <1>2 DEF Interval, Offsets
  <2>3. tree' = consume_intervals(tree, w)
    BY <1>2 DEF AddNew
  <2> HIDE DEF w
  <2> QED  BY <1>0, <2>1, <2>2, <2>3, ConsumeIntervals
<1>3. ASSUME \A e \in tree : ~(e.from <= from /\ e.to >= from),
             NEW e \in tree, ExtendDown(e, from, to)
      PROVE  /\ tree' \in SUBSET Interval /\ Apart(tree')
             /\ \A p \in Offsets : Covers(tree', p) <=> Covers(tree, p) \/ (from <= p /\ p < to)
  <2> DEFINE w == New(from, e.to)
  <2>1. /\ e \in Interval /\ e.from > from /\ e.from <= to /\ e.to >= to
        /\ tree' = (tree \ {e}) \union {w}
    BY <1>0, <1>3 DEF ExtendDown
  <2>2. w \in Interval /\ w.from = from /\ w.to = e.to /\ w.from < w.to
    BY <1>0, <2>1 DEF New, Interval, Offsets
  <2>3. \A m \in tree \ {e} : m.to < w.from \/ w.to < m.from
    <3> SUFFICES ASSUME NEW m \in tree \ {e} PROVE m.to < from \/ e.to < m.from
      BY <2>2
    <3>1. m \in Interval /\ m.from < m.to /\ (m.to < e.from \/ e.to < m.from)
      BY <1>0 DEF Apart
    <3>2. ~(m.from <= from /\ m.to >= from) /\ (m.from > from => e.from <= m.from)
      BY <1>3 DEF ExtendDown
    <3> QED  BY <3>1, <3>2, <2>1 DEF Interval, Offsets
  <2>4. \A p \in Offsets : Covers(tree', p) <=> Covers(tree, p) \/ (from <= p /\ p < to)
    <3> TAKE p \in Offsets
    <3>1. Covers(tree', p) <=> Covers(tree \ {e}, p) \/ (from <= p /\ p < e.to)
      BY <2>1, <2>2 DEF Covers
    <3>2. Covers(tree, p) <=> Covers(tree \ {e}, p) \/ (e.from <= p /\ p < e.to)
      BY DEF Covers
    <3>3. (from <= p /\ p < e.to) <=> (e.from <= p /\ p < e.to) \/ (from <= p /\ p < to)
      BY <2>1 DEF Interval, Offsets
    <3> QED  BY <3>1, <3>2, <3>3
  <2> HIDE DEF w
  <2>5. Apart(tree')
    BY <1>0, <2>1, <2>2, <2>3 DEF Apart
  <2> QED  BY <1>0, <2>1, <2>2, <2>4, <2>5
<1> QED  BY <1>1, <1>2, <1>3 DEF psync_interval_tree_add

(* psync_interval_tree_remove takes away exactly from..to.                 *)
LEMMA RemoveCorrect ==
  ASSUME TypeOK, Canonical, NEW from \in Offsets, NEW to \in Offsets,
         psync_interval_tree_remove(from, to)
  PROVE  /\ tree' \in SUBSET Interval /\ Apart(tree')
         /\ \A p \in Offsets : Covers(tree', p) <=> Covers(tree, p) /\ ~(from <= p /\ p < to)
<1>0. from < to /\ tree \in SUBSET Interval /\ Apart(tree)
  BY DEF psync_interval_tree_remove, TypeOK, Canonical
<1>1. ASSUME NEW e \in tree, Split(e, from, to)
      PROVE  /\ tree' \in SUBSET Interval /\ Apart(tree')
             /\ \A p \in Offsets : Covers(tree', p) <=> Covers(tree, p) /\ ~(from <= p /\ p < to)
  <2> DEFINE l == New(e.from, from)
             r == New(to, e.to)
  <2>1. /\ e \in Interval /\ e.from < from /\ e.to > to
        /\ tree' = (tree \ {e}) \union {l, r}
    BY <1>0, <1>1 DEF Split
  <2>2. /\ l \in Interval /\ l.from = e.from /\ l.to = from /\ l.from < l.to
        /\ r \in Interval /\ r.from = to /\ r.to = e.to /\ r.from < r.to
        /\ l.to < r.from
    BY <1>0, <2>1 DEF New, Interval, Offsets
  <2> HIDE DEF l, r
  <2>3. \A m \in tree \ {e} :
          /\ m.to < l.from \/ l.to < m.from
          /\ m.to < r.from \/ r.to < m.from
    <3> TAKE m \in tree \ {e}
    <3>1. m \in Interval /\ m.from < m.to /\ (m.to < e.from \/ e.to < m.from)
      BY <1>0 DEF Apart
    <3> QED  BY <3>1, <2>1, <2>2, <1>0 DEF Interval, Offsets
  <2>4. \A p \in Offsets : Covers(tree', p) <=> Covers(tree, p) /\ ~(from <= p /\ p < to)
    <3> TAKE p \in Offsets
    <3>1. Covers(tree', p) <=> Covers(tree \ {e}, p) \/ (e.from <= p /\ p < from) \/ (to <= p /\ p < e.to)
      BY <2>1, <2>2 DEF Covers
    <3>2. Covers(tree, p) <=> Covers(tree \ {e}, p) \/ (e.from <= p /\ p < e.to)
      BY DEF Covers
    <3>3. Covers(tree \ {e}, p) => ~(e.from <= p /\ p < e.to)
      <4> SUFFICES ASSUME NEW m \in tree \ {e}, m.from <= p, p < m.to,
                          e.from <= p, p < e.to
                   PROVE  FALSE
        BY DEF Covers
      <4>1. m \in Interval /\ (m.to < e.from \/ e.to < m.from)
        BY <1>0 DEF Apart
      <4> QED  BY <2>1, <4>1 DEF Interval, Offsets
    <3>4. from <= p /\ p < to => e.from <= p /\ p < e.to
      BY <2>1 DEF Interval, Offsets
    <3>5. (e.from <= p /\ p < from) \/ (to <= p /\ p < e.to)
          <=> e.from <= p /\ p < e.to /\ ~(from <= p /\ p < to)
      BY <2>1, <1>0 DEF Interval, Offsets
    <3> QED  BY <3>1, <3>2, <3>3, <3>4, <3>5
  <2>5. Apart(tree')
    <3>1. \A m \in tree' : m.from < m.to
      BY <1>0, <2>1, <2>2 DEF Apart
    <3>2. ASSUME NEW m \in tree', NEW n \in tree', m # n
          PROVE  m.to < n.from \/ n.to < m.from
      <4>1. CASE m \in tree \ {e} /\ n \in tree \ {e}
        BY <1>0, <3>2, <4>1 DEF Apart
      <4>2. CASE m \in {l, r} /\ n \in tree \ {e}
        <5>1. CASE m = l
          <6>1. n.to < l.from \/ l.to < n.from
            BY <2>3, <4>2
          <6> QED  BY <6>1, <5>1
        <5>2. CASE m = r
          <6>1. n.to < r.from \/ r.to < n.from
            BY <2>3, <4>2
          <6> QED  BY <6>1, <5>2
        <5> QED  BY <4>2, <5>1, <5>2
      <4>3. CASE m \in tree \ {e} /\ n \in {l, r}
        <5>1. CASE n = l
          <6>1. m.to < l.from \/ l.to < m.from
            BY <2>3, <4>3
          <6> QED  BY <6>1, <5>1
        <5>2. CASE n = r
          <6>1. m.to < r.from \/ r.to < m.from
            BY <2>3, <4>3
          <6> QED  BY <6>1, <5>2
        <5> QED  BY <4>3, <5>1, <5>2
      <4>4. CASE m \in {l, r} /\ n \in {l, r}
        BY <2>2, <3>2, <4>4
      <4> QED  BY <2>1, <4>1, <4>2, <4>3, <4>4
    <3> QED  BY <3>1, <3>2 DEF Apart
  <2> QED  BY <1>0, <2>1, <2>2, <2>4, <2>5
<1>2. ASSUME \A e \in tree : ~(e.from < from /\ e.to > to), Trim(from, to)
      PROVE  /\ tree' \in SUBSET Interval /\ Apart(tree')
             /\ \A p \in Offsets : Covers(tree', p) <=> Covers(tree, p) /\ ~(from <= p /\ p < to)
  (* every interval of the new tree is a part of one of the old, and       *)
  (* every old one outside from..to is still there.                        *)
  <2> DEFINE Part(f, e) ==
          /\ f \in Interval /\ f.from < f.to
          /\ e.from <= f.from /\ f.to <= e.to
          /\ f.to <= from \/ to <= f.from
          /\ \/ f = e
             \/ f = New(e.from, from) /\ e.from < from
             \/ f = New(to, e.to) /\ from <= e.from /\ e.from < to
  <2>1. \A f \in tree' : \E e \in tree : Part(f, e)
    <3> TAKE f \in tree'
    <3>1. CASE f \in tree /\ f \notin {e \in ContainingOrAfter(from) : e.from < to}
      <4>1. f \in Interval /\ f.from < f.to
        BY <1>0, <3>1 DEF Apart
      <4>2. f.to <= from \/ to <= f.from
        BY <4>1, <3>1 DEF ContainingOrAfter, Interval, Offsets
      <4>3. f.from <= f.from /\ f.to <= f.to
        BY <4>1 DEF Interval, Offsets
      <4>4. f \in tree /\ Part(f, f)
        BY <3>1, <4>1, <4>2, <4>3
      <4> HIDE DEF Part
      <4> QED  BY <4>4
    <3>2. CASE \E e \in tree : e.to > from /\ e.from < to /\ e.from < from /\ f = New(e.from, from)
      <4> PICK e \in tree : e.to > from /\ e.from < to /\ e.from < from /\ f = New(e.from, from)
        BY <3>2
      <4>1. e \in Interval
        BY <1>0
      <4>2. /\ f \in Interval /\ f.from < f.to
            /\ e.from <= f.from /\ f.to <= e.to /\ f.to <= from
        BY <4>1 DEF New, Interval, Offsets
      <4>3. Part(f, e)
        BY <4>2
      <4> HIDE DEF Part
      <4> QED  BY <4>3
    <3>3. CASE \E e \in tree : e.to > from /\ e.from < to /\ from <= e.from /\ e.to > to /\ f = New(to, e.to)
      <4> PICK e \in tree : e.to > from /\ e.from < to /\ from <= e.from /\ e.to > to /\ f = New(to, e.to)
        BY <3>3
      <4>1. e \in Interval
        BY <1>0
      <4> QED  BY <4>1 DEF New, Interval, Offsets
    <3> QED  BY <1>2, <3>1, <3>2, <3>3 DEF Trim, ContainingOrAfter
  <2>2. Apart(tree')
    <3>1. \A f \in tree' : f.from < f.to
      BY <2>1
    <3>2. ASSUME NEW f \in tree', NEW g \in tree', f # g
          PROVE  f.to < g.from \/ g.to < f.from
      <4> PICK a \in tree :
            /\ f \in Interval /\ f.from < f.to
            /\ a.from <= f.from /\ f.to <= a.to
            /\ \/ f = a
               \/ f = New(a.from, from) /\ a.from < from
               \/ f = New(to, a.to) /\ from <= a.from /\ a.from < to
        BY <2>1
      <4> PICK b \in tree :
            /\ g \in Interval /\ g.from < g.to
            /\ b.from <= g.from /\ g.to <= b.to
            /\ \/ g = b
               \/ g = New(b.from, from) /\ b.from < from
               \/ g = New(to, b.to) /\ from <= b.from /\ b.from < to
        BY <2>1
      <4>1. CASE a # b
        <5>1. a.to < b.from \/ b.to < a.from
          BY <4>1, <1>0 DEF Apart
        <5>2. a \in Interval /\ b \in Interval
          BY <1>0
        <5> QED  BY <5>1, <5>2 DEF Interval, Offsets
      <4>2. CASE a = b
        <5>1. f = a \/ g = a
          BY <4>2, <3>2, <1>0 DEF Interval, Offsets
        <5>2. a \in tree' => \lnot (a.to > from /\ a.from < to)
          BY <2>1, <1>0 DEF Apart, Interval, Offsets
        <5> QED  BY <4>2, <3>2, <5>1, <5>2, <1>0, <2>1 DEF New, Interval, Offsets
      <4> QED  BY <4>1, <4>2
    <3> QED  BY <3>1, <3>2 DEF Apart
  <2>3. \A p \in Offsets : Covers(tree', p) => Covers(tree, p) /\ ~(from <= p /\ p < to)
    BY <2>1, <1>0 DEF Covers, Interval, Offsets
  <2>4. ASSUME NEW p \in Offsets, NEW e \in tree, e.from <= p, p < e.to, ~(from <= p /\ p < to)
        PROVE  Covers(tree', p)
    <3>0. e \in Interval
      BY <1>0
    <3>1. CASE ~(e.to > from /\ e.from < to)
      <4>1. e \in tree'
        BY <1>2, <3>1 DEF Trim, ContainingOrAfter
      <4> QED  BY <4>1, <2>4 DEF Covers
    <3>2. CASE e.to > from /\ e.from < from
      <4>1. New(e.from, from) \in tree'
        BY <1>0, <1>2, <3>0, <3>2 DEF Trim, ContainingOrAfter, Interval, Offsets
      <4>2. p < from
        BY <1>2, <2>4, <3>0, <3>2 DEF Interval, Offsets
      <4> QED  BY <4>1, <4>2, <2>4 DEF Covers, New
    <3>3. CASE e.from < to /\ from <= e.from /\ e.to > from
      <4>1. to <= p /\ e.to > to
        BY <2>4, <3>0, <3>3 DEF Interval, Offsets
      <4>2. New(to, e.to) \in tree'
        BY <1>2, <3>3, <4>1 DEF Trim, ContainingOrAfter
      <4> QED  BY <4>1, <4>2, <2>4 DEF Covers, New
    <3> QED  BY <1>0, <3>0, <3>1, <3>2, <3>3 DEF Interval, Offsets
  <2>5. \A p \in Offsets : Covers(tree, p) /\ ~(from <= p /\ p < to) => Covers(tree', p)
    BY <2>4 DEF Covers
  <2> QED  BY <2>1, <2>2, <2>3, <2>5
<1> QED  BY <1>1, <1>2 DEF psync_interval_tree_remove

(* psync_interval_tree_cut_end takes away everything from end on.          *)
LEMMA CutEndCorrect ==
  ASSUME TypeOK, Canonical, NEW end \in Offsets, psync_interval_tree_cut_end(end)
  PROVE  /\ tree' \in SUBSET Interval /\ Apart(tree')
         /\ \A p \in Offsets : Covers(tree', p) <=> Covers(tree, p) /\ p < end
<1>0. tree \in SUBSET Interval /\ Apart(tree)
  BY DEF TypeOK, Canonical
<1> DEFINE cut(e) == New(e.from, IF e.to > end THEN end ELSE e.to)
<1>1. tree' = {cut(e) : e \in {x \in tree : x.from < end}}
  BY DEF psync_interval_tree_cut_end
<1>2. \A e \in tree : e.from < end =>
        /\ cut(e) \in Interval /\ cut(e).from = e.from /\ cut(e).from < cut(e).to
        /\ cut(e).to <= e.to /\ cut(e).to <= end
        /\ \A p \in Offsets : p < cut(e).to <=> p < e.to /\ p < end
  BY <1>0 DEF New, Interval, Offsets, Apart
<1> HIDE DEF cut
<1>3. tree' \in SUBSET Interval
  BY <1>1, <1>2
<1>4. Apart(tree')
  <2> SUFFICES ASSUME NEW e \in tree, NEW f \in tree, e.from < end, f.from < end, cut(e) # cut(f)
               PROVE  cut(e).to < cut(f).from \/ cut(f).to < cut(e).from
    BY <1>1, <1>2 DEF Apart
  <2>1. e.to < f.from \/ f.to < e.from
    BY <1>0 DEF Apart
  <2>2. e \in Interval /\ f \in Interval
    BY <1>0
  <2> QED  BY <1>2, <2>1, <2>2 DEF Interval, Offsets
<1>5. \A p \in Offsets : Covers(tree', p) <=> Covers(tree, p) /\ p < end
  <2> TAKE p \in Offsets
  <2>1. ASSUME Covers(tree', p) PROVE Covers(tree, p) /\ p < end
    <3>1. PICK e \in tree : e.from < end /\ cut(e).from <= p /\ p < cut(e).to
      BY <2>1, <1>1 DEF Covers
    <3> QED  BY <3>1, <1>2 DEF Covers
  <2>2. ASSUME Covers(tree, p), p < end PROVE Covers(tree', p)
    <3>1. PICK e \in tree : e.from <= p /\ p < e.to
      BY <2>2 DEF Covers
    <3>2. e.from < end
      BY <3>1, <2>2, <1>0 DEF Interval, Offsets
    <3> QED  BY <3>1, <3>2, <2>2, <1>1, <1>2 DEF Covers
  <2> QED  BY <2>1, <2>2
<1> QED  BY <1>3, <1>4, <1>5

-----------------------------------------------------------------------------
(* The tree is canonical and stands for the points added and not removed,  *)
(* after any sequence of adds, removes and cuts.                           *)
THEOREM IntervalTreeInvariant == IntervalsSpec => []Inv
<1>1. IntervalsInit => Inv
  BY DEF IntervalsInit, Inv, TypeOK, Canonical, Represents, Apart, Covers
<1>2. Inv /\ [IntervalsNext]_intervalsVars => Inv'
  <2> SUFFICES ASSUME Inv, [IntervalsNext]_intervalsVars PROVE Inv'
    OBVIOUS
  <2>0. TypeOK /\ Canonical /\ Represents /\ points \subseteq Offsets
    BY DEF Inv, TypeOK
  <2>1. ASSUME NEW from \in Offsets, NEW to \in Offsets, psync_interval_tree_add(from, to)
        PROVE  Inv'
    <3>1. points' = points \union (from .. to - 1)
      BY <2>1 DEF psync_interval_tree_add
    <3>2. from .. to - 1 \subseteq Offsets
          /\ \A p \in Offsets : p \in from .. to - 1 <=> from <= p /\ p < to
      BY DEF Offsets
    <3>3. \A p \in Offsets : Covers(tree', p) <=> Covers(tree, p) \/ (from <= p /\ p < to)
      BY <2>0, <2>1, AddCorrect
    <3>4. tree' \in SUBSET Interval /\ Apart(tree')
      BY <2>0, <2>1, AddCorrect
    <3> QED  BY <2>0, <3>1, <3>2, <3>3, <3>4 DEF Inv, TypeOK, Canonical, Represents
  <2>2. ASSUME NEW from \in Offsets, NEW to \in Offsets, psync_interval_tree_remove(from, to)
        PROVE  Inv'
    <3>1. points' = points \ (from .. to - 1)
      BY <2>2 DEF psync_interval_tree_remove
    <3>2. \A p \in Offsets : p \in from .. to - 1 <=> from <= p /\ p < to
      BY DEF Offsets
    <3>3. \A p \in Offsets : Covers(tree', p) <=> Covers(tree, p) /\ ~(from <= p /\ p < to)
      BY <2>0, <2>2, RemoveCorrect
    <3>4. tree' \in SUBSET Interval /\ Apart(tree')
      BY <2>0, <2>2, RemoveCorrect
    <3> QED  BY <2>0, <3>1, <3>2, <3>3, <3>4 DEF Inv, TypeOK, Canonical, Represents
  <2>3. ASSUME NEW end \in Offsets, psync_interval_tree_cut_end(end)
        PROVE  Inv'
    <3>1. points' = {p \in points : p < end}
      BY <2>3 DEF psync_interval_tree_cut_end
    <3>2. \A p \in Offsets : Covers(tree', p) <=> Covers(tree, p) /\ p < end
      BY <2>0, <2>3, CutEndCorrect
    <3>3. tree' \in SUBSET Interval /\ Apart(tree')
      BY <2>0, <2>3, CutEndCorrect
    <3> QED  BY <2>0, <3>1, <3>2, <3>3 DEF Inv, TypeOK, Canonical, Represents
  <2>4. CASE UNCHANGED intervalsVars
    BY <2>0, <2>4 DEF intervalsVars, Inv, TypeOK, Canonical, Represents
  <2> QED  BY <2>1, <2>2, <2>3, <2>4 DEF IntervalsNext
<1> QED  BY <1>1, <1>2, PTL DEF IntervalsSpec

(* No two intervals of the tree overlap or touch.                          *)
THEOREM IntervalsApart == IntervalsSpec => []Canonical
<1>1. Inv => Canonical
  BY DEF Inv
<1> QED  BY <1>1, IntervalTreeInvariant, PTL

(* An offset lies in an interval of the tree exactly if it was added and   *)
(* not removed since.                                                      *)
THEOREM IntervalsExact == IntervalsSpec => []Represents
<1>1. Inv => Represents
  BY DEF Inv
<1> QED  BY <1>1, IntervalTreeInvariant, PTL
=============================================================================
