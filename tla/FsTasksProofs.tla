--------------------------- MODULE FsTasksProofs ---------------------------
(***************************************************************************)
(* What holds of the folder tasks of the drive for any number of names,    *)
(* calls, broken connections, restarts and changes by other devices: the   *)
(* rows, their dependencies and the overlay agree, so that no request is   *)
(* sent with the id of a folder that has none yet; and the upload thread   *)
(* does not sleep over a task it could run.                                *)
(***************************************************************************)
EXTENDS FsTasks, FiniteSetTheorems, TLAPS

Row == [type : {"mkdir", "rmdir"}, folderid : Int, sfolderid : Int, name : Names]
Mkdirs(R) == {t \in DOMAIN R : R[t].type = "mkdir"}

(* A row about a folder that has no id yet waits for its mkdir, a rmdir    *)
(* perhaps for another mkdir in that folder.                               *)
Waits(R, D, t, c) ==
  \/ <<t, c>> \in D
  \/ /\ R[t].type = "rmdir"
     /\ \E u \in Mkdirs(R) : <<t, u>> \in D /\ R[u].folderid = -c

RowKnown(R, D, t) ==
  /\ R[t].folderid < 0 => -R[t].folderid \in Mkdirs(R) /\ Waits(R, D, t, -R[t].folderid)
  /\ R[t].type = "mkdir" =>
       R[t].sfolderid = R[t].folderid \/ (R[t].folderid = 0 /\ R[t].sfolderid >= 0)
  /\ R[t].type = "rmdir" =>
       /\ R[t].sfolderid # 0
       /\ R[t].sfolderid < 0 => -R[t].sfolderid \in Mkdirs(R) /\ <<t, -R[t].sfolderid>> \in D

RowsKnown(R, D, n) ==
  /\ DOMAIN R \subseteq Nat \ {0} /\ R \in [DOMAIN R -> Row]
  /\ D \subseteq (DOMAIN R) \X (DOMAIN R)
  /\ \A t \in DOMAIN R : R[t].folderid < n /\ R[t].sfolderid < n /\ RowKnown(R, D, t)

(* An entry of the overlay is of a row, in the folder the row names; or it *)
(* outlived its row and is in a folder of the server.                      *)
OwnMkdir(R, f, m) ==
  /\ -m.folderid = m.taskid /\ m.taskid \in Mkdirs(R) /\ R[m.taskid].name = m.name
  /\ R[m.taskid].folderid = f \/ R[m.taskid].sfolderid = f
MkdirKnown(R, f, m, n) ==
  /\ m \in [taskid : Int, name : Names, folderid : Int]
  /\ OwnMkdir(R, f, m) \/ (f > 0 /\ m.folderid \in 1 .. n - 1)
RmdirKnown(R, f, m) ==
  /\ m \in [taskid : Int, name : Names]
  /\ m.taskid \in DOMAIN R \ Mkdirs(R)
  /\ R[m.taskid].folderid = f /\ R[m.taskid].name = m.name

FolderKnown(R, f, g, n) ==
  /\ g = [taskscnt |-> g.taskscnt, mkdirs |-> g.mkdirs, rmdirs |-> g.rmdirs]
  /\ IsFiniteSet(g.mkdirs) /\ IsFiniteSet(g.rmdirs)
  /\ g.taskscnt = Cardinality(g.mkdirs) + Cardinality(g.rmdirs)
  /\ \A m \in g.mkdirs : MkdirKnown(R, f, m, n)
  /\ \A m, p \in g.mkdirs : m.taskid = p.taskid /\ m.name = p.name => m = p
  /\ \A m \in g.rmdirs : RmdirKnown(R, f, m)

OnePlace(F) ==
  \A f, g \in DOMAIN F : \A m \in F[f].mkdirs, p \in F[g].mkdirs :
    m.folderid = p.folderid /\ m.folderid < 0 => f = g

OverlayKnown(R, F, n) ==
  /\ DOMAIN F \subseteq Int /\ F = [f \in DOMAIN F |-> F[f]]
  /\ \A f \in DOMAIN F : FolderKnown(R, f, F[f], n)
  /\ OnePlace(F)

(* No folder of the overlay is empty.                                      *)
Busy(F) == \A f \in DOMAIN F : F[f].taskscnt > 0

(* What holds as long as the client is not misled.                         *)
Plain(F) == \A f \in DOMAIN F : \A m \in F[f].mkdirs : m.folderid = -m.taskid
Straight(R, D, F) ==
  /\ \A t \in Mkdirs(R) : R[t].sfolderid = R[t].folderid
  /\ Plain(F)
  /\ \A d \in D : d[2] < d[1]

(* No entry has the id of row t.                                           *)
Vacant(F, t) == \A f \in DOMAIN F : \A m \in F[f].mkdirs : m.folderid # -t

Folder(n) == [id : 1 .. n - 1, parent : 0 .. n - 1, name : Names]
EventsKnown ==
  \A i \in DOMAIN events : events[i].op = "create" =>
    /\ events[i].id \in 1 .. nextid - 1 /\ events[i].parent \in 0 .. nextid - 1
    /\ events[i].name \in Names
ServerKnown ==
  /\ nextid \in Nat \ {0} /\ folder \subseteq Folder(nextid) /\ srv \subseteq Folder(nextid)
  /\ events = [i \in 1 .. Len(events) |-> events[i]] /\ Len(events) \in Nat /\ EventsKnown

Task(b) == /\ b.id \in DOMAIN rows /\ b.row = rows[b.id] /\ Free(b.id)
AnswerKnown(i) ==
  batch[i].row.type = "mkdir" /\ answers[i].result = "ok" => answers[i].id \in 1 .. nextid - 1
BatchKnown ==
  /\ Len(batch) \in Nat /\ batch = [i \in 1 .. Len(batch) |-> batch[i]]
  /\ Len(answers) \in Nat /\ answers = [i \in 1 .. Len(answers) |-> answers[i]]
  /\ Len(wire) \in Nat /\ wire = [i \in 1 .. Len(wire) |-> wire[i]]
  /\ at \in 0 .. Len(batch) /\ Len(answers) + Len(wire) = at
  /\ pc \in {"check", "send", "wait"} /\ (pc # "send" => batch = <<>>)
  /\ \A i \in 1 .. Len(batch) : Task(batch[i])
  /\ \A i, j \in 1 .. Len(batch) : batch[i].id = batch[j].id => i = j
  /\ \A i \in 1 .. Len(wire) : wire[i] = batch[Len(answers) + i].row
  /\ \A i \in 1 .. Len(answers) : AnswerKnown(i)

(* The thread goes on, or it has looked at all that could run since.       *)
Looked ==
  /\ pc = "send" => wake \/ Ready \subseteq refused \cup {batch[i].id : i \in 1 .. Len(batch)}
  /\ NoLostWakeup

Counted ==
  /\ ops \in 0 .. MaxOps /\ DOMAIN rows \subseteq 1 .. ops
  /\ wake \in BOOLEAN /\ misled \in BOOLEAN
  /\ want \subseteq {<<n>> : n \in Names} \cup Names \X Names
Known(R, D, F, n) == RowsKnown(R, D, n) /\ OverlayKnown(R, F, n) /\ Busy(F)
Linked == Known(rows, deps, fold, nextid) /\ (~misled => Straight(rows, deps, fold))

TasksInv == Counted /\ Linked /\ ServerKnown /\ BatchKnown /\ Looked

-----------------------------------------------------------------------------
(* Natural numbers: a finite set of them has a least element, and what     *)
(* holds of 0 and passes from one to the next holds up to any.             *)
LEMMA Least ==
  ASSUME NEW D, D \subseteq Nat, IsFiniteSet(D), D # {}
  PROVE  \E u \in D : \A v \in D : u <= v
<1> DEFINE Below(u) == {v \in D : v < u}
           T == {Below(u) : u \in D}
<1>1. T \subseteq FiniteSubsetsOf(D) /\ T # {}
  <2>1. FiniteSubsetsOf(D) = SUBSET D
    BY FS_FiniteSubsetsOfFinite
  <2>2. \A u \in D : Below(u) \in SUBSET D /\ Below(u) \in T
    OBVIOUS
  <2>3. T \subseteq SUBSET D
    BY <2>2
  <2> HIDE DEF T, Below
  <2> QED BY <2>1, <2>2, <2>3
<1>2. PICK A \in T : \A B \in T : ~(<<B, A>> \in StrictSubsetOrdering(D))
  <2> HIDE DEF T
  <2> QED BY <1>1, FS_StrictSubsetOrderingWellFounded, WFMin
<1>3. PICK u \in D : A = {v \in D : v < u}
  OBVIOUS
<1> HIDE DEF T
<1>4. ASSUME NEW v \in D, v < u PROVE FALSE
  <2>0. v \in Nat /\ u \in Nat /\ \A w \in D : w \in Nat
    OBVIOUS
  <2>1. Below(v) \subseteq A /\ v \in A /\ v \notin Below(v)
    <3>1. v \in A
      BY <1>3, <1>4
    <3>2. \A w \in Below(v) : w \in A
      BY <1>3, <1>4, <2>0
    <3>3. v \notin Below(v)
      BY <2>0
    <3> QED BY <3>1, <3>2, <3>3
  <2>2. Below(v) \in T
    BY DEF T
  <2>3. A \in SUBSET D /\ Below(v) \in SUBSET D
    BY <1>3
  <2>4. <<Below(v), A>> \in StrictSubsetOrdering(D)
    BY <2>1, <2>3 DEF StrictSubsetOrdering
  <2> QED BY <1>2, <2>2, <2>4
<1>5. \A v \in D : u <= v
  BY <1>4
<1> QED BY <1>5

(* What holds of 0 and passes from one number to the next holds up to k.   *)
LEMMA UpTo ==
  ASSUME NEW k \in Nat, NEW S, 0 \in S, \A i \in 1 .. k : i - 1 \in S => i \in S
  PROVE  0 .. k \subseteq S
<1> DEFINE D == (0 .. k) \ S
<1>1. SUFFICES ASSUME D # {} PROVE FALSE
  OBVIOUS
<1>2. D \subseteq Nat /\ IsFiniteSet(D)
  <2>1. IsFiniteSet(0 .. k) /\ D \in SUBSET (0 .. k)
    BY FS_Interval
  <2> QED BY <2>1, FS_Subset
<1>3. PICK u \in D : \A v \in D : u <= v
  BY <1>1, <1>2, Least
<1>4. u \in 1 .. k
  BY <1>3
<1>5. u - 1 \in 0 .. k /\ u - 1 \notin D
  BY <1>3, <1>4
<1> QED BY <1>3, <1>4, <1>5

(* A new row's id is above all others.                                     *)
LEMMA NewTaskFresh ==
  ASSUME NEW o \in Nat, DOMAIN rows \subseteq 1 .. o, rows \in [DOMAIN rows -> Row]
  PROVE  NewTask \in 1 .. o + 1 /\ \A u \in DOMAIN rows : u < NewTask
<1>1. CASE rows = <<>>
  BY <1>1 DEF NewTask
<1>2. CASE rows # <<>>
  <2> DEFINE E == {e \in 0 .. o : o - e \in DOMAIN rows}
  <2>1. DOMAIN rows # {}
    BY <1>2
  <2>2. E \subseteq Nat /\ IsFiniteSet(E)
    <3>1. E \in SUBSET (0 .. o)
      OBVIOUS
    <3>2. IsFiniteSet(0 .. o)
      <4>1. 0 \in Int /\ o \in Int
        OBVIOUS
      <4> QED BY <4>1, FS_Interval
    <3> QED BY <3>1, <3>2, FS_Subset
  <2>3. PICK t : t \in DOMAIN rows
    BY <2>1
  <2>4. o - t \in E
    BY <2>3
  <2>5. PICK e \in E : \A d \in E : e <= d
    BY <2>2, <2>4, Least
  <2>6. o - e \in DOMAIN rows /\ \A u \in DOMAIN rows : u <= o - e
    <3>1. \A u \in DOMAIN rows : o - u \in E
      OBVIOUS
    <3> QED BY <2>5, <3>1
  <2> DEFINE m == CHOOSE x \in DOMAIN rows : \A u \in DOMAIN rows : u <= x
  <2>7. m \in DOMAIN rows /\ \A u \in DOMAIN rows : u <= m
    BY <2>6
  <2>8. NewTask = 1 + m
    BY <1>2 DEF NewTask
  <2> HIDE DEF m
  <2> QED BY <2>7, <2>8
<1> QED BY <1>1, <1>2

-----------------------------------------------------------------------------
(* The rows.  A row that waits for nothing names no folder without an id.  *)
LEMMA FreeResolved ==
  ASSUME NEW R, NEW D, NEW n, RowsKnown(R, D, n), NEW t \in DOMAIN R, \A d \in D : d[1] # t
  PROVE  /\ R[t] \in Row /\ t \in Nat \ {0} /\ R[t].folderid >= 0
         /\ R[t].sfolderid >= 0 /\ (R[t].type = "rmdir" => R[t].sfolderid > 0)
<1>1. R[t] \in Row /\ t \in Nat \ {0} /\ RowKnown(R, D, t)
  BY DEF RowsKnown
<1>2. \A x : <<t, x>> \notin D
  <2>1. ASSUME NEW x, <<t, x>> \in D PROVE FALSE
    <3>1. <<t, x>>[1] = t
      OBVIOUS
    <3> QED BY <2>1, <3>1
  <2> QED BY <2>1
<1>3. R[t].folderid \in Int /\ R[t].sfolderid \in Int /\ R[t].type \in {"mkdir", "rmdir"}
  BY <1>1 DEF Row
<1>4. \A c : ~Waits(R, D, t, c)
  BY <1>2 DEF Waits
<1>5. R[t].folderid >= 0
  BY <1>1, <1>3, <1>4 DEF RowKnown
<1> QED BY <1>1, <1>2, <1>3, <1>5 DEF RowKnown

(* A row is added with what it waits for.                                  *)
LEMMA RowAdded ==
  ASSUME NEW R, NEW D, NEW n, RowsKnown(R, D, n), NEW t \in Nat \ {0}, t \notin DOMAIN R,
         NEW r \in Row, NEW on, on \subseteq DOMAIN R \cup {t},
         r.folderid < n, r.sfolderid < n,
         r.folderid < 0 => /\ -r.folderid \in Mkdirs(R)
                           /\ \/ -r.folderid \in on
                              \/ /\ r.type = "rmdir"
                                 /\ \E u \in Mkdirs(R) : u \in on /\ R[u].folderid = r.folderid,
         r.type = "mkdir" => r.sfolderid = r.folderid,
         r.type = "rmdir" => /\ r.sfolderid # 0
                             /\ r.sfolderid < 0 => -r.sfolderid \in Mkdirs(R) /\ -r.sfolderid \in on
  PROVE  RowsKnown(With(R, t, r), D \cup ({t} \X on), n)
<1> DEFINE S == With(R, t, r)
           E == D \cup ({t} \X on)
<1>1. /\ DOMAIN S = DOMAIN R \cup {t} /\ S[t] = r /\ \A u \in DOMAIN R : S[u] = R[u]
      /\ S = [u \in DOMAIN S |-> S[u]]
  BY DEF With
<1>2. Mkdirs(R) \subseteq Mkdirs(S)
  BY <1>1 DEF Mkdirs
<1>3. r.folderid \in Int /\ r.sfolderid \in Int /\ r.type \in {"mkdir", "rmdir"}
  BY DEF Row
<1>4. \A x \in on : <<t, x>> \in E
  OBVIOUS
<1>5. D \subseteq E
  OBVIOUS
<1>6. E \subseteq (DOMAIN S) \X (DOMAIN S)
  <2>1. D \subseteq (DOMAIN S) \X (DOMAIN S)
    BY <1>1 DEF RowsKnown
  <2>2. {t} \X on \subseteq (DOMAIN S) \X (DOMAIN S)
    BY <1>1
  <2> QED BY <2>1, <2>2
<1> HIDE DEF S, E
<1>7. ASSUME NEW u \in DOMAIN R
      PROVE  S[u] \in Row /\ S[u].folderid < n /\ S[u].sfolderid < n /\ RowKnown(S, E, u)
  <2>1. S[u] = R[u] /\ R[u] \in Row /\ R[u].folderid < n /\ R[u].sfolderid < n /\ RowKnown(R, D, u)
    BY <1>1 DEF RowsKnown
  <2>2. \A c : Waits(R, D, u, c) => Waits(S, E, u, c)
    BY <1>1, <1>2, <1>5 DEF Waits, Mkdirs
  <2> QED BY <1>2, <1>5, <2>1, <2>2 DEF RowKnown
<1>8. RowKnown(S, E, t)
  <2>1. r.folderid < 0 => -r.folderid \in Mkdirs(S) /\ Waits(S, E, t, -r.folderid)
    <3>1. CASE ~(r.folderid < 0)
      BY <3>1
    <3>2. CASE r.folderid < 0 /\ -r.folderid \in on
      BY <1>2, <1>4, <3>2 DEF Waits
    <3>3. CASE /\ r.folderid < 0 /\ r.type = "rmdir"
               /\ \E u \in Mkdirs(R) : u \in on /\ R[u].folderid = r.folderid
      <4>1. PICK u \in Mkdirs(R) : u \in on /\ R[u].folderid = r.folderid
        BY <3>3
      <4>2. u \in Mkdirs(S) /\ S[u].folderid = -(-r.folderid) /\ <<t, u>> \in E
        BY <1>1, <1>2, <1>3, <1>4, <4>1 DEF Mkdirs
      <4> QED BY <1>1, <1>2, <3>3, <4>2 DEF Waits
    <3> QED BY <3>1, <3>2, <3>3
  <2>2. r.type = "rmdir" /\ r.sfolderid < 0 =>
          -r.sfolderid \in Mkdirs(S) /\ <<t, -r.sfolderid>> \in E
    BY <1>2, <1>4
  <2> QED BY <1>1, <1>3, <2>1, <2>2 DEF RowKnown
<1>9. DOMAIN S \subseteq Nat \ {0} /\ S \in [DOMAIN S -> Row]
  <2>1. \A u \in DOMAIN S : S[u] \in Row
    BY <1>1, <1>7
  <2> QED BY <1>1, <2>1 DEF RowsKnown
<1> QED BY <1>1, <1>3, <1>6, <1>7, <1>8, <1>9 DEF RowsKnown, S, E

(* pr_update_folderid, pr_update_sfolderid and pr_del_task, row by row.    *)
Renumbered(R, t, id, S) ==
  /\ DOMAIN S = DOMAIN R \ {t} /\ S = [u \in DOMAIN S |-> S[u]]
  /\ \A u \in DOMAIN S :
       /\ S[u] \in Row /\ S[u].type = R[u].type /\ S[u].name = R[u].name
       /\ S[u].folderid = (IF R[u].folderid = -t THEN id ELSE R[u].folderid)
       /\ S[u].sfolderid = (IF R[u].sfolderid = -t THEN id ELSE R[u].sfolderid)

(* What pr_update_folderid and pr_update_sfolderid leave of each row.      *)
LEMMA RenumberFields ==
  ASSUME NEW R, NEW D, NEW n, RowsKnown(R, D, n), NEW t, NEW id, id \in Int,
         NEW S, S = Without(Renumber(R, t, id), t)
  PROVE  Renumbered(R, t, id, S)
<1>1. /\ DOMAIN S = DOMAIN R \ {t} /\ S = [u \in DOMAIN S |-> S[u]]
      /\ \A u \in DOMAIN S : S[u] = NewIds(R[u], t, id)
  BY Zenon DEF Without, Renumber, Restrict
<1>2. ASSUME NEW u \in DOMAIN S
      PROVE  /\ S[u] \in Row /\ S[u].type = R[u].type /\ S[u].name = R[u].name
             /\ S[u].folderid = (IF R[u].folderid = -t THEN id ELSE R[u].folderid)
             /\ S[u].sfolderid = (IF R[u].sfolderid = -t THEN id ELSE R[u].sfolderid)
  <2>1. PICK r \in Row : r = R[u]
    BY <1>1 DEF RowsKnown
  <2>2. /\ r.folderid \in Int /\ r.sfolderid \in Int
        /\ DOMAIN r = {"type", "folderid", "sfolderid", "name"}
    BY DEF Row
  <2>3. PICK f : f = IF r.folderid = -t THEN id ELSE r.folderid
    OBVIOUS
  <2>4. PICK g : g = IF r.sfolderid = -t THEN id ELSE r.sfolderid
    OBVIOUS
  <2>5. f \in Int /\ g \in Int
    BY <2>2, <2>3, <2>4
  <2> DEFINE s == [r EXCEPT !.folderid = f, !.sfolderid = g]
  <2>6. S[u] = s
    BY <1>1, <2>1, <2>3, <2>4, Zenon DEF NewIds
  <2>7. s.type = r.type /\ s.name = r.name /\ s.folderid = f /\ s.sfolderid = g
    BY <2>2
  <2>8. s \in Row
    BY <2>5, Zenon DEF Row
  <2> QED BY <2>1, <2>3, <2>4, <2>6, <2>7, <2>8, Zenon
<1> QED BY <1>1, <1>2 DEF Renumbered

(* A mkdir is done: its row goes, and its id replaces -t.                  *)
LEMMA RowRenumbered ==
  ASSUME NEW R, NEW D, NEW n, RowsKnown(R, D, n), NEW t \in Mkdirs(R), \A d \in D : d[1] # t,
         NEW id \in Nat, 0 < id, id < n, n \in Nat
  PROVE  RowsKnown(Without(Renumber(R, t, id), t), {d \in D : d[1] # t /\ d[2] # t}, n)
<1> DEFINE new(f) == IF f = -t THEN id ELSE f
<1>0. PICK S : S = Without(Renumber(R, t, id), t)
  OBVIOUS
<1> DEFINE E == {d \in D : d[1] # t /\ d[2] # t}
<1>1. /\ DOMAIN S = DOMAIN R \ {t} /\ S = [u \in DOMAIN S |-> S[u]]
      /\ \A u \in DOMAIN S :
           /\ S[u] \in Row /\ S[u].type = R[u].type /\ S[u].name = R[u].name
           /\ S[u].folderid = new(R[u].folderid) /\ S[u].sfolderid = new(R[u].sfolderid)
  <2>1. id \in Int
    OBVIOUS
  <2>2. Renumbered(R, t, id, S)
    BY <1>0, <2>1, RenumberFields
  <2> QED BY <2>2 DEF Renumbered
<1>2. t \in DOMAIN R /\ R[t].type = "mkdir" /\ t \in Nat \ {0}
  BY DEF Mkdirs, RowsKnown
<1>3. ASSUME NEW u \in DOMAIN S
      PROVE  /\ u \in DOMAIN R /\ u # t /\ u \in Nat \ {0}
             /\ S[u] \in Row /\ S[u].type = R[u].type /\ S[u].name = R[u].name
             /\ S[u].folderid = new(R[u].folderid) /\ S[u].sfolderid = new(R[u].sfolderid)
             /\ R[u].folderid \in Int /\ R[u].sfolderid \in Int /\ R[u].type \in {"mkdir", "rmdir"}
  <2>1. u \in DOMAIN R /\ u # t /\ R[u] \in Row /\ u \in Nat \ {0}
    BY <1>1 DEF RowsKnown
  <2>2. R[u].folderid \in Int /\ R[u].sfolderid \in Int /\ R[u].type \in {"mkdir", "rmdir"}
    BY <2>1 DEF Row
  <2> QED BY <1>1, <2>1, <2>2
<1>4. \A u \in Mkdirs(R) : u # t => u \in Mkdirs(S)
  BY <1>1, <1>3 DEF Mkdirs
<1>5. \A x, y : <<x, y>> \in D /\ x # t /\ y # t => <<x, y>> \in E
  OBVIOUS
<1>6. E \subseteq (DOMAIN S) \X (DOMAIN S)
  <2>1. ASSUME NEW d \in E PROVE d \in (DOMAIN S) \X (DOMAIN S)
    <3>1. d \in (DOMAIN R) \X (DOMAIN R) /\ d[1] # t /\ d[2] # t
      BY DEF RowsKnown
    <3>2. PICK x \in DOMAIN R, y \in DOMAIN R : d = <<x, y>>
      BY <3>1
    <3>3. x \in DOMAIN S /\ y \in DOMAIN S
      BY <1>1, <3>1, <3>2
    <3> QED BY <3>2, <3>3
  <2> QED BY <2>1
<1>7. \A x : <<t, x>> \notin D
  <2>1. ASSUME NEW x, <<t, x>> \in D PROVE FALSE
    <3>1. <<t, x>>[1] = t
      OBVIOUS
    <3> QED BY <2>1, <3>1
  <2> QED BY <2>1
<1> HIDE DEF E
<1>8. ASSUME NEW u \in DOMAIN S
      PROVE  S[u].folderid < n /\ S[u].sfolderid < n /\ RowKnown(S, E, u)
  <2>1. R[u].folderid < n /\ R[u].sfolderid < n /\ RowKnown(R, D, u)
    BY <1>3 DEF RowsKnown
  <2>2. ASSUME NEW c \in Int, 0 < c, c # t, Waits(R, D, u, c) PROVE Waits(S, E, u, c)
    <3>1. CASE <<u, c>> \in D
      BY <1>3, <1>5, <2>2, <3>1 DEF Waits
    <3>2. CASE /\ R[u].type = "rmdir"
               /\ \E v \in Mkdirs(R) : <<u, v>> \in D /\ R[v].folderid = -c
      <4>1. PICK v \in Mkdirs(R) : <<u, v>> \in D /\ R[v].folderid = -c
        BY <3>2
      <4>2. v # t
        <5>1. R[v].folderid < 0 => v # t
          <6>1. R[t].folderid >= 0 /\ R[t] \in Row
            BY <1>2, FreeResolved
          <6>2. R[t].folderid \in Int
            BY <6>1 DEF Row
          <6> QED BY <6>1, <6>2
        <5> QED BY <2>2, <4>1, <5>1
      <4>3. CASE v # t
        <5>1. v \in Mkdirs(S) /\ <<u, v>> \in E /\ S[v].folderid = -c
          <6>1. v \in Mkdirs(S) /\ v \in DOMAIN S
            BY <1>4, <4>3 DEF Mkdirs
          <6>2. -c # -t
            BY <1>2, <2>2
          <6>3. S[v].folderid = -c
            BY <1>3, <4>1, <6>1, <6>2
          <6> QED BY <1>3, <1>5, <4>1, <4>3, <6>1, <6>3
        <5> QED BY <1>3, <3>2, <5>1 DEF Waits
      <4> QED BY <4>2, <4>3
    <3> QED BY <2>2, <3>1, <3>2 DEF Waits
  <2>3. S[u].folderid < 0 => -S[u].folderid \in Mkdirs(S) /\ Waits(S, E, u, -S[u].folderid)
    <3>1. ASSUME S[u].folderid < 0 PROVE S[u].folderid = R[u].folderid /\ -R[u].folderid # t
      BY <1>2, <1>3, <3>1
    <3> QED BY <1>3, <1>4, <2>1, <2>2, <3>1 DEF RowKnown
  <2>4. R[u].type = "rmdir" /\ S[u].sfolderid < 0 =>
          -S[u].sfolderid \in Mkdirs(S) /\ <<u, -S[u].sfolderid>> \in E
    <3>1. ASSUME S[u].sfolderid < 0 PROVE S[u].sfolderid = R[u].sfolderid /\ -R[u].sfolderid # t
      BY <1>2, <1>3, <3>1
    <3> QED BY <1>3, <1>4, <1>5, <2>1, <3>1 DEF RowKnown
  <2> QED BY <1>2, <1>3, <2>1, <2>3, <2>4 DEF RowKnown
<1>9. DOMAIN S \subseteq Nat \ {0} /\ S \in [DOMAIN S -> Row]
  BY <1>1, <1>3
<1> QED BY <1>0, <1>6, <1>8, <1>9 DEF RowsKnown, E

(* A rmdir is done: its row goes.                                          *)
LEMMA RowRemoved ==
  ASSUME NEW R, NEW D, NEW n, RowsKnown(R, D, n), NEW t \in DOMAIN R \ Mkdirs(R)
  PROVE  RowsKnown(Without(R, t), {d \in D : d[1] # t /\ d[2] # t}, n)
<1>0. PICK S : S = Without(R, t)
  OBVIOUS
<1> DEFINE E == {d \in D : d[1] # t /\ d[2] # t}
<1>1. /\ DOMAIN S = DOMAIN R \ {t} /\ S = [u \in DOMAIN S |-> S[u]]
      /\ \A u \in DOMAIN S : S[u] = R[u]
  BY <1>0 DEF Without, Restrict
<1>2. Mkdirs(S) = Mkdirs(R)
  BY <1>1 DEF Mkdirs
<1>3. \A x, y : <<x, y>> \in D /\ x # t /\ y # t => <<x, y>> \in E
  OBVIOUS
<1>4. E \subseteq (DOMAIN S) \X (DOMAIN S)
  <2>1. ASSUME NEW d \in E PROVE d \in (DOMAIN S) \X (DOMAIN S)
    <3>1. d \in (DOMAIN R) \X (DOMAIN R) /\ d[1] # t /\ d[2] # t
      BY DEF RowsKnown
    <3>2. PICK x \in DOMAIN R, y \in DOMAIN R : d = <<x, y>>
      BY <3>1
    <3>3. x \in DOMAIN S /\ y \in DOMAIN S
      BY <1>1, <3>1, <3>2
    <3> QED BY <3>2, <3>3
  <2> QED BY <2>1
<1> HIDE DEF E
<1>5. ASSUME NEW u \in DOMAIN S
      PROVE  S[u] \in Row /\ S[u].folderid < n /\ S[u].sfolderid < n /\ RowKnown(S, E, u)
  <2>1. u # t /\ S[u] = R[u] /\ R[u] \in Row /\ R[u].folderid < n /\ R[u].sfolderid < n /\ RowKnown(R, D, u)
    BY <1>1 DEF RowsKnown
  <2>2. \A c \in Mkdirs(R) : Waits(R, D, u, c) => Waits(S, E, u, c)
    BY <1>1, <1>2, <1>3, <2>1 DEF Waits, Mkdirs
  <2>3. \A c \in Mkdirs(R) : <<u, c>> \in D => <<u, c>> \in E
    BY <1>3, <2>1
  <2> QED BY <1>2, <2>1, <2>2, <2>3 DEF RowKnown
<1>6. DOMAIN S \subseteq Nat \ {0} /\ S \in [DOMAIN S -> Row]
  BY <1>1, <1>5 DEF RowsKnown
<1> QED BY <1>0, <1>4, <1>5, <1>6 DEF RowsKnown, E

(* A mkdir that was refused is pointed at the root.                        *)
AtRoot(R, t, S) ==
  /\ DOMAIN S = DOMAIN R /\ \A u \in DOMAIN R : u # t => S[u] = R[u]
  /\ S[t] \in Row /\ S[t].folderid = 0 /\ S[t].sfolderid = R[t].sfolderid
  /\ S[t].type = "mkdir" /\ S[t].name = R[t].name

(* The rows make sense with that mkdir in the root.                        *)
LEMMA RowRefused ==
  ASSUME NEW R, NEW D, NEW n, RowsKnown(R, D, n), n \in Nat \ {0},
         NEW t \in Mkdirs(R), \A d \in D : d[1] # t,
         NEW S, S = [R EXCEPT ![t].folderid = 0]
  PROVE  RowsKnown(S, D, n) /\ AtRoot(R, t, S)
<1>1. /\ t \in DOMAIN R /\ R[t].type = "mkdir" /\ t \in Nat \ {0} /\ R[t] \in Row
      /\ R[t].folderid >= 0 /\ R[t].sfolderid >= 0
  BY FreeResolved DEF Mkdirs
<1>2. /\ S[t] \in Row /\ S[t].folderid = 0 /\ S[t].sfolderid = R[t].sfolderid
      /\ S[t].type = "mkdir" /\ S[t].name = R[t].name
  <2>1. PICK r \in Row : r = R[t]
    BY <1>1
  <2>2. S[t] = [r EXCEPT !.folderid = 0]
    BY <1>1, <2>1
  <2>3. [r EXCEPT !.folderid = 0] \in Row
    <3>1. 0 \in Int
      OBVIOUS
    <3> QED BY <3>1, Zenon DEF Row
  <2>4. DOMAIN r = {"type", "folderid", "sfolderid", "name"}
    BY DEF Row
  <2> QED BY <1>1, <2>1, <2>2, <2>3, <2>4
<1>3. DOMAIN S = DOMAIN R /\ \A u \in DOMAIN R : u # t => S[u] = R[u]
  OBVIOUS
<1>4. Mkdirs(S) = Mkdirs(R)
  BY <1>1, <1>2, <1>3 DEF Mkdirs
<1>5. R[t].folderid \in Int /\ R[t].sfolderid \in Int
  BY <1>1 DEF Row
<1>6. ASSUME NEW u \in DOMAIN S, u # t
      PROVE  S[u] \in Row /\ S[u].folderid < n /\ S[u].sfolderid < n /\ RowKnown(S, D, u)
  <2>1. S[u] = R[u] /\ R[u] \in Row /\ R[u].folderid < n /\ R[u].sfolderid < n /\ RowKnown(R, D, u)
    BY <1>3, <1>6 DEF RowsKnown
  <2>2. ASSUME NEW c \in Int, 0 < c, Waits(R, D, u, c) PROVE Waits(S, D, u, c)
    <3>1. CASE <<u, c>> \in D
      BY <3>1 DEF Waits
    <3>2. CASE /\ R[u].type = "rmdir"
               /\ \E v \in Mkdirs(R) : <<u, v>> \in D /\ R[v].folderid = -c
      <4>1. PICK v \in Mkdirs(R) : <<u, v>> \in D /\ R[v].folderid = -c
        BY <3>2
      <4>2. v # t /\ v \in DOMAIN R
        BY <1>1, <1>5, <2>2, <4>1 DEF Mkdirs
      <4>3. v \in Mkdirs(S) /\ S[v].folderid = -c
        BY <1>3, <1>4, <4>1, <4>2
      <4> QED BY <2>1, <3>2, <4>1, <4>3 DEF Waits
    <3> QED BY <2>2, <3>1, <3>2 DEF Waits
  <2>3. R[u].folderid \in Int
    BY <2>1 DEF Row
  <2>4. R[u].folderid < 0 => -R[u].folderid \in Mkdirs(S) /\ Waits(S, D, u, -R[u].folderid)
    <3>1. ASSUME R[u].folderid < 0 PROVE -R[u].folderid \in Int /\ 0 < -R[u].folderid
      BY <2>3, <3>1
    <3> QED BY <1>4, <2>1, <2>2, <3>1, Zenon DEF RowKnown
  <2> QED BY <1>4, <2>1, <2>4, Zenon DEF RowKnown
<1>7. RowKnown(S, D, t) /\ S[t].folderid < n /\ S[t].sfolderid < n
  <2>1. R[t].sfolderid < n
    BY <1>1 DEF RowsKnown
  <2> QED BY <1>1, <1>2, <2>1 DEF RowKnown
<1>8. DOMAIN S \subseteq Nat \ {0} /\ S \in [DOMAIN S -> Row]
  <2>1. S = [u \in DOMAIN S |-> S[u]] /\ DOMAIN S \subseteq Nat \ {0}
    BY <1>3 DEF RowsKnown
  <2>2. \A u \in DOMAIN S : S[u] \in Row
    BY <1>2, <1>6
  <2> QED BY <2>1, <2>2
<1>9. RowsKnown(S, D, n)
  BY <1>2, <1>3, <1>6, <1>7, <1>8 DEF RowsKnown
<1> QED BY <1>2, <1>3, <1>9 DEF AtRoot

-----------------------------------------------------------------------------
(* The overlay.  It is known by other rows that its entries are of, too.   *)
LEMMA OverlayRows ==
  ASSUME NEW R, NEW S, NEW F, NEW n \in Nat, NEW q \in Nat, n <= q, OverlayKnown(R, F, n),
         \A f \in DOMAIN F : /\ \A m \in F[f].mkdirs : OwnMkdir(R, f, m) => OwnMkdir(S, f, m)
                             /\ \A m \in F[f].rmdirs : RmdirKnown(R, f, m) => RmdirKnown(S, f, m)
  PROVE  OverlayKnown(S, F, q)
<1>1. ASSUME NEW f \in DOMAIN F PROVE FolderKnown(S, f, F[f], q)
  <2>1. FolderKnown(R, f, F[f], n)
    BY DEF OverlayKnown
  <2>2. ASSUME NEW m \in F[f].mkdirs PROVE MkdirKnown(S, f, m, q)
    <3>1. MkdirKnown(R, f, m, n)
      BY <2>1 DEF FolderKnown
    <3> QED BY <3>1 DEF MkdirKnown
  <2>3. \A m \in F[f].rmdirs : RmdirKnown(S, f, m)
    BY <2>1 DEF FolderKnown
  <2> QED BY <2>1, <2>2, <2>3, Zenon DEF FolderKnown
<1> QED BY <1>1, Zenon DEF OverlayKnown

(* One folder of it is replaced.                                           *)
LEMMA OverlaySet ==
  ASSUME NEW R, NEW F, NEW n, OverlayKnown(R, F, n), NEW f \in Int, NEW g, FolderKnown(R, f, g, n),
         \A h \in DOMAIN F : h # f =>
           \A m \in g.mkdirs, p \in F[h].mkdirs : m.folderid = p.folderid => ~(m.folderid < 0)
  PROVE  OverlayKnown(R, With(F, f, g), n)
<1>0. PICK G : G = With(F, f, g)
  OBVIOUS
<1>1. /\ DOMAIN G = DOMAIN F \cup {f} /\ G[f] = g /\ \A h \in DOMAIN F : h # f => G[h] = F[h]
      /\ G = [h \in DOMAIN G |-> G[h]]
  BY <1>0 DEF With
<1>2. DOMAIN G \subseteq Int /\ \A h \in DOMAIN G : FolderKnown(R, h, G[h], n)
  BY <1>1 DEF OverlayKnown
<1>3. OnePlace(G)
  <2> SUFFICES ASSUME NEW h \in DOMAIN G, NEW k \in DOMAIN G, NEW m \in G[h].mkdirs,
                      NEW p \in G[k].mkdirs, m.folderid = p.folderid, m.folderid < 0
               PROVE  h = k
    BY DEF OnePlace
  <2>1. CASE h # f /\ k # f
    BY <1>1, <2>1 DEF OverlayKnown, OnePlace
  <2>2. CASE h = f /\ k # f
    BY <1>1, <2>2
  <2>3. CASE h # f /\ k = f
    BY <1>1, <2>3
  <2> QED BY <2>1, <2>2, <2>3
<1> QED BY <1>0, <1>1, <1>2, <1>3 DEF OverlayKnown

(* A folder of the overlay is freed.                                       *)
LEMMA OverlayWithout ==
  ASSUME NEW R, NEW F, NEW n, OverlayKnown(R, F, n), NEW f
  PROVE  OverlayKnown(R, Without(F, f), n)
<1>0. PICK G : G = Without(F, f)
  OBVIOUS
<1>1. /\ DOMAIN G = DOMAIN F \ {f} /\ \A h \in DOMAIN G : G[h] = F[h]
      /\ G = [h \in DOMAIN G |-> G[h]]
  BY <1>0 DEF Without, Restrict
<1> QED BY <1>0, <1>1 DEF OverlayKnown, OnePlace

(* The entries of one folder are replaced.                                 *)
LEMMA OverlayEdit ==
  ASSUME NEW R, NEW F, NEW n, OverlayKnown(R, F, n), NEW f \in DOMAIN F, NEW T, NEW U, NEW c,
         IsFiniteSet(T), IsFiniteSet(U), c = Cardinality(T) + Cardinality(U),
         \A m \in T : \/ m \in F[f].mkdirs
                      \/ /\ MkdirKnown(R, f, m, n)
                         /\ \/ m.folderid >= 0
                            \/ \A h \in DOMAIN F : \A p \in F[h].mkdirs : p.folderid # m.folderid,
         \A m, p \in T : m.taskid = p.taskid /\ m.name = p.name => m = p,
         \A m \in U : m \in F[f].rmdirs \/ RmdirKnown(R, f, m)
  PROVE  OverlayKnown(R, Put(F, f, c, T, U), n)
<1>1. PICK g : g = [taskscnt |-> c, mkdirs |-> T, rmdirs |-> U]
  OBVIOUS
<1>2. /\ g.taskscnt = c /\ g.mkdirs = T /\ g.rmdirs = U
      /\ g = [taskscnt |-> g.taskscnt, mkdirs |-> g.mkdirs, rmdirs |-> g.rmdirs]
  BY <1>1
<1>3. FolderKnown(R, f, F[f], n) /\ f \in Int
  BY DEF OverlayKnown
<1>4. \A m \in T : MkdirKnown(R, f, m, n)
  BY <1>3 DEF FolderKnown
<1>5. \A m \in U : RmdirKnown(R, f, m)
  BY <1>3 DEF FolderKnown
<1>6. FolderKnown(R, f, g, n)
  <2>1. \A m, p \in g.mkdirs : m.taskid = p.taskid /\ m.name = p.name => m = p
    BY <1>2
  <2> QED BY <1>2, <1>4, <1>5, <2>1, Zenon DEF FolderKnown
<1>7. ASSUME NEW h \in DOMAIN F, h # f, NEW m \in g.mkdirs, NEW p \in F[h].mkdirs,
             m.folderid = p.folderid, m.folderid < 0
      PROVE  FALSE
  <2>1. m.folderid \in Int
    BY <1>2, <1>4 DEF MkdirKnown
  <2>2. m \in F[f].mkdirs
    BY <1>2, <1>7, <2>1
  <2> QED BY <1>7, <2>2 DEF OverlayKnown, OnePlace
<1> QED BY <1>1, <1>3, <1>6, <1>7, OverlaySet DEF Put

(* What is known of one folder of the overlay.                             *)
LEMMA OverlayFolder ==
  ASSUME NEW R, NEW F, NEW n, OverlayKnown(R, F, n), NEW f \in DOMAIN F
  PROVE  /\ FolderKnown(R, f, F[f], n) /\ f \in Int
         /\ IsFiniteSet(F[f].mkdirs) /\ IsFiniteSet(F[f].rmdirs)
         /\ Cardinality(F[f].mkdirs) \in Nat /\ Cardinality(F[f].rmdirs) \in Nat
         /\ F[f].taskscnt = Cardinality(F[f].mkdirs) + Cardinality(F[f].rmdirs)
<1>1. FolderKnown(R, f, F[f], n) /\ f \in Int /\ F = [h \in DOMAIN F |-> F[h]]
  BY DEF OverlayKnown
<1>2. /\ IsFiniteSet(F[f].mkdirs) /\ IsFiniteSet(F[f].rmdirs)
      /\ F[f].taskscnt = Cardinality(F[f].mkdirs) + Cardinality(F[f].rmdirs)
  BY <1>1, Zenon DEF FolderKnown
<1>3. Cardinality(F[f].mkdirs) \in Nat /\ Cardinality(F[f].rmdirs) \in Nat
  BY <1>2, FS_CardinalityType
<1> QED BY <1>1, <1>2, <1>3

(* What Put leaves.                                                        *)
Changed(F, f, c, T, U, G) ==
  /\ DOMAIN G = DOMAIN F \cup {f}
  /\ G[f].taskscnt = c /\ G[f].mkdirs = T /\ G[f].rmdirs = U
  /\ \A h \in DOMAIN F : h # f => G[h] = F[h]

(* Put replaces one folder and leaves the others.                          *)
LEMMA PutFields ==
  ASSUME NEW F, NEW f, NEW c, NEW T, NEW U, NEW G, G = Put(F, f, c, T, U)
  PROVE  Changed(F, f, c, T, U, G)
BY DEF Put, With, Changed

(* A finite set without a part of it.                                      *)
LEMMA Difference ==
  ASSUME NEW A, IsFiniteSet(A), NEW S, S \subseteq A
  PROVE  /\ IsFiniteSet(S) /\ IsFiniteSet(A \ S)
         /\ Cardinality(S) \in Nat /\ Cardinality(A \ S) \in Nat
         /\ Cardinality(A) = Cardinality(S) + Cardinality(A \ S)
<1>1. PICK T : T = A \ S
  OBVIOUS
<1>2. IsFiniteSet(S) /\ IsFiniteSet(T)
  <2>1. S \in SUBSET A /\ T \in SUBSET A
    BY <1>1
  <2> QED BY <2>1, FS_Subset
<1>3. Cardinality(S \cup T) = Cardinality(S) + Cardinality(T) - Cardinality(S \cap T)
  BY <1>2, FS_Union
<1>4. Cardinality(S) \in Nat /\ Cardinality(T) \in Nat /\ Cardinality({}) = 0
  BY <1>2, FS_CardinalityType, FS_EmptySet
<1>5. S \cup T = A /\ S \cap T = {}
  BY <1>1
<1>6. Cardinality(A) = Cardinality(S) + Cardinality(T) - 0
  BY <1>3, <1>4, <1>5, Zenon
<1> QED BY <1>1, <1>2, <1>4, <1>6

(* psync_fstask_get_or_create_folder_tasks_locked, and the end of a folder *)
(* that has no tasks.                                                      *)
Obtained(F, f, G) ==
  /\ f \in DOMAIN G /\ DOMAIN G = DOMAIN F \cup {f}
  /\ \A h \in DOMAIN F : G[h] = F[h]
  /\ f \notin DOMAIN F => G[f].mkdirs = {} /\ G[f].rmdirs = {}
  /\ \A h, x : find_mkdir(G, h, x) = find_mkdir(F, h, x)

(* psync_fstask_get_or_create_folder_tasks_locked adds at most an empty    *)
(* folder.                                                                 *)
LEMMA Gotten ==
  ASSUME NEW R, NEW F, NEW n, OverlayKnown(R, F, n), NEW f \in Int, NEW G, G = get_or_create(F, f)
  PROVE  OverlayKnown(R, G, n) /\ Obtained(F, f, G)
<1>1. CASE f \in DOMAIN F
  BY <1>1 DEF get_or_create, Obtained
<1>2. CASE f \notin DOMAIN F
  <2>1. G = With(F, f, NoTasks)
    BY <1>2 DEF get_or_create
  <2>2. /\ NoTasks.mkdirs = {} /\ NoTasks.rmdirs = {} /\ NoTasks.taskscnt = 0
        /\ NoTasks = [taskscnt |-> NoTasks.taskscnt, mkdirs |-> NoTasks.mkdirs, rmdirs |-> NoTasks.rmdirs]
    BY DEF NoTasks
  <2>3. FolderKnown(R, f, NoTasks, n)
    <3>1. IsFiniteSet({}) /\ Cardinality({}) = 0 /\ 0 = 0 + 0
      BY FS_EmptySet
    <3> QED BY <2>2, <3>1 DEF FolderKnown
  <2>4. OverlayKnown(R, G, n)
    BY <2>1, <2>2, <2>3, OverlaySet
  <2>5. f \in DOMAIN G /\ DOMAIN G = DOMAIN F \cup {f} /\ G[f] = NoTasks /\ \A h \in DOMAIN F : G[h] = F[h]
    BY <1>2, <2>1 DEF With
  <2>6. \A h : Tasks(G, h).mkdirs = Tasks(F, h).mkdirs
    BY <1>2, <2>5 DEF Tasks
  <2> QED BY <2>2, <2>4, <2>5, <2>6 DEF find_mkdir, Obtained
<1> QED BY <1>1, <1>2

Within(G, F) == DOMAIN G \subseteq DOMAIN F /\ \A h \in DOMAIN G : G[h] = F[h]
BusyBut(F, f) == \A h \in DOMAIN F : h # f => F[h].taskscnt > 0

(* psync_fstask_release_folder_tasks_locked: after it no folder is empty.  *)
LEMMA Released ==
  ASSUME NEW R, NEW F, NEW n, OverlayKnown(R, F, n), NEW f,
         BusyBut(F, f), NEW G, G = Release(F, f)
  PROVE  OverlayKnown(R, G, n) /\ Busy(G) /\ Within(G, F)
<1>1. CASE f \in DOMAIN F /\ F[f].taskscnt = 0
  <2>1. Release(F, f) = Without(F, f)
    BY <1>1 DEF Release
  <2>2. DOMAIN Without(F, f) = DOMAIN F \ {f} /\ \A h \in DOMAIN Without(F, f) : Without(F, f)[h] = F[h]
    BY DEF Without, Restrict
  <2> QED BY <2>1, <2>2, OverlayWithout DEF Busy, BusyBut, Within
<1>2. CASE f \notin DOMAIN F
  BY <1>2 DEF Release, Busy, BusyBut, Within
<1>3. CASE f \in DOMAIN F /\ F[f].taskscnt # 0
  <2>1. F[f].taskscnt > 0
    BY <1>3, OverlayFolder
  <2> QED BY <1>3, <2>1 DEF Release, Busy, BusyBut, Within
<1> QED BY <1>1, <1>2, <1>3

(* Entries are taken out of a folder, or added to it.                      *)
LEMMA MkdirsDropped ==
  ASSUME NEW R, NEW F, NEW n, OverlayKnown(R, F, n), NEW f \in DOMAIN F,
         NEW S, S \subseteq F[f].mkdirs, NEW G, G = DropMkdirs(F, f, S)
  PROVE  /\ OverlayKnown(R, G, n) /\ DOMAIN G = DOMAIN F
         /\ G[f].mkdirs = F[f].mkdirs \ S /\ G[f].rmdirs = F[f].rmdirs
         /\ \A h \in DOMAIN F : h # f => G[h] = F[h]
<1>1. PICK T : T = F[f].mkdirs \ S
  OBVIOUS
<1>2. IsFiniteSet(T) /\ IsFiniteSet(S) /\ Cardinality(T) = Cardinality(F[f].mkdirs) - Cardinality(S)
      /\ Cardinality(S) \in Nat /\ Cardinality(T) \in Nat
  <2>1. PICK A : A = F[f].mkdirs
    OBVIOUS
  <2>2. IsFiniteSet(A) /\ S \subseteq A /\ T = A \ S
    BY <1>1, <2>1, OverlayFolder
  <2>3. /\ IsFiniteSet(S) /\ IsFiniteSet(T) /\ Cardinality(S) \in Nat /\ Cardinality(T) \in Nat
        /\ Cardinality(A) = Cardinality(S) + Cardinality(T)
    BY <2>2, Difference, Zenon
  <2>4. Cardinality(T) = Cardinality(A) - Cardinality(S)
    BY <2>3
  <2> QED BY <2>1, <2>3, <2>4
<1>3. PICK c : c = F[f].taskscnt - Cardinality(S)
  OBVIOUS
<1>4. /\ IsFiniteSet(F[f].rmdirs) /\ c = Cardinality(T) + Cardinality(F[f].rmdirs)
      /\ FolderKnown(R, f, F[f], n)
  BY <1>2, <1>3, OverlayFolder
<1>5. G = Put(F, f, c, T, F[f].rmdirs)
  BY <1>1, <1>3 DEF DropMkdirs
<1>6. \A m, p \in T : m.taskid = p.taskid /\ m.name = p.name => m = p
  BY <1>1, <1>4 DEF FolderKnown
<1>7. \A m \in T : m \in F[f].mkdirs
  BY <1>1
<1>8. OverlayKnown(R, Put(F, f, c, T, F[f].rmdirs), n)
  BY <1>2, <1>4, <1>6, <1>7, OverlayEdit
<1>9. Changed(F, f, c, T, F[f].rmdirs, G)
  BY <1>5, PutFields
<1> QED BY <1>1, <1>5, <1>8, <1>9 DEF Changed

(* Entries leave the tree rmdirs of a folder.                              *)
LEMMA RmdirsDropped ==
  ASSUME NEW R, NEW F, NEW n, OverlayKnown(R, F, n), NEW f \in DOMAIN F,
         NEW S, S \subseteq F[f].rmdirs, NEW G, G = DropRmdirs(F, f, S)
  PROVE  /\ OverlayKnown(R, G, n) /\ DOMAIN G = DOMAIN F
         /\ G[f].rmdirs = F[f].rmdirs \ S /\ G[f].mkdirs = F[f].mkdirs
         /\ \A h \in DOMAIN F : h # f => G[h] = F[h]
<1>1. PICK T : T = F[f].rmdirs \ S
  OBVIOUS
<1>2. IsFiniteSet(T) /\ IsFiniteSet(S) /\ Cardinality(T) = Cardinality(F[f].rmdirs) - Cardinality(S)
      /\ Cardinality(S) \in Nat /\ Cardinality(T) \in Nat
  <2>1. PICK A : A = F[f].rmdirs
    OBVIOUS
  <2>2. IsFiniteSet(A) /\ S \subseteq A /\ T = A \ S
    BY <1>1, <2>1, OverlayFolder
  <2>3. /\ IsFiniteSet(S) /\ IsFiniteSet(T) /\ Cardinality(S) \in Nat /\ Cardinality(T) \in Nat
        /\ Cardinality(A) = Cardinality(S) + Cardinality(T)
    BY <2>2, Difference, Zenon
  <2>4. Cardinality(T) = Cardinality(A) - Cardinality(S)
    BY <2>3
  <2> QED BY <2>1, <2>3, <2>4
<1>3. PICK c : c = F[f].taskscnt - Cardinality(S)
  OBVIOUS
<1>4. /\ IsFiniteSet(F[f].mkdirs) /\ c = Cardinality(F[f].mkdirs) + Cardinality(T)
      /\ FolderKnown(R, f, F[f], n)
  BY <1>2, <1>3, OverlayFolder
<1>5. G = Put(F, f, c, F[f].mkdirs, T)
  BY <1>1, <1>3 DEF DropRmdirs
<1>6. \A m, p \in F[f].mkdirs : m.taskid = p.taskid /\ m.name = p.name => m = p
  BY <1>4 DEF FolderKnown
<1>7. \A m \in T : m \in F[f].rmdirs
  BY <1>1
<1>8. OverlayKnown(R, Put(F, f, c, F[f].mkdirs, T), n)
  BY <1>2, <1>4, <1>6, <1>7, OverlayEdit
<1>9. Changed(F, f, c, F[f].mkdirs, T, G)
  BY <1>5, PutFields
<1> QED BY <1>1, <1>5, <1>8, <1>9 DEF Changed

(* psync_fstask_mkdir puts its entry into the tree.                        *)
LEMMA MkdirAdded ==
  ASSUME NEW R, NEW F, NEW n, OverlayKnown(R, F, n), NEW f \in DOMAIN F,
         NEW m, MkdirKnown(R, f, m, n),
         \A h \in DOMAIN F : \A p \in F[h].mkdirs : p.folderid # m.folderid,
         \A p \in F[f].mkdirs : p.name # m.name,
         NEW G, G = AddMkdir(F, f, m)
  PROVE  /\ OverlayKnown(R, G, n) /\ DOMAIN G = DOMAIN F
         /\ G[f].mkdirs = F[f].mkdirs \cup {m} /\ G[f].rmdirs = F[f].rmdirs /\ G[f].taskscnt > 0
         /\ \A h \in DOMAIN F : h # f => G[h] = F[h]
<1>1. PICK T : T = F[f].mkdirs \cup {m}
  OBVIOUS
<1>2. PICK c : c = F[f].taskscnt + 1
  OBVIOUS
<1>3. /\ IsFiniteSet(F[f].rmdirs) /\ IsFiniteSet(F[f].mkdirs) /\ FolderKnown(R, f, F[f], n)
      /\ Cardinality(F[f].mkdirs) \in Nat /\ Cardinality(F[f].rmdirs) \in Nat
      /\ F[f].taskscnt = Cardinality(F[f].mkdirs) + Cardinality(F[f].rmdirs)
  BY OverlayFolder
<1>4. IsFiniteSet(T) /\ Cardinality(T) = Cardinality(F[f].mkdirs) + 1
  BY <1>1, <1>3, FS_AddElement
<1>5. G = Put(F, f, c, T, F[f].rmdirs)
  BY <1>1, <1>2 DEF AddMkdir
<1>6. \A x, y \in T : x.taskid = y.taskid /\ x.name = y.name => x = y
  BY <1>1, <1>3 DEF FolderKnown
<1>7. c = Cardinality(T) + Cardinality(F[f].rmdirs) /\ c > 0
  BY <1>2, <1>3, <1>4
<1>8. \A x \in T : x \in F[f].mkdirs \/ x = m
  BY <1>1
<1>9. OverlayKnown(R, Put(F, f, c, T, F[f].rmdirs), n)
  BY <1>3, <1>4, <1>6, <1>7, <1>8, OverlayEdit
<1>10. Changed(F, f, c, T, F[f].rmdirs, G)
  BY <1>5, PutFields
<1> QED BY <1>1, <1>5, <1>7, <1>9, <1>10 DEF Changed

(* psync_fstask_rmdir puts its entry into the tree.                        *)
LEMMA RmdirAdded ==
  ASSUME NEW R, NEW F, NEW n, OverlayKnown(R, F, n), NEW f \in DOMAIN F,
         NEW m, RmdirKnown(R, f, m), m \notin F[f].rmdirs,
         NEW G, G = AddRmdir(F, f, m)
  PROVE  /\ OverlayKnown(R, G, n) /\ DOMAIN G = DOMAIN F
         /\ G[f].rmdirs = F[f].rmdirs \cup {m} /\ G[f].mkdirs = F[f].mkdirs /\ G[f].taskscnt > 0
         /\ \A h \in DOMAIN F : h # f => G[h] = F[h]
<1>1. PICK T : T = F[f].rmdirs \cup {m}
  OBVIOUS
<1>2. PICK c : c = F[f].taskscnt + 1
  OBVIOUS
<1>3. /\ IsFiniteSet(F[f].rmdirs) /\ IsFiniteSet(F[f].mkdirs) /\ FolderKnown(R, f, F[f], n)
      /\ Cardinality(F[f].mkdirs) \in Nat /\ Cardinality(F[f].rmdirs) \in Nat
      /\ F[f].taskscnt = Cardinality(F[f].mkdirs) + Cardinality(F[f].rmdirs)
  BY OverlayFolder
<1>4. IsFiniteSet(T) /\ Cardinality(T) = Cardinality(F[f].rmdirs) + 1
  BY <1>1, <1>3, FS_AddElement
<1>5. G = Put(F, f, c, F[f].mkdirs, T)
  BY <1>1, <1>2 DEF AddRmdir
<1>6. \A x, y \in F[f].mkdirs : x.taskid = y.taskid /\ x.name = y.name => x = y
  BY <1>3 DEF FolderKnown
<1>7. c = Cardinality(F[f].mkdirs) + Cardinality(T) /\ c > 0
  BY <1>2, <1>3, <1>4
<1>8. \A x \in T : x \in F[f].rmdirs \/ x = m
  BY <1>1
<1>9. OverlayKnown(R, Put(F, f, c, F[f].mkdirs, T), n)
  BY <1>3, <1>4, <1>6, <1>7, <1>8, OverlayEdit
<1>10. Changed(F, f, c, F[f].mkdirs, T, G)
  BY <1>5, PutFields
<1> QED BY <1>1, <1>5, <1>7, <1>9, <1>10 DEF Changed

(* The entries a mkdir can have: in the folder it is made in.              *)
LEMMA EntryPlace ==
  ASSUME NEW R, NEW D, NEW n, RowsKnown(R, D, n), NEW F, OverlayKnown(R, F, n),
         NEW t \in Mkdirs(R), NEW f \in DOMAIN F, NEW m \in F[f].mkdirs, m.folderid = -t
  PROVE  /\ m.taskid = t /\ m.name = R[t].name
         /\ R[t].folderid = f \/ R[t].sfolderid = f
<1>1. FolderKnown(R, f, F[f], n)
  BY OverlayFolder
<1>2. MkdirKnown(R, f, m, n)
  BY <1>1 DEF FolderKnown
<1>3. t \in Nat \ {0} /\ m.taskid \in Int /\ m.folderid \in Int
  BY <1>2 DEF MkdirKnown, RowsKnown, Mkdirs
<1>4. OwnMkdir(R, f, m)
  BY <1>2, <1>3 DEF MkdirKnown
<1>5. m.taskid = t
  BY <1>3, <1>4 DEF OwnMkdir
<1> QED BY <1>4, <1>5 DEF OwnMkdir

(* psync_fstask_folder_created, up to the tree of the new folder: the      *)
(* entry of the mkdir goes, or keeps the name with the id of the server.   *)
Here(F, f, n, t) == {m \in find_mkdir(F, f, n) : m.taskid = t}
Moved(F, s, t) == {m \in Tasks(F, s).mkdirs : m.folderid = -t}
Identified(F, s, moved, id) ==
  Put(F, s, F[s].taskscnt,
      (F[s].mkdirs \ moved) \cup
        {[taskid |-> m.taskid, name |-> m.name, folderid |-> id] : m \in moved},
      F[s].rmdirs)
Settled(F, f, t, id, n, s) ==
  IF Here(F, f, n, t) # {} THEN Release(DropMkdirs(F, f, Here(F, f, n, t)), f)
  ELSE IF Moved(F, s, t) # {} THEN Identified(F, s, Moved(F, s, t), id)
  ELSE F

(* The mkdir that ended has its entry where its row says.                  *)
LEMMA EntryDropped ==
  ASSUME NEW R, NEW D, NEW n, RowsKnown(R, D, n), NEW F, OverlayKnown(R, F, n), Busy(F),
         NEW t \in Mkdirs(R), \A d \in D : d[1] # t,
         NEW here, here = Here(F, R[t].folderid, R[t].name, t), here # {},
         NEW G, G = Release(DropMkdirs(F, R[t].folderid, here), R[t].folderid)
  PROVE  OverlayKnown(R, G, n) /\ Busy(G) /\ Vacant(G, t) /\ (Plain(F) => Plain(G))
<1>1. PICK f : f = R[t].folderid
  OBVIOUS
<1>2. PICK s : s = R[t].sfolderid
  OBVIOUS
<1>3. f \in Int /\ s \in Int /\ f >= 0 /\ s >= 0 /\ t \in Nat \ {0} /\ (s = f \/ f = 0)
  <2>1. /\ t \in DOMAIN R /\ R[t].type = "mkdir" /\ t \in Nat \ {0} /\ R[t] \in Row
        /\ R[t].folderid >= 0 /\ R[t].sfolderid >= 0
    BY FreeResolved DEF Mkdirs
  <2> QED BY <1>1, <1>2, <2>1 DEF RowsKnown, RowKnown, Row
<1>4. f \in DOMAIN F /\ here \subseteq F[f].mkdirs
  BY <1>1 DEF Here, find_mkdir, Tasks, NoTasks
<1>5. \A m \in F[f].mkdirs : m.folderid = -t => m \in here
  BY <1>1, <1>4, EntryPlace DEF Here, find_mkdir, Tasks
<1>6. PICK H : H = DropMkdirs(F, f, here)
  OBVIOUS
<1>7. /\ OverlayKnown(R, H, n) /\ DOMAIN H = DOMAIN F
      /\ H[f].mkdirs = F[f].mkdirs \ here /\ H[f].rmdirs = F[f].rmdirs
      /\ \A h \in DOMAIN F : h # f => H[h] = F[h]
  BY <1>4, <1>6, MkdirsDropped
<1>8. BusyBut(H, f)
  BY <1>7 DEF Busy, BusyBut
<1>9. OverlayKnown(R, G, n) /\ Busy(G) /\ Within(G, H)
  <2>1. G = Release(H, f)
    BY <1>1, <1>6
  <2>2. OverlayKnown(R, H, n)
    BY <1>7
  <2> QED BY <1>8, <2>1, <2>2, Released
<1>10. Vacant(G, t)
  <2> SUFFICES ASSUME NEW h \in DOMAIN G, NEW m \in G[h].mkdirs, m.folderid = -t
               PROVE  FALSE
    BY DEF Vacant
  <2>1. h \in DOMAIN F /\ m \in H[h].mkdirs
    BY <1>7, <1>9 DEF Within
  <2>2. CASE h = f
    BY <1>5, <1>7, <2>1, <2>2
  <2>3. CASE h # f
    <3>1. m \in F[h].mkdirs
      BY <1>7, <2>1, <2>3
    <3>2. h = s /\ f = 0
      BY <1>1, <1>2, <1>3, <2>1, <2>3, <3>1, EntryPlace
    <3>3. PICK e \in here : TRUE
      OBVIOUS
    <3>4. e \in F[f].mkdirs /\ e.taskid = t
      BY <1>4, <3>3 DEF Here
    <3>5. MkdirKnown(R, f, e, n)
      BY <1>4, <3>4, OverlayFolder DEF FolderKnown
    <3>6. OwnMkdir(R, f, e) /\ e.folderid \in Int
      BY <3>2, <3>5 DEF MkdirKnown
    <3>7. e.folderid = -t
      BY <1>3, <3>4, <3>6 DEF OwnMkdir
    <3>8. h = f
      BY <1>3, <1>4, <2>1, <3>1, <3>4, <3>7 DEF OverlayKnown, OnePlace
    <3> QED BY <2>3, <3>8
  <2> QED BY <2>2, <2>3
<1>11. Plain(F) => Plain(G)
  <2>1. \A h \in DOMAIN G : G[h].mkdirs \subseteq F[h].mkdirs /\ h \in DOMAIN F
    BY <1>7, <1>9 DEF Within
  <2> QED BY <2>1 DEF Plain
<1> QED BY <1>9, <1>10, <1>11

(* The row was pointed at the root: its entry is where it was made, and    *)
(* gets the id of the server.                                              *)
LEMMA EntryMoved ==
  ASSUME NEW R, NEW D, NEW n, RowsKnown(R, D, n), NEW F, OverlayKnown(R, F, n), Busy(F),
         NEW t \in Mkdirs(R), \A d \in D : d[1] # t, n \in Nat, NEW id \in Nat, 0 < id, id < n,
         Here(F, R[t].folderid, R[t].name, t) = {},
         NEW s, s = R[t].sfolderid, NEW moved, moved = Moved(F, s, t), moved # {},
         NEW G, G = Identified(F, s, moved, id)
  PROVE  OverlayKnown(R, G, n) /\ Busy(G) /\ Vacant(G, t) /\ R[t].folderid # s
<1>1. t \in DOMAIN R /\ R[t] \in Row /\ t \in Nat \ {0} /\ s \in Int /\ s >= 0
  BY FreeResolved DEF Mkdirs, Row
<1>2. s \in DOMAIN F /\ moved \subseteq F[s].mkdirs /\ moved = {m \in F[s].mkdirs : m.folderid = -t}
  BY DEF Moved, Tasks, NoTasks
<1>3. PICK e : e \in moved
  OBVIOUS
<1>4. e \in F[s].mkdirs /\ e.folderid = -t
  BY <1>2, <1>3
<1>5. e.taskid = t /\ e.name = R[t].name
  BY <1>2, <1>4, EntryPlace
<1>6. R[t].folderid # s
  BY <1>2, <1>4, <1>5 DEF Here, find_mkdir, Tasks
<1>7. s > 0
  <2>1. RowKnown(R, D, t) /\ R[t].type = "mkdir"
    BY <1>1 DEF RowsKnown, Mkdirs
  <2> QED BY <1>1, <1>6, <2>1 DEF RowKnown
<1>8. FolderKnown(R, s, F[s], n)
  BY <1>2, OverlayFolder
<1>9. moved = {e}
  <2>1. ASSUME NEW m \in moved PROVE m = e
    <3>1. m \in F[s].mkdirs /\ m.folderid = -t
      BY <1>2
    <3>2. m.taskid = t /\ m.name = R[t].name
      BY <1>2, <3>1, EntryPlace
    <3> QED BY <1>4, <1>5, <1>8, <3>1, <3>2 DEF FolderKnown
  <2> QED BY <1>3, <2>1
<1>10. PICK w : w = [taskid |-> t, name |-> R[t].name, folderid |-> id]
  OBVIOUS
<1>11. /\ w.taskid = t /\ w.name = R[t].name /\ w.folderid = id
       /\ w \in [taskid : Int, name : Names, folderid : Int]
  <2>1. R[t].name \in Names /\ t \in Int /\ id \in Int
    BY <1>1 DEF Row
  <2> QED BY <1>10, <2>1
<1>12. PICK T : T = (F[s].mkdirs \ {e}) \cup {w}
  OBVIOUS
<1>13. G = Put(F, s, F[s].taskscnt, T, F[s].rmdirs)
  <2>1. {[taskid |-> m.taskid, name |-> m.name, folderid |-> id] : m \in moved} = {w}
    BY <1>5, <1>9, <1>10
  <2> QED BY <1>9, <1>12, <2>1, Zenon DEF Identified
<1>14. w \notin F[s].mkdirs
  BY <1>4, <1>5, <1>8, <1>11, <1>1 DEF FolderKnown
<1>15. /\ IsFiniteSet(T) /\ IsFiniteSet(F[s].rmdirs)
       /\ F[s].taskscnt = Cardinality(T) + Cardinality(F[s].rmdirs) /\ F[s].taskscnt > 0
  <2>1. PICK A : A = F[s].mkdirs
    OBVIOUS
  <2>2. /\ IsFiniteSet(A) /\ IsFiniteSet(F[s].rmdirs) /\ Cardinality(A) \in Nat
        /\ F[s].taskscnt = Cardinality(A) + Cardinality(F[s].rmdirs)
    BY <1>2, <2>1, OverlayFolder
  <2>3. IsFiniteSet(A \ {e}) /\ Cardinality(A \ {e}) = Cardinality(A) - 1
    BY <1>4, <2>1, <2>2, FS_RemoveElement
  <2>4. IsFiniteSet(T) /\ Cardinality(T) = Cardinality(A \ {e}) + 1
    BY <1>12, <1>14, <2>1, <2>3, FS_AddElement
  <2>5. Cardinality(T) = Cardinality(A)
    BY <2>2, <2>3, <2>4
  <2> QED BY <1>2, <2>2, <2>4, <2>5 DEF Busy
<1>16. MkdirKnown(R, s, w, n) /\ w.folderid >= 0
  <2>1. w.folderid \in 1 .. n - 1
    BY <1>11
  <2> QED BY <1>7, <1>11, <2>1 DEF MkdirKnown
<1>17. \A m, p \in T : m.taskid = p.taskid /\ m.name = p.name => m = p
  <2>1. \A m \in F[s].mkdirs \ {e} : ~(m.taskid = t /\ m.name = R[t].name)
    BY <1>4, <1>5, <1>8 DEF FolderKnown
  <2>2. \A m, p \in F[s].mkdirs : m.taskid = p.taskid /\ m.name = p.name => m = p
    BY <1>8 DEF FolderKnown
  <2> QED BY <1>11, <1>12, <2>1, <2>2
<1>18. \A m \in T : m \in F[s].mkdirs \/ m = w
  BY <1>12
<1>19. OverlayKnown(R, Put(F, s, F[s].taskscnt, T, F[s].rmdirs), n)
  BY <1>2, <1>15, <1>16, <1>17, <1>18, OverlayEdit
<1>20. Changed(F, s, F[s].taskscnt, T, F[s].rmdirs, G)
  BY <1>13, PutFields
<1>21. Busy(G)
  <2>1. G[s].taskscnt > 0 /\ \A h \in DOMAIN G : h = s \/ (h \in DOMAIN F /\ G[h] = F[h])
    BY <1>15, <1>20 DEF Changed
  <2>2. \A h \in DOMAIN F : F[h].taskscnt > 0
    BY DEF Busy
  <2>3. ASSUME NEW h \in DOMAIN G PROVE G[h].taskscnt > 0
    <3>1. CASE h = s
      BY <2>1, <3>1
    <3>2. CASE h # s
      BY <2>1, <2>2, <3>2
    <3> QED BY <3>1, <3>2
  <2> QED BY <2>3 DEF Busy
<1>22. Vacant(G, t)
  <2> SUFFICES ASSUME NEW h \in DOMAIN G, NEW m \in G[h].mkdirs, m.folderid = -t
               PROVE  FALSE
    BY DEF Vacant
  <2>1. CASE h = s
    <3>1. m \in T
      BY <1>20, <2>1 DEF Changed
    <3>2. m # w
      BY <1>1, <1>11
    <3>3. m \in F[s].mkdirs /\ m # e
      BY <1>12, <3>1, <3>2
    <3> QED BY <1>2, <1>9, <3>3
  <2>2. CASE h # s
    <3>1. h \in DOMAIN F /\ m \in F[h].mkdirs /\ m.folderid = e.folderid /\ m.folderid < 0
      BY <1>1, <1>2, <1>4, <1>20, <2>2 DEF Changed
    <3> QED BY <1>2, <1>4, <2>2, <3>1 DEF OverlayKnown, OnePlace
  <2> QED BY <2>1, <2>2
<1> QED BY <1>6, <1>13, <1>19, <1>21, <1>22

(* Either way, or without an entry, none is left with -taskid.             *)
LEMMA EntrySettled ==
  ASSUME NEW R, NEW D, NEW n, RowsKnown(R, D, n), NEW F, OverlayKnown(R, F, n), Busy(F),
         NEW t \in Mkdirs(R), \A d \in D : d[1] # t, n \in Nat, NEW id \in Nat, 0 < id, id < n,
         NEW G, G = Settled(F, R[t].folderid, t, id, R[t].name, R[t].sfolderid)
  PROVE  /\ OverlayKnown(R, G, n) /\ Busy(G) /\ Vacant(G, t)
         /\ R[t].sfolderid = R[t].folderid /\ Plain(F) => Plain(G)
<1>1. PICK here : here = Here(F, R[t].folderid, R[t].name, t)
  OBVIOUS
<1>2. PICK s : s = R[t].sfolderid
  OBVIOUS
<1>3. PICK moved : moved = Moved(F, s, t)
  OBVIOUS
<1>4. G = IF here # {} THEN Release(DropMkdirs(F, R[t].folderid, here), R[t].folderid)
          ELSE IF moved # {} THEN Identified(F, s, moved, id) ELSE F
  BY <1>1, <1>2, <1>3, Zenon DEF Settled
<1>6. CASE here # {}
  <2>1. G = Release(DropMkdirs(F, R[t].folderid, here), R[t].folderid)
    BY <1>4, <1>6
  <2> QED BY <1>1, <1>6, <2>1, EntryDropped
<1>7. CASE here = {} /\ moved # {}
  <2>1. G = Identified(F, s, moved, id)
    BY <1>4, <1>7
  <2>2. OverlayKnown(R, G, n) /\ Busy(G) /\ Vacant(G, t) /\ R[t].folderid # s
    <3>1. Here(F, R[t].folderid, R[t].name, t) = {} /\ moved # {}
      BY <1>1, <1>7
    <3> QED BY <1>2, <1>3, <2>1, <3>1, EntryMoved
  <2> QED BY <1>2, <2>2
<1>8. CASE here = {} /\ moved = {}
  <2>1. Vacant(F, t)
    <3> SUFFICES ASSUME NEW f \in DOMAIN F, NEW m \in F[f].mkdirs, m.folderid = -t
                 PROVE  FALSE
      BY DEF Vacant
    <3>1. m.taskid = t /\ m.name = R[t].name /\ (R[t].folderid = f \/ R[t].sfolderid = f)
      BY EntryPlace
    <3> QED BY <1>1, <1>2, <1>3, <1>8, <3>1 DEF Here, Moved, find_mkdir, Tasks
  <2> QED BY <1>4, <1>8, <2>1
<1> QED BY <1>6, <1>7, <1>8

(* The rest of it: the tree of the folder is now under the server's id.    *)
LEMMA TreesMoved ==
  ASSUME NEW R, NEW D, NEW n, RowsKnown(R, D, n), NEW G, OverlayKnown(R, G, n), Busy(G),
         NEW t \in Mkdirs(R), Vacant(G, t), n \in Nat, NEW id \in Nat, 0 < id, id < n,
         NEW S, Renumbered(R, t, id, S), NEW H, H = MoveTasks(G, -t, id)
  PROVE  OverlayKnown(S, H, n) /\ Busy(H) /\ (Plain(G) => Plain(H))
<1>1. /\ t \in DOMAIN R /\ t \in Nat \ {0} /\ R[t].type = "mkdir"
      /\ \A u \in DOMAIN R : u \in Nat \ {0} /\ R[u].folderid \in Int /\ R[u].sfolderid \in Int
  BY DEF RowsKnown, Mkdirs, Row
<1>2. PICK k : k = -t
  OBVIOUS
<1>3. k \in Int /\ k < 0 /\ k # id /\ -k = t
  BY <1>1, <1>2
<1>4. \A f \in DOMAIN G : FolderKnown(R, f, G[f], n) /\ f \in Int
  BY DEF OverlayKnown
<1>5. ASSUME NEW f \in DOMAIN G, NEW m \in G[f].mkdirs, OwnMkdir(R, f, m)
      PROVE  OwnMkdir(S, IF f = k THEN id ELSE f, m)
  <2>1. -m.folderid = m.taskid /\ m.taskid \in Mkdirs(R) /\ R[m.taskid].name = m.name
    BY <1>5 DEF OwnMkdir
  <2>2. m.folderid \in Int
    BY <1>4, <1>5 DEF FolderKnown, MkdirKnown
  <2>3. m.taskid # t
    BY <2>1, <2>2 DEF Vacant
  <2>4. /\ m.taskid \in DOMAIN S /\ S[m.taskid].type = R[m.taskid].type
        /\ S[m.taskid].name = R[m.taskid].name
        /\ S[m.taskid].folderid = (IF R[m.taskid].folderid = -t THEN id ELSE R[m.taskid].folderid)
        /\ S[m.taskid].sfolderid = (IF R[m.taskid].sfolderid = -t THEN id ELSE R[m.taskid].sfolderid)
    BY <2>1, <2>3 DEF Renumbered, Mkdirs
  <2>5. m.taskid \in Mkdirs(S)
    BY <2>1, <2>4 DEF Mkdirs
  <2>6. R[m.taskid].folderid = f \/ R[m.taskid].sfolderid = f
    BY <1>5 DEF OwnMkdir
  <2> QED BY <1>2, <2>1, <2>4, <2>5, <2>6 DEF OwnMkdir
<1>6. ASSUME NEW f \in DOMAIN G, NEW m \in G[f].rmdirs, RmdirKnown(R, f, m)
      PROVE  RmdirKnown(S, IF f = k THEN id ELSE f, m)
  <2>1. m \in [taskid : Int, name : Names] /\ m.taskid \in DOMAIN R \ Mkdirs(R)
        /\ R[m.taskid].folderid = f /\ R[m.taskid].name = m.name
    BY <1>6 DEF RmdirKnown
  <2>2. m.taskid # t
    BY <2>1
  <2>3. /\ m.taskid \in DOMAIN S /\ S[m.taskid].type = R[m.taskid].type
        /\ S[m.taskid].name = R[m.taskid].name
        /\ S[m.taskid].folderid = (IF R[m.taskid].folderid = -t THEN id ELSE R[m.taskid].folderid)
    BY <2>1, <2>2 DEF Renumbered
  <2>4. m.taskid \in DOMAIN S \ Mkdirs(S)
    BY <2>1, <2>3 DEF Mkdirs
  <2> QED BY <1>2, <2>1, <2>3, <2>4 DEF RmdirKnown
<1>7. PICK B : B = Without(G, k)
  OBVIOUS
<1>8. /\ DOMAIN B = DOMAIN G \ {k} /\ \A f \in DOMAIN B : B[f] = G[f]
      /\ B = [f \in DOMAIN B |-> B[f]]
  BY <1>7 DEF Without, Restrict
<1>9. OverlayKnown(S, B, n)
  <2>1. OverlayKnown(R, B, n)
    BY <1>7, OverlayWithout
  <2>2. ASSUME NEW f \in DOMAIN B
        PROVE  /\ \A m \in B[f].mkdirs : OwnMkdir(R, f, m) => OwnMkdir(S, f, m)
               /\ \A m \in B[f].rmdirs : RmdirKnown(R, f, m) => RmdirKnown(S, f, m)
    BY <1>5, <1>6, <1>8
  <2>3. n <= n
    OBVIOUS
  <2> QED BY <2>1, <2>2, <2>3, OverlayRows
<1>10. Busy(B) /\ (Plain(G) => Plain(B))
  BY <1>8 DEF Busy, Plain
<1>11. CASE k \notin DOMAIN G
  <2>1. H = G /\ B = G
    <3>1. H = G
      BY <1>2, <1>11 DEF MoveTasks
    <3>2. DOMAIN B = DOMAIN G /\ \A f \in DOMAIN B : B[f] = G[f]
      BY <1>8, <1>11
    <3>3. G = [f \in DOMAIN G |-> G[f]]
      BY DEF OverlayKnown
    <3>4. [f \in DOMAIN B |-> B[f]] = [f \in DOMAIN G |-> G[f]]
      BY <3>2
    <3> QED BY <1>8, <3>1, <3>3, <3>4, Zenon
  <2> QED BY <1>9, <1>10, <2>1
<1>12. CASE k \in DOMAIN G /\ id \in DOMAIN G
  <2>1. H = B
    BY <1>2, <1>7, <1>12 DEF MoveTasks
  <2> QED BY <1>9, <1>10, <2>1
<1>13. CASE k \in DOMAIN G /\ id \notin DOMAIN G
  <2>1. PICK g : g = G[k]
    OBVIOUS
  <2>2. H = With(B, id, g)
    <3>1. H = Without(With(G, id, g), k)
      BY <1>2, <1>13, <2>1 DEF MoveTasks
    <3> QED BY <1>3, <1>7, <3>1 DEF With, Without, Restrict
  <2>3. FolderKnown(R, k, g, n)
    BY <1>4, <1>13, <2>1
  <2>4. FolderKnown(S, id, g, n)
    <3>1. \A m \in g.mkdirs : MkdirKnown(S, id, m, n)
      <4>1. \A m \in g.mkdirs : MkdirKnown(R, k, m, n)
        BY <2>3 DEF FolderKnown
      <4> QED BY <1>3, <1>5, <1>13, <2>1, <4>1 DEF MkdirKnown
    <3>2. \A m \in g.rmdirs : RmdirKnown(S, id, m)
      <4>1. \A m \in g.rmdirs : RmdirKnown(R, k, m)
        BY <2>3 DEF FolderKnown
      <4> QED BY <1>6, <1>13, <2>1, <4>1
    <3> QED BY <2>3, <3>1, <3>2, Zenon DEF FolderKnown
  <2>5. ASSUME NEW h \in DOMAIN B, NEW m \in g.mkdirs, NEW p \in B[h].mkdirs,
               m.folderid = p.folderid, m.folderid < 0
        PROVE  FALSE
    <3>1. h \in DOMAIN G /\ h # k /\ p \in G[h].mkdirs
      BY <1>8, <2>5
    <3> QED BY <1>13, <2>1, <2>5, <3>1 DEF OverlayKnown, OnePlace
  <2>6. OverlayKnown(S, H, n)
    <3>1. id \in Int
      OBVIOUS
    <3> QED BY <1>9, <2>2, <2>4, <2>5, <3>1, OverlaySet
  <2>7. DOMAIN H = DOMAIN B \cup {id} /\ H[id] = g /\ \A h \in DOMAIN B : h # id => H[h] = B[h]
    BY <2>2 DEF With
  <2>8. id \notin DOMAIN B
    BY <1>8, <1>13
  <2>9. Busy(H)
    <3>1. g.taskscnt > 0
      BY <1>13, <2>1 DEF Busy
    <3> QED BY <1>10, <2>7, <2>8, <3>1 DEF Busy
  <2>10. Plain(G) => Plain(H)
    <3>1. Plain(G) => \A m \in g.mkdirs : m.folderid = -m.taskid
      BY <1>13, <2>1 DEF Plain
    <3> QED BY <1>10, <2>7, <2>8, <3>1 DEF Plain
  <2> QED BY <2>6, <2>9, <2>10
<1> QED BY <1>11, <1>12, <1>13

(* The three ways a task of the batch goes, on the rows, the dependencies  *)
(* and the overlay.  Its row goes, with what waited for it, and no other   *)
(* row that waits for nothing is touched.                                  *)
Gone(D, t) == {d \in D : d[1] # t /\ d[2] # t}
FreeKept(R, D, S, t) ==
  \A u \in DOMAIN R : u # t /\ (\A d \in D : d[1] # u) => u \in DOMAIN S /\ S[u] = R[u]

Ended(R, D, F, n, t, S, H) ==
  /\ Known(S, Gone(D, t), H, n) /\ FreeKept(R, D, S, t)
  /\ DOMAIN S = DOMAIN R \ {t}
  /\ Straight(R, D, F) => Straight(S, Gone(D, t), H)

(* Rows are equal when their columns are.                                  *)
LEMMA SameRow ==
  ASSUME NEW r \in Row, NEW s \in Row, r.type = s.type, r.folderid = s.folderid,
         r.sfolderid = s.sfolderid, r.name = s.name
  PROVE  r = s
<1>1. r = [type |-> r.type, folderid |-> r.folderid, sfolderid |-> r.sfolderid, name |-> r.name]
  BY DEF Row
<1>2. s = [type |-> s.type, folderid |-> s.folderid, sfolderid |-> s.sfolderid, name |-> s.name]
  BY DEF Row
<1> QED BY <1>1, <1>2

(* A mkdir the server accepted: renumbered, out of the overlay, deleted.   *)
LEMMA MkdirDone ==
  ASSUME NEW R, NEW D, NEW F, NEW n \in Nat, Known(R, D, F, n),
         NEW t \in Mkdirs(R), \A d \in D : d[1] # t, NEW id \in Nat, 0 < id, id < n,
         NEW S, S = Without(Renumber(R, t, id), t),
         NEW H, H = folder_created(F, R[t].folderid, t, id, R[t].name, R[t].sfolderid)
  PROVE  Ended(R, D, F, n, t, S, H)
<1>1. RowsKnown(R, D, n) /\ OverlayKnown(R, F, n) /\ Busy(F)
  BY DEF Known
<1>2. RowsKnown(S, Gone(D, t), n)
  BY <1>1, RowRenumbered DEF Gone
<1>3. Renumbered(R, t, id, S)
  <2>1. id \in Int
    OBVIOUS
  <2> QED BY <1>1, <2>1, RenumberFields
<1>4. PICK G : G = Settled(F, R[t].folderid, t, id, R[t].name, R[t].sfolderid)
  OBVIOUS
<1>5. H = MoveTasks(G, -t, id)
  BY <1>4, Zenon DEF folder_created, Settled, Here, Moved, Identified
<1>6. /\ OverlayKnown(R, G, n) /\ Busy(G) /\ Vacant(G, t)
      /\ R[t].sfolderid = R[t].folderid /\ Plain(F) => Plain(G)
  BY <1>1, <1>4, EntrySettled
<1>7. OverlayKnown(S, H, n) /\ Busy(H) /\ (Plain(G) => Plain(H))
  BY <1>1, <1>3, <1>5, <1>6, TreesMoved
<1>8. FreeKept(R, D, S, t)
  <2> SUFFICES ASSUME NEW u \in DOMAIN R, u # t, \A d \in D : d[1] # u
               PROVE  u \in DOMAIN S /\ S[u] = R[u]
    BY DEF FreeKept
  <2>1. R[u] \in Row /\ R[u].folderid >= 0 /\ R[u].sfolderid >= 0
    BY <1>1, FreeResolved
  <2>2. t \in Nat \ {0}
    BY <1>1 DEF RowsKnown, Mkdirs
  <2>3. R[u].folderid # -t /\ R[u].sfolderid # -t
    BY <2>1, <2>2 DEF Row
  <2>4. /\ u \in DOMAIN S /\ S[u] \in Row /\ S[u].type = R[u].type /\ S[u].name = R[u].name
        /\ S[u].folderid = R[u].folderid /\ S[u].sfolderid = R[u].sfolderid
    BY <1>3, <2>3 DEF Renumbered
  <2> QED BY <2>1, <2>4, SameRow
<1>9. Straight(R, D, F) => Straight(S, Gone(D, t), H)
  <2>1. \A u \in Mkdirs(S) : /\ u \in Mkdirs(R)
                             /\ R[u].sfolderid = R[u].folderid => S[u].sfolderid = S[u].folderid
    BY <1>3 DEF Renumbered, Mkdirs
  <2>2. Gone(D, t) \subseteq D
    BY DEF Gone
  <2> QED BY <1>6, <1>7, <2>1, <2>2 DEF Straight
<1> QED BY <1>2, <1>3, <1>7, <1>8, <1>9 DEF Known, Renumbered, Ended

(* A mkdir the server refused keeps its row, in the root.                  *)
LEMMA MkdirRefused ==
  ASSUME NEW R, NEW D, NEW F, NEW n \in Nat \ {0}, Known(R, D, F, n),
         NEW t \in Mkdirs(R), \A d \in D : d[1] # t,
         NEW S, S = [R EXCEPT ![t].folderid = 0]
  PROVE  Known(S, D, F, n) /\ FreeKept(R, D, S, t) /\ DOMAIN S = DOMAIN R
<1>1. RowsKnown(R, D, n) /\ OverlayKnown(R, F, n) /\ Busy(F) /\ R[t].type = "mkdir"
  BY DEF Known, Mkdirs
<1>2. /\ RowsKnown(S, D, n)
      /\ DOMAIN S = DOMAIN R /\ \A u \in DOMAIN R : u # t => S[u] = R[u]
      /\ S[t] \in Row /\ S[t].folderid = 0 /\ S[t].sfolderid = R[t].sfolderid
      /\ S[t].type = "mkdir" /\ S[t].name = R[t].name
  <2>1. RowsKnown(S, D, n) /\ AtRoot(R, t, S)
    BY <1>1, RowRefused
  <2> QED BY <2>1 DEF AtRoot
<1>3. Mkdirs(S) = Mkdirs(R)
  BY <1>1, <1>2 DEF Mkdirs
<1>4. R[t].folderid = R[t].sfolderid \/ R[t].folderid = 0
  BY <1>1 DEF RowsKnown, RowKnown, Mkdirs
<1>5. ASSUME NEW f \in DOMAIN F
      PROVE  /\ \A m \in F[f].mkdirs : OwnMkdir(R, f, m) => OwnMkdir(S, f, m)
             /\ \A m \in F[f].rmdirs : RmdirKnown(R, f, m) => RmdirKnown(S, f, m)
  <2>1. ASSUME NEW m, OwnMkdir(R, f, m) PROVE OwnMkdir(S, f, m)
    <3>1. m.taskid \in DOMAIN R
      BY <2>1 DEF OwnMkdir, Mkdirs
    <3>2. CASE m.taskid = t
      BY <1>2, <1>3, <1>4, <2>1, <3>2 DEF OwnMkdir
    <3>3. CASE m.taskid # t
      BY <1>2, <1>3, <2>1, <3>1, <3>3 DEF OwnMkdir
    <3> QED BY <3>2, <3>3
  <2>2. ASSUME NEW m, RmdirKnown(R, f, m) PROVE RmdirKnown(S, f, m)
    <3>1. m.taskid \in DOMAIN R /\ m.taskid # t
      BY <2>2 DEF RmdirKnown
    <3> QED BY <1>2, <1>3, <2>2, <3>1 DEF RmdirKnown
  <2> QED BY <2>1, <2>2
<1>6. OverlayKnown(S, F, n)
  <2>1. n <= n
    OBVIOUS
  <2> QED BY <1>1, <1>5, <2>1, OverlayRows
<1> QED BY <1>1, <1>2, <1>6 DEF Known, FreeKept

(* A rmdir ends, whatever the server answered.                             *)
LEMMA RmdirDone ==
  ASSUME NEW R, NEW D, NEW F, NEW n \in Nat, Known(R, D, F, n),
         NEW t \in DOMAIN R \ Mkdirs(R),
         NEW S, S = Without(R, t),
         NEW H, H = folder_deleted(F, R[t].folderid, t, R[t].name)
  PROVE  Ended(R, D, F, n, t, S, H)
<1>1. RowsKnown(R, D, n) /\ OverlayKnown(R, F, n) /\ Busy(F)
  BY DEF Known
<1>2. RowsKnown(S, Gone(D, t), n)
  BY <1>1, RowRemoved DEF Gone
<1>3. DOMAIN S = DOMAIN R \ {t} /\ \A u \in DOMAIN S : S[u] = R[u]
  BY DEF Without, Restrict
<1>4. Mkdirs(S) = Mkdirs(R)
  BY <1>3 DEF Mkdirs
<1>5. PICK f : f = R[t].folderid
  OBVIOUS
<1>6. PICK gone : gone = {m \in find_rmdir(F, f, R[t].name) : m.taskid = t}
  OBVIOUS
<1>7. /\ OverlayKnown(R, H, n) /\ Busy(H)
      /\ \A h \in DOMAIN H : /\ h \in DOMAIN F /\ H[h].mkdirs = F[h].mkdirs
                             /\ H[h].rmdirs \subseteq F[h].rmdirs
                             /\ h = f => H[h].rmdirs = F[f].rmdirs \ gone
  <2>1. CASE f \notin DOMAIN F
    <3>1. H = F
      BY <1>5, <2>1 DEF folder_deleted
    <3> QED BY <1>1, <2>1, <3>1
  <2>2. CASE f \in DOMAIN F
    <3>1. PICK G : G = DropRmdirs(F, f, gone)
      OBVIOUS
    <3>2. gone \subseteq F[f].rmdirs
      BY <1>6, <2>2 DEF find_rmdir, Tasks
    <3>3. /\ OverlayKnown(R, G, n) /\ DOMAIN G = DOMAIN F
          /\ G[f].rmdirs = F[f].rmdirs \ gone /\ G[f].mkdirs = F[f].mkdirs
          /\ \A h \in DOMAIN F : h # f => G[h] = F[h]
      BY <1>1, <2>2, <3>1, <3>2, RmdirsDropped
    <3>4. BusyBut(G, f)
      BY <1>1, <3>3 DEF Busy, BusyBut
    <3>5. H = Release(G, f)
      BY <1>5, <1>6, <2>2, <3>1 DEF folder_deleted
    <3>6. OverlayKnown(R, H, n) /\ Busy(H) /\ Within(H, G)
      BY <3>3, <3>4, <3>5, Released
    <3> QED BY <3>3, <3>6 DEF Within
  <2> QED BY <2>1, <2>2
<1>8. ASSUME NEW h \in DOMAIN H
      PROVE  /\ \A m \in H[h].mkdirs : OwnMkdir(R, h, m) => OwnMkdir(S, h, m)
             /\ \A m \in H[h].rmdirs : RmdirKnown(R, h, m) => RmdirKnown(S, h, m)
  <2>1. \A m : OwnMkdir(R, h, m) => OwnMkdir(S, h, m)
    <3>1. Mkdirs(S) \subseteq DOMAIN S
      BY DEF Mkdirs
    <3> QED BY <1>3, <1>4, <3>1 DEF OwnMkdir
  <2>2. ASSUME NEW m \in H[h].rmdirs, RmdirKnown(R, h, m) PROVE RmdirKnown(S, h, m)
    <3>1. m.taskid # t
      <4>1. SUFFICES ASSUME m.taskid = t PROVE FALSE
        OBVIOUS
      <4>2. h = f /\ m.name = R[t].name
        BY <1>5, <2>2, <4>1 DEF RmdirKnown
      <4>3. m \in F[f].rmdirs /\ f \in DOMAIN F /\ m \notin gone
        BY <1>7, <4>2
      <4> QED BY <1>6, <4>1, <4>2, <4>3 DEF find_rmdir, Tasks
    <3>2. m.taskid \in DOMAIN S \ Mkdirs(S) /\ S[m.taskid] = R[m.taskid]
      BY <1>3, <1>4, <2>2, <3>1 DEF RmdirKnown
    <3> QED BY <2>2, <3>2 DEF RmdirKnown
  <2> QED BY <2>1, <2>2
<1>9. OverlayKnown(S, H, n)
  <2>1. n <= n
    OBVIOUS
  <2> QED BY <1>7, <1>8, <2>1, OverlayRows
<1>10. Straight(R, D, F) => Straight(S, Gone(D, t), H)
  <2>1. \A u \in Mkdirs(S) : u \in Mkdirs(R) /\ S[u] = R[u]
    BY <1>3, <1>4 DEF Mkdirs
  <2>2. Gone(D, t) \subseteq D
    BY DEF Gone
  <2>3. Plain(F) => Plain(H)
    BY <1>7 DEF Plain
  <2> QED BY <2>1, <2>2, <2>3 DEF Straight
<1>11. FreeKept(R, D, S, t)
  BY <1>3 DEF FreeKept
<1> QED BY <1>2, <1>3, <1>7, <1>9, <1>10, <1>11 DEF Known, Ended

-----------------------------------------------------------------------------
(* psync_fsupload_process_tasks.  What holds of the state it works on when *)
(* i answers are processed: the rest of the batch is untouched, and what   *)
(* came to wait for nothing makes it wake the thread.                      *)
State == {"rows", "deps", "folder", "fold", "wake", "refused", "bad", "misled"}
Waited(D, t) == \E d \in D : d[2] = t
FreeIn(R, D) == {t \in DOMAIN R : \A d \in D : d[1] # t}
Left(i) == {batch[j].id : j \in i + 1 .. Len(batch)}
Covered(R, D, Q, i) == FreeIn(R, D) \subseteq Q \cup Left(i)
Awake(w, R, D, Q, i) == w \/ Covered(R, D, Q, i)
Untouched(R, i) ==
  \A j \in i + 1 .. Len(batch) : batch[j].id \in DOMAIN R /\ R[batch[j].id] = batch[j].row

Held(d, i) ==
  /\ DOMAIN d = State
  /\ Known(d.rows, d.deps, d.fold, nextid) /\ d.folder \subseteq Folder(nextid)
  /\ d.wake \in BOOLEAN /\ d.misled \in BOOLEAN
  /\ ~d.misled => Straight(d.rows, d.deps, d.fold)
  /\ d.deps \subseteq deps /\ DOMAIN d.rows \subseteq DOMAIN rows
  /\ Untouched(d.rows, i)
  /\ Awake(d.wake, d.rows, d.deps, d.refused, i)

DoneFrom(c, t, e) ==
  /\ DOMAIN e = State
  /\ e.rows = Without(c.rows, t) /\ e.deps = Gone(c.deps, t)
  /\ e.wake = (c.wake \/ Waited(c.deps, t))
  /\ e.folder = c.folder /\ e.fold = c.fold /\ e.refused = c.refused
  /\ e.bad = c.bad /\ e.misled = c.misled

(* What pr_del_dep and pr_del_task leave of the state in processing.       *)
LEMMA DoneFields ==
  ASSUME NEW c, DOMAIN c = State, NEW t, NEW e, e = Done(c, t)
  PROVE  DoneFrom(c, t, e)
<1>1. PICK D : D = Gone(c.deps, t)
  OBVIOUS
<1>2. PICK w : w = (c.wake \/ Waited(c.deps, t))
  OBVIOUS
<1>3. PICK R : R = Without(c.rows, t)
  OBVIOUS
<1>4. e = [c EXCEPT !.deps = D, !.wake = w, !.rows = R]
  BY <1>1, <1>2, <1>3, Zenon DEF Done, Gone, Waited
<1>5. /\ DOMAIN e = State /\ e.rows = R /\ e.deps = D /\ e.wake = w
      /\ e.folder = c.folder /\ e.fold = c.fold /\ e.refused = c.refused
      /\ e.bad = c.bad /\ e.misled = c.misled
  BY <1>4 DEF State
<1> QED BY <1>1, <1>2, <1>3, <1>5, Zenon DEF DoneFrom

CreatedFrom(d, t, row, id, e) ==
  /\ DOMAIN e = State
  /\ e.rows = Without(Renumber(d.rows, t, id), t) /\ e.deps = Gone(d.deps, t)
  /\ e.wake = (d.wake \/ Waited(d.deps, t))
  /\ e.folder = (IF id \in Ids(d.folder) THEN d.folder
                 ELSE d.folder \cup {[id |-> id, parent |-> row.folderid, name |-> row.name]})
  /\ e.fold = folder_created(d.fold, row.folderid, t, id, row.name, d.rows[t].sfolderid)
  /\ e.refused = d.refused \ {t}
  /\ e.misled = (d.misled \/ (Stale(id) /\ ~Doomed(id)))

(* What an accepted mkdir leaves of it.                                    *)
LEMMA CreatedFields ==
  ASSUME NEW d, DOMAIN d = State, NEW t, NEW row, NEW ans, ans.result = "ok",
         NEW e, e = process_mkdir(d, t, row, ans)
  PROVE  CreatedFrom(d, t, row, ans.id, e)
<1>1. PICK A : A = IF ans.id \in Ids(d.folder) THEN d.folder
                   ELSE d.folder \cup {[id |-> ans.id, parent |-> row.folderid, name |-> row.name]}
  OBVIOUS
<1>2. PICK F : F = folder_created(d.fold, row.folderid, t, ans.id, row.name, d.rows[t].sfolderid)
  OBVIOUS
<1>3. PICK b : b = (d.bad \/ Disagrees(DropMkdirs(get_or_create(d.fold, row.folderid), row.folderid,
                       {m \in find_mkdir(d.fold, row.folderid, row.name) : m.taskid = t}), row.folderid))
  OBVIOUS
<1>4. PICK R : R = Renumber(d.rows, t, ans.id)
  OBVIOUS
<1>5. PICK m : m = (d.misled \/ (Stale(ans.id) /\ ~Doomed(ans.id)))
  OBVIOUS
<1>6. PICK r : r = d.refused \ {t}
  OBVIOUS
<1>7. PICK c : c = [d EXCEPT !.folder = A, !.fold = F, !.bad = b, !.rows = R, !.misled = m, !.refused = r]
  OBVIOUS
<1>8. e = Done(c, t)
  BY <1>1, <1>2, <1>3, <1>4, <1>5, <1>6, <1>7, Zenon DEF process_mkdir
<1>9. /\ DOMAIN c = State /\ c.rows = R /\ c.deps = d.deps /\ c.wake = d.wake
      /\ c.folder = A /\ c.fold = F /\ c.refused = r /\ c.misled = m
  BY <1>7 DEF State
<1>10. DoneFrom(c, t, e)
  BY <1>8, <1>9, DoneFields
<1> QED BY <1>1, <1>2, <1>4, <1>5, <1>6, <1>9, <1>10, Zenon DEF DoneFrom, CreatedFrom

RefusedFrom(d, t, e) ==
  /\ DOMAIN e = State
  /\ e.rows = [d.rows EXCEPT ![t].folderid = 0] /\ e.deps = d.deps /\ e.wake = d.wake
  /\ e.folder = d.folder /\ e.fold = d.fold
  /\ e.refused = d.refused \cup {t} /\ e.misled = TRUE

(* What a refused mkdir leaves of it.                                      *)
LEMMA RefusedFields ==
  ASSUME NEW d, DOMAIN d = State, NEW t, NEW row, NEW ans, ans.result # "ok",
         NEW e, e = process_mkdir(d, t, row, ans)
  PROVE  RefusedFrom(d, t, e)
<1>1. PICK R : R = [d.rows EXCEPT ![t].folderid = 0]
  OBVIOUS
<1>2. PICK r : r = d.refused \cup {t}
  OBVIOUS
<1>3. e = [d EXCEPT !.rows = R, !.refused = r, !.misled = TRUE]
  BY <1>1, <1>2, Zenon DEF process_mkdir
<1>4. /\ DOMAIN e = State /\ e.rows = R /\ e.deps = d.deps /\ e.wake = d.wake
      /\ e.folder = d.folder /\ e.fold = d.fold /\ e.refused = r /\ e.misled = TRUE
  BY <1>3 DEF State
<1> QED BY <1>1, <1>2, <1>4 DEF RefusedFrom

(* What a rmdir leaves of it.                                              *)
LEMMA RemovedFields ==
  ASSUME NEW d, DOMAIN d = State, NEW t, NEW row, NEW ans,
         NEW e, e = process_rmdir(d, t, row, ans)
  PROVE  /\ DOMAIN e = State
         /\ e.rows = Without(d.rows, t) /\ e.deps = Gone(d.deps, t)
         /\ e.wake = (d.wake \/ Waited(d.deps, t))
         /\ e.folder \subseteq d.folder
         /\ e.fold = folder_deleted(d.fold, row.folderid, t, row.name)
         /\ e.refused = d.refused /\ e.misled = d.misled
<1>1. PICK A : A = IF ans.result = "ok" THEN {r \in d.folder : r.id # row.sfolderid} ELSE d.folder
  OBVIOUS
<1>2. PICK F : F = folder_deleted(d.fold, row.folderid, t, row.name)
  OBVIOUS
<1>3. PICK c : c = [d EXCEPT !.folder = A, !.fold = F]
  OBVIOUS
<1>4. e = Done(c, t)
  BY <1>1, <1>2, <1>3, Zenon DEF process_rmdir
<1>5. /\ DOMAIN c = State /\ c.rows = d.rows /\ c.deps = d.deps /\ c.wake = d.wake
      /\ c.folder = A /\ c.fold = F /\ c.refused = d.refused /\ c.misled = d.misled
  BY <1>3 DEF State
<1>6. A \subseteq d.folder
  BY <1>1
<1>7. DoneFrom(c, t, e)
  BY <1>4, <1>5, DoneFields
<1> QED BY <1>2, <1>5, <1>6, <1>7, Zenon DEF DoneFrom

(* The rows of the batch not processed yet are as they were read.          *)
LEMMA UntouchedKept ==
  ASSUME BatchKnown, NEW R, NEW D, D \subseteq deps, NEW S, NEW i \in 1 .. Len(batch),
         Untouched(R, i - 1), FreeKept(R, D, S, batch[i].id)
  PROVE  Untouched(S, i)
<1> SUFFICES ASSUME NEW j \in i + 1 .. Len(batch)
             PROVE  batch[j].id \in DOMAIN S /\ S[batch[j].id] = batch[j].row
  BY DEF Untouched
<1>1. j \in (i - 1) + 1 .. Len(batch) /\ j \in 1 .. Len(batch) /\ j # i
  BY DEF BatchKnown
<1>2. batch[j].id \in DOMAIN R /\ R[batch[j].id] = batch[j].row
  BY <1>1 DEF Untouched
<1>3. batch[j].id # batch[i].id
  BY <1>1 DEF BatchKnown
<1>4. \A d \in D : d[1] # batch[j].id
  BY <1>1 DEF BatchKnown, Task, Free
<1> QED BY <1>2, <1>3, <1>4 DEF FreeKept

(* When a task ends that nobody waited for, no other row becomes ready.    *)
LEMMA WakeKept ==
  ASSUME BatchKnown, NEW R, NEW D, NEW S, NEW Q,
         NEW i \in 1 .. Len(batch), NEW t, t = batch[i].id,
         DOMAIN S = DOMAIN R \ {t}, ~Waited(D, t), \A d \in D : d[1] # t,
         Covered(R, D, Q, i - 1)
  PROVE  Covered(S, Gone(D, t), Q \ {t}, i)
<1>0. FreeIn(R, D) \subseteq Q \cup Left(i - 1)
  BY DEF Covered
<1>1. SUFFICES ASSUME NEW u \in FreeIn(S, Gone(D, t))
               PROVE  u \in (Q \ {t}) \cup Left(i)
  BY DEF Covered
<1>2. Gone(D, t) = D
  BY DEF Gone, Waited
<1>3. u # t /\ u \in FreeIn(R, D)
  BY <1>2 DEF FreeIn
<1>4. u \in Q \cup Left(i - 1)
  BY <1>0, <1>3
<1>5. CASE u \in Q
  BY <1>3, <1>5
<1>6. CASE u \in Left(i - 1)
  <2>1. PICK j \in (i - 1) + 1 .. Len(batch) : u = batch[j].id
    BY <1>6 DEF Left
  <2>2. j # i
    BY <1>3, <2>1
  <2>3. j \in i + 1 .. Len(batch)
    BY <2>1, <2>2 DEF BatchKnown
  <2> QED BY <2>1, <2>3 DEF Left
<1> QED BY <1>4, <1>5, <1>6

(* The task of the batch that is looked at.                                *)
LEMMA TaskAt ==
  ASSUME BatchKnown, nextid \in Nat, NEW i \in 1 .. Len(answers), NEW d, Held(d, i - 1),
         NEW t, t = batch[i].id, NEW r, r = batch[i].row
  PROVE  /\ i \in 1 .. Len(batch) /\ t \in DOMAIN d.rows /\ d.rows[t] = r /\ r \in Row
         /\ \A x \in d.deps : x[1] # t
         /\ r.folderid \in 0 .. nextid - 1 /\ r.name \in Names
<1>1. i \in 1 .. Len(batch) /\ i \in (i - 1) + 1 .. Len(batch)
  BY DEF BatchKnown
<1>2. t \in DOMAIN d.rows /\ d.rows[t] = r
  BY <1>1 DEF Held, Untouched
<1>3. \A x \in d.deps : x[1] # t
  <2>1. Free(t)
    BY <1>1 DEF BatchKnown, Task
  <2> QED BY <2>1 DEF Held, Free
<1>4. RowsKnown(d.rows, d.deps, nextid)
  BY DEF Held, Known
<1>5. r \in Row /\ r.folderid >= 0
  BY <1>2, <1>3, <1>4, FreeResolved
<1>6. r.folderid < nextid
  BY <1>2, <1>4 DEF RowsKnown
<1>7. r.folderid \in Int /\ r.name \in Names
  BY <1>5 DEF Row
<1> QED BY <1>1, <1>2, <1>3, <1>5, <1>6, <1>7

(* One more answer is processed: a mkdir was accepted,                     *)
LEMMA HeldCreated ==
  ASSUME BatchKnown, nextid \in Nat \ {0}, NEW i \in 1 .. Len(answers), NEW d, Held(d, i - 1),
         batch[i].row.type = "mkdir", answers[i].result = "ok",
         NEW e, e = process_mkdir(d, batch[i].id, batch[i].row, answers[i])
  PROVE  Held(e, i)
<1>1. PICK t : t = batch[i].id
  OBVIOUS
<1>2. PICK r : r = batch[i].row
  OBVIOUS
<1>3. PICK id : id = answers[i].id
  OBVIOUS
<1>4. id \in Nat /\ 0 < id /\ id < nextid /\ id \in 1 .. nextid - 1
  BY <1>3 DEF BatchKnown, AnswerKnown
<1>5. /\ i \in 1 .. Len(batch) /\ t \in DOMAIN d.rows /\ d.rows[t] = r /\ r \in Row
      /\ \A x \in d.deps : x[1] # t
      /\ r.folderid \in 0 .. nextid - 1 /\ r.name \in Names
  BY <1>1, <1>2, TaskAt
<1>6. t \in Mkdirs(d.rows)
  BY <1>2, <1>5 DEF Mkdirs
<1>7. /\ DOMAIN e = State
      /\ e.rows = Without(Renumber(d.rows, t, id), t) /\ e.deps = Gone(d.deps, t)
      /\ e.wake = (d.wake \/ Waited(d.deps, t))
      /\ e.folder = (IF id \in Ids(d.folder) THEN d.folder
                     ELSE d.folder \cup {[id |-> id, parent |-> r.folderid, name |-> r.name]})
      /\ e.fold = folder_created(d.fold, r.folderid, t, id, r.name, d.rows[t].sfolderid)
      /\ e.refused = d.refused \ {t}
      /\ e.misled = (d.misled \/ (Stale(id) /\ ~Doomed(id)))
  <2>1. DOMAIN d = State
    BY DEF Held
  <2>2. CreatedFrom(d, t, r, id, e)
    BY <1>1, <1>2, <1>3, <2>1, CreatedFields
  <2> QED BY <2>2 DEF CreatedFrom
<1>8. /\ Known(e.rows, e.deps, e.fold, nextid) /\ FreeKept(d.rows, d.deps, e.rows, t)
      /\ DOMAIN e.rows = DOMAIN d.rows \ {t}
      /\ Straight(d.rows, d.deps, d.fold) => Straight(e.rows, e.deps, e.fold)
  <2>1. PICK S : S = Without(Renumber(d.rows, t, id), t)
    OBVIOUS
  <2>2. PICK H : H = folder_created(d.fold, d.rows[t].folderid, t, id, d.rows[t].name, d.rows[t].sfolderid)
    OBVIOUS
  <2>3. Known(d.rows, d.deps, d.fold, nextid)
    BY DEF Held
  <2>4. Ended(d.rows, d.deps, d.fold, nextid, t, S, H)
    BY <1>4, <1>5, <1>6, <2>1, <2>2, <2>3, MkdirDone
  <2> QED BY <1>5, <1>7, <2>1, <2>2, <2>4 DEF Ended
<1>9. e.folder \subseteq Folder(nextid)
  <2>1. [id |-> id, parent |-> r.folderid, name |-> r.name] \in Folder(nextid)
    BY <1>4, <1>5 DEF Folder
  <2> QED BY <1>7, <2>1 DEF Held
<1>10. e.deps \subseteq deps /\ DOMAIN e.rows \subseteq DOMAIN rows
  BY <1>7, <1>8 DEF Held, Gone
<1>11. Untouched(e.rows, i)
  BY <1>1, <1>5, <1>8, UntouchedKept DEF Held
<1>12. Awake(e.wake, e.rows, e.deps, e.refused, i)
  <2>1. SUFFICES ASSUME ~e.wake PROVE Covered(e.rows, e.deps, e.refused, i)
    BY DEF Awake
  <2>2. ~d.wake /\ ~Waited(d.deps, t)
    BY <1>7, <2>1
  <2>3. Covered(d.rows, d.deps, d.refused, i - 1)
    BY <2>2 DEF Held, Awake
  <2>4. Covered(e.rows, Gone(d.deps, t), d.refused \ {t}, i)
    BY <1>1, <1>5, <1>8, <2>2, <2>3, WakeKept
  <2> QED BY <1>7, <2>4 DEF Covered
<1>13. e.wake \in BOOLEAN /\ e.misled \in BOOLEAN
  BY <1>7 DEF Held
<1>14. ~e.misled => Straight(e.rows, e.deps, e.fold)
  BY <1>7, <1>8 DEF Held
<1> QED BY <1>7, <1>8, <1>9, <1>10, <1>11, <1>12, <1>13, <1>14 DEF Held

(* or refused,                                                             *)
LEMMA HeldRefused ==
  ASSUME BatchKnown, nextid \in Nat \ {0}, NEW i \in 1 .. Len(answers), NEW d, Held(d, i - 1),
         batch[i].row.type = "mkdir", answers[i].result # "ok",
         NEW e, e = process_mkdir(d, batch[i].id, batch[i].row, answers[i])
  PROVE  Held(e, i)
<1>1. PICK t : t = batch[i].id
  OBVIOUS
<1>2. PICK r : r = batch[i].row
  OBVIOUS
<1>5. /\ i \in 1 .. Len(batch) /\ t \in DOMAIN d.rows /\ d.rows[t] = r
      /\ \A x \in d.deps : x[1] # t
  BY <1>1, <1>2, TaskAt
<1>6. t \in Mkdirs(d.rows)
  BY <1>2, <1>5 DEF Mkdirs
<1>7. /\ DOMAIN e = State
      /\ e.rows = [d.rows EXCEPT ![t].folderid = 0] /\ e.deps = d.deps /\ e.wake = d.wake
      /\ e.folder = d.folder /\ e.fold = d.fold
      /\ e.refused = d.refused \cup {t} /\ e.misled = TRUE
  <2>1. DOMAIN d = State
    BY DEF Held
  <2>2. RefusedFrom(d, t, e)
    BY <1>1, <2>1, RefusedFields
  <2> QED BY <2>2 DEF RefusedFrom
<1>8. /\ Known(e.rows, e.deps, e.fold, nextid) /\ FreeKept(d.rows, d.deps, e.rows, t)
      /\ DOMAIN e.rows = DOMAIN d.rows
  <2>1. PICK S : S = [d.rows EXCEPT ![t].folderid = 0]
    OBVIOUS
  <2>2. Known(d.rows, d.deps, d.fold, nextid)
    BY DEF Held
  <2>3. /\ Known(S, d.deps, d.fold, nextid) /\ FreeKept(d.rows, d.deps, S, t)
        /\ DOMAIN S = DOMAIN d.rows
    BY <1>5, <1>6, <2>1, <2>2, MkdirRefused
  <2> QED BY <1>7, <2>1, <2>3
<1>11. Untouched(e.rows, i)
  BY <1>1, <1>5, <1>8, UntouchedKept DEF Held
<1>12. Awake(e.wake, e.rows, e.deps, e.refused, i)
  <2>1. FreeIn(e.rows, e.deps) = FreeIn(d.rows, d.deps)
    BY <1>7, <1>8 DEF FreeIn
  <2>2. Left(i - 1) \subseteq Left(i) \cup {t}
    <3> SUFFICES ASSUME NEW j \in (i - 1) + 1 .. Len(batch) PROVE batch[j].id \in Left(i) \cup {t}
      BY DEF Left
    <3>1. j = i \/ j \in i + 1 .. Len(batch)
      BY DEF BatchKnown
    <3> QED BY <1>1, <3>1 DEF Left
  <2>3. Awake(d.wake, d.rows, d.deps, d.refused, i - 1)
    BY DEF Held
  <2> QED BY <1>7, <2>1, <2>2, <2>3 DEF Awake, Covered
<1> QED BY <1>7, <1>8, <1>11, <1>12 DEF Held

(* or a rmdir was answered.                                                *)
LEMMA HeldRemoved ==
  ASSUME BatchKnown, nextid \in Nat \ {0}, NEW i \in 1 .. Len(answers), NEW d, Held(d, i - 1),
         batch[i].row.type # "mkdir",
         NEW e, e = process_rmdir(d, batch[i].id, batch[i].row, answers[i])
  PROVE  Held(e, i)
<1>1. PICK t : t = batch[i].id
  OBVIOUS
<1>2. PICK r : r = batch[i].row
  OBVIOUS
<1>5. /\ i \in 1 .. Len(batch) /\ t \in DOMAIN d.rows /\ d.rows[t] = r
      /\ \A x \in d.deps : x[1] # t
  BY <1>1, <1>2, TaskAt
<1>6. t \in DOMAIN d.rows \ Mkdirs(d.rows)
  BY <1>2, <1>5 DEF Mkdirs
<1>7. /\ DOMAIN e = State
      /\ e.rows = Without(d.rows, t) /\ e.deps = Gone(d.deps, t)
      /\ e.wake = (d.wake \/ Waited(d.deps, t))
      /\ e.folder \subseteq d.folder
      /\ e.fold = folder_deleted(d.fold, r.folderid, t, r.name)
      /\ e.refused = d.refused /\ e.misled = d.misled
  BY <1>1, <1>2, RemovedFields DEF Held
<1>8. /\ Known(e.rows, e.deps, e.fold, nextid) /\ FreeKept(d.rows, d.deps, e.rows, t)
      /\ DOMAIN e.rows = DOMAIN d.rows \ {t}
      /\ Straight(d.rows, d.deps, d.fold) => Straight(e.rows, e.deps, e.fold)
  <2>1. PICK S : S = Without(d.rows, t)
    OBVIOUS
  <2>2. PICK H : H = folder_deleted(d.fold, d.rows[t].folderid, t, d.rows[t].name)
    OBVIOUS
  <2>3. Known(d.rows, d.deps, d.fold, nextid)
    BY DEF Held
  <2>4. Ended(d.rows, d.deps, d.fold, nextid, t, S, H)
    BY <1>5, <1>6, <2>1, <2>2, <2>3, RmdirDone
  <2> QED BY <1>5, <1>7, <2>1, <2>2, <2>4 DEF Ended
<1>10. e.deps \subseteq deps /\ DOMAIN e.rows \subseteq DOMAIN rows
  BY <1>7, <1>8 DEF Held, Gone
<1>11. Untouched(e.rows, i)
  BY <1>1, <1>5, <1>8, UntouchedKept DEF Held
<1>12. Awake(e.wake, e.rows, e.deps, e.refused, i)
  <2>1. SUFFICES ASSUME ~e.wake PROVE Covered(e.rows, e.deps, e.refused, i)
    BY DEF Awake
  <2>2. ~d.wake /\ ~Waited(d.deps, t)
    BY <1>7, <2>1
  <2>3. Covered(d.rows, d.deps, d.refused, i - 1)
    BY <2>2 DEF Held, Awake
  <2>4. Covered(e.rows, Gone(d.deps, t), d.refused \ {t}, i)
    BY <1>1, <1>5, <1>8, <2>2, <2>3, WakeKept
  <2> QED BY <1>7, <2>4 DEF Covered
<1>13. e.wake \in BOOLEAN /\ e.misled \in BOOLEAN /\ e.folder \subseteq Folder(nextid)
  BY <1>7 DEF Held
<1>14. ~e.misled => Straight(e.rows, e.deps, e.fold)
  BY <1>7, <1>8 DEF Held
<1> QED BY <1>7, <1>8, <1>10, <1>11, <1>12, <1>13, <1>14 DEF Held

(* Processed exists, so it is what it says.                                *)
Before == [rows |-> rows, deps |-> deps, folder |-> folder, fold |-> fold, wake |-> wake,
           refused |-> refused, bad |-> badrelease, misled |-> misled]
Traces(g, k) ==
  g = [i \in 0 .. k |-> IF i = 0 THEN Before ELSE process_task(g[i - 1], i)]

(* There is a function with the equations of Processed,                    *)
LEMMA ProcessedExists ==
  ASSUME NEW k \in Nat
  PROVE  \E g : Traces(g, k)
<1> DEFINE S == {j \in 0 .. k : \E g : Traces(g, j)}
<1>1. 0 \in S
  <2>1. PICK g : g = [i \in 0 .. 0 |-> Before]
    OBVIOUS
  <2>2. [i \in 0 .. 0 |-> IF i = 0 THEN Before ELSE process_task(g[i - 1], i)] = g
    BY <2>1
  <2>3. Traces(g, 0)
    BY <2>2 DEF Traces
  <2> QED BY <2>3
<1>2. ASSUME NEW j \in 1 .. k, j - 1 \in S PROVE j \in S
  <2>1. PICK g : Traces(g, j - 1)
    BY <1>2
  <2>2. PICK v : v = process_task(g[j - 1], j)
    OBVIOUS
  <2>3. PICK h : h = [i \in 0 .. j |-> IF i = j THEN v ELSE g[i]]
    OBVIOUS
  <2>4. ASSUME NEW i \in 0 .. j
        PROVE  h[i] = IF i = 0 THEN Before ELSE process_task(h[i - 1], i)
    <3>1. CASE i = 0
      <4>1. h[0] = g[0] /\ 0 \in 0 .. j - 1
        BY <2>3
      <4>2. g[0] = Before
        BY <2>1, <4>1 DEF Traces
      <4> QED BY <3>1, <4>1, <4>2
    <3>2. CASE i \in 1 .. j - 1
      <4>1. h[i] = g[i] /\ h[i - 1] = g[i - 1] /\ i \in 0 .. j - 1 /\ i # 0
        BY <2>3, <3>2
      <4>2. g[i] = process_task(g[i - 1], i)
        BY <2>1, <4>1, Zenon DEF Traces
      <4> QED BY <4>1, <4>2
    <3>3. CASE i = j
      <4>1. h[j] = v /\ h[j - 1] = g[j - 1] /\ j # 0
        BY <2>3
      <4> QED BY <2>2, <3>3, <4>1
    <3> QED BY <3>1, <3>2, <3>3
  <2>5. Traces(h, j)
    <3>1. h = [i \in 0 .. j |-> h[i]]
      BY <2>3
    <3> QED BY <2>4, <3>1, Zenon DEF Traces
  <2> QED BY <2>5
<1>3. 0 .. k \subseteq S
  <2> HIDE DEF S
  <2> QED BY <1>1, <1>2, UpTo
<1> QED BY <1>3

(* so Processed satisfies them.                                            *)
LEMMA ProcessedSteps ==
  ASSUME Len(answers) \in Nat
  PROVE  Traces(Processed, Len(answers))
<1>1. PICK g : Traces(g, Len(answers))
  BY ProcessedExists
<1>2. Processed = CHOOSE f : Traces(f, Len(answers))
  BY DEF Processed, Traces, Before
<1> QED BY <1>1, <1>2

(* At the start of the transaction of psync_fsupload_process_tasks,        *)
LEMMA HeldBefore ==
  ASSUME TasksInv, pc = "send"
  PROVE  Held(Before, 0)
<1>1. /\ DOMAIN Before = State /\ Before.rows = rows /\ Before.deps = deps
      /\ Before.folder = folder /\ Before.fold = fold /\ Before.wake = wake
      /\ Before.refused = refused /\ Before.misled = misled
  BY DEF Before, State
<1>2. Known(rows, deps, fold, nextid) /\ folder \subseteq Folder(nextid)
  BY DEF TasksInv, Linked, ServerKnown
<1>3. Untouched(rows, 0)
  BY DEF TasksInv, BatchKnown, Task, Untouched
<1>4. wake \/ Covered(rows, deps, refused, 0)
  <2>1. Ready = FreeIn(rows, deps)
    BY DEF Ready, FreeIn, Free
  <2>2. Left(0) = {batch[i].id : i \in 1 .. Len(batch)}
    BY DEF Left
  <2>3. wake \/ Ready \subseteq refused \cup {batch[i].id : i \in 1 .. Len(batch)}
    BY DEF TasksInv, Looked
  <2> QED BY <2>1, <2>2, <2>3 DEF Covered
<1>5. Awake(Before.wake, rows, deps, refused, 0)
  BY <1>1, <1>4 DEF Awake
<1>6. /\ Before.wake \in BOOLEAN /\ Before.misled \in BOOLEAN
      /\ ~Before.misled => Straight(rows, deps, fold)
  BY <1>1 DEF TasksInv, Linked, Counted
<1> QED BY <1>1, <1>2, <1>3, <1>5, <1>6 DEF Held

(* and after any number of its answers, the state makes sense.             *)
LEMMA HeldAll ==
  ASSUME TasksInv, pc = "send", NEW k \in 0 .. Len(answers)
  PROVE  Held(Processed[k], k)
<1> DEFINE S == {i \in 0 .. k : Held(Processed[i], i)}
<1>0. BatchKnown /\ nextid \in Nat \ {0} /\ Len(answers) \in Nat
  BY DEF TasksInv, ServerKnown, BatchKnown
<1>1. /\ Processed[0] = Before
      /\ \A i \in 1 .. Len(answers) : Processed[i] = process_task(Processed[i - 1], i)
  <2>1. Traces(Processed, Len(answers))
    BY <1>0, ProcessedSteps
  <2>2. PICK P : P = Processed
    OBVIOUS
  <2>3. \A i \in 0 .. Len(answers) : P[i] = IF i = 0 THEN Before ELSE process_task(P[i - 1], i)
    BY <2>1, <2>2, Zenon DEF Traces
  <2>4. 0 \in 0 .. Len(answers) /\ \A i \in 1 .. Len(answers) : i \in 0 .. Len(answers) /\ i # 0
    BY <1>0
  <2> QED BY <2>2, <2>3, <2>4
<1>2. 0 \in S
  BY <1>1, HeldBefore
<1>3. ASSUME NEW i \in 1 .. k, i - 1 \in S PROVE i \in S
  <2>1. i \in 1 .. Len(answers)
    BY <1>0
  <2>2. Held(Processed[i - 1], i - 1)
    BY <1>3
  <2>3. PICK d : d = Processed[i - 1]
    OBVIOUS
  <2>4. PICK e : e = Processed[i]
    OBVIOUS
  <2>5. e = IF batch[i].row.type = "mkdir"
            THEN process_mkdir(d, batch[i].id, batch[i].row, answers[i])
            ELSE process_rmdir(d, batch[i].id, batch[i].row, answers[i])
    BY <1>1, <2>1, <2>3, <2>4 DEF process_task
  <2>6. Held(d, i - 1)
    BY <2>2, <2>3
  <2>7. CASE batch[i].row.type = "mkdir"
    <3>1. e = process_mkdir(d, batch[i].id, batch[i].row, answers[i])
      BY <2>5, <2>7
    <3>2. CASE answers[i].result = "ok"
      <4>1. Held(e, i)
        BY <1>0, <2>1, <2>6, <2>7, <3>1, <3>2, HeldCreated
      <4> QED BY <2>4, <4>1
    <3>3. CASE answers[i].result # "ok"
      <4>1. Held(e, i)
        BY <1>0, <2>1, <2>6, <2>7, <3>1, <3>3, HeldRefused
      <4> QED BY <2>4, <4>1
    <3> QED BY <3>2, <3>3
  <2>8. CASE batch[i].row.type # "mkdir"
    <3>1. e = process_rmdir(d, batch[i].id, batch[i].row, answers[i])
      BY <2>5, <2>8
    <3>2. Held(e, i)
      BY <1>0, <2>1, <2>6, <2>8, <3>1, HeldRemoved
    <3> QED BY <2>4, <3>2
  <2> QED BY <2>7, <2>8
<1>4. 0 .. k \subseteq S
  <2>1. k \in Nat
    BY <1>0
  <2> HIDE DEF S
  <2> QED BY <1>2, <1>3, <2>1, UpTo
<1> QED BY <1>0, <1>4

(* process_entries leaves folders the server has named.                    *)
Entered(g, k) ==
  g = [i \in 0 .. k |-> IF i = 0 THEN folder ELSE Apply(g[i - 1], events[i])]

(* There is a function with the equations of Applied.                      *)
LEMMA AppliedExists ==
  ASSUME NEW k \in Nat
  PROVE  \E g : Entered(g, k)
<1> DEFINE S == {j \in 0 .. k : \E g : Entered(g, j)}
<1>1. 0 \in S
  <2>1. PICK g : g = [i \in 0 .. 0 |-> folder]
    OBVIOUS
  <2>2. [i \in 0 .. 0 |-> IF i = 0 THEN folder ELSE Apply(g[i - 1], events[i])] = g
    BY <2>1
  <2>3. Entered(g, 0)
    BY <2>2 DEF Entered
  <2> QED BY <2>3
<1>2. ASSUME NEW j \in 1 .. k, j - 1 \in S PROVE j \in S
  <2>1. PICK g : Entered(g, j - 1)
    BY <1>2
  <2>2. PICK v : v = Apply(g[j - 1], events[j])
    OBVIOUS
  <2>3. PICK h : h = [i \in 0 .. j |-> IF i = j THEN v ELSE g[i]]
    OBVIOUS
  <2>4. ASSUME NEW i \in 0 .. j
        PROVE  h[i] = IF i = 0 THEN folder ELSE Apply(h[i - 1], events[i])
    <3>1. CASE i = 0
      <4>1. h[0] = g[0] /\ 0 \in 0 .. j - 1
        BY <2>3
      <4>2. g[0] = folder
        BY <2>1, <4>1 DEF Entered
      <4> QED BY <3>1, <4>1, <4>2
    <3>2. CASE i \in 1 .. j - 1
      <4>1. h[i] = g[i] /\ h[i - 1] = g[i - 1] /\ i \in 0 .. j - 1 /\ i # 0
        BY <2>3, <3>2
      <4>2. g[i] = Apply(g[i - 1], events[i])
        BY <2>1, <4>1, Zenon DEF Entered
      <4> QED BY <4>1, <4>2
    <3>3. CASE i = j
      <4>1. h[j] = v /\ h[j - 1] = g[j - 1] /\ j # 0
        BY <2>3
      <4> QED BY <2>2, <3>3, <4>1
    <3> QED BY <3>1, <3>2, <3>3
  <2>5. Entered(h, j)
    <3>1. h = [i \in 0 .. j |-> h[i]]
      BY <2>3
    <3> QED BY <2>4, <3>1, Zenon DEF Entered
  <2> QED BY <2>5
<1>3. 0 .. k \subseteq S
  <2> HIDE DEF S
  <2> QED BY <1>1, <1>2, UpTo
<1> QED BY <1>3

(* After any number of events the table has folders the server has named.  *)
LEMMA AppliedKnown ==
  ASSUME ServerKnown, NEW k \in 1 .. Len(events)
  PROVE  Applied[k] \subseteq Folder(nextid)
<1> DEFINE S == {i \in 0 .. k : Applied[i] \subseteq Folder(nextid)}
<1>0. Len(events) \in Nat /\ folder \subseteq Folder(nextid) /\ EventsKnown
  BY DEF ServerKnown
<1>1. /\ Applied[0] = folder
      /\ \A i \in 1 .. Len(events) : Applied[i] = Apply(Applied[i - 1], events[i])
  <2>1. PICK g : Entered(g, Len(events))
    BY <1>0, AppliedExists
  <2>2. Applied = CHOOSE f : Entered(f, Len(events))
    BY DEF Applied, Entered
  <2>3. Entered(Applied, Len(events))
    BY <2>1, <2>2
  <2>4. PICK P : P = Applied
    OBVIOUS
  <2>5. \A i \in 0 .. Len(events) : P[i] = IF i = 0 THEN folder ELSE Apply(P[i - 1], events[i])
    BY <2>3, <2>4, Zenon DEF Entered
  <2>6. 0 \in 0 .. Len(events) /\ \A i \in 1 .. Len(events) : i \in 0 .. Len(events) /\ i # 0
    BY <1>0
  <2> QED BY <2>4, <2>5, <2>6
<1>2. 0 \in S
  BY <1>0, <1>1
<1>3. ASSUME NEW i \in 1 .. k, i - 1 \in S PROVE i \in S
  <2>1. PICK A : A = Applied[i - 1]
    OBVIOUS
  <2>2. A \subseteq Folder(nextid)
    BY <1>3, <2>1
  <2>3. i \in 1 .. Len(events)
    BY <1>0
  <2>4. Applied[i] = Apply(A, events[i])
    BY <1>1, <2>1, <2>3
  <2>5. PICK e : e = events[i]
    OBVIOUS
  <2>6. e.op = "create" => [id |-> e.id, parent |-> e.parent, name |-> e.name] \in Folder(nextid)
    <3>1. DOMAIN events = 1 .. Len(events)
      BY DEF ServerKnown
    <3>2. e.op = "create" => /\ e.id \in 1 .. nextid - 1 /\ e.parent \in 0 .. nextid - 1
                             /\ e.name \in Names
      BY <1>0, <2>3, <2>5, <3>1 DEF EventsKnown
    <3> QED BY <3>2 DEF Folder
  <2>7. Apply(A, e) \subseteq Folder(nextid)
    BY <2>2, <2>6 DEF Apply
  <2> QED BY <2>4, <2>5, <2>7
<1>4. 0 .. k \subseteq S
  <2>1. k \in Nat
    BY <1>0
  <2> HIDE DEF S
  <2> QED BY <1>2, <1>3, <2>1, UpTo
<1> QED BY <1>0, <1>4

-----------------------------------------------------------------------------
(* psync_fstask_mkdir, psync_fstask_rmdir.  A name stands for a folder the *)
(* server knows, or for one that a row is to make.                         *)
LEMMA SeenKnown ==
  ASSUME Linked, ServerKnown, NEW f, NEW n, NEW c \in Seen(f, n)
  PROVE  /\ c \in Int /\ c < nextid /\ c # 0
         /\ c < 0 => /\ -c \in Mkdirs(rows)
                     /\ \E m \in find_mkdir(fold, f, n) : m.taskid = -c
         /\ f < 0 => find_mkdir(fold, f, n) # {}
<1>0. RowsKnown(rows, deps, nextid) /\ OverlayKnown(rows, fold, nextid) /\ nextid \in Nat \ {0}
  BY DEF Linked, Known, ServerKnown
<1>1. CASE find_mkdir(fold, f, n) # {}
  <2>1. PICK m \in find_mkdir(fold, f, n) : c = m.folderid
    BY <1>1 DEF Seen
  <2>2. f \in DOMAIN fold /\ m \in fold[f].mkdirs
    BY <2>1 DEF find_mkdir, Tasks, NoTasks
  <2>3. MkdirKnown(rows, f, m, nextid)
    BY <1>0, <2>2, OverlayFolder DEF FolderKnown
  <2>4. m.taskid \in Int /\ m.folderid \in Int
    BY <2>3 DEF MkdirKnown
  <2>5. CASE OwnMkdir(rows, f, m)
    <3>1. -m.folderid = m.taskid /\ m.taskid \in Mkdirs(rows)
      BY <2>5 DEF OwnMkdir
    <3>2. m.taskid \in Nat \ {0}
      BY <1>0, <3>1 DEF RowsKnown, Mkdirs
    <3> QED BY <1>0, <1>1, <2>1, <2>4, <3>1, <3>2
  <2>6. CASE ~OwnMkdir(rows, f, m)
    <3>1. m.folderid \in 1 .. nextid - 1
      BY <2>3, <2>6 DEF MkdirKnown
    <3> QED BY <1>0, <1>1, <2>1, <3>1
  <2> QED BY <2>5, <2>6
<1>2. CASE find_mkdir(fold, f, n) = {}
  <2>1. PICK r \in folder : c = r.id /\ r.parent = f
    BY <1>2 DEF Seen
  <2>2. r.id \in 1 .. nextid - 1 /\ r.parent \in 0 .. nextid - 1
    BY <2>1 DEF ServerKnown, Folder
  <2> QED BY <1>0, <2>1, <2>2
<1> QED BY <1>1, <1>2

(* A path leads to folders with an id the server gave, or with -taskid.    *)
LEMMA Resolved ==
  ASSUME Linked, ServerKnown, NEW path, NEW f \in Resolve(path)
  PROVE  f \in Int /\ f < nextid /\ (f < 0 => -f \in Mkdirs(rows))
<1>1. CASE path = <<>>
  BY <1>1 DEF Resolve, ServerKnown
<1>2. CASE path # <<>>
  <2>1. f \in Seen(0, path[1])
    BY <1>2 DEF Resolve
  <2> QED BY <2>1, SeenKnown
<1> QED BY <1>1, <1>2

(* The entries of a name are in the folder, and those of rows name them.   *)
LEMMA NamedEntries ==
  ASSUME Linked, NEW f, NEW n, NEW m \in find_mkdir(fold, f, n)
  PROVE  /\ f \in DOMAIN fold /\ m \in fold[f].mkdirs /\ m.name = n
         /\ m.taskid \in Int /\ m.folderid \in Int
         /\ f < 0 => m.taskid \in Mkdirs(rows) /\ rows[m.taskid].folderid = f
         /\ Plain(fold) /\ m.taskid > 0 => m.taskid \in Mkdirs(rows)
<1>0. RowsKnown(rows, deps, nextid) /\ OverlayKnown(rows, fold, nextid)
  BY DEF Linked, Known
<1>1. f \in DOMAIN fold /\ m \in fold[f].mkdirs /\ m.name = n
  BY DEF find_mkdir, Tasks, NoTasks
<1>2. MkdirKnown(rows, f, m, nextid) /\ f \in Int
  BY <1>0, <1>1, OverlayFolder DEF FolderKnown
<1>3. m.taskid \in Int /\ m.folderid \in Int
  BY <1>2 DEF MkdirKnown
<1>4. ASSUME f < 0 PROVE m.taskid \in Mkdirs(rows) /\ rows[m.taskid].folderid = f
  <2>1. OwnMkdir(rows, f, m)
    BY <1>2, <1>4 DEF MkdirKnown
  <2>2. m.taskid \in Mkdirs(rows) /\ (rows[m.taskid].folderid = f \/ rows[m.taskid].sfolderid = f)
    BY <2>1 DEF OwnMkdir
  <2>3. RowKnown(rows, deps, m.taskid) /\ rows[m.taskid].type = "mkdir"
    BY <1>0, <2>2 DEF RowsKnown, Mkdirs
  <2> QED BY <1>2, <1>4, <2>2, <2>3 DEF RowKnown
<1>5. ASSUME Plain(fold), m.taskid > 0 PROVE m.taskid \in Mkdirs(rows)
  <2>1. m.folderid = -m.taskid
    BY <1>1, <1>5 DEF Plain
  <2>2. OwnMkdir(rows, f, m)
    BY <1>2, <1>3, <1>5, <2>1 DEF MkdirKnown
  <2> QED BY <2>2 DEF OwnMkdir
<1> QED BY <1>1, <1>3, <1>4, <1>5

(* A step that leaves the thread and its batch alone.                      *)
LEMMA BatchStays ==
  ASSUME BatchKnown, UNCHANGED <<pc, batch, at, answers, wire>>,
         nextid \in Nat, nextid' \in Nat, nextid <= nextid',
         \A i \in 1 .. Len(batch) : Task(batch[i])'
  PROVE  BatchKnown'
<1>1. \A i \in 1 .. Len(answers) : AnswerKnown(i)'
  BY DEF BatchKnown, AnswerKnown
<1> QED BY <1>1 DEF BatchKnown

Paths == {<<n>> : n \in Names} \cup Names \X Names

(* The part of it that is the same for both kinds of row.                  *)
LEMMA RowInserted ==
  ASSUME TasksInv, ops < MaxOps, ops' = ops + 1, MaxOps \in Nat,
         NEW t, t = NewTask, NEW r, NEW on,
         rows' = With(rows, t, r), deps' = Depend(t, on),
         wake' \in BOOLEAN, wake => wake', on = {} => wake',
         misled' \in BOOLEAN, want' \subseteq Paths,
         UNCHANGED <<uploadVars, wire, serverVars, folder, refused>>
  PROVE  /\ Counted' /\ ServerKnown' /\ BatchKnown' /\ Looked'
         /\ t \in Nat \ {0} /\ t \notin DOMAIN rows /\ \A u \in DOMAIN rows : u < t
<1>0. /\ ops \in Nat /\ DOMAIN rows \subseteq 1 .. ops /\ RowsKnown(rows, deps, nextid)
      /\ ServerKnown /\ BatchKnown /\ Looked /\ nextid \in Nat
  BY DEF TasksInv, Counted, Linked, Known, ServerKnown
<1>1. t \in 1 .. ops + 1 /\ \A u \in DOMAIN rows : u < t
  <2>1. rows \in [DOMAIN rows -> Row]
    BY <1>0 DEF RowsKnown
  <2> QED BY <1>0, <2>1, NewTaskFresh
<1>2. t \notin DOMAIN rows /\ t \in Nat \ {0}
  BY <1>0, <1>1
<1>3. DOMAIN rows' = DOMAIN rows \cup {t} /\ \A u \in DOMAIN rows : rows'[u] = rows[u]
  BY <1>2 DEF With
<1>4. Counted'
  BY <1>0, <1>1, <1>3 DEF TasksInv, Counted, Paths
<1>5. ServerKnown'
  BY <1>0 DEF ServerKnown, serverVars, EventsKnown
<1>6. \A u \in DOMAIN rows : Free(u)' <=> Free(u)
  BY <1>2 DEF Free, Depend
<1>7. BatchKnown'
  <2>1. ASSUME NEW i \in 1 .. Len(batch) PROVE Task(batch[i])'
    <3>1. Task(batch[i])
      BY <1>0 DEF BatchKnown
    <3>2. batch' = batch
      BY DEF uploadVars
    <3> QED BY <1>3, <1>6, <3>1, <3>2 DEF Task
  <2>2. nextid' = nextid /\ nextid <= nextid' /\ UNCHANGED <<pc, batch, at, answers, wire>>
    BY <1>0 DEF serverVars, uploadVars
  <2> QED BY <1>0, <2>1, <2>2, BatchStays
<1>8. wake' \/ Ready' = Ready
  <2>1. ASSUME ~wake' PROVE ~Free(t)'
    <3>1. PICK x \in on : TRUE
      BY <2>1
    <3>2. <<t, x>> \in deps' /\ <<t, x>>[1] = t
      BY DEF Depend
    <3> QED BY <3>2 DEF Free
  <2>2. ASSUME ~wake' PROVE Ready' = Ready
    BY <1>3, <1>6, <2>1, <2>2 DEF Ready
  <2> QED BY <2>2
<1>9. Looked'
  BY <1>0, <1>8 DEF Looked, NoLostWakeup, Ready, uploadVars
<1> QED BY <1>1, <1>2, <1>4, <1>5, <1>7, <1>9

PathOf == {<<>>} \cup {<<n>> : n \in Names}

(* A path of at most one name with one more.                               *)
LEMMA PathAppended ==
  ASSUME NEW path \in PathOf, NEW n \in Names
  PROVE  Append(path, n) \in Paths
<1>1. CASE path = <<>>
  BY <1>1 DEF Paths
<1>2. CASE path # <<>>
  <2>1. PICK m \in Names : path = <<m>>
    BY <1>2 DEF PathOf
  <2>2. Append(<<m>>, n) = <<m, n>>
    <3>1. PICK p : p = Append(<<m>>, n)
      OBVIOUS
    <3>2. <<m>> \in Seq(Names)
      OBVIOUS
    <3>3. p \in Seq(Names) /\ Len(p) = 2 /\ p[1] = m /\ p[2] = n
      BY <3>1, <3>2
    <3>4. p = [i \in 1 .. 2 |-> p[i]]
      BY <3>3
    <3>5. <<m, n>> = [i \in 1 .. 2 |-> p[i]]
      BY <3>3
    <3> QED BY <3>1, <3>4, <3>5
  <2> QED BY <2>1, <2>2 DEF Paths
<1> QED BY <1>1, <1>2

(* psync_fstask_mkdir keeps the invariant.                                 *)
LEMMA MkdirStep ==
  ASSUME TasksInv, MaxOps \in Nat, ops < MaxOps, ops' = ops + 1,
         NEW path \in PathOf, NEW n \in Names, psync_fstask_mkdir(path, n),
         UNCHANGED <<uploadVars, wire, serverVars>>
  PROVE  TasksInv'
<1> DEFINE t == NewTask
<1>1. PICK f \in Resolve(path) :
        LET on == depend_on_name(t, f, n) \cup (IF f < 0 THEN {-f} ELSE {})
        IN /\ find_mkdir(fold, f, n) = {}
           /\ Allowed(t, on) /\ Insert(t, "mkdir", f, f, n) /\ deps' = Depend(t, on)
           /\ fold' = AddMkdir(get_or_create(fold, f), f, [taskid |-> t, name |-> n, folderid |-> -t])
           /\ wake' = (wake \/ on = {}) /\ misled' = (misled \/ Stale(f))
           /\ want' = want \cup {Append(path, n)} /\ UNCHANGED <<folder, refused>>
  BY Zenon DEF psync_fstask_mkdir
<1> HIDE DEF t
<1>2. PICK on : on = depend_on_name(t, f, n) \cup (IF f < 0 THEN {-f} ELSE {})
  OBVIOUS
<1>3. PICK r : r = [type |-> "mkdir", folderid |-> f, sfolderid |-> f, name |-> n]
  OBVIOUS
<1>4. /\ Linked /\ ServerKnown /\ RowsKnown(rows, deps, nextid) /\ OverlayKnown(rows, fold, nextid)
      /\ Busy(fold) /\ nextid \in Nat
  BY DEF TasksInv, Linked, Known, ServerKnown
<1>5. f \in Int /\ f < nextid /\ (f < 0 => -f \in Mkdirs(rows))
  BY <1>4, Resolved
<1>6. /\ r \in Row /\ r.type = "mkdir" /\ r.folderid = f /\ r.sfolderid = f /\ r.name = n
  BY <1>3, <1>5 DEF Row
<1>7. /\ rows' = With(rows, t, r) /\ deps' = Depend(t, on)
      /\ wake' = (wake \/ on = {}) /\ UNCHANGED <<folder, refused>>
      /\ misled' = (misled \/ Stale(f)) /\ want' = want \cup {Append(path, n)}
      /\ find_mkdir(fold, f, n) = {}
      /\ fold' = AddMkdir(get_or_create(fold, f), f, [taskid |-> t, name |-> n, folderid |-> -t])
  BY <1>1, <1>2, <1>3, Zenon DEF Insert
<1>8. on \subseteq DOMAIN rows
  BY <1>2, <1>5 DEF depend_on_name, Mkdirs
<1>9. /\ Counted' /\ ServerKnown' /\ BatchKnown' /\ Looked'
      /\ t \in Nat \ {0} /\ t \notin DOMAIN rows /\ \A u \in DOMAIN rows : u < t
  <2>1. wake' \in BOOLEAN /\ (wake => wake') /\ (on = {} => wake') /\ misled' \in BOOLEAN
    BY <1>7 DEF TasksInv, Counted
  <2>2. want' \subseteq Paths
    BY <1>7, PathAppended DEF TasksInv, Counted, Paths
  <2> QED BY <1>7, <2>1, <2>2, RowInserted DEF t
<1>10. RowsKnown(rows', deps', nextid)
  <2>1. RowsKnown(With(rows, t, r), deps \cup ({t} \X on), nextid)
    <3>1. r.folderid < 0 => -r.folderid \in Mkdirs(rows) /\ -r.folderid \in on
      BY <1>2, <1>5, <1>6
    <3> QED BY <1>4, <1>5, <1>6, <1>8, <1>9, <3>1, RowAdded
  <2> QED BY <1>7, <2>1 DEF Depend
<1>11. PICK m : m = [taskid |-> t, name |-> n, folderid |-> -t]
  OBVIOUS
<1>12. PICK G : G = get_or_create(fold, f)
  OBVIOUS
<1>13. /\ OverlayKnown(rows, G, nextid) /\ f \in DOMAIN G /\ DOMAIN G = DOMAIN fold \cup {f}
       /\ \A h \in DOMAIN fold : G[h] = fold[h]
       /\ f \notin DOMAIN fold => G[f].mkdirs = {} /\ G[f].rmdirs = {}
       /\ find_mkdir(G, f, n) = {}
  <2>1. OverlayKnown(rows, G, nextid) /\ Obtained(fold, f, G)
    BY <1>4, <1>5, <1>12, Gotten
  <2> QED BY <1>7, <2>1 DEF Obtained
<1>14. DOMAIN rows' = DOMAIN rows \cup {t} /\ rows'[t] = r /\ \A u \in DOMAIN rows : rows'[u] = rows[u]
  BY <1>7, <1>9 DEF With
<1>15. Mkdirs(rows) \subseteq Mkdirs(rows') /\ t \in Mkdirs(rows')
       /\ \A u \in DOMAIN rows \ Mkdirs(rows) : u \in DOMAIN rows' \ Mkdirs(rows')
  BY <1>6, <1>9, <1>14 DEF Mkdirs
<1>16. OverlayKnown(rows', G, nextid)
  <2>1. ASSUME NEW h \in DOMAIN G
        PROVE  /\ \A e \in G[h].mkdirs : OwnMkdir(rows, h, e) => OwnMkdir(rows', h, e)
               /\ \A e \in G[h].rmdirs : RmdirKnown(rows, h, e) => RmdirKnown(rows', h, e)
    <3>1. \A e : OwnMkdir(rows, h, e) => OwnMkdir(rows', h, e)
      BY <1>14, <1>15 DEF OwnMkdir, Mkdirs
    <3>2. \A e : RmdirKnown(rows, h, e) => RmdirKnown(rows', h, e)
      BY <1>14, <1>15 DEF RmdirKnown
    <3> QED BY <3>1, <3>2
  <2>2. nextid <= nextid
    BY <1>4
  <2> QED BY <1>4, <1>13, <2>1, <2>2, OverlayRows
<1>17. /\ m.taskid = t /\ m.name = n /\ m.folderid = -t
       /\ m \in [taskid : Int, name : Names, folderid : Int]
  BY <1>9, <1>11
<1>18. MkdirKnown(rows', f, m, nextid)
  BY <1>6, <1>9, <1>14, <1>15, <1>17 DEF MkdirKnown, OwnMkdir
<1>19. \A h \in DOMAIN G : \A p \in G[h].mkdirs : p.folderid # m.folderid
  <2> SUFFICES ASSUME NEW h \in DOMAIN G, NEW p \in G[h].mkdirs, p.folderid = -t
               PROVE  FALSE
    BY <1>17
  <2>1. MkdirKnown(rows, h, p, nextid)
    BY <1>13, OverlayFolder DEF FolderKnown
  <2>2. OwnMkdir(rows, h, p) /\ p.taskid \in Int
    BY <1>9, <2>1 DEF MkdirKnown
  <2>3. p.taskid \in DOMAIN rows /\ p.taskid = t
    BY <1>9, <2>2 DEF OwnMkdir, Mkdirs
  <2> QED BY <1>9, <2>3
<1>20. \A p \in G[f].mkdirs : p.name # m.name
  BY <1>13, <1>17 DEF find_mkdir, Tasks
<1>21. /\ OverlayKnown(rows', fold', nextid) /\ DOMAIN fold' = DOMAIN G
       /\ fold'[f].mkdirs = G[f].mkdirs \cup {m} /\ fold'[f].rmdirs = G[f].rmdirs
       /\ fold'[f].taskscnt > 0 /\ \A h \in DOMAIN G : h # f => fold'[h] = G[h]
  <2>1. PICK H : H = AddMkdir(G, f, m)
    OBVIOUS
  <2>2. fold' = H
    BY <1>7, <1>11, <1>12, <2>1
  <2>3. /\ OverlayKnown(rows', H, nextid) /\ DOMAIN H = DOMAIN G
        /\ H[f].mkdirs = G[f].mkdirs \cup {m} /\ H[f].rmdirs = G[f].rmdirs /\ H[f].taskscnt > 0
        /\ \A h \in DOMAIN G : h # f => H[h] = G[h]
    BY <1>13, <1>16, <1>18, <1>19, <1>20, <2>1, MkdirAdded
  <2> QED BY <2>2, <2>3
<1>22. Busy(fold')
  <2>1. \A h \in DOMAIN fold' : h = f \/ (h \in DOMAIN fold /\ fold'[h] = fold[h])
    BY <1>13, <1>21
  <2> QED BY <1>4, <1>21, <2>1 DEF Busy
<1>23. ~misled' => Straight(rows', deps', fold')
  <2> SUFFICES ASSUME ~misled' PROVE Straight(rows', deps', fold')
    OBVIOUS
  <2>1. Straight(rows, deps, fold)
    BY <1>7 DEF TasksInv, Linked
  <2>2. \A u \in Mkdirs(rows') : rows'[u].sfolderid = rows'[u].folderid
    BY <1>6, <1>14, <2>1 DEF Straight, Mkdirs
  <2>3. Plain(fold')
    <3> SUFFICES ASSUME NEW h \in DOMAIN fold', NEW p \in fold'[h].mkdirs
                 PROVE  p.folderid = -p.taskid
      BY DEF Plain
    <3>1. CASE p = m
      BY <1>17, <3>1
    <3>2. CASE p # m
      <4>1. h \in DOMAIN fold /\ p \in fold[h].mkdirs
        BY <1>13, <1>21, <3>2
      <4> QED BY <2>1, <4>1 DEF Straight, Plain
    <3> QED BY <3>1, <3>2
  <2>4. \A d \in deps' : d[2] < d[1]
    <3>1. \A d \in deps' : d \in deps \/ (d \in {t} \X on)
      BY <1>7 DEF Depend
    <3>2. \A d \in {t} \X on : d[1] = t /\ d[2] \in on
      OBVIOUS
    <3> QED BY <1>8, <1>9, <2>1, <3>1, <3>2 DEF Straight
  <2> QED BY <2>2, <2>3, <2>4 DEF Straight
<1>24. Linked'
  <2>1. nextid' = nextid
    BY DEF serverVars
  <2> QED BY <1>10, <1>21, <1>22, <1>23, <2>1 DEF Linked, Known
<1> QED BY <1>9, <1>24 DEF TasksInv

(* psync_fstask_rmdir keeps the invariant.                                 *)
LEMMA RmdirStep ==
  ASSUME TasksInv, MaxOps \in Nat, ops < MaxOps, ops' = ops + 1,
         NEW path \in PathOf, NEW n \in Names, psync_fstask_rmdir(path, n),
         UNCHANGED <<uploadVars, wire, serverVars>>
  PROVE  TasksInv'
<1> DEFINE t == NewTask
<1>0. PICK f \in Resolve(path) : \E c \in Seen(f, n) :
        LET mk == find_mkdir(fold, f, n)
            first == {m.taskid : m \in mk} \cup {u \in DOMAIN rows : rows[u].folderid = c}
        IN /\ Allowed(t, first) /\ Insert(t, "rmdir", f, c, n)
           /\ deps' = Depend(t, first \cup depend_on_name(t, f, n))
           /\ fold' = AddRmdir(DropMkdirs(get_or_create(fold, f), f, mk), f, [taskid |-> t, name |-> n])
           /\ wake' = (wake \/ first = {}) /\ misled' = (misled \/ Stale(f) \/ Stale(c))
           /\ want' = want \ {Append(path, n)} /\ UNCHANGED <<folder, refused>>
  BY Zenon DEF psync_fstask_rmdir
<1>1. PICK c \in Seen(f, n) :
        LET mk == find_mkdir(fold, f, n)
            first == {m.taskid : m \in mk} \cup {u \in DOMAIN rows : rows[u].folderid = c}
        IN /\ Allowed(t, first) /\ Insert(t, "rmdir", f, c, n)
           /\ deps' = Depend(t, first \cup depend_on_name(t, f, n))
           /\ fold' = AddRmdir(DropMkdirs(get_or_create(fold, f), f, mk), f, [taskid |-> t, name |-> n])
           /\ wake' = (wake \/ first = {}) /\ misled' = (misled \/ Stale(f) \/ Stale(c))
           /\ want' = want \ {Append(path, n)} /\ UNCHANGED <<folder, refused>>
  BY <1>0
<1> HIDE DEF t
<1>2. PICK mk : mk = find_mkdir(fold, f, n)
  OBVIOUS
<1>3. PICK first : first = {m.taskid : m \in mk} \cup {u \in DOMAIN rows : rows[u].folderid = c}
  OBVIOUS
<1>4. PICK on : on = first \cup depend_on_name(t, f, n)
  OBVIOUS
<1>5. PICK r : r = [type |-> "rmdir", folderid |-> f, sfolderid |-> c, name |-> n]
  OBVIOUS
<1>6. /\ Linked /\ ServerKnown /\ RowsKnown(rows, deps, nextid) /\ OverlayKnown(rows, fold, nextid)
      /\ Busy(fold) /\ nextid \in Nat
  BY DEF TasksInv, Linked, Known, ServerKnown
<1>7. f \in Int /\ f < nextid /\ (f < 0 => -f \in Mkdirs(rows))
  BY <1>6, Resolved
<1>8. /\ c \in Int /\ c < nextid /\ c # 0
      /\ c < 0 => -c \in Mkdirs(rows) /\ \E m \in mk : m.taskid = -c
      /\ f < 0 => mk # {}
  BY <1>2, <1>6, SeenKnown
<1>9. r \in Row /\ r.type = "rmdir" /\ r.folderid = f /\ r.sfolderid = c /\ r.name = n
  BY <1>5, <1>7, <1>8 DEF Row
<1>10. /\ rows' = With(rows, t, r) /\ deps' = Depend(t, on) /\ Allowed(t, first)
       /\ wake' = (wake \/ first = {}) /\ UNCHANGED <<folder, refused>>
       /\ misled' = (misled \/ Stale(f) \/ Stale(c)) /\ want' = want \ {Append(path, n)}
       /\ fold' = AddRmdir(DropMkdirs(get_or_create(fold, f), f, mk), f, [taskid |-> t, name |-> n])
  BY <1>1, <1>2, <1>3, <1>4, <1>5, Zenon DEF Insert
<1>11. on \subseteq DOMAIN rows \cup {t}
  BY <1>4, <1>10 DEF depend_on_name, Allowed
<1>12. /\ Counted' /\ ServerKnown' /\ BatchKnown' /\ Looked'
       /\ t \in Nat \ {0} /\ t \notin DOMAIN rows /\ \A u \in DOMAIN rows : u < t
  <2>1. wake' \in BOOLEAN /\ (wake => wake') /\ (on = {} => wake') /\ misled' \in BOOLEAN
    BY <1>4, <1>10 DEF TasksInv, Counted
  <2>2. want' \subseteq Paths
    BY <1>10 DEF TasksInv, Counted, Paths
  <2> QED BY <1>10, <2>1, <2>2, RowInserted DEF t
<1>13. \A m \in mk : /\ f \in DOMAIN fold /\ m \in fold[f].mkdirs /\ m.taskid \in Int
                     /\ f < 0 => m.taskid \in Mkdirs(rows) /\ rows[m.taskid].folderid = f
                     /\ Plain(fold) /\ m.taskid > 0 => m.taskid \in Mkdirs(rows)
  BY <1>2, <1>6, NamedEntries
<1>14. RowsKnown(rows', deps', nextid)
  <2>1. r.folderid < 0 =>
          /\ -r.folderid \in Mkdirs(rows)
          /\ \/ -r.folderid \in on
             \/ /\ r.type = "rmdir"
                /\ \E u \in Mkdirs(rows) : u \in on /\ rows[u].folderid = r.folderid
    <3>1. CASE f < 0
      <4>1. PICK m : m \in mk
        BY <1>8, <3>1
      <4>2. m.taskid \in Mkdirs(rows) /\ rows[m.taskid].folderid = f /\ m.taskid \in on
        BY <1>3, <1>4, <1>13, <3>1, <4>1
      <4> QED BY <1>7, <1>9, <3>1, <4>2
    <3>2. CASE ~(f < 0)
      BY <1>9, <3>2
    <3> QED BY <3>1, <3>2
  <2>2. r.sfolderid # 0 /\ (r.sfolderid < 0 => -r.sfolderid \in Mkdirs(rows) /\ -r.sfolderid \in on)
    BY <1>3, <1>4, <1>8, <1>9
  <2>3. RowsKnown(With(rows, t, r), deps \cup ({t} \X on), nextid)
    BY <1>6, <1>7, <1>8, <1>9, <1>11, <1>12, <2>1, <2>2, RowAdded
  <2> QED BY <1>10, <2>3 DEF Depend
<1>15. PICK m : m = [taskid |-> t, name |-> n]
  OBVIOUS
<1>16. PICK G : G = get_or_create(fold, f)
  OBVIOUS
<1>17. OverlayKnown(rows, G, nextid) /\ Obtained(fold, f, G)
  BY <1>6, <1>7, <1>16, Gotten
<1>18. PICK H : H = DropMkdirs(G, f, mk)
  OBVIOUS
<1>19. /\ OverlayKnown(rows, H, nextid) /\ DOMAIN H = DOMAIN G
       /\ H[f].mkdirs = G[f].mkdirs \ mk /\ H[f].rmdirs = G[f].rmdirs
       /\ \A h \in DOMAIN G : h # f => H[h] = G[h]
  <2>1. f \in DOMAIN G /\ mk \subseteq G[f].mkdirs
    BY <1>13, <1>17 DEF Obtained
  <2> QED BY <1>17, <1>18, <2>1, MkdirsDropped
<1>20. DOMAIN rows' = DOMAIN rows \cup {t} /\ rows'[t] = r /\ \A u \in DOMAIN rows : rows'[u] = rows[u]
  BY <1>10, <1>12 DEF With
<1>21. Mkdirs(rows') = Mkdirs(rows)
  BY <1>9, <1>12, <1>20 DEF Mkdirs
<1>22. OverlayKnown(rows', H, nextid)
  <2>1. ASSUME NEW h \in DOMAIN H
        PROVE  /\ \A e \in H[h].mkdirs : OwnMkdir(rows, h, e) => OwnMkdir(rows', h, e)
               /\ \A e \in H[h].rmdirs : RmdirKnown(rows, h, e) => RmdirKnown(rows', h, e)
    <3>1. \A e : OwnMkdir(rows, h, e) => OwnMkdir(rows', h, e)
      BY <1>20, <1>21 DEF OwnMkdir, Mkdirs
    <3>2. \A e : RmdirKnown(rows, h, e) => RmdirKnown(rows', h, e)
      BY <1>20, <1>21 DEF RmdirKnown
    <3> QED BY <3>1, <3>2
  <2>2. nextid <= nextid
    BY <1>6
  <2> QED BY <1>6, <1>19, <2>1, <2>2, OverlayRows
<1>23. /\ m.taskid = t /\ m.name = n /\ m \in [taskid : Int, name : Names]
  BY <1>12, <1>15
<1>24. RmdirKnown(rows', f, m)
  BY <1>9, <1>20, <1>12, <1>21, <1>23 DEF RmdirKnown, Mkdirs
<1>25. m \notin H[f].rmdirs
  <2>1. f \in DOMAIN H
    BY <1>17, <1>19 DEF Obtained
  <2>2. \A e \in H[f].rmdirs : RmdirKnown(rows, f, e)
    BY <1>19, <2>1, OverlayFolder DEF FolderKnown
  <2> QED BY <1>12, <1>23, <2>2 DEF RmdirKnown
<1>26. /\ OverlayKnown(rows', fold', nextid) /\ DOMAIN fold' = DOMAIN H
       /\ fold'[f].mkdirs = H[f].mkdirs
       /\ fold'[f].taskscnt > 0 /\ \A h \in DOMAIN H : h # f => fold'[h] = H[h]
  <2>1. PICK J : J = AddRmdir(H, f, m)
    OBVIOUS
  <2>2. fold' = J
    BY <1>10, <1>15, <1>16, <1>18, <2>1
  <2>3. f \in DOMAIN H
    BY <1>17, <1>19 DEF Obtained
  <2>4. /\ OverlayKnown(rows', J, nextid) /\ DOMAIN J = DOMAIN H
        /\ J[f].rmdirs = H[f].rmdirs \cup {m} /\ J[f].mkdirs = H[f].mkdirs /\ J[f].taskscnt > 0
        /\ \A h \in DOMAIN H : h # f => J[h] = H[h]
    BY <1>22, <1>24, <1>25, <2>1, <2>3, RmdirAdded
  <2> QED BY <2>2, <2>4
<1>27. Busy(fold')
  <2>1. \A h \in DOMAIN fold' : h = f \/ (h \in DOMAIN fold /\ fold'[h] = fold[h])
    BY <1>17, <1>19, <1>26 DEF Obtained
  <2> QED BY <1>6, <1>26, <2>1 DEF Busy
<1>28. ~misled' => Straight(rows', deps', fold')
  <2> SUFFICES ASSUME ~misled' PROVE Straight(rows', deps', fold')
    OBVIOUS
  <2>1. Straight(rows, deps, fold)
    BY <1>10 DEF TasksInv, Linked
  <2>2. \A u \in Mkdirs(rows') : rows'[u].sfolderid = rows'[u].folderid
    BY <1>20, <1>21, <2>1 DEF Straight, Mkdirs
  <2>3. Plain(fold')
    <3> SUFFICES ASSUME NEW h \in DOMAIN fold', NEW p \in fold'[h].mkdirs
                 PROVE  p.folderid = -p.taskid
      BY DEF Plain
    <3>1. h \in DOMAIN G /\ p \in G[h].mkdirs
      BY <1>19, <1>26
    <3>2. h \in DOMAIN fold /\ p \in fold[h].mkdirs
      BY <1>17, <3>1 DEF Obtained
    <3> QED BY <2>1, <3>2 DEF Straight, Plain
  <2>4. on \subseteq DOMAIN rows
    <3>1. \A m_1 \in mk : m_1.taskid \in DOMAIN rows
      <4> SUFFICES ASSUME NEW p \in mk PROVE p.taskid \in DOMAIN rows
        OBVIOUS
      <4>1. p.taskid \in DOMAIN rows \cup {t}
        BY <1>3, <1>10 DEF Allowed
      <4>2. p.taskid > 0
        BY <1>6, <1>12, <4>1 DEF RowsKnown
      <4> QED BY <1>13, <2>1, <4>2 DEF Straight, Mkdirs
    <3> QED BY <1>3, <1>4, <3>1 DEF depend_on_name
  <2>5. \A d \in deps' : d[2] < d[1]
    <3>1. \A d \in deps' : d \in deps \/ (d \in {t} \X on)
      BY <1>10 DEF Depend
    <3>2. \A d \in {t} \X on : d[1] = t /\ d[2] \in on
      OBVIOUS
    <3> QED BY <1>12, <2>1, <2>4, <3>1, <3>2 DEF Straight
  <2> QED BY <2>2, <2>3, <2>5 DEF Straight
<1>29. Linked'
  <2>1. nextid' = nextid
    BY DEF serverVars
  <2> QED BY <1>14, <1>26, <1>27, <1>28, <2>1 DEF Linked, Known
<1> QED BY <1>12, <1>29 DEF TasksInv

(* A step that leaves the rows and the thread alone.                       *)
LEMMA Elsewhere ==
  ASSUME TasksInv, UNCHANGED <<rows, deps, wake, pc, batch, at, answers, wire, refused>>,
         nextid \in Nat, nextid' \in Nat, nextid <= nextid',
         Counted', Linked', ServerKnown'
  PROVE  TasksInv'
<1>1. BatchKnown'
  <2>1. BatchKnown
    BY DEF TasksInv
  <2>2. ASSUME NEW i \in 1 .. Len(batch) PROVE Task(batch[i])'
    BY <2>1 DEF BatchKnown, Task, Free
  <2> QED BY <2>1, <2>2, BatchStays
<1>2. Looked'
  BY DEF TasksInv, Looked, NoLostWakeup, Ready, Free
<1> QED BY <1>1, <1>2 DEF TasksInv

(* What was known with fewer ids is known with more.                       *)
LEMMA KnownLater ==
  ASSUME NEW R, NEW D, NEW F, NEW n \in Nat, NEW q \in Nat, n <= q, Known(R, D, F, n)
  PROVE  Known(R, D, F, q)
<1>1. RowsKnown(R, D, n) /\ OverlayKnown(R, F, n) /\ Busy(F)
  BY DEF Known
<1>2. RowsKnown(R, D, q)
  <2>1. \A t \in DOMAIN R : R[t].folderid \in Int /\ R[t].sfolderid \in Int
    BY <1>1 DEF RowsKnown, Row
  <2>2. \A t \in DOMAIN R : R[t].folderid < q /\ R[t].sfolderid < q
    BY <1>1, <2>1 DEF RowsKnown
  <2> QED BY <1>1, <2>2 DEF RowsKnown
<1>3. OverlayKnown(R, F, q)
  BY <1>1, OverlayRows
<1> QED BY <1>1, <1>2, <1>3 DEF Known

(* A rmdir that does nothing, or fails, may free the overlay of a folder.  *)
LEMMA DroppedReleased ==
  ASSUME Linked, NEW f \in Int, NEW S, S \subseteq Tasks(fold, f).mkdirs,
         NEW G, G = Release(DropMkdirs(get_or_create(fold, f), f, S), f)
  PROVE  Known(rows, deps, G, nextid) /\ (Plain(fold) => Plain(G))
<1>1. RowsKnown(rows, deps, nextid) /\ OverlayKnown(rows, fold, nextid) /\ Busy(fold)
  BY DEF Linked, Known
<1>2. PICK A : A = get_or_create(fold, f)
  OBVIOUS
<1>3. OverlayKnown(rows, A, nextid) /\ Obtained(fold, f, A)
  BY <1>1, <1>2, Gotten
<1>4. f \in DOMAIN A /\ S \subseteq A[f].mkdirs
  BY <1>3 DEF Obtained, Tasks, NoTasks
<1>5. PICK B : B = DropMkdirs(A, f, S)
  OBVIOUS
<1>6. /\ OverlayKnown(rows, B, nextid) /\ DOMAIN B = DOMAIN A
      /\ B[f].mkdirs = A[f].mkdirs \ S /\ B[f].rmdirs = A[f].rmdirs
      /\ \A h \in DOMAIN A : h # f => B[h] = A[h]
  BY <1>3, <1>4, <1>5, MkdirsDropped
<1>7. BusyBut(B, f)
  BY <1>1, <1>3, <1>6 DEF Busy, BusyBut, Obtained
<1>8. OverlayKnown(rows, G, nextid) /\ Busy(G) /\ Within(G, B)
  <2>1. G = Release(B, f)
    BY <1>2, <1>5
  <2> QED BY <1>6, <1>7, <2>1, Released
<1>9. ASSUME Plain(fold) PROVE Plain(G)
  <2> SUFFICES ASSUME NEW h \in DOMAIN G, NEW p \in G[h].mkdirs
               PROVE  p.folderid = -p.taskid
    BY DEF Plain
  <2>1. h \in DOMAIN A /\ p \in A[h].mkdirs
    BY <1>6, <1>8 DEF Within
  <2>2. h \in DOMAIN fold /\ p \in fold[h].mkdirs
    BY <1>3, <2>1 DEF Obtained
  <2> QED BY <1>9, <2>2 DEF Plain
<1> QED BY <1>1, <1>8, <1>9 DEF Known

(* Such a rmdir keeps the invariant.                                       *)
LEMMA NoRowStep ==
  ASSUME TasksInv, MaxOps \in Nat, ops < MaxOps, ops' = ops + 1,
         UNCHANGED <<uploadVars, wire, serverVars, rows, deps, folder, wake, want, misled, refused>>,
         NEW f \in Int, NEW S, S \subseteq Tasks(fold, f).mkdirs,
         fold' = Release(DropMkdirs(get_or_create(fold, f), f, S), f)
  PROVE  TasksInv'
<1>1. Linked /\ Counted /\ ServerKnown /\ nextid \in Nat
  BY DEF TasksInv, ServerKnown
<1>2. Known(rows, deps, fold', nextid) /\ (Plain(fold) => Plain(fold'))
  <2>1. PICK G : G = fold'
    OBVIOUS
  <2>2. Known(rows, deps, G, nextid) /\ (Plain(fold) => Plain(G))
    BY <1>1, <2>1, DroppedReleased
  <2> QED BY <2>1, <2>2
<1>3. UNCHANGED <<rows, deps, wake, pc, batch, at, answers, wire, refused, nextid, misled>>
  BY DEF uploadVars, serverVars
<1>4. Linked'
  BY <1>1, <1>2, <1>3 DEF Linked, Straight
<1>5. Counted'
  BY <1>1, <1>3 DEF Counted
<1>6. ServerKnown'
  BY <1>1 DEF ServerKnown, EventsKnown, serverVars
<1>7. nextid' \in Nat /\ nextid <= nextid'
  BY <1>1, <1>3
<1> QED BY <1>1, <1>3, <1>4, <1>5, <1>6, <1>7, Elsewhere

(* The calls of the user keep the invariant.                               *)
LEMMA UserStep ==
  ASSUME TasksInv, MaxOps \in Nat, ~BusyRmdir, User
  PROVE  TasksInv'
<1>1. PICK path \in PathOf, n \in Names :
        \/ psync_fstask_mkdir(path, n) \/ psync_fstask_rmdir(path, n)
        \/ rmdir_refused(path, n) \/ rmdir_fails(path, n)
  BY DEF User, PathOf
<1>2. ops < MaxOps /\ ops' = ops + 1 /\ UNCHANGED <<uploadVars, wire, serverVars>>
  BY DEF User
<1>3. CASE psync_fstask_mkdir(path, n)
  BY <1>2, <1>3, MkdirStep
<1>4. CASE psync_fstask_rmdir(path, n)
  BY <1>2, <1>4, RmdirStep
<1>5. Linked /\ ServerKnown
  BY DEF TasksInv
<1>6. CASE rmdir_refused(path, n)
  <2>1. PICK f \in Resolve(path) :
          LET mk == find_mkdir(fold, f, n)
              G == get_or_create(fold, f)
          IN /\ mk # {} => BusyRmdir
             /\ fold' = Release(Put(G, f, G[f].taskscnt - Cardinality(mk), G[f].mkdirs, G[f].rmdirs), f)
             /\ UNCHANGED <<rows, deps, folder, wake, want, misled, refused>>
    BY <1>6, Zenon DEF rmdir_refused
  <2>2. PICK G : G = get_or_create(fold, f)
    OBVIOUS
  <2>3. /\ find_mkdir(fold, f, n) = {}
        /\ fold' = Release(Put(G, f, G[f].taskscnt - Cardinality({}), G[f].mkdirs, G[f].rmdirs), f)
        /\ UNCHANGED <<rows, deps, folder, wake, want, misled, refused>>
    BY <2>1, <2>2
  <2>4. G[f].mkdirs \ {} = G[f].mkdirs
    OBVIOUS
  <2>5. DropMkdirs(G, f, {}) = Put(G, f, G[f].taskscnt - Cardinality({}), G[f].mkdirs, G[f].rmdirs)
    BY <2>4, Zenon DEF DropMkdirs
  <2>6. fold' = Release(DropMkdirs(get_or_create(fold, f), f, {}), f)
    BY <2>2, <2>3, <2>5
  <2>7. f \in Int
    BY <1>5, Resolved
  <2>8. {} \subseteq Tasks(fold, f).mkdirs
    OBVIOUS
  <2> QED BY <1>2, <2>3, <2>6, <2>7, <2>8, NoRowStep
<1>7. CASE rmdir_fails(path, n)
  <2>1. PICK f \in Resolve(path) :
          /\ fold' = Release(DropMkdirs(get_or_create(fold, f), f, find_mkdir(fold, f, n)), f)
          /\ UNCHANGED <<rows, deps, folder, wake, want, misled, refused>>
    BY <1>7, Zenon DEF rmdir_fails
  <2>2. f \in Int
    BY <1>5, Resolved
  <2>3. find_mkdir(fold, f, n) \subseteq Tasks(fold, f).mkdirs
    BY DEF find_mkdir
  <2> QED BY <1>2, <2>1, <2>2, <2>3, NoRowStep
<1> QED BY <1>1, <1>3, <1>4, <1>6, <1>7

-----------------------------------------------------------------------------
(* A restart: the overlay that psync_fstask_init builds.                   *)
LEMMA InitFinite ==
  ASSUME Counted, NEW f
  PROVE  IsFiniteSet(init_mkdirs(f)) /\ IsFiniteSet(init_rmdirs(f))
<1>1. IsFiniteSet(DOMAIN rows)
  <2>1. IsFiniteSet(1 .. ops)
    <3>1. 1 \in Int /\ ops \in Int
      BY DEF Counted
    <3> QED BY <3>1, FS_Interval
  <2> QED BY <2>1, FS_Subset DEF Counted
<1>2. PICK A : A = {u \in InitEntries(f, "mkdir") :
                      \A r \in InitEntries(f, "rmdir") : r > u => rows[r].name # rows[u].name}
  OBVIOUS
<1>3. PICK B : B = InitEntries(f, "rmdir")
  OBVIOUS
<1>4. IsFiniteSet(A) /\ IsFiniteSet(B)
  <2>1. A \in SUBSET DOMAIN rows /\ B \in SUBSET DOMAIN rows
    BY <1>2, <1>3 DEF InitEntries
  <2> QED BY <1>1, <2>1, FS_Subset
<1>5. IsFiniteSet({[taskid |-> t, name |-> rows[t].name, folderid |-> -t] : t \in A})
  <2> DEFINE g == [t \in A |-> [taskid |-> t, name |-> rows[t].name, folderid |-> -t]]
  <2>1. {[taskid |-> t, name |-> rows[t].name, folderid |-> -t] : t \in A} = {g[t] : t \in A}
    OBVIOUS
  <2>2. g \in Surjection(A, {g[t] : t \in A})
    BY DEF Surjection
  <2> HIDE DEF g
  <2> QED BY <1>4, <2>1, <2>2, FS_Surjection
<1>6. IsFiniteSet({[taskid |-> t, name |-> rows[t].name] : t \in B})
  <2> DEFINE g == [t \in B |-> [taskid |-> t, name |-> rows[t].name]]
  <2>1. {[taskid |-> t, name |-> rows[t].name] : t \in B} = {g[t] : t \in B}
    OBVIOUS
  <2>2. g \in Surjection(B, {g[t] : t \in B})
    BY DEF Surjection
  <2> HIDE DEF g
  <2> QED BY <1>4, <2>1, <2>2, FS_Surjection
<1> QED BY <1>2, <1>3, <1>5, <1>6 DEF init_mkdirs, init_rmdirs

(* The overlay that is built from the rows agrees with them.               *)
LEMMA RebuiltKnown ==
  ASSUME Counted, Linked
  PROVE  Known(rows, deps, Rebuilt, nextid) /\ Plain(Rebuilt)
<1>0. RowsKnown(rows, deps, nextid)
  BY DEF Linked, Known
<1>1. \A t \in DOMAIN rows : /\ t \in Nat \ {0} /\ rows[t] \in Row
                             /\ rows[t].type \in {"mkdir", "rmdir"}
                             /\ rows[t].folderid \in Int /\ rows[t].name \in Names
  BY <1>0 DEF RowsKnown, Row
<1>2. PICK F : F = Rebuilt
  OBVIOUS
<1>3. /\ DOMAIN F = {rows[t].folderid : t \in DOMAIN rows} /\ F = [f \in DOMAIN F |-> F[f]]
      /\ \A f \in DOMAIN F :
           F[f] = [taskscnt |-> Cardinality(init_mkdirs(f)) + Cardinality(init_rmdirs(f)),
                   mkdirs |-> init_mkdirs(f), rmdirs |-> init_rmdirs(f)]
  BY <1>2, Zenon DEF Rebuilt
<1>4. ASSUME NEW f \in DOMAIN F
      PROVE  /\ F[f].mkdirs = init_mkdirs(f) /\ F[f].rmdirs = init_rmdirs(f)
             /\ F[f].taskscnt = Cardinality(init_mkdirs(f)) + Cardinality(init_rmdirs(f))
             /\ F[f] = [taskscnt |-> F[f].taskscnt, mkdirs |-> F[f].mkdirs, rmdirs |-> F[f].rmdirs]
  <2>1. PICK c : c = Cardinality(init_mkdirs(f)) + Cardinality(init_rmdirs(f))
    OBVIOUS
  <2>2. PICK g : g = F[f]
    OBVIOUS
  <2>3. g = [taskscnt |-> c, mkdirs |-> init_mkdirs(f), rmdirs |-> init_rmdirs(f)]
    BY <1>3, <2>1, <2>2, Zenon
  <2>4. /\ g.mkdirs = init_mkdirs(f) /\ g.rmdirs = init_rmdirs(f) /\ g.taskscnt = c
        /\ g = [taskscnt |-> g.taskscnt, mkdirs |-> g.mkdirs, rmdirs |-> g.rmdirs]
    BY <2>3
  <2> QED BY <2>1, <2>2, <2>4, Zenon
<1>5. ASSUME NEW f, NEW m \in init_mkdirs(f)
      PROVE  /\ m \in [taskid : Int, name : Names, folderid : Int]
             /\ m.folderid = -m.taskid /\ m.taskid \in Mkdirs(rows) /\ rows[m.taskid].folderid = f
             /\ m.name = rows[m.taskid].name
             /\ m = [taskid |-> m.taskid, name |-> rows[m.taskid].name, folderid |-> -m.taskid]
  <2>1. PICK t \in InitEntries(f, "mkdir") :
          m = [taskid |-> t, name |-> rows[t].name, folderid |-> -t]
    BY DEF init_mkdirs
  <2>2. t \in DOMAIN rows /\ rows[t].type = "mkdir" /\ rows[t].folderid = f
    BY <2>1 DEF InitEntries
  <2>3. m.taskid = t /\ m.folderid = -t /\ m.name = rows[t].name /\ t \in Int /\ -t \in Int
    BY <1>1, <2>1, <2>2
  <2>4. rows[t].name \in Names
    BY <1>1, <2>2
  <2>5. m \in [taskid : Int, name : Names, folderid : Int]
    BY <2>1, <2>3, <2>4
  <2> QED BY <2>1, <2>2, <2>3, <2>5 DEF Mkdirs
<1>6. ASSUME NEW f, NEW m \in init_rmdirs(f)
      PROVE  RmdirKnown(rows, f, m)
  <2>1. PICK t \in InitEntries(f, "rmdir") : m = [taskid |-> t, name |-> rows[t].name]
    BY DEF init_rmdirs
  <2>2. t \in DOMAIN rows /\ rows[t].type = "rmdir" /\ rows[t].folderid = f
    BY <2>1 DEF InitEntries
  <2>3. m.taskid = t /\ m.name = rows[t].name /\ t \in Int /\ rows[t].name \in Names
    BY <1>1, <2>1, <2>2
  <2>4. m \in [taskid : Int, name : Names]
    BY <2>1, <2>3
  <2> QED BY <2>2, <2>3, <2>4 DEF RmdirKnown, Mkdirs
<1>7. ASSUME NEW f \in DOMAIN F PROVE FolderKnown(rows, f, F[f], nextid)
  <2>1. \A m \in F[f].mkdirs : MkdirKnown(rows, f, m, nextid)
    <3> SUFFICES ASSUME NEW m \in F[f].mkdirs PROVE MkdirKnown(rows, f, m, nextid)
      OBVIOUS
    <3>1. m \in init_mkdirs(f)
      BY <1>4
    <3>2. OwnMkdir(rows, f, m)
      <4>1. /\ m.folderid = -m.taskid /\ m.taskid \in Mkdirs(rows) /\ m.taskid \in Int
            /\ rows[m.taskid].folderid = f /\ m.name = rows[m.taskid].name
        BY <1>5, <3>1
      <4> QED BY <4>1 DEF OwnMkdir
    <3> QED BY <1>5, <3>1, <3>2 DEF MkdirKnown
  <2>2. \A m \in F[f].rmdirs : RmdirKnown(rows, f, m)
    BY <1>4, <1>6
  <2>3. \A m, p \in F[f].mkdirs : m.taskid = p.taskid /\ m.name = p.name => m = p
    <3> SUFFICES ASSUME NEW m \in init_mkdirs(f), NEW p \in init_mkdirs(f), m.taskid = p.taskid
                 PROVE  m = p
      BY <1>4
    <3> QED BY <1>5
  <2>4. IsFiniteSet(F[f].mkdirs) /\ IsFiniteSet(F[f].rmdirs)
    BY <1>4, InitFinite
  <2>5. F[f].taskscnt = Cardinality(F[f].mkdirs) + Cardinality(F[f].rmdirs)
    BY <1>4
  <2> QED BY <1>4, <2>1, <2>2, <2>3, <2>4, <2>5, Zenon DEF FolderKnown
<1>8. OnePlace(F)
  <2> SUFFICES ASSUME NEW f \in DOMAIN F, NEW g \in DOMAIN F, NEW m \in F[f].mkdirs,
                      NEW p \in F[g].mkdirs, m.folderid = p.folderid
               PROVE  f = g
    BY DEF OnePlace
  <2>1. m \in init_mkdirs(f) /\ p \in init_mkdirs(g)
    BY <1>4
  <2>2. m.taskid \in Int /\ m.folderid = -m.taskid /\ rows[m.taskid].folderid = f
    BY <1>5, <2>1
  <2>3. p.taskid \in Int /\ p.folderid = -p.taskid /\ rows[p.taskid].folderid = g
    BY <1>5, <2>1
  <2>4. \A a, b \in Int : -a = -b => a = b
    OBVIOUS
  <2>5. m.taskid = p.taskid
    <3>1. -m.taskid = -p.taskid
      BY <2>2, <2>3, Zenon
    <3> QED BY <2>2, <2>3, <2>4, <3>1, Zenon
  <2> QED BY <2>2, <2>3, <2>5, Zenon
<1>9. OverlayKnown(rows, F, nextid)
  <2>1. DOMAIN F \subseteq Int
    BY <1>1, <1>3
  <2> QED BY <1>3, <1>7, <1>8, <2>1 DEF OverlayKnown
<1>10. Busy(F)
  <2> SUFFICES ASSUME NEW f \in DOMAIN F PROVE F[f].taskscnt > 0
    BY DEF Busy
  <2>1. PICK t \in DOMAIN rows : rows[t].folderid = f
    BY <1>3
  <2>2. init_mkdirs(f) # {} \/ init_rmdirs(f) # {}
    <3>1. CASE InitEntries(f, "rmdir") # {}
      BY <3>1 DEF init_rmdirs
    <3>2. CASE InitEntries(f, "rmdir") = {}
      <4>1. t \in InitEntries(f, "mkdir")
        BY <1>1, <2>1, <3>2 DEF InitEntries
      <4> QED BY <3>2, <4>1 DEF init_mkdirs
    <3> QED BY <3>1, <3>2
  <2>3. /\ IsFiniteSet(init_mkdirs(f)) /\ IsFiniteSet(init_rmdirs(f))
        /\ Cardinality(init_mkdirs(f)) \in Nat /\ Cardinality(init_rmdirs(f)) \in Nat
    BY InitFinite, FS_CardinalityType
  <2>4. Cardinality(init_mkdirs(f)) # 0 \/ Cardinality(init_rmdirs(f)) # 0
    BY <2>2, <2>3, FS_EmptySet
  <2> QED BY <1>4, <2>3, <2>4
<1>11. Plain(F)
  BY <1>4, <1>5 DEF Plain
<1> QED BY <1>0, <1>2, <1>9, <1>10, <1>11 DEF Known

(* A restart keeps the invariant.                                          *)
LEMMA RestartStep ==
  ASSUME TasksInv, Restart
  PROVE  TasksInv'
<1>1. Counted /\ Linked /\ ServerKnown
  BY DEF TasksInv
<1>2. /\ UNCHANGED <<rows, deps, folder, srv, nextid, events, ops, want, misled>>
      /\ fold' = Rebuilt /\ wake' = FALSE /\ refused' = {}
      /\ pc' = "check" /\ batch' = <<>> /\ at' = 0 /\ answers' = <<>> /\ wire' = <<>>
  BY DEF Restart, serverVars
<1>3. Counted'
  BY <1>1, <1>2 DEF Counted
<1>4. ServerKnown'
  BY <1>1, <1>2 DEF ServerKnown, EventsKnown
<1>5. Linked'
  <2>1. PICK F : F = Rebuilt
    OBVIOUS
  <2>2. Known(rows, deps, F, nextid) /\ Plain(F)
    BY <1>1, <2>1, RebuiltKnown
  <2>3. fold' = F
    BY <1>2, <2>1
  <2> QED BY <1>1, <1>2, <2>2, <2>3 DEF Linked, Straight
<1>6. BatchKnown'
  BY <1>2 DEF BatchKnown
<1>7. Looked'
  BY <1>2 DEF Looked, NoLostWakeup
<1> QED BY <1>3, <1>4, <1>5, <1>6, <1>7 DEF TasksInv

-----------------------------------------------------------------------------
(* The sequences of the thread and of the server: one more at the end, one *)
(* less at the front.                                                      *)
Listed(s) == Len(s) \in Nat /\ s = [i \in 1 .. Len(s) |-> s[i]]

(* A function on 1 .. Len is a sequence,                                   *)
LEMMA ListedSeq ==
  ASSUME NEW s, Listed(s)
  PROVE  \E S : s \in Seq(S)
<1>1. PICK n \in Nat : n = Len(s)
  BY DEF Listed
<1>2. s \in [1 .. n -> {s[i] : i \in 1 .. n}]
  BY <1>1 DEF Listed
<1>3. s \in Seq({s[i] : i \in 1 .. n})
  BY <1>2
<1> QED BY <1>3

(* and a sequence is one.                                                  *)
LEMMA SeqListed ==
  ASSUME NEW S, NEW s \in Seq(S)
  PROVE  Listed(s)
<1>1. Len(s) \in Nat
  OBVIOUS
<1>2. s = [i \in 1 .. Len(s) |-> s[i]]
  OBVIOUS
<1> QED BY <1>1, <1>2 DEF Listed

OneMore(s, e, q) ==
  /\ Listed(q) /\ Len(q) = Len(s) + 1 /\ q[Len(s) + 1] = e
  /\ \A i \in 1 .. Len(s) : q[i] = s[i]

(* One more at the end.                                                    *)
LEMMA Appended ==
  ASSUME NEW s, Listed(s), NEW e, NEW q, q = Append(s, e)
  PROVE  OneMore(s, e, q)
<1>1. PICK S : s \in Seq(S)
  BY ListedSeq
<1>2. s \in Seq(S \cup {e}) /\ e \in S \cup {e}
  BY <1>1
<1>3. q \in Seq(S \cup {e}) /\ Len(q) = Len(s) + 1
  BY <1>2
<1>4. q[Len(s) + 1] = e /\ \A i \in 1 .. Len(s) : q[i] = s[i]
  BY <1>2
<1>5. Listed(q)
  BY <1>3, SeqListed
<1> QED BY <1>3, <1>4, <1>5 DEF OneMore

Behind(s, k, q) ==
  /\ Listed(q) /\ Len(s) \in Nat \ {0} /\ Len(q) = Len(s) - k
  /\ \A i \in 1 .. Len(q) : q[i] = s[k + i]

(* One less at the front.                                                  *)
LEMMA Shortened ==
  ASSUME NEW s, Listed(s), s # <<>>, NEW q, q = Tail(s)
  PROVE  Behind(s, 1, q)
<1>1. PICK S : s \in Seq(S)
  BY ListedSeq
<1>2. q \in Seq(S) /\ Len(q) = Len(s) - 1
  BY <1>1
<1>3. \A i \in 1 .. Len(q) : q[i] = s[1 + i]
  BY <1>1, <1>2
<1>4. Listed(q) /\ Len(s) \in Nat \ {0}
  <2>1. Len(s) \in Nat \ {0}
    BY <1>1
  <2> QED BY <1>2, <2>1, SeqListed
<1> QED BY <1>2, <1>3, <1>4 DEF Behind

(* What is left after the first k.                                         *)
LEMMA Rest ==
  ASSUME NEW s, Listed(s), NEW k \in 1 .. Len(s), NEW q, q = SubSeq(s, k + 1, Len(s))
  PROVE  Behind(s, k, q)
<1>1. PICK S : s \in Seq(S)
  BY ListedSeq
<1>2. q \in Seq(S) /\ Len(q) = Len(s) - k
  BY <1>1
<1>3. \A i \in 1 .. Len(q) : q[i] = s[k + i]
  BY <1>1, <1>2
<1>4. Listed(q) /\ Len(s) \in Nat \ {0}
  <2>1. Len(s) \in Nat \ {0}
    BY <1>1
  <2> QED BY <1>2, <2>1, SeqListed
<1> QED BY <1>2, <1>3, <1>4 DEF Behind

-----------------------------------------------------------------------------
(* The server: what it makes gets the next id, and an event tells of it.   *)
LEMMA FolderLater ==
  ASSUME NEW n \in Nat, NEW q \in Nat, n <= q
  PROVE  Folder(n) \subseteq Folder(q)
<1>1. 1 .. n - 1 \subseteq 1 .. q - 1 /\ 0 .. n - 1 \subseteq 0 .. q - 1
  OBVIOUS
<1> QED BY <1>1 DEF Folder

(* createfolderifnotexists, or another device, makes a folder.             *)
LEMMA Created ==
  ASSUME ServerKnown, UNCHANGED folder, NEW p \in 0 .. nextid - 1, NEW n \in Names, Create(p, n)
  PROVE  ServerKnown' /\ nextid' = nextid + 1
<1>1. nextid \in Nat \ {0} /\ nextid' = nextid + 1 /\ Listed(events)
  BY DEF ServerKnown, Create, Listed
<1>2. PICK e : e = [op |-> "create", id |-> nextid, parent |-> p, name |-> n]
  OBVIOUS
<1>3. /\ Listed(events') /\ Len(events') = Len(events) + 1 /\ events'[Len(events) + 1] = e
      /\ \A i \in 1 .. Len(events) : events'[i] = events[i]
  <2>1. events' = Append(events, e)
    BY <1>2 DEF Create
  <2>2. OneMore(events, e, events')
    BY <1>1, <2>1, Appended
  <2> QED BY <2>2 DEF OneMore
<1>4. Folder(nextid) \subseteq Folder(nextid')
  BY <1>1, FolderLater
<1>5. [id |-> nextid, parent |-> p, name |-> n] \in Folder(nextid')
  BY <1>1 DEF Folder
<1>6. srv' \subseteq Folder(nextid') /\ folder' \subseteq Folder(nextid')
  BY <1>4, <1>5 DEF ServerKnown, Create
<1>7. EventsKnown'
  <2>1. DOMAIN events = 1 .. Len(events) /\ DOMAIN events' = 1 .. Len(events')
    BY <1>1, <1>3 DEF Listed
  <2>2. e.id = nextid /\ e.parent = p /\ e.name = n
    BY <1>2
  <2> SUFFICES ASSUME NEW i \in DOMAIN events', events'[i].op = "create"
               PROVE  /\ events'[i].id \in 1 .. nextid' - 1
                      /\ events'[i].parent \in 0 .. nextid' - 1 /\ events'[i].name \in Names
    BY DEF EventsKnown
  <2>3. CASE i \in 1 .. Len(events)
    <3>1. events'[i] = events[i]
      BY <1>3, <2>3
    <3>2. /\ events[i].id \in 1 .. nextid - 1 /\ events[i].parent \in 0 .. nextid - 1
          /\ events[i].name \in Names
      BY <2>1, <2>3, <3>1 DEF ServerKnown, EventsKnown
    <3> QED BY <1>1, <3>1, <3>2
  <2>4. CASE i = Len(events) + 1
    BY <1>1, <1>3, <2>2, <2>4
  <2>5. i \in 1 .. Len(events) \/ i = Len(events) + 1
    BY <1>1, <1>3, <2>1 DEF Listed
  <2> QED BY <2>3, <2>4, <2>5
<1> QED BY <1>1, <1>3, <1>6, <1>7 DEF ServerKnown, Listed

(* deletefolder, or another device, removes one.                           *)
LEMMA Deleted ==
  ASSUME ServerKnown, UNCHANGED folder, NEW f, Delete(f)
  PROVE  ServerKnown' /\ nextid' = nextid
<1>1. nextid \in Nat \ {0} /\ nextid' = nextid /\ Listed(events)
  BY DEF ServerKnown, Delete, Listed
<1>2. PICK e : e = [op |-> "delete", id |-> f]
  OBVIOUS
<1>3. /\ Listed(events') /\ Len(events') = Len(events) + 1 /\ events'[Len(events) + 1] = e
      /\ \A i \in 1 .. Len(events) : events'[i] = events[i]
  <2>1. events' = Append(events, e)
    BY <1>2 DEF Delete
  <2>2. OneMore(events, e, events')
    BY <1>1, <2>1, Appended
  <2> QED BY <2>2 DEF OneMore
<1>4. srv' \subseteq Folder(nextid') /\ folder' \subseteq Folder(nextid')
  BY <1>1 DEF ServerKnown, Delete
<1>5. EventsKnown'
  <2>1. DOMAIN events = 1 .. Len(events) /\ DOMAIN events' = 1 .. Len(events')
    BY <1>1, <1>3 DEF Listed
  <2>2. e.op # "create"
    BY <1>2
  <2> SUFFICES ASSUME NEW i \in DOMAIN events', events'[i].op = "create"
               PROVE  /\ events'[i].id \in 1 .. nextid' - 1
                      /\ events'[i].parent \in 0 .. nextid' - 1 /\ events'[i].name \in Names
    BY DEF EventsKnown
  <2>3. i \in 1 .. Len(events) \/ i = Len(events) + 1
    BY <1>1, <1>3, <2>1 DEF Listed
  <2>4. i \in 1 .. Len(events) /\ events'[i] = events[i]
    BY <1>3, <2>2, <2>3
  <2> QED BY <1>1, <2>1, <2>4 DEF ServerKnown, EventsKnown
<1> QED BY <1>1, <1>3, <1>4, <1>5 DEF ServerKnown, Listed

(* Other devices keep the invariant.                                       *)
LEMMA OtherDeviceStep ==
  ASSUME TasksInv, OtherDevice
  PROVE  TasksInv'
<1>1. /\ Counted /\ Linked /\ ServerKnown /\ nextid \in Nat \ {0}
      /\ UNCHANGED <<rows, deps, folder, fold, wake, pc, batch, at, answers, wire>>
      /\ UNCHANGED <<ops, want, misled, refused>>
  BY DEF TasksInv, ServerKnown, OtherDevice, clientVars, uploadVars, history
<1>2. ServerKnown' /\ nextid' \in Nat /\ nextid <= nextid'
  <2>1. CASE \E p \in Ids(srv) \cup {0}, n \in Names : Create(p, n)
    <3>1. PICK p \in Ids(srv) \cup {0}, n \in Names : Create(p, n)
      BY <2>1
    <3>2. p \in 0 .. nextid - 1
      BY <1>1 DEF Ids, ServerKnown, Folder
    <3>3. ServerKnown' /\ nextid' = nextid + 1
      BY <1>1, <3>1, <3>2, Created
    <3> QED BY <1>1, <3>3
  <2>2. CASE \E f \in Ids(srv) : Delete(f)
    <3>1. PICK f \in Ids(srv) : Delete(f)
      BY <2>2
    <3>2. ServerKnown' /\ nextid' = nextid
      BY <1>1, <3>1, Deleted
    <3> QED BY <1>1, <3>2
  <2>3. \/ \E p \in Ids(srv) \cup {0}, n \in Names :
             (\A r \in srv : ~(r.parent = p /\ r.name = n)) /\ Create(p, n)
        \/ \E f \in Ids(srv) : (\A r \in srv : r.parent # f) /\ Delete(f)
    BY DEF OtherDevice
  <2> QED BY <2>1, <2>2, <2>3, Zenon
<1>3. Linked'
  <2>1. Known(rows, deps, fold, nextid')
    BY <1>1, <1>2, KnownLater DEF Linked
  <2> QED BY <1>1, <2>1 DEF Linked
<1>4. Counted'
  BY <1>1 DEF Counted
<1> QED BY <1>1, <1>2, <1>3, <1>4, Elsewhere

(* process_entries keeps the invariant.                                    *)
LEMMA EntriesStep ==
  ASSUME TasksInv, process_entries
  PROVE  TasksInv'
<1>1. /\ Counted /\ Linked /\ ServerKnown /\ nextid \in Nat \ {0} /\ Listed(events)
      /\ UNCHANGED <<rows, deps, fold, wake, pc, batch, at, answers, wire>>
      /\ UNCHANGED <<srv, nextid, ops, want, misled, refused>>
  BY DEF TasksInv, ServerKnown, Listed, process_entries, uploadVars, history, bounds
<1>2. PICK k \in 1 .. Len(events) :
        folder' = Applied[k] /\ events' = SubSeq(events, k + 1, Len(events))
  BY DEF process_entries
<1>3. folder' \subseteq Folder(nextid)
  BY <1>1, <1>2, AppliedKnown
<1>4. /\ Listed(events') /\ Len(events') = Len(events) - k
      /\ \A i \in 1 .. Len(events') : events'[i] = events[k + i]
  <2>1. Behind(events, k, events')
    BY <1>1, <1>2, Rest
  <2> QED BY <2>1 DEF Behind
<1>5. EventsKnown'
  <2>1. DOMAIN events = 1 .. Len(events) /\ DOMAIN events' = 1 .. Len(events')
    BY <1>1, <1>4 DEF Listed
  <2>2. \A i \in DOMAIN events' : k + i \in DOMAIN events /\ events'[i] = events[k + i]
    BY <1>1, <1>4, <2>1 DEF Listed
  <2> QED BY <1>1, <2>2 DEF ServerKnown, EventsKnown
<1>6. ServerKnown'
  BY <1>1, <1>3, <1>4, <1>5 DEF ServerKnown, Listed
<1>7. Linked' /\ Counted'
  BY <1>1 DEF Linked, Counted
<1>8. nextid' \in Nat /\ nextid <= nextid'
  BY <1>1
<1> QED BY <1>1, <1>6, <1>7, <1>8, Elsewhere

-----------------------------------------------------------------------------
(* The thread and the server.                                              *)
LEMMA AnswerStep ==
  ASSUME BatchKnown, UNCHANGED <<rows, deps, pc, batch, at>>, wire # <<>>, NEW a, Answer(a),
         nextid \in Nat, nextid' \in Nat, nextid <= nextid',
         wire[1].type = "mkdir" /\ a.result = "ok" => a.id \in 1 .. nextid' - 1
  PROVE  BatchKnown'
<1>1. Listed(answers) /\ Listed(wire) /\ Listed(batch) /\ Len(answers) + Len(wire) = at
  BY DEF BatchKnown, Listed
<1>2. OneMore(answers, a, answers')
  BY <1>1, Appended DEF Answer
<1>3. /\ Listed(answers') /\ Len(answers') = Len(answers) + 1 /\ answers'[Len(answers) + 1] = a
      /\ \A i \in 1 .. Len(answers) : answers'[i] = answers[i]
  BY <1>2 DEF OneMore
<1>4. Behind(wire, 1, wire')
  BY <1>1, Shortened DEF Answer
<1>5. /\ Listed(wire') /\ Len(wire) \in Nat \ {0} /\ Len(wire') = Len(wire) - 1
      /\ \A i \in 1 .. Len(wire') : wire'[i] = wire[1 + i]
  BY <1>4 DEF Behind
<1>6. Len(answers') + Len(wire') = at'
  BY <1>1, <1>3, <1>5 DEF Listed
<1>7. \A i \in 1 .. Len(batch') : Task(batch[i])'
  BY DEF BatchKnown, Task, Free
<1>8. ASSUME NEW i \in 1 .. Len(wire') PROVE wire'[i] = batch'[Len(answers') + i].row
  <2>1. 1 + i \in 1 .. Len(wire) /\ Len(answers) + (1 + i) = Len(answers') + i
    <3>1. /\ Len(answers) \in Nat /\ Len(wire) \in Nat /\ Len(wire') = Len(wire) - 1
          /\ Len(answers') = Len(answers) + 1
      BY <1>1, <1>3, <1>5 DEF Listed
    <3> QED BY <3>1
  <2>2. wire[1 + i] = batch[Len(answers) + (1 + i)].row
    BY <2>1 DEF BatchKnown
  <2> QED BY <1>5, <2>1, <2>2
<1>9. ASSUME NEW i \in 1 .. Len(answers') PROVE AnswerKnown(i)'
  <2>1. CASE i \in 1 .. Len(answers)
    BY <1>3, <2>1 DEF BatchKnown, AnswerKnown
  <2>2. CASE i = Len(answers) + 1
    <3>1. wire[1] = batch[Len(answers) + 1].row
      <4>1. 1 \in 1 .. Len(wire)
        BY <1>5
      <4> QED BY <4>1 DEF BatchKnown
    <3> QED BY <1>3, <2>2, <3>1 DEF AnswerKnown
  <2> QED BY <1>1, <1>3, <2>1, <2>2 DEF Listed
<1> QED BY <1>1, <1>3, <1>5, <1>6, <1>7, <1>8, <1>9 DEF BatchKnown, Listed

(* What the server is asked for has an id of the server, and so has its    *)
(* answer.                                                                 *)
LEMMA ServerStep ==
  ASSUME TasksInv, Server
  PROVE  TasksInv'
<1>1. /\ Counted /\ Linked /\ ServerKnown /\ BatchKnown /\ Looked /\ nextid \in Nat \ {0}
      /\ UNCHANGED <<rows, deps, folder, fold, wake, pc, batch, at>>
      /\ UNCHANGED <<ops, want, misled, refused>>
      /\ wire # <<>>
  BY DEF TasksInv, ServerKnown, Server, clientVars, bounds, history
<1>2. PICK q : q = wire[1]
  OBVIOUS
<1>3. q.folderid \in 0 .. nextid - 1 /\ q.name \in Names
  <2>1. Listed(wire) /\ Listed(answers) /\ Listed(batch) /\ Len(answers) + Len(wire) = at
    BY <1>1 DEF BatchKnown, Listed
  <2>2. Len(wire) \in Nat \ {0}
    <3>1. Behind(wire, 1, Tail(wire))
      BY <1>1, <2>1, Shortened
    <3> QED BY <3>1 DEF Behind
  <2>3. PICK b : b = batch[Len(answers) + 1]
    OBVIOUS
  <2>4. q = b.row /\ Task(b)
    <3>1. Len(answers) + 1 \in 1 .. Len(batch)
      BY <1>1, <2>1, <2>2 DEF Listed, BatchKnown
    <3>2. 1 \in 1 .. Len(wire)
      BY <2>2
    <3> QED BY <1>1, <1>2, <2>3, <3>1, <3>2 DEF BatchKnown
  <2>5. RowsKnown(rows, deps, nextid)
    BY <1>1 DEF Linked, Known
  <2>6. q = rows[b.id] /\ b.id \in DOMAIN rows /\ Free(b.id)
    BY <2>4 DEF Task
  <2>7. q.folderid >= 0
    BY <2>5, <2>6, FreeResolved DEF Free
  <2>8. q \in Row /\ q.folderid < nextid
    BY <2>5, <2>6 DEF RowsKnown
  <2> QED BY <1>1, <2>7, <2>8 DEF Row
<1>4. BatchKnown' /\ ServerKnown' /\ nextid' \in Nat /\ nextid <= nextid'
  <2>1. ASSUME NEW a, Answer(a), UNCHANGED serverVars,
               a.result = "ok" => a.id \in 1 .. nextid - 1 \/ q.type # "mkdir"
        PROVE  BatchKnown' /\ ServerKnown' /\ nextid' \in Nat /\ nextid <= nextid'
    <3>1. nextid' = nextid /\ nextid <= nextid'
      BY <1>1, <2>1 DEF serverVars
    <3>2. ServerKnown'
      BY <1>1, <2>1 DEF ServerKnown, EventsKnown, serverVars
    <3>3. BatchKnown'
      BY <1>1, <1>2, <2>1, <3>1, AnswerStep
    <3> QED BY <1>1, <3>1, <3>2, <3>3
  <2>2. CASE q.type = "mkdir" /\ createfolderifnotexists(q)
    <3>1. CASE Answer([result |-> "nofolder"]) /\ UNCHANGED serverVars
      BY <2>1, <3>1
    <3>2. CASE (\E r \in srv : Answer([result |-> "ok", id |-> r.id])) /\ UNCHANGED serverVars
      <4>1. PICK r \in srv : Answer([result |-> "ok", id |-> r.id])
        BY <3>2
      <4>2. r.id \in 1 .. nextid - 1
        BY <1>1 DEF ServerKnown, Folder
      <4> QED BY <2>1, <3>2, <4>1, <4>2
    <3>3. CASE Answer([result |-> "ok", id |-> nextid]) /\ Create(q.folderid, q.name)
      <4>1. ServerKnown' /\ nextid' = nextid + 1
        BY <1>1, <1>3, <3>3, Created
      <4>2. nextid \in 1 .. nextid' - 1 /\ nextid' \in Nat /\ nextid <= nextid'
        BY <1>1, <4>1
      <4>3. PICK a : a = [result |-> "ok", id |-> nextid]
        OBVIOUS
      <4>4. Answer(a) /\ a.id \in 1 .. nextid' - 1
        BY <3>3, <4>2, <4>3
      <4>5. BatchKnown'
        BY <1>1, <4>2, <4>4, AnswerStep
      <4> QED BY <4>1, <4>2, <4>5
    <3>4. \/ Answer([result |-> "nofolder"]) /\ UNCHANGED serverVars
          \/ (\E r \in srv : Answer([result |-> "ok", id |-> r.id])) /\ UNCHANGED serverVars
          \/ Answer([result |-> "ok", id |-> nextid]) /\ Create(q.folderid, q.name)
      BY <2>2, Zenon DEF createfolderifnotexists
    <3> QED BY <3>1, <3>2, <3>3, <3>4
  <2>3. CASE q.type # "mkdir" /\ deletefolder(q)
    <3>1. ASSUME NEW a, Answer(a), UNCHANGED serverVars
          PROVE  BatchKnown' /\ ServerKnown' /\ nextid' \in Nat /\ nextid <= nextid'
      BY <2>1, <2>3, <3>1
    <3>2. CASE Answer([result |-> "ok"]) /\ Delete(q.sfolderid)
      <4>1. ServerKnown' /\ nextid' = nextid
        BY <1>1, <3>2, Deleted
      <4>2. nextid' \in Nat /\ nextid <= nextid'
        BY <1>1, <4>1
      <4>3. PICK a : a = [result |-> "ok"]
        OBVIOUS
      <4>4. Answer(a)
        BY <3>2, <4>3
      <4>5. BatchKnown'
        BY <1>1, <1>2, <2>3, <4>2, <4>4, AnswerStep
      <4> QED BY <4>1, <4>2, <4>5
    <3>3. \/ \E a : Answer(a) /\ UNCHANGED serverVars
          \/ Answer([result |-> "ok"]) /\ Delete(q.sfolderid)
      BY <2>3, Zenon DEF deletefolder
    <3> QED BY <3>1, <3>2, <3>3
  <2> QED BY <1>2, <2>2, <2>3 DEF Server
<1>5. Linked'
  <2>1. Known(rows, deps, fold, nextid')
    BY <1>1, <1>4, KnownLater DEF Linked
  <2> QED BY <1>1, <2>1 DEF Linked
<1>6. Counted' /\ Looked'
  BY <1>1 DEF Counted, Looked, NoLostWakeup, Ready, Free
<1> QED BY <1>4, <1>5, <1>6 DEF TasksInv

(* The thread wakes.                                                       *)
LEMMA WokenStep ==
  ASSUME TasksInv, Woken
  PROVE  TasksInv'
<1>1. /\ UNCHANGED <<rows, deps, folder, fold, batch, at, answers, wire, srv, nextid, events>>
      /\ UNCHANGED <<ops, want, misled, refused>>
      /\ wake' = FALSE /\ pc = "wait" /\ pc' = "check"
  BY DEF Woken, clientVars, serverVars, bounds, history
<1>2. Counted' /\ Linked' /\ ServerKnown'
  BY <1>1 DEF TasksInv, Counted, Linked, ServerKnown, EventsKnown
<1>3. BatchKnown'
  <2>1. \A i \in 1 .. Len(batch) : Task(batch[i])'
    BY <1>1 DEF TasksInv, BatchKnown, Task, Free
  <2>2. \A i \in 1 .. Len(answers) : AnswerKnown(i)'
    BY <1>1 DEF TasksInv, BatchKnown, AnswerKnown
  <2> QED BY <1>1, <2>1, <2>2 DEF TasksInv, BatchKnown
<1>4. Looked'
  BY <1>1 DEF Looked, NoLostWakeup
<1> QED BY <1>2, <1>3, <1>4 DEF TasksInv

(* A request is sent.                                                      *)
LEMMA SendStep ==
  ASSUME TasksInv, Send
  PROVE  TasksInv'
<1>1. /\ UNCHANGED <<rows, deps, folder, fold, wake, pc, batch, answers, srv, nextid, events>>
      /\ UNCHANGED <<ops, want, misled, refused>>
      /\ at < Len(batch) /\ at' = at + 1 /\ wire' = Append(wire, batch[at + 1].row)
  BY DEF Send, clientVars, serverVars, bounds, history
<1>2. Counted' /\ Linked' /\ ServerKnown'
  BY <1>1 DEF TasksInv, Counted, Linked, ServerKnown, EventsKnown
<1>3. BatchKnown'
  <2>1. BatchKnown /\ Listed(answers) /\ Listed(wire) /\ Len(answers) + Len(wire) = at
    BY DEF TasksInv, BatchKnown, Listed
  <2>2. PICK q : q = batch[at + 1].row
    OBVIOUS
  <2>3. OneMore(wire, q, wire')
    BY <1>1, <2>1, <2>2, Appended
  <2>4. /\ Listed(wire') /\ Len(wire') = Len(wire) + 1 /\ wire'[Len(wire) + 1] = q
        /\ \A i \in 1 .. Len(wire) : wire'[i] = wire[i]
    BY <2>3 DEF OneMore
  <2>5. ASSUME NEW i \in 1 .. Len(wire') PROVE wire'[i] = batch[Len(answers) + i].row
    <3>1. CASE i \in 1 .. Len(wire)
      BY <2>1, <2>4, <3>1 DEF BatchKnown
    <3>2. CASE i = Len(wire) + 1
      <4>1. Len(answers) + i = at + 1
        BY <2>1, <3>2 DEF Listed
      <4> QED BY <2>2, <2>4, <3>2, <4>1
    <3> QED BY <2>1, <2>4, <3>1, <3>2 DEF Listed
  <2>6. \A i \in 1 .. Len(batch) : Task(batch[i])'
    BY <1>1, <2>1 DEF BatchKnown, Task, Free
  <2>7. \A i \in 1 .. Len(answers) : AnswerKnown(i)'
    BY <1>1, <2>1 DEF BatchKnown, AnswerKnown
  <2>8. at' \in 0 .. Len(batch) /\ Len(answers) + Len(wire') = at'
    BY <1>1, <2>1, <2>4 DEF BatchKnown, Listed
  <2> QED BY <1>1, <2>1, <2>4, <2>5, <2>6, <2>7, <2>8 DEF BatchKnown, Listed
<1>4. Looked'
  BY <1>1 DEF TasksInv, Looked, NoLostWakeup, Ready, Free
<1> QED BY <1>2, <1>3, <1>4 DEF TasksInv

(* Answers are processed: all of the batch's, or the thread is woken.      *)
LEMMA ProcessedStep ==
  ASSUME TasksInv, pc = "send", NEW k \in 0 .. Len(answers), NEW failed \in BOOLEAN,
         process_tasks(k, failed), UNCHANGED <<serverVars, ops>>, failed \/ k = Len(batch)
  PROVE  TasksInv'
<1>1. PICK d : d = Processed[k]
  OBVIOUS
<1>2. Held(d, k)
  BY <1>1, HeldAll
<1>3. /\ rows' = d.rows /\ deps' = d.deps /\ folder' = d.folder /\ fold' = d.fold
      /\ wake' = (d.wake \/ failed) /\ refused' = d.refused /\ misled' = d.misled
      /\ UNCHANGED <<want, ops, srv, nextid, events>>
      /\ pc' = "wait" /\ batch' = <<>> /\ at' = 0 /\ answers' = <<>> /\ wire' = <<>>
  BY <1>1, Zenon DEF process_tasks, serverVars
<1>4. Counted'
  BY <1>2, <1>3 DEF TasksInv, Counted, Held
<1>5. Linked'
  BY <1>2, <1>3 DEF Linked, Held
<1>6. ServerKnown'
  BY <1>2, <1>3 DEF TasksInv, ServerKnown, EventsKnown, Held
<1>7. BatchKnown'
  BY <1>3 DEF BatchKnown
<1>8. Looked'
  <2>1. Ready' = FreeIn(d.rows, d.deps)
    BY <1>3 DEF Ready, FreeIn, Free
  <2>2. ASSUME ~wake' PROVE FreeIn(d.rows, d.deps) \subseteq refused'
    <3>1. ~d.wake /\ k = Len(batch)
      BY <1>2, <1>3, <2>2 DEF Held
    <3>2. Covered(d.rows, d.deps, d.refused, k)
      BY <1>2, <3>1 DEF Held, Awake
    <3>3. Left(k) = {}
      <4>1. Len(batch) \in Nat
        BY DEF TasksInv, BatchKnown
      <4>2. k + 1 .. Len(batch) = {}
        BY <3>1, <4>1
      <4> QED BY <4>2 DEF Left
    <3> QED BY <1>3, <3>2, <3>3 DEF Covered
  <2> QED BY <1>3, <2>1, <2>2 DEF Looked, NoLostWakeup, Ready
<1> QED BY <1>4, <1>5, <1>6, <1>7, <1>8 DEF TasksInv

(* All answers have come.                                                  *)
LEMMA ReceivedStep ==
  ASSUME TasksInv, Received
  PROVE  TasksInv'
<1>1. /\ pc = "send" /\ process_tasks(Len(batch), FALSE) /\ UNCHANGED <<serverVars, ops>>
      /\ Len(answers) = Len(batch)
  BY DEF Received, bounds
<1>2. Len(batch) \in 0 .. Len(answers)
  BY <1>1 DEF TasksInv, BatchKnown
<1> QED BY <1>1, <1>2, ProcessedStep

(* The connection broke after some of them.                                *)
LEMMA FailedStep ==
  ASSUME TasksInv, Failed
  PROVE  TasksInv'
<1>1. pc = "send" /\ UNCHANGED ops
  BY DEF Failed
<1>2. PICK k \in 0 .. Len(answers) : AfterFailure(k)
  BY DEF Failed
<1>3. process_tasks(k, TRUE) /\ UNCHANGED <<serverVars, ops>>
  BY <1>1, <1>2 DEF AfterFailure
<1> QED BY <1>1, <1>3, ProcessedStep

-----------------------------------------------------------------------------
(* The batch: the least of the rows that are ready, each once.             *)
Rank(S, t) == Cardinality({u \in S : u < t})

(* A finite set has more members than a part of it.                        *)
LEMMA Fewer ==
  ASSUME NEW B, IsFiniteSet(B), NEW A, A \subseteq B, A # B
  PROVE  /\ IsFiniteSet(A) /\ Cardinality(A) \in Nat /\ Cardinality(B) \in Nat
         /\ Cardinality(A) < Cardinality(B)
<1>1. A \in SUBSET B
  OBVIOUS
<1>2. /\ IsFiniteSet(A) /\ Cardinality(A) <= Cardinality(B)
      /\ Cardinality(B) = Cardinality(A) => B = A
  BY <1>1, FS_Subset
<1>3. Cardinality(A) \in Nat /\ Cardinality(B) \in Nat
  BY <1>2, FS_CardinalityType
<1> QED BY <1>2, <1>3

Ranked(S, n) ==
  /\ n \in Nat /\ \A t \in S : Rank(S, t) \in 0 .. n - 1
  /\ \A t, v \in S : Rank(S, t) = Rank(S, v) => t = v
  /\ \A i \in 0 .. n - 1 : \E t \in S : Rank(S, t) = i

(* In a finite set of numbers each rank below its size is of one member.   *)
LEMMA RankReached ==
  ASSUME NEW S, S \subseteq Nat, IsFiniteSet(S)
  PROVE  Ranked(S, Cardinality(S))
<1> DEFINE f == [t \in S |-> Rank(S, t)]
           n == Cardinality(S)
<1>1. n \in Nat
  BY FS_CardinalityType
<1>2. ASSUME NEW t \in S
      PROVE  /\ IsFiniteSet({u \in S : u < t}) /\ Rank(S, t) \in Nat /\ Rank(S, t) < n
  <2>1. {u \in S : u < t} \subseteq S /\ t \notin {u \in S : u < t}
    OBVIOUS
  <2>2. {u \in S : u < t} # S
    BY <2>1
  <2>3. PICK A : A = {u \in S : u < t}
    OBVIOUS
  <2>4. IsFiniteSet(A) /\ Cardinality(A) \in Nat /\ Cardinality(A) < Cardinality(S)
    BY <2>1, <2>2, <2>3, Fewer
  <2> QED BY <2>3, <2>4 DEF Rank
<1>3. ASSUME NEW t \in S, NEW v \in S, t < v PROVE Rank(S, t) < Rank(S, v)
  <2>1. {u \in S : u < t} \subseteq {u \in S : u < v}
    <3>1. t \in Nat /\ v \in Nat /\ \A u \in S : u \in Nat
      OBVIOUS
    <3>2. \A u \in S : u < t => u < v
      BY <1>3, <3>1
    <3> QED BY <3>2
  <2>2. t \in {u \in S : u < v} /\ t \notin {u \in S : u < t}
    BY <1>3
  <2>3. {u \in S : u < t} # {u \in S : u < v}
    BY <2>2
  <2>4. IsFiniteSet({u \in S : u < v})
    BY <1>2
  <2>5. PICK A, B : A = {u \in S : u < t} /\ B = {u \in S : u < v}
    OBVIOUS
  <2>6. Cardinality(A) < Cardinality(B)
    BY <2>1, <2>3, <2>4, <2>5, Fewer
  <2> QED BY <2>5, <2>6 DEF Rank
<1>4. f \in Injection(S, 0 .. n - 1)
  <2>1. f \in [S -> 0 .. n - 1]
    <3>1. \A t \in S : Rank(S, t) \in Nat /\ Rank(S, t) < n
      BY <1>2
    <3>2. \A t \in S : Rank(S, t) \in 0 .. n - 1
      BY <1>1, <3>1
    <3> QED BY <3>2
  <2>2. ASSUME NEW t \in S, NEW v \in S, f[t] = f[v] PROVE t = v
    <3>1. t \in Nat /\ v \in Nat
      OBVIOUS
    <3>2. t < v \/ v < t \/ t = v
      BY <3>1
    <3>3. Rank(S, t) \in Nat /\ Rank(S, v) \in Nat /\ Rank(S, t) = Rank(S, v)
      BY <1>2, <2>2
    <3> QED BY <1>3, <3>2, <3>3
  <2>3. IsInjective(f)
    <3>1. DOMAIN f = S
      OBVIOUS
    <3> QED BY <2>2, <3>1 DEF IsInjective
  <2> QED BY <2>1, <2>3 DEF Injection
<1>5. IsFiniteSet(0 .. n - 1) /\ Cardinality(0 .. n - 1) = n
  <2>1. 0 \in Int /\ n - 1 \in Int
    BY <1>1
  <2> QED BY <1>1, <2>1, FS_Interval
<1>6. f \in Surjection(S, 0 .. n - 1)
  BY <1>4, <1>5, FS_Injection
<1>7. \A i \in 0 .. n - 1 : \E t \in S : f[t] = i
  BY <1>6 DEF Surjection
<1>8. ASSUME NEW t \in S PROVE Rank(S, t) \in 0 .. n - 1
  <2>1. Rank(S, t) \in Nat /\ Rank(S, t) < n
    BY <1>2
  <2> QED BY <1>1, <2>1
<1>9. ASSUME NEW t \in S, NEW v \in S, Rank(S, t) = Rank(S, v) PROVE t = v
  <2>1. t \in Nat /\ v \in Nat /\ (t < v \/ v < t \/ t = v)
    OBVIOUS
  <2>2. Rank(S, t) \in Nat /\ Rank(S, v) \in Nat
    BY <1>2
  <2> QED BY <1>3, <1>9, <2>1, <2>2
<1>10. \A i \in 0 .. n - 1 : \E t \in S : Rank(S, t) = i
  BY <1>7
<1> QED BY <1>1, <1>8, <1>9, <1>10 DEF Ranked

(* The batch has ready rows, each once, and all of them when it is not     *)
(* full.                                                                   *)
LEMMA BatchReady ==
  ASSUME BatchSize \in Nat \ {0}, Ready \subseteq Nat, IsFiniteSet(Ready), NEW B, B = Batch
  PROVE  /\ Listed(B) /\ (B = <<>> <=> Len(B) = 0)
         /\ \A i \in 1 .. Len(B) : B[i] \in Ready
         /\ \A i, j \in 1 .. Len(B) : B[i] = B[j] => i = j
         /\ Len(B) # BatchSize => Ready \subseteq {B[i] : i \in 1 .. Len(B)}
<1>1. PICK S, n : S = Ready /\ n = Cardinality(S)
  OBVIOUS
<1>2. Ranked(S, n)
  BY <1>1, RankReached
<1>3. PICK k : k = IF n < BatchSize THEN n ELSE BatchSize
  OBVIOUS
<1>4. n \in Nat /\ k \in Nat /\ k <= n /\ (k # BatchSize => k = n)
  BY <1>2, <1>3 DEF Ranked
<1>5. B = [i \in 1 .. k |-> CHOOSE t \in S : Rank(S, t) = i - 1]
  BY <1>1, <1>3 DEF Batch, Rank
<1>6. ASSUME NEW i \in 1 .. k PROVE B[i] \in S /\ Rank(S, B[i]) = i - 1
  <2>1. i - 1 \in 0 .. n - 1
    BY <1>4
  <2>2. \E t \in S : Rank(S, t) = i - 1
    BY <1>2, <2>1 DEF Ranked
  <2>3. B[i] = CHOOSE t \in S : Rank(S, t) = i - 1
    BY <1>5
  <2> QED BY <2>2, <2>3
<1>7. B \in Seq(S) /\ Len(B) = k
  <2>1. B \in [1 .. k -> S]
    <3>1. DOMAIN B = 1 .. k /\ B = [i \in 1 .. k |-> B[i]]
      BY <1>5
    <3> QED BY <1>6, <3>1
  <2> QED BY <1>4, <2>1
<1>8. Listed(B)
  BY <1>7, SeqListed
<1>9. B = <<>> <=> Len(B) = 0
  BY <1>7
<1>10. ASSUME NEW i \in 1 .. k, NEW j \in 1 .. k, B[i] = B[j] PROVE i = j
  <2>1. i - 1 = j - 1
    BY <1>6, <1>10
  <2> QED BY <1>4, <2>1
<1>11. ASSUME k # BatchSize PROVE S \subseteq {B[i] : i \in 1 .. k}
  <2> SUFFICES ASSUME NEW t \in S PROVE \E i \in 1 .. k : B[i] = t
    OBVIOUS
  <2>1. Rank(S, t) \in 0 .. n - 1 /\ k = n
    BY <1>2, <1>4, <1>11 DEF Ranked
  <2>2. PICK i \in 1 .. k : Rank(S, t) = i - 1
    <3>1. Rank(S, t) + 1 \in 1 .. k /\ Rank(S, t) = (Rank(S, t) + 1) - 1
      BY <1>4, <2>1
    <3> QED BY <3>1
  <2>3. B[i] \in S /\ Rank(S, B[i]) = Rank(S, t)
    BY <1>6, <2>2
  <2>4. B[i] = t
    BY <1>2, <2>3 DEF Ranked
  <2> QED BY <2>4
<1> QED BY <1>1, <1>6, <1>7, <1>8, <1>9, <1>10, <1>11

(* psync_fsupload_check_tasks keeps the invariant.                         *)
LEMMA CheckStep ==
  ASSUME TasksInv, BatchSize \in Nat \ {0}, psync_fsupload_check_tasks
  PROVE  TasksInv'
<1>1. PICK B : B = Batch
  OBVIOUS
<1>2. /\ UNCHANGED <<rows, deps, folder, fold, srv, nextid, events, ops, want, misled, refused>>
      /\ batch' = [i \in DOMAIN B |-> [id |-> B[i], row |-> rows[B[i]]]]
      /\ pc' = (IF B = <<>> THEN "wait" ELSE "send")
      /\ wake' = (wake \/ Len(B) = BatchSize)
      /\ at' = 0 /\ answers' = <<>> /\ wire' = <<>>
  BY <1>1 DEF psync_fsupload_check_tasks, clientVars, serverVars, bounds, history
<1>3. Ready \subseteq Nat /\ IsFiniteSet(Ready) /\ Ready \subseteq DOMAIN rows
  <2>1. Ready \subseteq 1 .. ops /\ Ready \subseteq DOMAIN rows /\ ops \in Nat
    BY DEF TasksInv, Counted, Ready
  <2>2. IsFiniteSet(1 .. ops)
    <3>1. 1 \in Int /\ ops \in Int
      BY <2>1
    <3> QED BY <3>1, FS_Interval
  <2>3. IsFiniteSet(Ready)
    <3>1. Ready \in SUBSET (1 .. ops)
      BY <2>1
    <3> QED BY <2>2, <3>1, FS_Subset
  <2> QED BY <2>1, <2>3
<1>4. /\ Listed(B) /\ (B = <<>> <=> Len(B) = 0)
      /\ \A i \in 1 .. Len(B) : B[i] \in Ready
      /\ \A i, j \in 1 .. Len(B) : B[i] = B[j] => i = j
      /\ Len(B) # BatchSize => Ready \subseteq {B[i] : i \in 1 .. Len(B)}
  BY <1>1, <1>3, BatchReady
<1>5. DOMAIN B = 1 .. Len(B) /\ Len(B) \in Nat
  BY <1>4 DEF Listed
<1>6. /\ Listed(batch') /\ Len(batch') = Len(B)
      /\ \A i \in 1 .. Len(B) : batch'[i].id = B[i] /\ batch'[i].row = rows[B[i]]
  <2>1. PICK T : T = {[id |-> B[i], row |-> rows[B[i]]] : i \in 1 .. Len(B)}
    OBVIOUS
  <2>2. PICK k : k = Len(B)
    OBVIOUS
  <2>3. batch' \in [1 .. k -> T] /\ k \in Nat
    BY <1>2, <1>5, <2>1, <2>2
  <2>4. batch' \in Seq(T) /\ Len(batch') = k
    BY <2>3
  <2>5. Listed(batch')
    BY <2>4, SeqListed
  <2>6. \A i \in 1 .. Len(B) : batch'[i] = [id |-> B[i], row |-> rows[B[i]]]
    BY <1>2, <1>5
  <2>7. ASSUME NEW i \in 1 .. Len(B)
        PROVE  batch'[i].id = B[i] /\ batch'[i].row = rows[B[i]]
    <3>1. PICK b : b = [id |-> B[i], row |-> rows[B[i]]]
      OBVIOUS
    <3>2. batch'[i] = b /\ b.id = B[i] /\ b.row = rows[B[i]]
      BY <2>6, <3>1
    <3> QED BY <3>2
  <2> QED BY <2>2, <2>4, <2>5, <2>7
<1>7. Counted' /\ Linked' /\ ServerKnown'
  <2>1. wake' \in BOOLEAN
    BY <1>2 DEF TasksInv, Counted
  <2> QED BY <1>2, <2>1 DEF TasksInv, Counted, Linked, ServerKnown, EventsKnown
<1>8. BatchKnown'
  <2>1. ASSUME NEW i \in 1 .. Len(batch') PROVE Task(batch[i])'
    <3>1. B[i] \in Ready /\ batch'[i].id = B[i] /\ batch'[i].row = rows[B[i]]
      BY <1>4, <1>6
    <3>2. Free(B[i])'
      BY <1>2, <3>1 DEF Ready, Free
    <3> QED BY <1>2, <1>3, <3>1, <3>2 DEF Task
  <2>2. \A i, j \in 1 .. Len(batch') : batch'[i].id = batch'[j].id => i = j
    BY <1>4, <1>6
  <2>3. pc' \in {"check", "send", "wait"} /\ (pc' # "send" => batch' = <<>>)
    <3>1. B = <<>> => batch' = <<>>
      BY <1>4, <1>5, <1>6 DEF Listed
    <3> QED BY <1>2, <3>1
  <2>4. /\ Len(answers') = 0 /\ answers' = [i \in 1 .. Len(answers') |-> answers'[i]]
        /\ Len(wire') = 0 /\ wire' = [i \in 1 .. Len(wire') |-> wire'[i]]
    BY <1>2
  <2>5. at' \in 0 .. Len(batch') /\ Len(answers') + Len(wire') = at'
    <3>1. at' = 0 /\ Len(batch') \in Nat /\ Len(answers') = 0 /\ Len(wire') = 0
      BY <1>2, <1>5, <1>6, <2>4
    <3> QED BY <3>1
  <2> QED BY <1>6, <2>1, <2>2, <2>3, <2>4, <2>5 DEF BatchKnown, Listed
<1>9. Looked'
  <2>1. Ready' = Ready
    BY <1>2 DEF Ready, Free
  <2>2. wake' \/ Ready \subseteq {batch'[i].id : i \in 1 .. Len(batch')}
    <3>1. CASE Len(B) = BatchSize
      BY <1>2, <3>1
    <3>2. CASE Len(B) # BatchSize
      <4>1. {batch'[i].id : i \in 1 .. Len(batch')} = {B[i] : i \in 1 .. Len(B)}
        BY <1>6
      <4> QED BY <1>4, <3>2, <4>1
    <3> QED BY <3>1, <3>2
  <2>3. pc' = "wait" => wake' \/ Ready = {}
    <3>1. ASSUME pc' = "wait", ~wake' PROVE Ready = {}
      <4>1. Len(batch') = 0
        BY <1>2, <1>4, <1>6, <3>1
      <4>2. {batch'[i].id : i \in 1 .. Len(batch')} = {}
        BY <4>1
      <4> QED BY <2>2, <3>1, <4>2
    <3> QED BY <3>1
  <2>4. pc' = "send" =>
          wake' \/ Ready' \subseteq refused' \cup {batch'[i].id : i \in 1 .. Len(batch')}
    BY <2>1, <2>2
  <2>5. NoLostWakeup'
    <3>1. {t \in DOMAIN rows : Free(t)}' = Ready'
      BY DEF Ready
    <3> QED BY <2>1, <2>3, <3>1 DEF NoLostWakeup
  <2> QED BY <2>4, <2>5 DEF Looked
<1> QED BY <1>7, <1>8, <1>9 DEF TasksInv

-----------------------------------------------------------------------------
(* It holds at the start,                                                  *)
LEMMA InitStep ==
  ASSUME Init, MaxOps \in Nat
  PROVE  TasksInv
<1>1. /\ rows = <<>> /\ deps = {} /\ folder = {} /\ fold = <<>> /\ wake = FALSE
      /\ pc = "check" /\ batch = <<>> /\ at = 0 /\ answers = <<>>
      /\ wire = <<>> /\ srv = {} /\ nextid = 1 /\ events = <<>>
      /\ ops = 0 /\ want = {} /\ misled = FALSE /\ refused = {}
  BY DEF Init
<1>2. Counted
  <2>1. DOMAIN rows = {} /\ ops \in 0 .. MaxOps
    BY <1>1
  <2> QED BY <1>1, <2>1 DEF Counted
<1>3. Linked
  <2>1. RowsKnown(rows, deps, nextid)
    BY <1>1 DEF RowsKnown
  <2>2. OverlayKnown(rows, fold, nextid) /\ Busy(fold)
    BY <1>1 DEF OverlayKnown, OnePlace, Busy
  <2>3. Straight(rows, deps, fold)
    BY <1>1 DEF Straight, Plain, Mkdirs
  <2> QED BY <2>1, <2>2, <2>3 DEF Linked, Known
<1>4. ServerKnown
  BY <1>1 DEF ServerKnown, EventsKnown
<1>5. BatchKnown
  BY <1>1 DEF BatchKnown
<1>6. Looked
  BY <1>1 DEF Looked, NoLostWakeup
<1> QED BY <1>2, <1>3, <1>4, <1>5, <1>6 DEF TasksInv

(* and every step keeps it.                                                *)
LEMMA NextStep ==
  ASSUME TasksInv, TasksAssumption, ~BusyRmdir, [Next]_vars
  PROVE  TasksInv'
<1>1. BatchSize \in Nat \ {0} /\ MaxOps \in Nat
  BY DEF TasksAssumption
<1>2. CASE User
  BY <1>1, <1>2, UserStep
<1>3. CASE psync_fsupload_check_tasks
  BY <1>1, <1>3, CheckStep
<1>4. CASE Woken
  BY <1>4, WokenStep
<1>5. CASE Send
  BY <1>5, SendStep
<1>6. CASE Received
  BY <1>6, ReceivedStep
<1>7. CASE Failed
  BY <1>7, FailedStep
<1>8. CASE Server
  BY <1>8, ServerStep
<1>9. CASE OtherDevice
  BY <1>9, OtherDeviceStep
<1>10. CASE process_entries
  BY <1>10, EntriesStep
<1>11. CASE Restart
  BY <1>11, RestartStep
<1>12. CASE UNCHANGED vars
  <2>1. UNCHANGED <<rows, deps, folder, fold, wake, pc, batch, at, answers, wire, srv, nextid,
                    events, ops, want, misled, refused>>
    BY <1>12 DEF vars, clientVars, uploadVars, serverVars, bounds, history
  <2>2. Counted' /\ Linked' /\ ServerKnown'
    BY <2>1 DEF TasksInv, Counted, Linked, ServerKnown, EventsKnown
  <2>3. nextid \in Nat /\ nextid' \in Nat /\ nextid <= nextid'
    BY <2>1 DEF TasksInv, ServerKnown
  <2> QED BY <2>1, <2>2, <2>3, Elsewhere
<1> QED BY <1>2, <1>3, <1>4, <1>5, <1>6, <1>7, <1>8, <1>9, <1>10, <1>11, <1>12 DEF Next, Upload

-----------------------------------------------------------------------------
(* The rows, their dependencies, the overlay and the batch agree, and no   *)
(* request names a folder that has no id yet.                              *)
LEMMA RowsAgree ==
  ASSUME TasksInv, MaxOps \in Nat
  PROVE  RowsInv
<1>1. /\ Counted /\ ServerKnown /\ BatchKnown /\ RowsKnown(rows, deps, nextid) /\ Busy(fold)
      /\ (~misled => Straight(rows, deps, fold)) /\ nextid \in Nat \ {0}
  BY DEF TasksInv, Linked, Known, ServerKnown
<1>2. DOMAIN rows \subseteq 1 .. MaxOps
  <2>1. ops \in 0 .. MaxOps /\ DOMAIN rows \subseteq 1 .. ops
    BY <1>1 DEF Counted
  <2> QED BY <2>1
<1>3. ASSUME NEW t \in DOMAIN rows PROVE rows[t] \in Requests
  <2>1. PICK r : r = rows[t]
    OBVIOUS
  <2>2. r \in Row /\ r.folderid < nextid /\ r.sfolderid < nextid /\ RowKnown(rows, deps, t)
    BY <1>1, <2>1 DEF RowsKnown
  <2>3. r.folderid \in Int /\ r.sfolderid \in Int /\ r.type \in {"mkdir", "rmdir"}
    BY <2>2 DEF Row
  <2>4. r.folderid < 0 => -r.folderid \in 1 .. MaxOps
    BY <1>2, <2>1, <2>2 DEF RowKnown, Mkdirs
  <2>5. r.sfolderid < 0 => r.sfolderid = r.folderid \/ -r.sfolderid \in 1 .. MaxOps
    BY <1>2, <2>1, <2>2, <2>3 DEF RowKnown, Mkdirs
  <2>6. r.folderid \in FolderIds /\ r.sfolderid \in FolderIds
    BY <1>1, <2>2, <2>3, <2>4, <2>5 DEF FolderIds
  <2>7. r = [type |-> r.type, folderid |-> r.folderid, sfolderid |-> r.sfolderid, name |-> r.name]
        /\ r.name \in Names
    BY <2>2 DEF Row
  <2> QED BY <2>1, <2>3, <2>6, <2>7 DEF Requests
<1>4. TypeOK
  <2>1. deps \subseteq (DOMAIN rows) \X (DOMAIN rows)
    BY <1>1 DEF RowsKnown
  <2>2. \A r \in folder \cup srv :
          r.id \in 1 .. nextid - 1 /\ r.parent \in 0 .. nextid - 1 /\ r.name \in Names
    BY <1>1 DEF ServerKnown, Folder
  <2>3. \A f \in DOMAIN fold : fold[f].taskscnt > 0
    BY <1>1 DEF Busy
  <2>4. /\ pc \in {"check", "send", "wait"} /\ at \in 0 .. Len(batch)
        /\ Len(answers) + Len(wire) = at
    BY <1>1 DEF BatchKnown
  <2>5. wake \in BOOLEAN /\ want \subseteq {<<n>> : n \in Names} \cup Names \X Names
    BY <1>1 DEF Counted
  <2> QED BY <1>2, <1>3, <2>1, <2>2, <2>3, <2>4, <2>5 DEF TypeOK
<1>5. IdsResolved
  <2> SUFFICES ASSUME NEW i \in DOMAIN batch
               PROVE  /\ batch[i].row.folderid >= 0
                      /\ batch[i].row.type = "rmdir" => batch[i].row.sfolderid > 0
    BY DEF IdsResolved
  <2>1. PICK b : b = batch[i]
    OBVIOUS
  <2>2. Task(b)
    <3>1. i \in 1 .. Len(batch)
      BY <1>1 DEF BatchKnown
    <3> QED BY <1>1, <2>1, <3>1 DEF BatchKnown
  <2>3. b.id \in DOMAIN rows /\ b.row = rows[b.id] /\ \A d \in deps : d[1] # b.id
    BY <2>2 DEF Task, Free
  <2> QED BY <1>1, <2>1, <2>3, FreeResolved
<1>6. DepsPointBack
  BY <1>1 DEF DepsPointBack, Straight
<1> QED BY <1>4, <1>5, <1>6 DEF RowsInv

(* Rows, dependencies, overlay, table, server and batch agree in every     *)
(* state of the folder tasks, when no rmdir is called on a folder that is  *)
(* still to be created and is not empty (psync_fstask_rmdir then counts it *)
(* out of its parent's trees and leaves it there).                         *)
THEOREM TasksKept ==
  ASSUME TasksAssumption, ~BusyRmdir
  PROVE  Init /\ [][Next]_vars => []TasksInv
<1>1. Init => TasksInv
  BY InitStep DEF TasksAssumption
<1>2. TasksInv /\ [Next]_vars => TasksInv'
  BY NextStep
<1> QED BY <1>1, <1>2, PTL

(* What psync_fsupload_check_tasks takes names folders of the server only, *)
(* the foreign keys of fstaskdepend hold, and a task waits for older ones. *)
THEOREM RowsHold ==
  ASSUME TasksAssumption, ~BusyRmdir
  PROVE  Init /\ [][Next]_vars => []RowsInv
<1>1. TasksInv => RowsInv
  BY RowsAgree DEF TasksAssumption
<1> QED BY <1>1, TasksKept, PTL

(* The upload thread does not sleep in psync_fsupload_thread over a task   *)
(* that waits for nothing, unless the server refused that task.            *)
THEOREM NoTaskAsleep ==
  ASSUME TasksAssumption, ~BusyRmdir
  PROVE  Init /\ [][Next]_vars => []NoLostWakeup
<1>1. TasksInv => NoLostWakeup
  BY DEF TasksInv, Looked
<1> QED BY <1>1, TasksKept, PTL
=============================================================================
