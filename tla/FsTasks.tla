------------------------------ MODULE FsTasks ------------------------------
(***************************************************************************)
(* How the drive makes and removes folders: pfstasks.c, which records what *)
(* the user does as rows of the table fstask and shows it at once through  *)
(* trees in memory (the overlay); pfsupload.c, whose thread sends the rows *)
(* to the server in batches; and the part of pdiff.c that applies the      *)
(* server's events to the table folder.                                    *)
(*                                                                         *)
(* A folder the server does not know yet has the id -taskid; the ids of    *)
(* rows are SQLite row ids, so the id of a row that was deleted is given   *)
(* again.  Every call of the file system and every transaction runs under  *)
(* the write lock of SqlLock and is one step here.                         *)
(*                                                                         *)
(* Bounds: MaxOps calls that change something, MaxLost broken connections, *)
(* MaxCrashes restarts, MaxForeign changes by other devices, paths of at   *)
(* most two names.  BatchSize is PSYNC_FSUPLOAD_NUM_TASKS_PER_RUN.         *)
(***************************************************************************)
EXTENDS Integers, FiniteSets, Sequences, Functions

CONSTANTS Names, BatchSize, MaxOps, MaxLost, MaxCrashes, MaxForeign,
          BusyRmdir   \* the user also calls rmdir on folders that are not empty

TasksAssumption == BatchSize \in Nat \ {0} /\ MaxOps \in Nat

VARIABLES
  rows,       \* fstask: taskid -> the row
  deps,       \* fstaskdepend: <<fstaskid, dependfstaskid>>
  folder,     \* the table folder
  fold,       \* the tree `folders': folderid -> psync_fstask_folder_t
  wake,       \* upload_wakes # 0
  pc, batch, at, answers,              \* the thread "fsupload main"
  wire, srv, nextid, events,           \* requests in flight, the server, its events not applied yet
  ops, lost, crashes, foreign,         \* counters of the bounds
  want,       \* the paths the user made and did not remove
  misled,     \* the client was led to a folder that another order of events had deleted
  refused,    \* rows whose last request the server refused
  badrelease  \* a release found taskscnt and the trees in disagreement

clientVars == <<rows, deps, folder, fold>>
uploadVars == <<pc, batch, at, answers>>
serverVars == <<srv, nextid, events>>
bounds == <<ops, lost, crashes, foreign>>
history == <<want, misled, refused, badrelease>>
vars == <<clientVars, wake, uploadVars, wire, serverVars, bounds, history>>

With(F, k, v) == [x \in DOMAIN F \cup {k} |-> IF x = k THEN v ELSE F[x]]
Without(F, k) == Restrict(F, DOMAIN F \ {k})

Ids(table) == {r.id : r \in table}
NoTasks == [taskscnt |-> 0, mkdirs |-> {}, rmdirs |-> {}]

Init ==
  /\ rows = <<>> /\ deps = {} /\ folder = {} /\ fold = <<>> /\ wake = FALSE
  /\ pc = "check" /\ batch = <<>> /\ at = 0 /\ answers = <<>>
  /\ wire = <<>> /\ srv = {} /\ nextid = 1 /\ events = <<>>
  /\ ops = 0 /\ lost = 0 /\ crashes = 0 /\ foreign = 0
  /\ want = {} /\ misled = FALSE /\ refused = {} /\ badrelease = FALSE

-----------------------------------------------------------------------------
(* The overlay.                                                            *)
Tasks(F, f) == IF f \in DOMAIN F THEN F[f] ELSE NoTasks
get_or_create(F, f) == IF f \in DOMAIN F THEN F ELSE With(F, f, NoTasks)

(* psync_fstask_release_folder_tasks_locked frees a folder, and with it    *)
(* its trees, when its count is zero; a debug build complains when the     *)
(* count and the trees disagree.                                           *)
Release(F, f) ==
  IF f \in DOMAIN F /\ F[f].taskscnt = 0 THEN Without(F, f) ELSE F
Disagrees(F, f) ==
  f \in DOMAIN F /\ (F[f].taskscnt # 0) # (F[f].mkdirs # {} \/ F[f].rmdirs # {})

find_mkdir(F, f, n) == {m \in Tasks(F, f).mkdirs : m.name = n}
find_rmdir(F, f, n) == {m \in Tasks(F, f).rmdirs : m.name = n}

Put(F, f, cnt, mk, rm) == With(F, f, [taskscnt |-> cnt, mkdirs |-> mk, rmdirs |-> rm])
AddMkdir(F, f, m) == Put(F, f, F[f].taskscnt + 1, F[f].mkdirs \cup {m}, F[f].rmdirs)
AddRmdir(F, f, m) == Put(F, f, F[f].taskscnt + 1, F[f].mkdirs, F[f].rmdirs \cup {m})
DropMkdirs(F, f, S) == Put(F, f, F[f].taskscnt - Cardinality(S), F[f].mkdirs \ S, F[f].rmdirs)
DropRmdirs(F, f, S) == Put(F, f, F[f].taskscnt - Cardinality(S), F[f].mkdirs, F[f].rmdirs \ S)

(* What a name in a folder stands for: the tree first, then the table.     *)
Seen(f, n) ==
  IF find_mkdir(fold, f, n) # {} THEN {m.folderid : m \in find_mkdir(fold, f, n)}
  ELSE IF find_rmdir(fold, f, n) # {} THEN {}
  ELSE {r.id : r \in {x \in folder : x.parent = f /\ x.name = n}}

Resolve(path) == IF path = <<>> THEN {0} ELSE Seen(0, path[1])
View == {<<n>> : n \in {m \in Names : Seen(0, m) # {}}}
          \cup {p \in Names \X Names : \E f \in Seen(0, p[1]) : Seen(f, p[2]) # {}}

(* A folder the server has deleted; and one whose deletion is still to be  *)
(* learnt from its events.                                                 *)
Stale(f) == f > 0 /\ f \notin Ids(srv)
Doomed(f) == \E i \in DOMAIN events : events[i].op = "delete" /\ events[i].id = f

-----------------------------------------------------------------------------
(* psync_fstask_mkdir, psync_fstask_rmdir.                                 *)
NewTask == IF rows = <<>> THEN 1 ELSE 1 + CHOOSE t \in DOMAIN rows : \A u \in DOMAIN rows : u <= t

M_SameNameIndependent(t, f, n) == {}

(* psync_fstask_depend_on_name: all rows of this name but the new one.     *)
depend_on_name(t, f, n) ==
  {u \in DOMAIN rows : u # t /\ rows[u].folderid = f /\ rows[u].name = n}

(* The foreign keys of fstaskdepend let only existing rows in; a statement *)
(* that fails makes the commit a rollback, and the call returns EIO.       *)
Allowed(t, on) == on \subseteq DOMAIN rows \cup {t}
Depend(t, on) == deps \cup ({t} \X on)

Insert(t, type, f, sf, n) ==
  rows' = With(rows, t, [type |-> type, folderid |-> f, sfolderid |-> sf, name |-> n])

M_MkdirForgetsParent(path, n) ==
  \E f \in Resolve(path) :
    /\ find_mkdir(fold, f, n) = {}
    /\ \/ f < 0
       \/ find_rmdir(fold, f, n) # {}
       \/ \A r \in folder : ~(r.parent = f /\ r.name = n)
    /\ LET t == NewTask
           on == depend_on_name(t, f, n)
       IN /\ Allowed(t, on)
          /\ Insert(t, "mkdir", f, f, n)
          /\ deps' = Depend(t, on)
          /\ fold' = AddMkdir(get_or_create(fold, f), f, [taskid |-> t, name |-> n, folderid |-> -t])
          /\ wake' = (wake \/ on = {})
    /\ misled' = (misled \/ Stale(f))
    /\ want' = want \cup {Append(path, n)}
    /\ UNCHANGED <<folder, refused, badrelease>>

psync_fstask_mkdir(path, n) ==
  \E f \in Resolve(path) :
    /\ find_mkdir(fold, f, n) = {}
    /\ \/ f < 0
       \/ find_rmdir(fold, f, n) # {}
       \/ \A r \in folder : ~(r.parent = f /\ r.name = n)
    /\ LET t == NewTask
           on == depend_on_name(t, f, n) \cup (IF f < 0 THEN {-f} ELSE {})
       IN /\ Allowed(t, on)
          /\ Insert(t, "mkdir", f, f, n)
          /\ deps' = Depend(t, on)
          /\ fold' = AddMkdir(get_or_create(fold, f), f, [taskid |-> t, name |-> n, folderid |-> -t])
          /\ wake' = (wake \/ on = {})
    /\ misled' = (misled \/ Stale(f))
    /\ want' = want \cup {Append(path, n)}
    /\ UNCHANGED <<folder, refused, badrelease>>

NotEmpty(c) ==
  \/ Tasks(fold, c).mkdirs # {}
  \/ \E r \in folder : r.parent = c /\ find_rmdir(fold, c, r.name) = {}

(* ENOTEMPTY.  When the folder is still to be created, its parent's count  *)
(* is already one less.                                                    *)
rmdir_refused(path, n) ==
  \E f \in Resolve(path) : \E c \in Seen(f, n) :
    /\ NotEmpty(c)
    /\ LET mk == find_mkdir(fold, f, n)
           G == get_or_create(fold, f)
           F == Put(G, f, G[f].taskscnt - Cardinality(mk), G[f].mkdirs, G[f].rmdirs)
       IN /\ mk # {} => BusyRmdir
          /\ fold' = Release(F, f)
          /\ badrelease' = (badrelease \/ Disagrees(F, f))
    /\ UNCHANGED <<rows, deps, folder, wake, want, misled, refused>>

psync_fstask_rmdir(path, n) ==
  \E f \in Resolve(path) : \E c \in Seen(f, n) :
    /\ ~NotEmpty(c)
    /\ LET mk == find_mkdir(fold, f, n)
           t == NewTask
           inside == {u \in DOMAIN rows : rows[u].folderid = c}
           first == {m.taskid : m \in mk} \cup inside
       IN /\ Allowed(t, first)
          /\ Insert(t, "rmdir", f, c, n)
          /\ deps' = Depend(t, first \cup depend_on_name(t, f, n))
          /\ fold' = AddRmdir(DropMkdirs(get_or_create(fold, f), f, mk), f, [taskid |-> t, name |-> n])
          /\ wake' = (wake \/ first = {})
    /\ misled' = (misled \/ Stale(f) \/ Stale(c))
    /\ want' = want \ {Append(path, n)}
    /\ UNCHANGED <<folder, refused, badrelease>>

(* EIO: the folder to be created is out of its tree all the same.          *)
rmdir_fails(path, n) ==
  \E f \in Resolve(path) : \E c \in Seen(f, n) :
    /\ ~NotEmpty(c)
    /\ LET mk == find_mkdir(fold, f, n)
           F == DropMkdirs(get_or_create(fold, f), f, mk)
       IN /\ ~Allowed(NewTask, {m.taskid : m \in mk})
          /\ fold' = Release(F, f)
          /\ badrelease' = (badrelease \/ Disagrees(F, f))
    /\ UNCHANGED <<rows, deps, folder, wake, want, misled, refused>>

User ==
  /\ ops < MaxOps /\ ops' = ops + 1
  /\ \E path \in {<<>>} \cup {<<n>> : n \in Names}, n \in Names :
       psync_fstask_mkdir(path, n) \/ psync_fstask_rmdir(path, n)
         \/ rmdir_refused(path, n) \/ rmdir_fails(path, n)
  /\ UNCHANGED <<uploadVars, wire, serverVars, lost, crashes, foreign>>

-----------------------------------------------------------------------------
(* psync_fsupload_check_tasks: a batch of rows that wait for nothing, in   *)
(* the order of their ids.                                                 *)
Free(t) == \A d \in deps : d[1] # t
Ready == {t \in DOMAIN rows : Free(t)}
Batch ==
  [i \in 1 .. IF Cardinality(Ready) < BatchSize THEN Cardinality(Ready) ELSE BatchSize |->
     CHOOSE t \in Ready : Cardinality({u \in Ready : u < t}) = i - 1]

psync_fsupload_check_tasks ==
  /\ pc = "check"
  /\ batch' = [i \in DOMAIN Batch |-> [id |-> Batch[i], row |-> rows[Batch[i]]]]
  /\ pc' = IF Batch = <<>> THEN "wait" ELSE "send"
  /\ wake' = (wake \/ Len(Batch) = BatchSize)
  /\ at' = 0 /\ answers' = <<>> /\ wire' = <<>>
  /\ UNCHANGED <<clientVars, serverVars, bounds, history>>

(* psync_fsupload_thread sleeps until upload_wakes is not zero.            *)
Woken ==
  /\ pc = "wait" /\ wake
  /\ wake' = FALSE /\ pc' = "check"
  /\ UNCHANGED <<clientVars, batch, at, answers, wire, serverVars, bounds, history>>

Send ==
  /\ pc = "send" /\ at < Len(batch)
  /\ at' = at + 1
  /\ wire' = Append(wire, batch[at + 1].row)
  /\ UNCHANGED <<clientVars, wake, pc, batch, answers, serverVars, bounds, history>>

(* psync_fstask_folder_created.                                            *)
MoveTasks(F, from, to) ==
  IF from \notin DOMAIN F THEN F
  ELSE IF to \in DOMAIN F THEN Without(F, from) ELSE Without(With(F, to, F[from]), from)

folder_created(F, parent, t, id, n, sparent) ==
  LET here == {m \in find_mkdir(F, parent, n) : m.taskid = t}
      moved == {m \in Tasks(F, sparent).mkdirs : m.folderid = -t}
      G == IF here # {} THEN Release(DropMkdirs(F, parent, here), parent)
           ELSE IF moved # {}
           THEN Put(F, sparent, F[sparent].taskscnt,
                    (F[sparent].mkdirs \ moved) \cup
                      {[taskid |-> m.taskid, name |-> m.name, folderid |-> id] : m \in moved},
                    F[sparent].rmdirs)
           ELSE F
  IN MoveTasks(G, -t, id)

(* psync_fstask_folder_deleted.                                            *)
folder_deleted(F, parent, t, n) ==
  LET gone == {m \in find_rmdir(F, parent, n) : m.taskid = t}
  IN IF parent \in DOMAIN F THEN Release(DropRmdirs(F, parent, gone), parent) ELSE F

(* pr_update_folderid, pr_update_sfolderid                                 *)
NewIds(r, t, id) == [r EXCEPT !.folderid = IF @ = -t THEN id ELSE @,
                              !.sfolderid = IF @ = -t THEN id ELSE @]
Renumber(R, t, id) == [u \in DOMAIN R |-> NewIds(R[u], t, id)]

M_DependentsSleep(d, t) ==
  [d EXCEPT !.deps = {x \in @ : x[1] # t /\ x[2] # t},
            !.rows = Without(@, t)]

(* pr_del_dep, pr_del_task                                                 *)
Done(d, t) ==
  [d EXCEPT !.deps = {x \in @ : x[1] # t /\ x[2] # t},
            !.wake = @ \/ \E x \in d.deps : x[2] = t,
            !.rows = Without(@, t)]

M_NotInTheTable(d, t, row, ans) ==
  IF ans.result = "ok"
  THEN Done([d EXCEPT !.fold = folder_created(@, row.folderid, t, ans.id, row.name, d.rows[t].sfolderid),
                      !.rows = Renumber(@, t, ans.id)], t)
  ELSE [d EXCEPT !.rows[t].folderid = 0, !.refused = @ \cup {t}]

(* psync_process_task_mkdir with what process_tasks does after it.  When   *)
(* the parent is gone (2002) the row is pointed at the root and stays.     *)
process_mkdir(d, t, row, ans) ==
  IF ans.result = "ok"
  THEN Done([d EXCEPT !.folder = IF ans.id \in Ids(@) THEN @
                                 ELSE @ \cup {[id |-> ans.id, parent |-> row.folderid, name |-> row.name]},
                      !.fold = folder_created(@, row.folderid, t, ans.id, row.name, d.rows[t].sfolderid),
                      !.bad = @ \/ Disagrees(DropMkdirs(get_or_create(d.fold, row.folderid), row.folderid,
                                       {m \in find_mkdir(d.fold, row.folderid, row.name) : m.taskid = t}), row.folderid),
                      !.rows = Renumber(@, t, ans.id),
                      !.misled = @ \/ (Stale(ans.id) /\ ~Doomed(ans.id)),
                      !.refused = @ \ {t}], t)
  ELSE [d EXCEPT !.rows[t].folderid = 0, !.refused = @ \cup {t}, !.misled = TRUE]

(* psync_process_task_rmdir: a folder that does not exist (2005) or is not *)
(* empty (2006) ends the task too, but leaves the table as it is.          *)
process_rmdir(d, t, row, ans) ==
  Done([d EXCEPT !.folder = IF ans.result = "ok" THEN {r \in @ : r.id # row.sfolderid} ELSE @,
                 !.fold = folder_deleted(@, row.folderid, t, row.name)], t)

(* psync_fsupload_process_tasks: one transaction for the first k answers;  *)
(* Processed[i] is what it has made of the state after i of them.          *)
process_task(d, i) ==
  IF batch[i].row.type = "mkdir"
  THEN process_mkdir(d, batch[i].id, batch[i].row, answers[i])
  ELSE process_rmdir(d, batch[i].id, batch[i].row, answers[i])

Processed[i \in 0 .. Len(answers)] ==
  IF i = 0 THEN [rows |-> rows, deps |-> deps, folder |-> folder, fold |-> fold, wake |-> wake,
                 refused |-> refused, bad |-> badrelease, misled |-> misled]
  ELSE process_task(Processed[i - 1], i)

process_tasks(k, failed) ==
  /\ rows' = Processed[k].rows /\ deps' = Processed[k].deps
  /\ folder' = Processed[k].folder /\ fold' = Processed[k].fold
  /\ wake' = (Processed[k].wake \/ failed)
  /\ refused' = Processed[k].refused /\ badrelease' = Processed[k].bad
  /\ misled' = Processed[k].misled /\ UNCHANGED want
  /\ pc' = "wait" /\ batch' = <<>> /\ at' = 0 /\ answers' = <<>> /\ wire' = <<>>

Received ==
  /\ pc = "send" /\ Len(answers) = Len(batch)
  /\ process_tasks(Len(batch), FALSE)
  /\ UNCHANGED <<serverVars, bounds>>

M_FailureNoRetry(k) ==
  /\ process_tasks(k, FALSE)
  /\ UNCHANGED serverVars

(* err0: the connection breaks.  The answers read so far are processed,    *)
(* the other rows stay for the next batch, and what was sent without an    *)
(* answer the server may or may not have done.                             *)
AfterFailure(k) ==
  /\ process_tasks(k, TRUE)
  /\ UNCHANGED serverVars

Failed ==
  /\ pc = "send" /\ lost < MaxLost /\ lost' = lost + 1
  /\ \E k \in 0 .. Len(answers) : AfterFailure(k)
  /\ UNCHANGED <<ops, crashes, foreign>>

-----------------------------------------------------------------------------
(* The server, seen from the requests the code sends and the answers it    *)
(* distinguishes, and the other devices of the account.                    *)
Create(p, n) ==
  /\ srv' = srv \cup {[id |-> nextid, parent |-> p, name |-> n]}
  /\ events' = Append(events, [op |-> "create", id |-> nextid, parent |-> p, name |-> n])
  /\ nextid' = nextid + 1
Delete(f) ==
  /\ srv' = {r \in srv : r.id # f}
  /\ events' = Append(events, [op |-> "delete", id |-> f])
  /\ UNCHANGED nextid

Answer(a) == answers' = Append(answers, a) /\ wire' = Tail(wire)

createfolderifnotexists(q) ==
  LET same == {r \in srv : r.parent = q.folderid /\ r.name = q.name}
  IN \/ /\ q.folderid # 0 /\ q.folderid \notin Ids(srv)
        /\ Answer([result |-> "nofolder"])
        /\ UNCHANGED serverVars
     \/ /\ \E r \in same : Answer([result |-> "ok", id |-> r.id])
        /\ UNCHANGED serverVars
     \/ /\ q.folderid \in Ids(srv) \cup {0} /\ same = {}
        /\ Answer([result |-> "ok", id |-> nextid])
        /\ Create(q.folderid, q.name)

deletefolder(q) ==
  \/ /\ q.sfolderid \notin Ids(srv)
     /\ Answer([result |-> "gone"])
     /\ UNCHANGED serverVars
  \/ /\ \E r \in srv : r.parent = q.sfolderid
     /\ Answer([result |-> "notempty"])
     /\ UNCHANGED serverVars
  \/ /\ q.sfolderid \in Ids(srv) /\ \A r \in srv : r.parent # q.sfolderid
     /\ Answer([result |-> "ok"])
     /\ Delete(q.sfolderid)

Server ==
  /\ wire # <<>>
  /\ IF wire[1].type = "mkdir" THEN createfolderifnotexists(wire[1]) ELSE deletefolder(wire[1])
  /\ UNCHANGED <<clientVars, wake, pc, batch, at, bounds, history>>

OtherDevice ==
  /\ foreign < MaxForeign /\ foreign' = foreign + 1
  /\ \/ \E p \in Ids(srv) \cup {0}, n \in Names :
          /\ \A r \in srv : ~(r.parent = p /\ r.name = n)
          /\ Create(p, n)
     \/ \E f \in Ids(srv) : /\ \A r \in srv : r.parent # f
                            /\ Delete(f)
  /\ UNCHANGED <<clientVars, wake, uploadVars, wire, ops, lost, crashes, history>>

-----------------------------------------------------------------------------
(* process_createfolder, process_deletefolder, and process_entries, which  *)
(* applies the events it received in one transaction.                      *)
Apply(table, e) ==
  {r \in table : r.id # e.id}
    \cup (IF e.op = "create" THEN {[id |-> e.id, parent |-> e.parent, name |-> e.name]} ELSE {})

Applied[i \in 0 .. Len(events)] ==
  IF i = 0 THEN folder ELSE Apply(Applied[i - 1], events[i])

process_entries ==
  /\ \E k \in 1 .. Len(events) :
       /\ folder' = Applied[k]
       /\ events' = SubSeq(events, k + 1, Len(events))
  /\ UNCHANGED <<rows, deps, fold, wake, uploadVars, wire, srv, nextid, bounds, history>>

-----------------------------------------------------------------------------
(* A restart: what is in memory is lost, psync_fstask_init rebuilds the    *)
(* overlay from the rows in the order of their ids.                        *)
InitEntries(f, type) == {t \in DOMAIN rows : rows[t].type = type /\ rows[t].folderid = f}

M_InitKeepsMkdir(f) ==
  {[taskid |-> t, name |-> rows[t].name, folderid |-> -t] : t \in InitEntries(f, "mkdir")}

(* A rmdir takes the mkdir of its name that came before it out of the tree. *)
init_mkdirs(f) ==
  {[taskid |-> t, name |-> rows[t].name, folderid |-> -t] : t \in
     {u \in InitEntries(f, "mkdir") :
        \A r \in InitEntries(f, "rmdir") : r > u => rows[r].name # rows[u].name}}
init_rmdirs(f) == {[taskid |-> t, name |-> rows[t].name] : t \in InitEntries(f, "rmdir")}

Rebuilt ==
  [f \in {rows[t].folderid : t \in DOMAIN rows} |->
     [taskscnt |-> Cardinality(init_mkdirs(f)) + Cardinality(init_rmdirs(f)),
      mkdirs |-> init_mkdirs(f), rmdirs |-> init_rmdirs(f)]]

Restart ==
  /\ crashes < MaxCrashes /\ crashes' = crashes + 1
  /\ fold' = Rebuilt /\ wake' = FALSE /\ refused' = {}
  /\ pc' = "check" /\ batch' = <<>> /\ at' = 0 /\ answers' = <<>> /\ wire' = <<>>
  /\ UNCHANGED <<rows, deps, folder, serverVars, ops, lost, foreign, want, misled, badrelease>>

-----------------------------------------------------------------------------
Upload == psync_fsupload_check_tasks \/ Woken \/ Send \/ Received
Next == User \/ Upload \/ Failed \/ Server \/ OtherDevice \/ process_entries \/ Restart

(* The threads of the client run, and the server answers.                  *)
Fairness == WF_vars(Upload) /\ WF_vars(Server) /\ WF_vars(process_entries)
Spec == Init /\ [][Next]_vars /\ Fairness
-----------------------------------------------------------------------------
(* Properties.                                                             *)
FolderIds == -MaxOps .. nextid - 1
Requests == [type : {"mkdir", "rmdir"}, folderid : FolderIds, sfolderid : FolderIds, name : Names]

(* The rows, the dependencies between existing rows, the overlay and the   *)
(* table stay in their ranges; no overlay folder is empty.                 *)
TypeOK ==
  /\ DOMAIN rows \subseteq 1 .. MaxOps /\ \A t \in DOMAIN rows : rows[t] \in Requests
  /\ deps \subseteq (DOMAIN rows) \X (DOMAIN rows)
  /\ \A r \in folder \cup srv : r.id \in 1 .. nextid - 1 /\ r.parent \in 0 .. nextid - 1 /\ r.name \in Names
  /\ \A f \in DOMAIN fold : fold[f].taskscnt > 0
  /\ pc \in {"check", "send", "wait"} /\ wake \in BOOLEAN
  /\ at \in 0 .. Len(batch) /\ Len(answers) + Len(wire) = at
  /\ want \subseteq {<<n>> : n \in Names} \cup Names \X Names

(* A request carries ids of the server only: a folder that has none yet is *)
(* waited for, and its id has replaced -taskid in every row by then.       *)
IdsResolved ==
  \A i \in DOMAIN batch : /\ batch[i].row.folderid >= 0
                          /\ batch[i].row.type = "rmdir" => batch[i].row.sfolderid > 0

(* A task waits for older tasks only, so the oldest can always run: no     *)
(* task waits for itself or, round a circle, for another.                  *)
DepsPointBack == ~misled => \A d \in deps : d[2] < d[1]

RowsInv == TypeOK /\ IdsResolved /\ DepsPointBack

(* Two tasks about one name in one folder end in the order the user gave   *)
(* them, whatever fails on the way; but a row that the server refused is   *)
(* pointed at the root, where it may overtake an older one of its name.    *)
SameNameInOrder ==
  [][\/ misled'
     \/ \A t \in DOMAIN rows \ DOMAIN rows', u \in DOMAIN rows \cap DOMAIN rows' :
          u < t => ~(rows[u].folderid = rows[t].folderid /\ rows[u].name = rows[t].name)]_vars

(* The upload thread never sleeps over a task it could run, other than one *)
(* the server refused: handle_mkdir_api_error does not wake it.            *)
NoLostWakeup == pc = "wait" /\ ~wake => {t \in DOMAIN rows : Free(t)} \subseteq refused

(* psync_fstask_init would build the overlay that is in memory: a restart  *)
(* shows the user the same folders.                                        *)
RestartAgrees == ~misled => fold = Rebuilt

(* What the user made and did not remove is in the listing at every        *)
(* moment: before, while and after it is uploaded, across restarts, and    *)
(* however late the server's events come. A folder the user removed shows  *)
(* up again only while the server's event about its removal is still to be *)
(* applied.                                                                *)
ViewAgrees ==
  ~misled => /\ want \subseteq View
             /\ \A p \in View \ want : \E f \in Seen(0, p[1]) :
                  Doomed(f) \/ (Len(p) = 2 /\ \E g \in Seen(f, p[2]) : Doomed(g))

(* When the user stops, every task ends, whatever connection broke on the  *)
(* way, the table becomes what the server has, and the user sees what he   *)
(* asked for (and what other devices did).                                 *)
Settles == <>[](\/ misled
                \/ /\ rows = <<>> /\ fold = <<>> /\ folder = srv
                   /\ foreign = 0 => View = want)

(* pfstasks.c checks at every release of a folder in a debug build that    *)
(* taskscnt is zero exactly when the folder's trees are empty.             *)
ReleaseConsistent == ~badrelease
=============================================================================
