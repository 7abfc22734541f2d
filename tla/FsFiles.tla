------------------------------ MODULE FsFiles ------------------------------
(***************************************************************************)
(* One name of the drive and the files that bear it: pfs.c, where a file   *)
(* is created, opened, written, flushed and closed; pfstasks.c, where it   *)
(* is removed; pfsupload.c, whose thread sends it to the server.           *)
(*                                                                         *)
(* Calls run under of->mutex, the SQL lock or both, and one step here is   *)
(* what one call does before it drops them.  Contents are version numbers, *)
(* 0 is the empty file.  The files are small (PSYNC_FS_DIRECT_UPLOAD_LIMIT)*)
(* and not encrypted; a server file opened for writing is in the page      *)
(* cache, so it becomes a new file (psync_fs_reopen_file_for_writing).     *)
(*                                                                         *)
(* Every row depends on all older rows of its name (depend_on_name, see    *)
(* FsTasks), so a row waits for nothing when it is the oldest, and a batch *)
(* of the upload thread is at most one row.                                *)
(*                                                                         *)
(* Bounds: MaxOps calls that create, open, write, flush or remove, MaxOpen *)
(* open files, MaxFaults broken connections and restarts.                  *)
(***************************************************************************)
EXTENDS Integers, FiniteSets, Sequences, Functions

CONSTANTS Handles, Timer,   \* who calls: the user's file handles; the write timer
          MaxOps, MaxOpen, MaxFaults,
          Trunc             \* values of O_TRUNC in the user's calls of open

ASSUME TimerIsNoHandle == Timer \notin Handles
ASSUME HandlesFinite == IsFiniteSet(Handles)
ASSUME BoundsAreNumbers == {MaxOps, MaxOpen, MaxFaults} \subseteq Nat

None == -1   \* no content: there is no file

VARIABLES
  rows,      \* fstask: taskid -> the row; sfile is its fstaskfileid, 0 if none
  data,      \* the local data files: taskid -> content
  creats, unlinks,  \* the overlay of the name: [id, rfileid]; task ids
  table,     \* the files of this name in the table file: [id, content]
  ofs,       \* psync_openfile_t
  fd,        \* handle -> its open file, 0 when closed
  rewriting, \* handles in psync_fs_reopen_file_for_writing
  calls,     \* flushes and release threads between two critical sections
  wake,      \* upload_wakes # 0
  pc, task, answer,  \* the upload thread, current_upload_batch and the answer
  srv, nextid,       \* the server's file of this name, its next id
  events,    \* the server's events the client has not applied: [id, content]
  ops, ver, faults,  \* counters of the bounds; the last version written
  want,      \* what the user last made the name hold
  odd,       \* events of known consequence, see the actions that add to it
  changed    \* an upload was accepted whose content was not the file's

memory == <<ofs, fd, rewriting, calls>>
overlay == <<creats, unlinks>>
upload == <<pc, task, answer>>
server == <<srv, nextid, events>>
bounds == <<ops, ver, faults>>
history == <<want, odd, changed>>
vars == <<rows, data, overlay, table, memory, wake, upload, server, bounds, history>>

NoTask == [id |-> 0]
NoFile == [id |-> 0, content |-> None]

Init ==
  /\ rows = <<>> /\ data = <<>> /\ creats = {} /\ unlinks = {} /\ table = {}
  /\ ofs = <<>> /\ fd = [h \in Handles |-> 0] /\ rewriting = {} /\ calls = {}
  /\ wake = FALSE /\ pc = "check" /\ task = NoTask /\ answer = NoFile
  /\ srv = NoFile /\ nextid = 1 /\ events = <<>>
  /\ ops = 0 /\ ver = 0 /\ faults = 0
  /\ want = None /\ odd = {} /\ changed = FALSE

-----------------------------------------------------------------------------
(* Rows, open files, and the steps several calls share.                    *)
With(f, x, v) == [y \in DOMAIN f \cup {x} |-> IF y = x THEN v ELSE f[y]]
NewTask == IF DOMAIN rows = {} THEN 1 ELSE 1 + CHOOSE t \in DOMAIN rows : \A u \in DOMAIN rows : u <= t
SetStatus(t, status) == [rows EXCEPT ![t].status = status]
Oldest(t) == \A u \in DOMAIN rows : t <= u

OpenOf(F, f) == {o \in DOMAIN F : F[o].fileid = f}   \* the search in the tree openfiles
NewOpen == CHOOSE o \in 1 .. MaxOpen : o \notin DOMAIN ofs
Room == DOMAIN ofs # 1 .. MaxOpen

Busy(h) == h \in rewriting \/ \E c \in calls : c.by = h
Ready(h) == fd[h] # 0 /\ ~Busy(h)
Unused(h) == fd[h] = 0 /\ ~Busy(h)

(* What the user finds under the name: a pending file, a file of the table *)
(* unless an unlink hides it, or nothing.  The rows of the table are told  *)
(* apart by their ids: two may bear the name while events are on their way,*)
(* and the query finds either.                                             *)
TableVisible == creats = {} /\ unlinks = {} /\ table # {}
InTable(id) == \E f \in table : f.id = id
Exists == creats # {} \/ TableVisible

(* psync_fstask_add_creat: a row and its entries in the overlay.           *)
add_creat(t, fileid) ==
  /\ rows' = With(rows, t, [type |-> "creat", status |-> 1, int1 |-> 0, fileid |-> fileid,
                            rfileid |-> 0, sfile |-> 0])
  /\ creats' = creats \cup {[id |-> t, rfileid |-> fileid]}
  /\ unlinks' = unlinks \cup {t}

Calls == ops < MaxOps /\ ops' = ops + 1
Faulty == faults < MaxFaults /\ faults' = faults + 1
File(fileid, writeid, modified, released) ==
  [fileid |-> fileid, writeid |-> writeid, modified |-> modified, released |-> released,
   deleted |-> FALSE, refcnt |-> 1, timer |-> "none"]

-----------------------------------------------------------------------------
(* psync_fs_creat of a name that does not exist, and psync_fs_open with    *)
(* O_TRUNC of a file of the server.                                        *)
Create(h, trunc) ==
  /\ Unused(h) /\ Room /\ (~Exists \/ (trunc /\ TableVisible))
  /\ LET t == NewTask IN
       /\ add_creat(t, 0)
       /\ data' = With(data, t, 0)
       /\ ofs' = With(ofs, NewOpen, File(-t, 0, TRUE, FALSE))
  /\ fd' = [fd EXCEPT ![h] = NewOpen]
  /\ want' = 0
  /\ UNCHANGED <<table, rewriting, calls, wake, upload, server, ver, faults, odd, changed>>

(* psync_fs_open of a file of the server, without O_TRUNC.                 *)
inc_of_refcnt(F, o) == [F EXCEPT ![o].refcnt = @ + 1]

OpenServerFile(h) ==
  /\ Unused(h) /\ TableVisible
  /\ \E f \in table :
       \/ \E o \in OpenOf(ofs, f.id) :
            /\ ofs' = inc_of_refcnt(ofs, o)
            /\ fd' = [fd EXCEPT ![h] = o]
       \/ /\ OpenOf(ofs, f.id) = {} /\ Room
          /\ ofs' = With(ofs, NewOpen, File(f.id, 0, FALSE, FALSE))
          /\ fd' = [fd EXCEPT ![h] = NewOpen]
  /\ UNCHANGED <<rows, data, overlay, table, rewriting, calls, wake, upload, server, ver, faults, history>>

(* psync_fs_inc_writeid_locked: the upload of a released file is stopped,  *)
(* and the timer, which holds a reference, starts anew.  A timer whose     *)
(* callback waits for of->mutex is left: the callback sees the new writeid.*)
stop_upload(F, o) == IF F[o].released THEN SetStatus(-F[o].fileid, 1) ELSE rows

inc_writeid(F, o) ==
  [F EXCEPT ![o].released = FALSE, ![o].writeid = @ + 1,
            ![o].timer = IF @ = "running" THEN @ ELSE "set",
            ![o].refcnt = IF F[o].timer = "none" THEN @ + 1 ELSE @]

(* psync_fs_open of a pending file.  O_TRUNC is a change like a write when *)
(* the data file is open already, and otherwise no more than the truncation*)
(* of that file ("raced": the file may be on its way to the server).  A    *)
(* file that a flush released before its row is, is taken for not released *)
(* ("crossed").                                                            *)
OpenAgain(o, released) == [inc_of_refcnt(ofs, o) EXCEPT ![o].released = released]

OpenPending(h, trunc) ==
  /\ Unused(h)
  /\ \E cr \in creats :
       LET t == cr.id
           open == OpenOf(ofs, -t)
           released == rows[t].status # 1
       IN /\ t \in DOMAIN rows /\ rows[t].type = "creat"
          /\ \/ \E o \in open :
                  LET F == OpenAgain(o, released)
                      change == trunc /\ data[t] # 0
                  IN /\ ofs' = IF change THEN inc_writeid(F, o) ELSE F
                     /\ rows' = IF change THEN stop_upload(F, o) ELSE rows
                     /\ fd' = [fd EXCEPT ![h] = o]
                     /\ odd' = IF ofs[o].released /\ ~released THEN odd \cup {"crossed"} ELSE odd
             \/ /\ open = {} /\ Room
                /\ ofs' = With(ofs, NewOpen, File(-t, rows[t].int1, TRUE, released))
                /\ fd' = [fd EXCEPT ![h] = NewOpen]
                /\ odd' = IF trunc /\ task.id = t THEN odd \cup {"raced"} ELSE odd
                /\ UNCHANGED rows
          /\ data' = IF trunc \/ t \notin DOMAIN data THEN With(data, t, 0) ELSE data
          /\ want' = IF trunc THEN 0 ELSE want
  /\ UNCHANGED <<overlay, table, rewriting, calls, wake, upload, server, ver, faults, changed>>

-----------------------------------------------------------------------------
(* psync_fs_write.  A write to a file of the server first drops of->mutex  *)
(* to take the SQL lock, then looks again what the file has become.        *)
Named(t) == \E cr \in creats : cr.id = t
Written(t) ==
  /\ ver' = ver + 1
  /\ data' = With(data, t, ver')

Write(h) ==
  /\ Ready(h) /\ ofs[fd[h]].modified
  /\ LET o == fd[h]
     IN /\ ofs' = inc_writeid(ofs, o) /\ rows' = stop_upload(ofs, o)
        /\ Written(-ofs[o].fileid)
        /\ want' = IF Named(-ofs[o].fileid) THEN ver' ELSE want
  /\ UNCHANGED <<overlay, table, fd, rewriting, calls, wake, upload, server, faults, odd, changed>>

WriteServerFile(h) ==
  /\ Ready(h) /\ ~ofs[fd[h]].modified
  /\ ofs' = inc_writeid(ofs, fd[h])
  /\ rewriting' = rewriting \cup {h}
  /\ UNCHANGED <<rows, data, overlay, table, fd, calls, wake, upload, server, ver, faults, history>>

(* The file may meanwhile have been made new by another handle; the write  *)
(* id it got before may be that of an upload under way ("late").  Else a   *)
(* creat is added under the file's old name, removed or not ("revived").   *)
Sent(t, writeid) == task.id = t /\ task.row.int1 = writeid

psync_fs_reopen_file_for_writing(h) ==
  /\ h \in rewriting /\ rewriting' = rewriting \ {h}
  /\ LET o == fd[h]
         s == ofs[o].fileid
         t == NewTask
     IN \/ /\ ofs[o].modified
           /\ Written(-s)
           /\ want' = IF Named(-s) THEN ver' ELSE want
           /\ odd' = IF Sent(-s, ofs[o].writeid) THEN odd \cup {"late"} ELSE odd
           /\ UNCHANGED <<rows, overlay, ofs>>
        \/ /\ ~ofs[o].modified
           /\ add_creat(t, s)
           /\ ofs' = [ofs EXCEPT ![o].fileid = -t, ![o].modified = TRUE]
           /\ Written(t)
           /\ want' = ver'
           /\ odd' = IF TableVisible /\ InTable(s) THEN odd ELSE odd \cup {"revived"}
  /\ UNCHANGED <<table, fd, calls, wake, upload, server, ops, faults, changed>>

-----------------------------------------------------------------------------
(* psync_fs_flush and psync_fs_release: under of->mutex the file is        *)
(* released for upload with the writeid it has now; the row is updated     *)
(* after the mutex is dropped, and only then is the reference given back.  *)
Call(by, o, step, drop) == [by |-> by, of |-> o, writeid |-> ofs[o].writeid, step |-> step, drop |-> drop]

M_FlushForgetsTimer(o) == [ofs EXCEPT ![o].released = TRUE, ![o].timer = "none"]

Released(o) ==
  [ofs EXCEPT ![o].released = TRUE,
              ![o].timer = IF @ = "set" THEN "none" ELSE @,
              ![o].refcnt = IF ofs[o].timer = "set" THEN @ - 1 ELSE @]

Flush(h, closing) ==
  /\ Ready(h)
  /\ LET o == fd[h]
     IN \/ /\ ofs[o].modified
           /\ ofs' = Released(o)
           /\ calls' = calls \cup {Call(h, o, "status", closing)}
        \/ /\ ~ofs[o].modified /\ closing
           /\ calls' = calls \cup {Call(h, o, "drop", TRUE)}
           /\ UNCHANGED ofs
  /\ fd' = IF closing THEN [fd EXCEPT ![h] = 0] ELSE fd
  /\ UNCHANGED <<rows, data, overlay, table, rewriting, wake, upload, server, ver, faults, history>>

(* psync_fs_write_timer: 30 seconds after the last write, and when its     *)
(* callback gets of->mutex; psync_fs_upload_release_timer does the rest.   *)
Expire ==
  /\ \E o \in DOMAIN ofs : ofs[o].timer = "set" /\ ofs' = [ofs EXCEPT ![o].timer = "running"]
  /\ UNCHANGED <<rows, data, overlay, table, fd, rewriting, calls, wake, upload, server, bounds, history>>

psync_fs_write_timer ==
  /\ \E o \in DOMAIN ofs :
       LET release == ofs[o].modified /\ ~ofs[o].released
       IN /\ ofs[o].timer = "running"
          /\ ofs' = [ofs EXCEPT ![o].timer = "none", ![o].released = @ \/ release]
          /\ calls' = calls \cup {Call(Timer, o, IF release THEN "status" ELSE "drop", TRUE)}
  /\ UNCHANGED <<rows, data, overlay, table, fd, rewriting, wake, upload, server, bounds, history>>

(* The two updates of the row; of->fileid is read anew for each.  When the *)
(* file was uploaded and made new meanwhile, it is the new row that is     *)
(* released, though nobody flushed it ("early").                           *)
Early(c) == c.writeid = ofs[c.of].writeid /\ ~ofs[c.of].released
OddIf(b, event) == IF b THEN odd \cup {event} ELSE odd

After(c) == (calls \ {c}) \cup (IF c.drop THEN {[c EXCEPT !.step = "drop"]} ELSE {})

M_ReleaseNoWake(c) ==
  /\ c.step = "status"
  /\ LET t == -ofs[c.of].fileid
     IN \/ /\ t \in DOMAIN rows /\ rows[t].status = 1
           /\ rows' = [rows EXCEPT ![t].status = 0, ![t].int1 = c.writeid]
           /\ wake' = wake /\ calls' = After(c)
           /\ odd' = OddIf(Early(c), "early")
        \/ /\ ~(t \in DOMAIN rows /\ rows[t].status = 1)
           /\ calls' = (calls \ {c}) \cup {[c EXCEPT !.step = "writeid"]}
           /\ UNCHANGED <<rows, wake, odd>>
  /\ UNCHANGED <<data, overlay, table, ofs, fd, rewriting, upload, server, bounds, want, changed>>

ReleaseRow(c) ==
  /\ c.step = "status"
  /\ LET t == -ofs[c.of].fileid
     IN \/ /\ t \in DOMAIN rows /\ rows[t].status = 1
           /\ rows' = [rows EXCEPT ![t].status = 0, ![t].int1 = c.writeid]
           /\ wake' = TRUE /\ calls' = After(c)
           /\ odd' = OddIf(Early(c), "early")
        \/ /\ ~(t \in DOMAIN rows /\ rows[t].status = 1)
           /\ calls' = (calls \ {c}) \cup {[c EXCEPT !.step = "writeid"]}
           /\ UNCHANGED <<rows, wake, odd>>
  /\ UNCHANGED <<data, overlay, table, ofs, fd, rewriting, upload, server, bounds, want, changed>>

RaiseWriteid(c) ==
  /\ c.step = "writeid" /\ calls' = After(c)
  /\ LET t == -ofs[c.of].fileid
     IN \/ /\ t \in DOMAIN rows /\ rows[t].int1 < c.writeid
           /\ rows' = [rows EXCEPT ![t].int1 = c.writeid]
           /\ odd' = OddIf(Early(c), "early")
        \/ /\ ~(t \in DOMAIN rows /\ rows[t].int1 < c.writeid)
           /\ UNCHANGED <<rows, odd>>
  /\ UNCHANGED <<data, overlay, table, ofs, fd, rewriting, wake, upload, server, bounds, want, changed>>

(* psync_fs_dec_of_refcnt, psync_fs_free_openfile: the last reference to a *)
(* removed file lets its upload be cancelled.                              *)
psync_fs_dec_of_refcnt(c) ==
  /\ c.step = "drop" /\ calls' = calls \ {c}
  /\ LET of == ofs[c.of]
         t == -of.fileid
     IN \/ /\ of.refcnt > 1
           /\ ofs' = [ofs EXCEPT ![c.of].refcnt = @ - 1]
           /\ UNCHANGED <<rows, wake>>
        \/ /\ of.refcnt = 1
           /\ ofs' = Restrict(ofs, DOMAIN ofs \ {c.of})
           /\ rows' = IF of.deleted /\ t \in DOMAIN rows /\ rows[t].status = 12
                      THEN SetStatus(t, 11) ELSE rows
           /\ wake' = (wake \/ (of.deleted /\ of.fileid < 0))
  /\ UNCHANGED <<data, overlay, table, fd, rewriting, upload, server, bounds, history>>

-----------------------------------------------------------------------------
(* psync_fstask_unlink.                                                    *)
(* psync_fstask_stop_and_delete_file: a row in the batch of the upload     *)
(* thread is left to it; else the upload is cancelled, when the file is    *)
(* closed for the last time (12) or at once (11).                          *)
stop_and_delete_file(t) ==
  IF task.id = t THEN rows
  ELSE SetStatus(t, IF OpenOf(ofs, -t) # {} THEN 12 ELSE 11)

mark_openfile_deleted(t) ==
  IF task.id = t THEN ofs
  ELSE [o \in DOMAIN ofs |-> [ofs[o] EXCEPT !.deleted = @ \/ ofs[o].fileid = -t]]

Unlink(fileid, rfileid, status) ==
  [type |-> "unlink", status |-> status, int1 |-> 0, fileid |-> fileid, rfileid |-> rfileid, sfile |-> 0]

(* The server has a file of this name that no row leads to ("orphan").     *)
Unknown(cr) ==
  /\ srv # NoFile /\ srv.id \notin {cr.rfileid, rows[cr.id].sfile} /\ task.id # cr.id
  /\ \A u \in DOMAIN rows : rows[u].type = "unlink" => rows[u].fileid > 0 /\ rows[u].fileid # srv.id

(* An older event has brought back a file that the server has no more, and *)
(* it is this one that the user removes, not the server's ("stale").       *)
Stale(f) == srv # NoFile /\ f.id # srv.id

psync_fstask_unlink ==
  /\ LET t == NewTask IN
       \/ \E f \in table :
            /\ TableVisible
            /\ rows' = With(rows, t, Unlink(f.id, 0, 0))
            /\ unlinks' = unlinks \cup {t}
            /\ odd' = IF Stale(f) THEN odd \cup {"stale"} ELSE odd
            /\ UNCHANGED <<creats, ofs>>
       \/ \E cr \in creats :
            /\ cr.id \in DOMAIN rows
            /\ rows' = With(stop_and_delete_file(cr.id), t, Unlink(-cr.id, cr.rfileid, 11))
            /\ ofs' = mark_openfile_deleted(cr.id)
            /\ creats' = creats \ {cr}
            /\ unlinks' = unlinks \cup {t}
            /\ odd' = IF Unknown(cr) THEN odd \cup {"orphan"} ELSE odd
  /\ wake' = TRUE /\ want' = None
  /\ UNCHANGED <<data, table, fd, rewriting, calls, upload, server, ver, faults, changed>>

(* The task of the entry was given up ("gone"): the unlink cannot depend   *)
(* on it (a foreign key), its transaction fails and the entry is lost.     *)
UnlinkFails ==
  /\ \E cr \in creats :
       /\ cr.id \notin DOMAIN rows
       /\ creats' = creats \ {cr}
       /\ ofs' = mark_openfile_deleted(cr.id)
  /\ UNCHANGED <<rows, data, unlinks, table, fd, rewriting, calls, wake, upload, server, ver, faults,
                 history>>

-----------------------------------------------------------------------------
(* The upload thread.                                                      *)
psync_fsupload_check_tasks ==
  /\ pc = "check"
  /\ LET free == {t \in DOMAIN rows : Oldest(t) /\ rows[t].status \in {0, 11}}
     IN \/ \E t \in free : /\ task' = [id |-> t, row |-> rows[t]]
                           /\ pc' = IF rows[t].status = 11 THEN "cancel" ELSE "send"
        \/ free = {} /\ task' = NoTask /\ pc' = "wait"
  /\ UNCHANGED <<rows, data, overlay, table, memory, wake, answer, server, bounds, history>>

Woken ==
  /\ pc = "wait" /\ wake
  /\ wake' = FALSE /\ pc' = "check"
  /\ UNCHANGED <<rows, data, overlay, table, memory, task, answer, server, bounds, history>>

(* current_upload_batch is cleared, after a failure two seconds later.     *)
EndOfBatch ==
  /\ pc = "end"
  /\ pc' = "wait" /\ task' = NoTask /\ answer' = NoFile
  /\ UNCHANGED <<rows, data, overlay, table, memory, wake, server, bounds, history>>

get_file_writeid(t) ==
  IF OpenOf(ofs, -t) # {} THEN {ofs[o].writeid : o \in OpenOf(ofs, -t)} ELSE {rows[t].int1}

(* psync_send_task_unlink; psync_send_task_creat_upload_small, which fails *)
(* when the writeid is not the row's, and gives up the task and the rows   *)
(* about its file when there is no data file (perm_fail_upload_task): the  *)
(* entry stays in the overlay, and the id may be given again ("gone").     *)
SendUnlink ==
  /\ pc = "send" /\ task.row.type = "unlink"
  /\ pc' = "answer"
  /\ UNCHANGED <<rows, data, overlay, table, memory, wake, task, answer, server, bounds, history>>

SendCreat ==
  /\ pc = "send" /\ task.row.type = "creat"
  /\ \/ /\ task.id \in DOMAIN data /\ task.row.int1 \in get_file_writeid(task.id)
        /\ pc' = "answer" /\ task' = [id |-> task.id, row |-> task.row, content |-> data[task.id]]
        /\ UNCHANGED <<rows, wake, odd>>
     \/ /\ task.id \in DOMAIN data /\ task.row.int1 \notin get_file_writeid(task.id)
        /\ pc' = "end" /\ wake' = TRUE
        /\ UNCHANGED <<rows, task, odd>>
     \/ /\ task.id \notin DOMAIN data
        /\ rows' = Restrict(rows, {u \in DOMAIN rows : u # task.id /\ rows[u].fileid # -task.id})
        /\ pc' = "end" /\ wake' = TRUE
        /\ odd' = odd \cup {"gone"}
        /\ UNCHANGED task
  /\ UNCHANGED <<data, overlay, table, memory, answer, server, bounds, want, changed>>

(* The server, from the requests of the client and the answers it tells    *)
(* apart: uploadfile of an existing name keeps the id.  What it does is    *)
(* also an event, createfile, modifyfile or deletefile.                    *)
Deleted(id) == [id |-> id, content |-> None]

uploadfile ==
  /\ pc = "answer" /\ answer = NoFile /\ task.row.type = "creat"
  /\ LET id == IF srv = NoFile THEN nextid ELSE srv.id
     IN /\ srv' = [id |-> id, content |-> task.content]
        /\ answer' = srv' /\ events' = Append(events, srv')
        /\ nextid' = IF id = nextid THEN nextid + 1 ELSE nextid
  /\ UNCHANGED <<rows, data, overlay, table, memory, wake, pc, task, bounds, history>>

deletefile ==
  /\ pc = "answer" /\ answer = NoFile /\ task.row.type = "unlink"
  /\ LET id == task.row.fileid
     IN \/ /\ srv # NoFile /\ srv.id = id
           /\ srv' = NoFile /\ events' = Append(events, Deleted(id))
           /\ answer' = [id |-> id, content |-> 0]
        \/ /\ srv = NoFile \/ srv.id # id
           /\ answer' = Deleted(id)
           /\ UNCHANGED <<srv, events>>
  /\ UNCHANGED <<rows, data, overlay, table, memory, wake, pc, task, nextid, bounds, history>>

(* err0: no answer.  The server may have done what it was asked.           *)
Failed ==
  /\ pc = "answer" /\ Faulty
  /\ pc' = "end" /\ wake' = TRUE
  /\ UNCHANGED <<rows, data, overlay, table, memory, task, answer, server, ops, ver, history>>

(* pr_del_dep, pr_del_task                                                 *)
Remove(R, t) == Restrict(R, DOMAIN R \ {t})
Wakes(t) == DOMAIN rows # {t}
Renumber(R, f, id) == [u \in DOMAIN R |-> [R[u] EXCEPT !.fileid = IF @ = f THEN id ELSE @]]

M_AnyCreatOfTheName(t) == {}

(* psync_fstask_file_created: the entry of this task leaves the overlay.   *)
WithoutCreat(t) == {cr \in creats : cr.id # t}

M_AcceptByRow(t, w) == rows[t].int1 = w

(* psync_fs_update_openfile: whether the file is still what was sent.      *)
SameWriteid(t, w) == \E x \in get_file_writeid(t) : x = w

update_openfile(t) ==
  [o \in DOMAIN ofs |->
     IF ofs[o].fileid # -t THEN ofs[o]
     ELSE [ofs[o] EXCEPT !.fileid = answer.id, !.modified = FALSE, !.released = FALSE]]

(* psync_process_task_creat.  psync_diff_create_file inserts the file of   *)
(* the answer unless its id is in the table: then the content waits for    *)
(* the event.  It commits the transaction and copies the data file into    *)
(* the page cache before the row is removed in another.                    *)
diff_create_file(f) == IF InTable(f.id) THEN table ELSE table \cup {f}

process_task_creat ==
  /\ pc = "answer" /\ answer # NoFile /\ task.row.type = "creat"
  /\ LET t == task.id
     IN \/ /\ SameWriteid(t, task.row.int1)
           /\ ofs' = update_openfile(t)
           /\ table' = diff_create_file(answer)
           /\ creats' = WithoutCreat(t) /\ unlinks' = unlinks \ {t}
           /\ pc' = "cache"
           /\ changed' = (changed \/ data[t] # task.content)
           /\ UNCHANGED rows
        \/ /\ ~SameWriteid(t, task.row.int1)
           /\ rows' = IF OpenOf(ofs, -t) # {} THEN [rows EXCEPT ![t].sfile = answer.id] ELSE rows
           /\ pc' = "end"
           /\ UNCHANGED <<ofs, table, overlay, changed>>
  /\ UNCHANGED <<data, fd, rewriting, calls, wake, task, answer, server, bounds, want, odd>>

CopyToPageCache ==
  /\ pc = "cache" /\ pc' = "finish"
  /\ data' = Restrict(data, DOMAIN data \ {task.id})
  /\ UNCHANGED <<rows, overlay, table, memory, wake, task, answer, server, bounds, history>>

FinishCreat ==
  /\ pc = "finish" /\ pc' = "end"
  /\ rows' = Renumber(Remove(rows, task.id), -task.id, answer.id)
  /\ wake' = (wake \/ Wakes(task.id))
  /\ UNCHANGED <<data, overlay, table, memory, task, answer, server, bounds, history>>

(* psync_process_task_unlink: a file that does not exist (2009) ends the   *)
(* task but stays in the table.                                            *)
process_task_unlink ==
  /\ pc = "answer" /\ answer # NoFile /\ task.row.type = "unlink"
  /\ table' = IF answer.content # None THEN {f \in table : f.id # answer.id} ELSE table
  /\ unlinks' = unlinks \ {task.id}
  /\ rows' = Remove(rows, task.id) /\ wake' = (wake \/ Wakes(task.id)) /\ pc' = "end"
  /\ UNCHANGED <<data, creats, memory, task, answer, server, bounds, history>>

(* psync_cancel_task_creat: rows about the file get the id the server gave *)
(* it, if it is known.                                                     *)
Cancelled(t) ==
  IF rows[t].sfile # 0 THEN Renumber(Remove(rows, t), -t, rows[t].sfile) ELSE Remove(rows, t)

cancel_task_creat ==
  /\ pc = "cancel" /\ task.row.type = "creat"
  /\ rows' = Cancelled(task.id) /\ wake' = (wake \/ Wakes(task.id)) /\ pc' = "end"
  /\ data' = Restrict(data, DOMAIN data \ {task.id})
  /\ creats' = WithoutCreat(task.id) /\ unlinks' = unlinks \ {task.id}
  /\ UNCHANGED <<table, memory, task, answer, server, bounds, history>>

(* psync_cancel_task_unlink: there is a file of the server to delete, the  *)
(* uploaded one or the one that was modified; or nothing is left to do.    *)
cancel_task_unlink ==
  /\ pc = "cancel" /\ task.row.type = "unlink" /\ pc' = "end"
  /\ LET t == task.id
         of == IF task.row.fileid > 0 THEN task.row.fileid ELSE task.row.rfileid
     IN \/ /\ of # 0
           /\ rows' = [rows EXCEPT ![t].status = 0, ![t].fileid = of]
           /\ wake' = TRUE
           /\ UNCHANGED unlinks
        \/ /\ of = 0
           /\ rows' = Remove(rows, t) /\ wake' = (wake \/ Wakes(t))
           /\ unlinks' = unlinks \ {t}
  /\ UNCHANGED <<data, creats, table, memory, task, answer, server, bounds, history>>

-----------------------------------------------------------------------------
(* process_entries applies the events in their order, however late: to the *)
(* row of their id, after whatever answers were processed meanwhile.  It   *)
(* takes the events of a batch in one transaction, here one after another. *)
M_InsertOrIgnore(e) ==
  IF e.content = None THEN {f \in table : f.id # e.id} ELSE diff_create_file(e)

Applied(e) ==
  {f \in table : f.id # e.id} \cup (IF e.content = None THEN {} ELSE {e})

Diff ==
  /\ events # <<>>
  /\ table' = Applied(Head(events)) /\ events' = Tail(events)
  /\ UNCHANGED <<rows, data, overlay, memory, wake, upload, srv, nextid, bounds, history>>

(* A restart: psync_fstask_init rebuilds the overlay from the rows.        *)
(* Between the two transactions of an accepted upload ("cut") it finds a   *)
(* row of a file that is uploaded already.                                 *)
InitStatus(status) == CASE status = 1 -> 0 [] status = 12 -> 11 [] OTHER -> status

Restart ==
  /\ Faulty
  /\ rows' = [t \in DOMAIN rows |-> [rows[t] EXCEPT !.status = InitStatus(@)]]
  /\ creats' = {[id |-> t, rfileid |-> rows[t].fileid] : t \in {u \in DOMAIN rows :
                   /\ rows[u].type = "creat"
                   /\ \A x \in DOMAIN rows : x > u => rows[x].type = "creat"}}
  /\ unlinks' = DOMAIN rows
  /\ ofs' = <<>> /\ fd' = [h \in Handles |-> 0] /\ rewriting' = {} /\ calls' = {}
  /\ wake' = FALSE /\ pc' = "check" /\ task' = NoTask /\ answer' = NoFile
  /\ odd' = IF pc \in {"cache", "finish"} THEN odd \cup {"cut"} ELSE odd
  /\ UNCHANGED <<data, table, server, ops, ver, want, changed>>

-----------------------------------------------------------------------------
User ==
  \/ /\ Calls
     /\ \/ \E h \in Handles, trunc \in Trunc : Create(h, trunc) \/ OpenPending(h, trunc)
        \/ \E h \in Handles : OpenServerFile(h) \/ Write(h) \/ WriteServerFile(h) \/ Flush(h, FALSE)
        \/ psync_fstask_unlink \/ UnlinkFails
  \/ UNCHANGED ops /\ \E h \in Handles : Flush(h, TRUE)

InCall ==
  \/ \E h \in Handles : psync_fs_reopen_file_for_writing(h)
  \/ \E c \in calls : ReleaseRow(c) \/ RaiseWriteid(c) \/ psync_fs_dec_of_refcnt(c)

Upload ==
  \/ psync_fsupload_check_tasks \/ Woken \/ EndOfBatch \/ SendUnlink \/ SendCreat
  \/ process_task_creat \/ CopyToPageCache \/ FinishCreat \/ process_task_unlink
  \/ cancel_task_creat \/ cancel_task_unlink

Next ==
  \/ User \/ InCall \/ Expire \/ psync_fs_write_timer
  \/ Upload \/ uploadfile \/ deletefile \/ Failed \/ Diff \/ Restart

Spec == Init /\ [][Next]_vars
-----------------------------------------------------------------------------
(* Properties.                                                             *)

(* An open file has a reference for every handle, for the write timer and  *)
(* for every call that will give one back: nobody uses one that was freed, *)
(* and none stays. While it is not uploaded it has its row, its data file  *)
(* and no cancel under way: what psync_fsupload_stop_upload_locked asserts *)
(* when it updates the row (unless ids of lost files were given again).    *)
OpenFilesOK ==
  /\ \A h \in Handles : fd[h] # 0 => fd[h] \in DOMAIN ofs
  /\ \A c \in calls : c.of \in DOMAIN ofs
  /\ \A o \in DOMAIN ofs :
       LET t == -ofs[o].fileid
       IN /\ ofs[o].refcnt = Cardinality({h \in Handles : fd[h] = o})
                             + Cardinality({c \in calls : c.of = o /\ c.drop})
                             + (IF ofs[o].timer # "none" THEN 1 ELSE 0)
          /\ t > 0 /\ "gone" \notin odd =>
               /\ t \in DOMAIN rows /\ rows[t].type = "creat" /\ rows[t].status # 11
               /\ t \in DOMAIN data

(* A file that changed while it was being uploaded is not taken for        *)
(* uploaded (pfsupload.c:1201); that is so but for the two ways to change  *)
(* it under the write id that is uploaded, and ids that were given again.  *)
ChangedFails == ~changed

ChangedFailsUnlessRaced == {"raced", "late", "gone"} \cap odd = {} => ~changed

(* While a task is left, the user finds under the name what he last made   *)
(* it hold, pending or being uploaded, across restarts.  When none is left *)
(* the server has it, and the name finds the server's file, though events  *)
(* on their way may give it an older content or put an older file beside   *)
(* it; when all have come, there is just the server's file.                *)
ShowsWant ==
  odd = {} =>
    IF creats # {} THEN \A cr \in creats : cr.id \in DOMAIN data /\ data[cr.id] = want
    ELSE IF unlinks # {} THEN want = None
    ELSE /\ srv.content = want
         /\ srv # NoFile => InTable(srv.id)
         /\ events = <<>> => table = {srv} \ {NoFile}

(* Answers processed before older events undo nothing for good: of every   *)
(* id, the last event on its way tells what the server has, and where none *)
(* is, the table does, whatever was uploaded, deleted, answered or lost.   *)
ServerHas(id) == IF srv.id = id THEN srv ELSE Deleted(id)
EventsOf(id) == {i \in DOMAIN events : events[i].id = id}

CatchesUp ==
  \A id \in 1 .. nextid - 1 :
    IF EventsOf(id) = {}
    THEN {f \in table : f.id = id} = {ServerHas(id)} \ {Deleted(id)}
    ELSE \E i \in EventsOf(id) :
           events[i] = ServerHas(id) /\ \A j \in EventsOf(id) : j <= i

(* When all is closed and the upload thread sleeps, nothing is left to do  *)
(* and the server has what the user made.                                  *)
AtRest == pc = "wait" /\ ~wake /\ DOMAIN ofs = {}
Arrives == AtRest /\ odd = {} => rows = <<>> /\ srv.content = want
=============================================================================
