------------------------------- MODULE PUpload -------------------------------
(***************************************************************************)
(* The uploads of a synced folder (pupload.c) and the scan that finds what *)
(* to upload (plocalscan.c). The scan compares the disk with the table     *)
(* localfile and writes tasks; the upload thread takes them in order and   *)
(* starts a thread for each upload, several at once; before it deletes a   *)
(* remote file it waits until nothing is being uploaded. A change that the *)
(* scan finds deletes the file's tasks and tells its uploads to stop.      *)
(*                                                                         *)
(* The folder is one that only uploads, its files are small, and they are  *)
(* not renamed by the user. A conflict renames a file.                     *)
(***************************************************************************)
EXTENDS Naturals, FiniteSetsExt, Functions

CONSTANTS
    Names,         \* 1..n, so that a conflicted copy gets a later name
    Files,         \* the names of the files that the user makes
    Contents, Uploaders,
    MaxParallel,   \* PSYNC_MAX_PARALLEL_UPLOADS
    MaxChanges,    \* what the user changes
    MaxFaults      \* broken connections, refusals, restarts, uploads of the drive, together

VARIABLES
    disk,           \* the local folder
    localfile, lastlocal,   \* the table and its last id (AUTOINCREMENT)
    task,           \* the table: upload and delete tasks
    file,           \* the table of what the server told us it has
    server, lastfile,
    lists,          \* what the scan has found and not yet committed
    at, cur,        \* the upload thread, the row it has read and its element of uploads
    wakes,          \* upload_wakes
    up,             \* the list uploads, with a thread for each element
    filesuploading,
    drive, loaded,  \* an upload of the drive, and the counter as it read it
    odd,            \* events after which the folders are known to disagree
    nchanges, nfaults

scanVars == <<disk, localfile, lastlocal, task, file, server, lastfile, lists>>
threadVars == <<at, cur, wakes, up, filesuploading>>
driveVars == <<drive, loaded>>
counters == <<nchanges, nfaults>>
vars == <<scanVars, threadVars, driveVars, odd, counters>>

Absent == [content |-> 0, mtime |-> 0]
NoFile == [fileid |-> 0, content |-> 0]
NoLists == [new |-> {}, mod |-> {}, del |-> {}]
NoTask == [id |-> 0, type |-> "none", item |-> 0, name |-> 0, slot |-> 0, gone |-> FALSE]
FreeSlot == [step |-> "free", task |-> 0, lf |-> 0, name |-> 0, path |-> 0, stop |-> FALSE,
             hash |-> 0, ifhash |-> 0, sent |-> 0, ans |-> [name |-> 0, fileid |-> 0], gone |-> FALSE]

Without(f, S) == Restrict(f, DOMAIN f \ S)
With(f, x, y) == [z \in DOMAIN f \cup {x} |-> IF z = x THEN y ELSE f[z]]
NamesOnDisk == {n \in Names : disk[n] # Absent}
Named(n) == {l \in DOMAIN localfile : localfile[l].name = n}

(* The id of a new row: the table task is not AUTOINCREMENT, so it is one   *)
(* more than the largest in use.                                            *)
NextTask(t) == 1 + Max({0} \cup DOMAIN t)
UploadRow(l, n) == [type |-> "upload", item |-> l, name |-> n, inprogress |-> FALSE]
DeleteRow(f) == [type |-> "delete", item |-> f, name |-> 0, inprogress |-> FALSE]
UploadsOf(t, l) == {i \in DOMAIN t : t[i].type = "upload" /\ t[i].item = l}

Listed(u) == up[u].step # "free"
(* The upload thread has looked at filesuploading and holds the mutex       *)
(* current_uploads_mutex until it sleeps.                                   *)
Going == at \in {"to slot", "to nouploads"}
Fault == nfaults < MaxFaults /\ nfaults' = nfaults + 1

(* filesuploading is a uint32_t; Huge stands for its largest value.         *)
Huge == 1000000
Dec(x) == IF x = 0 THEN Huge ELSE x - 1
Inc(x) == IF x = Huge THEN 0 ELSE x + 1

Init ==
    /\ disk = [n \in Names |-> Absent] /\ server = [n \in Names |-> NoFile] /\ file = server
    /\ localfile = <<>> /\ task = <<>> /\ lastlocal = 0 /\ lastfile = 0
    /\ lists = NoLists
    /\ at = "idle" /\ cur = NoTask /\ wakes = FALSE
    /\ up = [u \in Uploaders |-> FreeSlot] /\ filesuploading = 0
    /\ drive = "none" /\ loaded = 0
    /\ odd = {} /\ nchanges = 0 /\ nfaults = 0

-----------------------------------------------------------------------------
(* The user. *)
change(n, c) ==
    /\ nchanges < MaxChanges
    /\ n \in Files \cup NamesOnDisk /\ disk[n].content # c
    /\ disk' = [disk EXCEPT ![n] = [content |-> c, mtime |-> nchanges + 1]]
    /\ nchanges' = nchanges + 1
    /\ UNCHANGED <<localfile, lastlocal, task, file, server, lastfile, lists, threadVars, driveVars, odd, nfaults>>

remove(n) ==
    /\ nchanges < MaxChanges /\ n \in NamesOnDisk
    /\ disk' = [disk EXCEPT ![n] = Absent]
    /\ nchanges' = nchanges + 1
    /\ UNCHANGED <<localfile, lastlocal, task, file, server, lastfile, lists, threadVars, driveVars, odd, nfaults>>

-----------------------------------------------------------------------------
(* The scan reads the disk and the table, *)
Differences ==
    [new |-> {<<n, disk[n].mtime>> : n \in {m \in NamesOnDisk : Named(m) = {}}},
     mod |-> {<<l, localfile[l].name, disk[localfile[l].name].mtime>> :
                l \in {k \in DOMAIN localfile : disk[localfile[k].name].mtime \notin {0, localfile[k].mtime}}},
     del |-> {l \in DOMAIN localfile : disk[localfile[l].name] = Absent}]

scanner_scan_folder ==
    /\ lists = NoLists /\ Differences # NoLists
    /\ lists' = Differences
    /\ UNCHANGED <<disk, localfile, lastlocal, task, file, server, lastfile, threadVars, driveVars, odd, counters>>

(* and then writes what it has found, in one transaction, of which d is the *)
(* part of the database that changes.                                       *)
delete_upload_tasks(d, l) == [d EXCEPT !.task = Without(@, UploadsOf(@, l))]

scan_upload_file(e, d) ==
    IF \E l \in DOMAIN d.localfile : d.localfile[l].name = e[1] THEN d ELSE
    LET l == d.last + 1
    IN [last |-> l,
        localfile |-> With(d.localfile, l, [name |-> e[1], fileid |-> 0, hash |-> 0, mtime |-> e[2]]),
        task |-> With(d.task, NextTask(d.task), UploadRow(l, e[1]))]

(* Not the code: a changed file gets no new task.                           *)
M_NoTaskForChange(e, d) ==
    [delete_upload_tasks(d, e[1]) EXCEPT
        !.localfile = IF e[1] \in DOMAIN @ THEN [@ EXCEPT ![e[1]].mtime = e[3]] ELSE @]

scan_upload_modified_file(e, d) ==
    LET t == delete_upload_tasks(d, e[1]).task
    IN [d EXCEPT !.localfile = IF e[1] \in DOMAIN @ THEN [@ EXCEPT ![e[1]].mtime = e[3]] ELSE @,
                 !.task = With(t, NextTask(t), UploadRow(e[1], e[2]))]

scan_delete_file(l, d) ==
    IF l \notin DOMAIN d.localfile THEN d ELSE
    LET t == delete_upload_tasks(d, l).task
        f == d.localfile[l].fileid
    IN [d EXCEPT !.localfile = Without(@, {l}),
                 !.task = IF f = 0 THEN t ELSE With(t, NextTask(t), DeleteRow(f))]

(* A row that is deleted while the server has a file that was uploaded for  *)
(* it, but whose fileid the row does not have: the file stays.              *)
Forgets(l) == server[localfile[l].name].fileid \notin {0, localfile[l].fileid}

Commit ==
    LET d0 == [localfile |-> localfile, last |-> lastlocal, task |-> task]
        d1 == FoldSet(scan_upload_file, d0, lists.new)
        d2 == FoldSet(scan_upload_modified_file, d1, lists.mod)
    IN FoldSet(scan_delete_file, d2, lists.del)

(* psync_delete_upload_tasks_for_file: the uploads of the file shall stop.  *)
Touched == {e[1] : e \in lists.mod} \cup lists.del
Deleted == UNION {UploadsOf(task, l) : l \in Touched}

scanner_scan ==
    /\ lists # NoLists /\ ~Going
    /\ localfile' = Commit.localfile /\ lastlocal' = Commit.last /\ task' = Commit.task
    /\ up' = [u \in Uploaders |->
                [up[u] EXCEPT !.stop = @ \/ (Listed(u) /\ up[u].lf \in Touched),
                              !.gone = @ \/ (Listed(u) /\ up[u].task \in Deleted)]]
    /\ cur' = [cur EXCEPT !.gone = @ \/ cur.id \in Deleted]
    /\ odd' = IF \E l \in lists.del \cap DOMAIN localfile : Forgets(l) THEN odd \cup {"orphan"} ELSE odd
    /\ wakes' = TRUE /\ lists' = NoLists
    /\ UNCHANGED <<disk, file, server, lastfile, at, filesuploading, driveVars, counters>>

Scanner == scanner_scan_folder \/ scanner_scan

(* pdiff.c: the events of the server arrive, some time.                     *)
process_events ==
    /\ file # server
    /\ file' = server
    /\ UNCHANGED <<disk, localfile, lastlocal, task, server, lastfile, lists, threadVars, driveVars, odd, counters>>

-----------------------------------------------------------------------------
(* The upload thread.                                                      *)
thread(a) == at' = a
keepRest == UNCHANGED <<disk, file, lastlocal, lastfile, lists, driveVars, nchanges>>
keepThread == UNCHANGED <<file, lastlocal, lists, at, cur, filesuploading, driveVars, nchanges>>

(* A row is deleted by its id, which may by now be that of another row.     *)
GoneFrom(U, i) == [u \in Uploaders |-> [U[u] EXCEPT !.gone = @ \/ U[u].task = i]]
DeleteTask(i, wasGone) ==
    /\ task' = Without(task, {i})
    /\ odd' = IF wasGone /\ i \in DOMAIN task THEN odd \cup {"reused"} ELSE odd
InProgress(i, b) == task' = IF i \in DOMAIN task THEN [task EXCEPT ![i].inprogress = b] ELSE task

upload_thread ==
    LET ready == {i \in DOMAIN task : ~task[i].inprogress}
        i == Min(ready)
    IN /\ \/ /\ at = "idle" /\ ready = {}
             /\ thread("asleep") /\ UNCHANGED <<cur, wakes>>
          \/ /\ at = "asleep" /\ wakes
             /\ wakes' = FALSE /\ thread("idle") /\ UNCHANGED cur
          \/ /\ at = "idle" /\ ready # {}
             /\ cur' = [id |-> i, type |-> task[i].type, item |-> task[i].item,
                        name |-> task[i].name, slot |-> 0, gone |-> FALSE]
             /\ thread(IF task[i].type = "upload" THEN "upload" ELSE "no uploads?")
             /\ UNCHANGED wakes
       /\ UNCHANGED <<task, localfile, server, up, filesuploading, odd, nfaults>> /\ keepRest

(* An upload task: the row is marked, *)
mark_uploadfile ==
    /\ at = "upload"
    /\ IF cur.item \in DOMAIN localfile
       THEN InProgress(cur.id, TRUE) /\ thread("list") /\ UNCHANGED <<odd, cur, up>>
       ELSE /\ DeleteTask(cur.id, cur.gone) /\ up' = GoneFrom(up, cur.id)
            /\ thread("idle") /\ cur' = NoTask
    /\ UNCHANGED <<localfile, server, wakes, filesuploading, nfaults>> /\ keepRest

(* and an element added to uploads, which a thread takes when there is room.*)
(* The element is for the row that now has the id, if it is of the file.    *)
Room == filesuploading < MaxParallel
list_uploadfile ==
    LET u == Min({v \in Uploaders : ~Listed(v)})
        l == [FreeSlot EXCEPT !.step = IF Room THEN "start" ELSE "waits", !.task = cur.id,
                              !.lf = cur.item, !.name = cur.name,
                              !.gone = cur.id \notin UploadsOf(task, cur.item)]
    IN /\ at = "list" /\ \E v \in Uploaders : ~Listed(v)
       /\ up' = [up EXCEPT ![u] = l]
       /\ IF Room THEN /\ filesuploading' = Inc(filesuploading)
                       /\ thread("idle") /\ cur' = NoTask
                  ELSE thread("to slot") /\ cur' = [cur EXCEPT !.slot = u] /\ UNCHANGED filesuploading
       /\ UNCHANGED <<task, localfile, server, wakes, odd, nfaults>> /\ keepRest

(* The thread sleeps; when it wakes it looks again.                         *)
sleep ==
    /\ Going /\ thread(IF at = "to slot" THEN "slot" ELSE "nouploads")
    /\ UNCHANGED <<task, localfile, server, cur, wakes, up, filesuploading, odd, nfaults>> /\ keepRest

slot_again ==
    /\ at = "slot?"
    /\ \/ /\ up[cur.slot].stop
          /\ up' = [up EXCEPT ![cur.slot] = FreeSlot]
          /\ InProgress(cur.id, FALSE) /\ thread("idle") /\ cur' = NoTask
          /\ UNCHANGED filesuploading
       \/ /\ ~up[cur.slot].stop /\ Room
          /\ up' = [up EXCEPT ![cur.slot].step = "start"]
          /\ filesuploading' = Inc(filesuploading) /\ thread("idle") /\ cur' = NoTask
          /\ UNCHANGED task
       \/ /\ ~up[cur.slot].stop /\ ~Room
          /\ thread("to slot") /\ UNCHANGED <<task, cur, up, filesuploading>>
    /\ UNCHANGED <<localfile, server, wakes, odd, nfaults>> /\ keepRest

(* A delete task waits until nothing is being uploaded, and fails if an     *)
(* upload that came before it is still to be done.                          *)
task_wait_no_uploads ==
    /\ at = "no uploads?"
    /\ IF filesuploading # 0 THEN thread("to nouploads") /\ UNCHANGED cur
       ELSE IF \E i \in DOMAIN task : i < cur.id /\ task[i].type = "upload"
            THEN thread("idle") /\ cur' = NoTask
            ELSE thread("delete") /\ UNCHANGED cur
    /\ UNCHANGED <<task, localfile, server, wakes, up, filesuploading, odd, nfaults>> /\ keepRest

(* The request or its answer may be lost, or the server may refuse it for   *)
(* now; then the task is tried again. A refusal for good is taken for       *)
(* success (psync_handle_api_result).                                       *)
ServerHas(f) == \E n \in Names : server[n].fileid = f

task_deletefile ==
    /\ at = "delete"
    /\ \/ Fault /\ UNCHANGED <<server, odd>> /\ thread("idle") /\ cur' = NoTask
       \/ /\ server' = [n \in Names |-> IF server[n].fileid = cur.item THEN NoFile ELSE server[n]]
          /\ \/ thread("deleted") /\ UNCHANGED <<cur, nfaults>>
             \/ Fault /\ thread("idle") /\ cur' = NoTask
          /\ UNCHANGED odd
       \/ /\ ServerHas(cur.item) /\ Fault /\ odd' = odd \cup {"refused"}
          /\ thread("deleted") /\ UNCHANGED <<server, cur>>
    /\ UNCHANGED <<task, localfile, wakes, up, filesuploading>> /\ keepRest

delete_done ==
    /\ at = "deleted"
    /\ DeleteTask(cur.id, cur.gone) /\ up' = GoneFrom(up, cur.id)
    /\ thread("idle") /\ cur' = NoTask
    /\ UNCHANGED <<localfile, server, wakes, filesuploading, nfaults>> /\ keepRest

UploadThread ==
    \/ upload_thread \/ mark_uploadfile \/ list_uploadfile \/ sleep \/ slot_again
    \/ task_wait_no_uploads \/ task_deletefile \/ delete_done

-----------------------------------------------------------------------------
(* A thread that uploads one file: task_uploadfile in its steps, of which   *)
(* every one may end the upload, "ok" (the task is done) or "fail" (it is   *)
(* tried again).                                                            *)
to(u, step) == up' = [up EXCEPT ![u].step = step]
At(u, step) == up[u].step = step
NoRow(u) == up[u].lf \notin DOMAIN localfile

task_uploadfile(u) ==
    LET n == localfile[up[u].lf].name IN
    /\ At(u, "start")
    /\ \/ /\ up[u].stop /\ to(u, "fail") /\ UNCHANGED <<localfile, odd>>
       \/ /\ ~up[u].stop /\ NoRow(u) /\ to(u, "ok") /\ UNCHANGED <<localfile, odd>>
       \/ /\ ~up[u].stop /\ ~NoRow(u) /\ \E v \in Uploaders : up[v].path = n  \* psync_lock_file
          /\ to(u, "fail") /\ UNCHANGED <<localfile, odd>>
       \/ /\ ~up[u].stop /\ ~NoRow(u) /\ \A v \in Uploaders : up[v].path # n
          /\ IF disk[n] = Absent
             THEN /\ localfile' = Without(localfile, {up[u].lf}) /\ to(u, "ok")
                  /\ odd' = IF localfile[up[u].lf].fileid = 0 /\ ~Forgets(up[u].lf) THEN odd
                          ELSE odd \cup {"orphan"}
             ELSE /\ up' = [up EXCEPT ![u].step = "checked", ![u].path = n, ![u].hash = disk[n].content]
                  /\ UNCHANGED <<localfile, odd>>
    /\ UNCHANGED <<disk, task, server, lastfile, wakes, nfaults>> /\ keepThread

(* Is it there already? The client compares with the checksum it has of     *)
(* what the table file says, or asks the server for that of the fileid,     *)
(* which may be gone, and which may not answer or refuse.                   *)
RemoteChecksums(f) ==
    {f.content} \cup {server[n].content : n \in {m \in Names : server[m].fileid = f.fileid}}

check_file_if_exists(u) ==
    LET f == file[up[u].name]
        found == f.fileid # 0 /\ up[u].hash \in RemoteChecksums(f)
        missed == ~found \/ RemoteChecksums(f) # {up[u].hash} \/ ~ServerHas(f.fileid)
        ready == up' = [up EXCEPT ![u].step = "ready", ![u].ifhash = localfile[up[u].lf].hash]
    IN /\ At(u, "checked")
       /\ \/ NoRow(u) /\ to(u, "ok") /\ UNCHANGED <<localfile, odd, nfaults>>
          \/ /\ ~NoRow(u) /\ found /\ to(u, "ok")
             /\ localfile' = [localfile EXCEPT ![up[u].lf].fileid = f.fileid, ![up[u].lf].hash = up[u].hash]
             /\ odd' = IF server[up[u].name] = [f EXCEPT !.content = up[u].hash] THEN odd
                       ELSE odd \cup {"stale"}
             /\ UNCHANGED nfaults
          \/ ~NoRow(u) /\ missed /\ ready /\ UNCHANGED <<localfile, odd, nfaults>>
          \/ ~NoRow(u) /\ f.fileid # 0 /\ Fault /\ (to(u, "fail") \/ ready) /\ UNCHANGED <<localfile, odd>>
       /\ UNCHANGED <<disk, task, server, lastfile, wakes>> /\ keepThread

(* What is read and sent need not be what was hashed.                       *)
upload_file(u) ==
    /\ At(u, "ready")
    /\ IF up[u].stop \/ disk[up[u].path] = Absent THEN to(u, "fail")
       ELSE up' = [up EXCEPT ![u].step = "sent", ![u].sent = disk[up[u].path].content]
    /\ UNCHANGED <<disk, localfile, task, server, lastfile, wakes, odd, nfaults>> /\ keepThread

(* The server: it saves the file unless it has one the client did not know; *)
(* then it gives it another name.                                           *)
server_uploadfile(u) ==
    LET n == up[u].name
        s == server[n]
        free == {m \in Names : m > n /\ server[m] = NoFile}
        agrees == s = NoFile \/ s.content = up[u].ifhash
        to_ == IF agrees THEN n ELSE Min(free)
        id == IF agrees /\ s # NoFile THEN s.fileid ELSE lastfile + 1
    IN /\ At(u, "sent") /\ (agrees \/ free # {})
       /\ server' = [server EXCEPT ![to_] = [fileid |-> id, content |-> up[u].sent]]
       /\ lastfile' = Max({id, lastfile})
       /\ up' = [up EXCEPT ![u].step = "saved", ![u].ans = [name |-> to_, fileid |-> id]]
       /\ odd' = odd \cup (IF NoRow(u) THEN {"orphan"} ELSE {})
                      \cup (IF agrees THEN {} ELSE {"conflict"})
       /\ UNCHANGED <<disk, localfile, task, wakes, nfaults>> /\ keepThread

(* The server refuses it: for now, and it is tried again; or for good, and  *)
(* the task is done although nothing was saved.                             *)
uploadfile_refused(u) ==
    /\ At(u, "sent") /\ Fault
    /\ \/ to(u, "fail") /\ UNCHANGED odd
       \/ to(u, "ok") /\ odd' = odd \cup {"refused"}
    /\ UNCHANGED <<disk, localfile, task, server, lastfile, wakes>> /\ keepThread

(* The connection breaks.                                                   *)
get_result_lost(u) ==
    /\ up[u].step \in {"sent", "saved"} /\ Fault /\ to(u, "fail")
    /\ UNCHANGED <<disk, localfile, task, server, lastfile, wakes, odd>> /\ keepThread

set_local_file_conflicted(u) ==
    LET n == up[u].ans.name
        l == up[u].lf
    IN IF disk[up[u].path] = Absent \/ NoRow(u) \/ Named(n) # {} THEN UNCHANGED <<disk, localfile, task>>
       ELSE /\ disk' = [disk EXCEPT ![n] = disk[up[u].path], ![up[u].path] = Absent]
            /\ localfile' = [localfile EXCEPT ![l] = [@ EXCEPT !.fileid = up[u].ans.fileid,
                                                              !.hash = up[u].sent, !.name = n]]
            /\ task' = IF up[u].task \in DOMAIN task THEN [task EXCEPT ![up[u].task].name = n] ELSE task

set_local_file_remote_id(u) ==
    /\ localfile' = IF NoRow(u) THEN localfile
                    ELSE [localfile EXCEPT ![up[u].lf].fileid = up[u].ans.fileid,
                                           ![up[u].lf].hash = up[u].sent]
    /\ UNCHANGED <<disk, task>>

uploadfile_answered(u) ==
    /\ At(u, "saved")
    /\ IF up[u].ans.name # up[u].name
       THEN set_local_file_conflicted(u) ELSE set_local_file_remote_id(u)
    /\ to(u, IF up[u].sent = up[u].hash THEN "ok" ELSE "fail")
    /\ UNCHANGED <<server, lastfile, wakes, odd, nfaults>> /\ keepThread

(* The end of the thread: the row, *)
task_run_upload_file_thread(u) ==
    /\ \/ /\ At(u, "ok")
          /\ DeleteTask(up[u].task, up[u].gone)
          /\ up' = [GoneFrom(up, up[u].task) EXCEPT ![u].step = "ends", ![u].path = 0]
          /\ cur' = [cur EXCEPT !.gone = @ \/ cur.id = up[u].task]
          /\ UNCHANGED wakes
       \/ /\ At(u, "fail")
          /\ InProgress(up[u].task, FALSE) /\ wakes' = TRUE
          /\ up' = [up EXCEPT ![u].step = "ends", ![u].path = 0]
          /\ UNCHANGED <<cur, odd>>
    /\ UNCHANGED <<disk, localfile, lastlocal, file, server, lastfile, lists, at, filesuploading, driveVars, counters>>

(* and the counter and the list, under current_uploads_mutex.               *)
(* Not the code: only the thread that waits for all uploads is woken.       *)
M_WakesNoSlot(x) == at' = IF x = 0 /\ at = "nouploads" THEN "no uploads?" ELSE at

wake_upload_when_ready(x) ==
    at' = IF x >= MaxParallel THEN at
          ELSE IF at = "slot" THEN "slot?" ELSE IF at = "nouploads" THEN "no uploads?" ELSE at

upload_ends(u) ==
    /\ At(u, "ends") /\ ~Going
    /\ up' = [up EXCEPT ![u] = FreeSlot]
    /\ filesuploading' = Dec(filesuploading)
    /\ wake_upload_when_ready(filesuploading')
    /\ UNCHANGED <<scanVars, cur, wakes, driveVars, odd, counters>>

Uploader(u) ==
    \/ task_uploadfile(u) \/ check_file_if_exists(u) \/ upload_file(u)
    \/ server_uploadfile(u) \/ uploadfile_refused(u) \/ get_result_lost(u)
    \/ uploadfile_answered(u) \/ task_run_upload_file_thread(u) \/ upload_ends(u)

-----------------------------------------------------------------------------
(* pfsupload.c counts an upload of the drive in the same filesuploading,    *)
(* but under another mutex, upload_mutex: what the upload thread and its    *)
(* uploads write in between is lost, and the wake of the last one is too    *)
(* when the upload thread is about to sleep.                                *)
keepDrive == UNCHANGED <<scanVars, cur, wakes, up, nchanges>>

drive_load ==
    /\ \/ drive = "none" /\ Fault /\ drive' = "inc"
       \/ drive = "uploads" /\ drive' = "dec" /\ UNCHANGED nfaults
    /\ loaded' = filesuploading
    /\ UNCHANGED <<at, filesuploading, odd>> /\ keepDrive

drive_store ==
    LET x == IF drive = "inc" THEN Inc(loaded) ELSE Dec(loaded)
        last == drive = "dec" /\ x = 0
    IN /\ drive \in {"inc", "dec"}
       /\ filesuploading' = x /\ loaded' = 0
       /\ drive' = (IF drive = "inc" THEN "uploads" ELSE "none")
       /\ IF last THEN wake_upload_when_ready(0) ELSE UNCHANGED at
       /\ odd' = IF filesuploading # loaded \/ (last /\ Going) THEN odd \cup {"raced"} ELSE odd
       /\ UNCHANGED nfaults /\ keepDrive

DriveUpload == drive_load \/ drive_store

(* The program ends at any moment and is started again (psynclib.c).        *)
restart ==
    /\ Fault
    /\ task' = [i \in DOMAIN task |-> [task[i] EXCEPT !.inprogress = FALSE]]
    /\ lists' = NoLists /\ at' = "idle" /\ cur' = NoTask /\ wakes' = FALSE
    /\ up' = [u \in Uploaders |-> FreeSlot] /\ filesuploading' = 0
    /\ drive' = "none" /\ loaded' = 0
    /\ UNCHANGED <<disk, localfile, lastlocal, file, server, lastfile, odd, nchanges>>

Next ==
    \/ \E n \in Names : remove(n) \/ \E c \in Contents : change(n, c)
    \/ Scanner \/ process_events
    \/ UploadThread \/ \E u \in Uploaders : Uploader(u)
    \/ DriveUpload \/ restart

(* Every thread goes on, and the events of the server arrive. A mutex is    *)
(* not refused to a thread for ever.                                        *)
Fairness ==
    /\ WF_vars(Scanner) /\ WF_vars(process_events)
    /\ WF_vars(UploadThread) /\ \A u \in Uploaders : WF_vars(Uploader(u))
    /\ WF_vars(drive # "none" /\ DriveUpload)

Spec == Init /\ [][Next]_vars /\ Fairness

-----------------------------------------------------------------------------
Quiet ==
    /\ task = <<>> /\ lists = NoLists /\ Differences = NoLists /\ file = server
    /\ \A u \in Uploaders : ~Listed(u)
InSync == \A n \in Names : server[n].content = disk[n].content

(* When the scan finds nothing, no task is left and nothing is uploading,   *)
(* the server has what the disk has, however changes, uploads, deletions,   *)
(* broken connections and restarts interleaved. Known to break it: the id   *)
(* of a task used again; a file skipped because of what an older event      *)
(* said; a file saved by the server that the client forgot; a conflict; an  *)
(* upload or a deletion that the server refuses for good, whose task ends.  *)
Uploaded == Quiet /\ odd \subseteq {"raced"} => InSync

(* psynclib.h says of filestoupload, which counts the upload tasks, that it *)
(* is the number of files to upload in order to sync state.                 *)
NoTasksInSync == Quiet /\ odd \subseteq {"raced", "reused"} => InSync

(* When the user has stopped, every task ends: no wake of the upload thread *)
(* is lost, and nothing waits for ever for room or for uploads to end,      *)
(* unless the drive's upload raced.                                         *)
UploadsEnd == <>[](task = <<>> \/ "raced" \in odd)
=============================================================================
