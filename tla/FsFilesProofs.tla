---------------------------- MODULE FsFilesProofs ----------------------------
(***************************************************************************)
(* What holds of the open files of the drive for any number of handles,    *)
(* open files, calls, broken connections and restarts: nobody uses a freed *)
(* open file and none stays; a file that waits for its upload keeps its    *)
(* row, its data file and no cancel under way; an upload is accepted only  *)
(* with the content the file still has; the user finds under the name what *)
(* he last made it hold until the server has it, and the events that come  *)
(* late leave in the table what the server has; and when all is closed and *)
(* the upload thread sleeps, no task is left.                              *)
(***************************************************************************)
EXTENDS FsFiles, FiniteSetTheorems, TLAPS

Steps == {"check", "wait", "send", "cancel", "answer", "cache", "finish", "end"}
Working == {"send", "cancel", "answer", "cache", "finish"}
Row == [type : {"creat", "unlink"}, status : {0, 1, 11, 12}, int1 : Nat, fileid : Int,
        rfileid : Int, sfile : Int]
OpenFile == [fileid : Int, writeid : Nat, modified : BOOLEAN, released : BOOLEAN,
             deleted : BOOLEAN, refcnt : Int, timer : {"none", "set", "running"}]
FileCall == [by : Handles \cup {Timer}, of : 1 .. MaxOpen, writeid : Nat,
             step : {"status", "writeid", "drop"}, drop : BOOLEAN]

TableTypes ==
  /\ rows \in [DOMAIN rows -> Row]
  /\ DOMAIN rows \subseteq Nat \ {0} /\ IsFiniteSet(DOMAIN rows)
  /\ creats \subseteq [id : Nat \ {0}, rfileid : Int]
  /\ srv.id \in Nat /\ nextid \in Nat
  /\ pc \in Steps /\ answer.id \in Int
  /\ pc \in Working => task.id \in DOMAIN rows /\ task.row \in Row

MemoryTypes ==
  /\ ofs \in [DOMAIN ofs -> OpenFile] /\ DOMAIN ofs \subseteq 1 .. MaxOpen
  /\ fd \in [Handles -> 0 .. MaxOpen] /\ rewriting \subseteq Handles
  /\ calls \subseteq FileCall /\ IsFiniteSet(calls)

-----------------------------------------------------------------------------
(* References.  A call that gives none back belongs to a handle that stays *)
(* open; no two calls are one element of the set calls.                    *)
Same(c, d) == c.by = d.by /\ (c.by \in Handles \/ (c.of = d.of /\ c.writeid = d.writeid))

CallInv(c) ==
  /\ c.of \in DOMAIN ofs
  /\ c.step = "drop" => c.drop
  /\ ~c.drop => c.by \in Handles /\ fd[c.by] = c.of
  /\ c.by = Timer => /\ c.writeid <= ofs[c.of].writeid
                     /\ ofs[c.of].timer # "none" => c.writeid < ofs[c.of].writeid

HandlesOf(o) == {h \in Handles : fd[h] = o}
DropsOf(o) == {c \in calls : c.of = o /\ c.drop}
Referenced(o) ==
  ofs[o].refcnt = Cardinality(HandlesOf(o)) + Cardinality(DropsOf(o))
                  + (IF ofs[o].timer # "none" THEN 1 ELSE 0)

References ==
  /\ \A h \in Handles : fd[h] # 0 => fd[h] \in DOMAIN ofs
  /\ \A h \in rewriting : fd[h] # 0
  /\ \A c \in calls : CallInv(c)
  /\ \A c, d \in calls : Same(c, d) => c = d
  /\ \A o \in DOMAIN ofs : Referenced(o)

-----------------------------------------------------------------------------
(* Rows.  A row that is being cancelled, or will be, has a younger unlink; *)
(* the upload thread works on the oldest.                                  *)
Kept(o) ==
  LET t == -ofs[o].fileid
  IN t > 0 => t \in DOMAIN rows /\ rows[t].type = "creat" /\ rows[t].status # 11 /\ t \in DOMAIN data

Entry(cr) ==
  /\ cr.id \in DOMAIN rows /\ rows[cr.id].type = "creat" /\ rows[cr.id].status \notin {11, 12}
  /\ \A dr \in creats : dr.id = cr.id => dr = cr

Unlinked(t) ==
  rows[t].type = "creat" /\ rows[t].status \in {11, 12} =>
    \E u \in DOMAIN rows : u > t /\ rows[u].type = "unlink" /\ rows[u].fileid = -t

Batch ==
  /\ pc \in Working => Oldest(task.id) /\ task.row.type = rows[task.id].type
  /\ pc = "cancel" => rows[task.id].status = 11
  /\ pc \in {"cache", "finish"} =>
       /\ task.row.type = "creat"
       /\ OpenOf(ofs, -task.id) = {} /\ \A cr \in creats : cr.id # task.id

(* The id of an uploaded file is one of the server's.                      *)
Answered ==
  /\ pc \in {"check", "wait"} => answer.id \in Nat
  /\ pc \in {"send", "answer"} /\ task.row.type = "creat" => answer.id \in Nat

RowsKept ==
  /\ \A o \in DOMAIN ofs : Kept(o)
  /\ \A o, p \in DOMAIN ofs : ofs[o].fileid = ofs[p].fileid /\ ofs[o].fileid < 0 => o = p
  /\ \A cr \in creats : Entry(cr)
  /\ \A t \in DOMAIN rows : Unlinked(t)
  /\ Batch

FilesInv ==
  /\ TableTypes /\ MemoryTypes /\ Answered
  /\ References
  /\ "gone" \notin odd => RowsKept

-----------------------------------------------------------------------------
(* What is known of the table, the events on their way and the server's    *)
(* file, whatever the rest does: their ids were given by the server, and   *)
(* no event on its way deletes the file the server has, whose id is never  *)
(* given again.                                                            *)
Ids == 1 .. nextid - 1
KnownFile == [id : Ids, content : Nat]
Event == [id : Ids, content : Nat \cup {None}]

DataTypes == ver \in Nat /\ \A t \in DOMAIN data : data[t] \in Nat

ServerTypes ==
  /\ nextid \in Nat \ {0}
  /\ table \subseteq KnownFile /\ events \in Seq(Event)
  /\ srv = NoFile \/ srv \in KnownFile

NotDeleted == \A i \in DOMAIN events : events[i].content = None => events[i].id # srv.id

(* The answer to an upload is the server's file, and after a deletion the  *)
(* server has none.                                                        *)
Asked ==
  /\ pc \in {"check", "wait", "send", "cancel"} => answer = NoFile
  /\ pc = "answer" /\ task.row.type = "creat" => task.content \in Nat /\ answer \in {NoFile, srv}
  /\ pc = "answer" /\ task.row.type = "unlink" => answer.content = None \/ srv = NoFile

TableInv == DataTypes /\ ServerTypes /\ Asked /\ NotDeleted /\ CatchesUp

-----------------------------------------------------------------------------
LEMMA DataKept ==
  ASSUME DataTypes, [Next]_vars
  PROVE  DataTypes'
<1>1. ASSUME NEW t, NEW v \in Nat, data' = With(data, t, v), ver' \in Nat
      PROVE  DataTypes'
  BY <1>1 DEF DataTypes, With
<1>2. ASSUME NEW S, data' = Restrict(data, DOMAIN data \ S), UNCHANGED ver
      PROVE  DataTypes'
  BY <1>2 DEF DataTypes, Restrict
<1>3. ASSUME UNCHANGED <<data, ver>> PROVE DataTypes'
  BY <1>3 DEF DataTypes
<1>4. ASSUME NEW t, Written(t) PROVE DataTypes'
  <2>1. ver' \in Nat
    BY <1>4 DEF Written, DataTypes
  <2> QED BY <1>1, <1>4, <2>1 DEF Written
<1>5. ASSUME NEW h \in Handles, NEW trunc, Create(h, trunc) PROVE DataTypes'
  <2>1. data' = With(data, NewTask, 0) /\ ver' = ver
    BY <1>5 DEF Create
  <2> QED BY <1>1, <2>1 DEF DataTypes
<1>6. ASSUME NEW h \in Handles, NEW trunc, OpenPending(h, trunc) PROVE DataTypes'
  <2>1. /\ ver' = ver
        /\ \E t : data' = IF trunc \/ t \notin DOMAIN data THEN With(data, t, 0) ELSE data
    BY <1>6 DEF OpenPending
  <2> QED BY <1>1, <1>3, <2>1 DEF DataTypes
<1>7. ASSUME NEW h \in Handles, Write(h) \/ psync_fs_reopen_file_for_writing(h) PROVE DataTypes'
  <2>1. \E t : Written(t)
    BY <1>7 DEF Write, psync_fs_reopen_file_for_writing
  <2> QED BY <1>4, <2>1
<1>8. ASSUME CopyToPageCache \/ cancel_task_creat PROVE DataTypes'
  BY <1>2, <1>8 DEF CopyToPageCache, cancel_task_creat, bounds
<1>9. CASE User
  BY <1>3, <1>5, <1>6, <1>7, <1>9
  DEF User, OpenServerFile, WriteServerFile, Flush, psync_fstask_unlink, UnlinkFails
<1>10. CASE InCall
  BY <1>3, <1>7, <1>10 DEF InCall, ReleaseRow, RaiseWriteid, psync_fs_dec_of_refcnt, bounds
<1>11. CASE Upload
  BY <1>3, <1>8, <1>11
  DEF Upload, psync_fsupload_check_tasks, Woken, EndOfBatch, SendUnlink, SendCreat, process_task_creat,
      FinishCreat, process_task_unlink, cancel_task_unlink, bounds
<1>12. CASE Expire \/ psync_fs_write_timer \/ uploadfile \/ deletefile \/ Failed \/ Diff \/ Restart
  BY <1>3, <1>12 DEF Expire, psync_fs_write_timer, uploadfile, deletefile, Failed, Diff, Restart, bounds
<1>13. CASE UNCHANGED vars
  BY <1>3, <1>13 DEF vars, bounds
<1> QED BY <1>9, <1>10, <1>11, <1>12, <1>13 DEF Next

(* The steps other than these five leave table, events and server alone.   *)
LEMMA ServerAlone ==
  ASSUME [Next]_vars, ~uploadfile, ~deletefile, ~process_task_creat, ~process_task_unlink, ~Diff
  PROVE  UNCHANGED <<table, server>>
<1>1. CASE User
  BY <1>1 DEF User, Create, OpenPending, OpenServerFile, Write, WriteServerFile, Flush,
              psync_fstask_unlink, UnlinkFails
<1>2. CASE InCall
  BY <1>2 DEF InCall, psync_fs_reopen_file_for_writing, ReleaseRow, RaiseWriteid, psync_fs_dec_of_refcnt
<1>3. CASE Upload
  BY <1>3 DEF Upload, psync_fsupload_check_tasks, Woken, EndOfBatch, SendUnlink, SendCreat,
              CopyToPageCache, FinishCreat, cancel_task_creat, cancel_task_unlink
<1>4. CASE Expire \/ psync_fs_write_timer \/ Failed \/ Restart
  BY <1>4 DEF Expire, psync_fs_write_timer, Failed, Restart
<1>5. CASE UNCHANGED vars
  BY <1>5 DEF vars
<1> QED BY <1>1, <1>2, <1>3, <1>4, <1>5 DEF Next

LEMMA AskedKept ==
  ASSUME DataTypes, Asked, [Next]_vars, ~uploadfile, ~deletefile
  PROVE  Asked'
<1>1. ASSUME UNCHANGED <<pc, task, answer, srv>> PROVE Asked'
  BY <1>1 DEF Asked
<1>2. ASSUME pc' \in {"check", "wait", "send", "cancel", "cache", "finish", "end"},
             pc' \in {"cache", "finish", "end"} \/ answer' = NoFile
      PROVE  Asked'
  BY <1>2 DEF Asked
<1>3. CASE User
  BY <1>1, <1>3 DEF User, Create, OpenPending, OpenServerFile, Write, WriteServerFile, Flush,
                    psync_fstask_unlink, UnlinkFails, upload, server
<1>4. CASE InCall
  BY <1>1, <1>4 DEF InCall, psync_fs_reopen_file_for_writing, ReleaseRow, RaiseWriteid,
                    psync_fs_dec_of_refcnt, upload, server
<1>5. CASE SendUnlink \/ SendCreat
  <2>1. pc = "send" /\ answer = NoFile /\ answer' = NoFile
    BY <1>5 DEF SendUnlink, SendCreat, Asked
  <2>2. CASE pc' = "end"
    BY <1>2, <2>2
  <2>3. CASE SendUnlink
    <3>1. pc' = "answer" /\ task' = task /\ task.row.type = "unlink"
      BY <2>3 DEF SendUnlink
    <3> QED BY <2>1, <3>1 DEF Asked, NoFile
  <2>4. CASE SendCreat /\ pc' # "end"
    <3>1. /\ pc' = "answer" /\ task.id \in DOMAIN data /\ task.row.type = "creat"
          /\ task' = [id |-> task.id, row |-> task.row, content |-> data[task.id]]
      BY <2>4 DEF SendCreat
    <3>2. task'.row.type = "creat" /\ task'.content \in Nat
      BY <3>1 DEF DataTypes
    <3> QED BY <2>1, <3>1, <3>2 DEF Asked
  <2> QED BY <1>5, <2>2, <2>3, <2>4
<1>6. CASE Upload /\ ~(SendUnlink \/ SendCreat)
  <2>1. CASE psync_fsupload_check_tasks
    <3>1. pc = "check" /\ answer' = answer /\ pc' \in {"cancel", "send", "wait"}
      BY <2>1 DEF psync_fsupload_check_tasks
    <3> QED BY <1>2, <3>1 DEF Asked
  <2>2. CASE Woken \/ EndOfBatch
    BY <1>2, <2>2 DEF Woken, EndOfBatch, Asked
  <2>3. CASE process_task_creat \/ CopyToPageCache \/ FinishCreat \/ process_task_unlink
             \/ cancel_task_creat \/ cancel_task_unlink
    <3>1. pc' \in {"cache", "finish", "end"}
      BY <2>3 DEF process_task_creat, CopyToPageCache, FinishCreat, process_task_unlink,
                  cancel_task_creat, cancel_task_unlink
    <3> QED BY <1>2, <3>1
  <2> QED BY <1>6, <2>1, <2>2, <2>3 DEF Upload
<1>7. CASE Expire \/ psync_fs_write_timer \/ Diff
  BY <1>1, <1>7 DEF Expire, psync_fs_write_timer, Diff, upload, server
<1>8. CASE Failed \/ Restart
  BY <1>2, <1>8 DEF Failed, Restart
<1>9. CASE UNCHANGED vars
  BY <1>1, <1>9 DEF vars, upload, server
<1> QED BY <1>3, <1>4, <1>5, <1>6, <1>7, <1>8, <1>9 DEF Next

(* A new event becomes the last of its id and changes no other.            *)
LEMMA EventAppended ==
  ASSUME events \in Seq(Event), NEW e, events' = Append(events, e), e \in Event'
  PROVE  /\ Len(events) + 1 \in EventsOf(e.id)' /\ events'[Len(events) + 1] = e
         /\ \A j \in EventsOf(e.id)' : j <= Len(events) + 1
         /\ \A id : id # e.id => EventsOf(id)' = EventsOf(id)
         /\ \A i \in DOMAIN events' : i = Len(events) + 1 \/ (i \in DOMAIN events /\ events'[i] = events[i])
         /\ \A i \in DOMAIN events : i \in DOMAIN events' /\ events'[i] = events[i]
<1>1. /\ Len(events) \in Nat /\ DOMAIN events = 1 .. Len(events)
      /\ DOMAIN events' = 1 .. Len(events) + 1
      /\ events'[Len(events) + 1] = e
      /\ \A i \in 1 .. Len(events) : events'[i] = events[i]
  OBVIOUS
<1> QED BY <1>1 DEF EventsOf

(* and the first taken shifts those that stay.                             *)
LEMMA EventTaken ==
  ASSUME events \in Seq(Event), events # <<>>, events' = Tail(events)
  PROVE  /\ Head(events) = events[1] /\ 1 \in DOMAIN events /\ DOMAIN events \subseteq Nat \ {0}
         /\ \A i \in DOMAIN events' : i + 1 \in DOMAIN events /\ events'[i] = events[i + 1] /\ i \in Nat \ {0}
         /\ \A i \in DOMAIN events \ {1} : i - 1 \in DOMAIN events' /\ events'[i - 1] = events[i]
<1>1. /\ Len(events) \in Nat \ {0} /\ DOMAIN events = 1 .. Len(events)
      /\ DOMAIN events' = 1 .. Len(events) - 1
      /\ \A i \in 1 .. Len(events) - 1 : events'[i] = events[i + 1]
  OBVIOUS
<1> QED BY <1>1

LEMMA TableSame ==
  ASSUME TableInv, UNCHANGED <<table, srv, nextid, events>>
  PROVE  ServerTypes' /\ NotDeleted' /\ CatchesUp'
<1>1. Ids' = Ids
  BY DEF Ids
<1>2. KnownFile' = KnownFile /\ Event' = Event
  BY <1>1 DEF KnownFile, Event
<1>3. ServerTypes' /\ NotDeleted'
  BY <1>2 DEF TableInv, ServerTypes, NotDeleted
<1>4. CatchesUp'
  BY DEF TableInv, CatchesUp, ServerHas, EventsOf
<1> QED BY <1>3, <1>4

LEMMA TableUploaded ==
  ASSUME TableInv, uploadfile
  PROVE  Asked' /\ ServerTypes' /\ NotDeleted' /\ CatchesUp'
<1> DEFINE id == IF srv = NoFile THEN nextid ELSE srv.id
<1>1. /\ pc = "answer" /\ task.row.type = "creat" /\ UNCHANGED <<table, pc, task>>
      /\ srv' = [id |-> id, content |-> task.content] /\ answer' = srv'
      /\ events' = Append(events, srv')
      /\ nextid' = IF id = nextid THEN nextid + 1 ELSE nextid
  BY DEF uploadfile
<1>2. /\ task.content \in Nat /\ nextid \in Nat \ {0} /\ table \subseteq KnownFile
      /\ events \in Seq(Event) /\ (srv = NoFile \/ srv \in KnownFile)
  BY <1>1 DEF TableInv, Asked, ServerTypes
<1>3. id \in Ids' /\ Ids \subseteq Ids' /\ nextid' \in Nat \ {0} /\ (\A x \in Ids' : x \in Ids \/ x = id)
  BY <1>1, <1>2 DEF Ids, KnownFile
<1>4. srv' \in KnownFile' /\ srv' \in Event' /\ srv'.id = id /\ table' \subseteq KnownFile'
  BY <1>1, <1>2, <1>3 DEF KnownFile, Event
<1>5. events \in Seq(Event')
  <2>1. Event \subseteq Event'
    BY <1>3 DEF Event
  <2> QED BY <1>2, <2>1
<1>6. events' \in Seq(Event')
  BY <1>1, <1>4, <1>5
<1>7. Asked' /\ ServerTypes'
  BY <1>1, <1>2, <1>3, <1>4, <1>6 DEF Asked, ServerTypes
<1> HIDE DEF id
<1>8. NotDeleted'
  <2> SUFFICES ASSUME NEW i \in DOMAIN events', events'[i].content = None
               PROVE  events'[i].id # srv'.id
    BY DEF NotDeleted
  <2>1. srv'.content # None
    BY <1>1, <1>2 DEF None
  <2>2. i \in DOMAIN events /\ events'[i] = events[i]
    BY <1>1, <1>2, <1>4, <2>1, EventAppended
  <2>3. events[i] \in Event
    BY <1>2, <2>2
  <2>4. events[i].id \in Ids /\ events[i].id # srv.id
    BY <2>2, <2>3 DEF TableInv, NotDeleted, Event
  <2> QED BY <1>2, <1>4, <2>2, <2>4 DEF id, Ids
<1>9. CatchesUp'
  <2> SUFFICES ASSUME NEW x \in Ids'
               PROVE  IF EventsOf(x)' = {}
                      THEN {f \in table' : f.id = x} = {ServerHas(x)'} \ {Deleted(x)}
                      ELSE \E i \in EventsOf(x)' :
                             events'[i] = ServerHas(x)' /\ \A j \in EventsOf(x)' : j <= i
    BY DEF CatchesUp, Ids, Deleted
  <2>1. CASE x = id
    BY <1>1, <1>2, <1>4, <2>1, EventAppended DEF ServerHas
  <2>2. CASE x # id
    <3>1. EventsOf(x)' = EventsOf(x) /\ \A i \in EventsOf(x) : events'[i] = events[i]
      BY <1>1, <1>2, <1>4, <2>2, EventAppended DEF EventsOf
    <3>2. x \in Ids
      BY <1>3, <2>2
    <3> x # 0
      BY <1>2, <3>2 DEF Ids
    <3>3. ServerHas(x)' = ServerHas(x)
      BY <1>4, <2>2, <3>2 DEF ServerHas, id, NoFile, Deleted
    <3> QED BY <1>1, <3>1, <3>2, <3>3 DEF TableInv, CatchesUp, Ids
  <2> QED BY <2>1, <2>2
<1> QED BY <1>7, <1>8, <1>9

LEMMA TableDeleted ==
  ASSUME TableInv, deletefile
  PROVE  Asked' /\ ServerTypes' /\ NotDeleted' /\ CatchesUp'
<1>1. pc = "answer" /\ task.row.type = "unlink" /\ UNCHANGED <<table, pc, task, nextid>>
  BY DEF deletefile
<1>2. /\ nextid \in Nat \ {0} /\ table \subseteq KnownFile
      /\ events \in Seq(Event) /\ (srv = NoFile \/ srv \in KnownFile)
  BY DEF TableInv, ServerTypes
<1>3. ASSUME answer' = Deleted(task.row.fileid), UNCHANGED <<srv, events>>
      PROVE  Asked' /\ ServerTypes' /\ NotDeleted' /\ CatchesUp'
  <2>1. Asked'
    BY <1>1, <1>3 DEF Asked, Deleted
  <2> QED BY <1>1, <1>3, <2>1, TableSame
<1>4. ASSUME srv # NoFile, srv' = NoFile, events' = Append(events, Deleted(srv.id))
      PROVE  Asked' /\ ServerTypes' /\ NotDeleted' /\ CatchesUp'
  <2> DEFINE e == Deleted(srv.id)
  <2>1. srv \in KnownFile /\ srv.id \in Ids /\ srv.id # 0
    BY <1>2, <1>4 DEF KnownFile, Ids
  <2>2. e \in Event /\ Event' = Event /\ KnownFile' = KnownFile /\ Ids' = Ids /\ e.id = srv.id /\ e.content = None
    BY <1>1, <2>1 DEF Event, KnownFile, Ids, Deleted
  <2>3. Asked' /\ ServerTypes'
    BY <1>1, <1>2, <1>4, <2>2 DEF Asked, ServerTypes
  <2> HIDE DEF e
  <2>4. events' = Append(events, e) /\ e \in Event' /\ e = Deleted(srv.id)
    BY <1>4, <2>2 DEF e
  <2>5. NotDeleted'
    <3>1. \A i \in DOMAIN events' : events'[i] \in Event
      BY <2>2, <2>3 DEF ServerTypes
    <3>2. \A i \in DOMAIN events' : events'[i].id \in Ids
      BY <3>1 DEF Event
    <3> QED BY <1>2, <1>4, <3>2 DEF NotDeleted, NoFile, Ids
  <2>6. CatchesUp'
    <3> SUFFICES ASSUME NEW x \in Ids
                 PROVE  IF EventsOf(x)' = {}
                        THEN {f \in table' : f.id = x} = {ServerHas(x)'} \ {Deleted(x)}
                        ELSE \E i \in EventsOf(x)' :
                               events'[i] = ServerHas(x)' /\ \A j \in EventsOf(x)' : j <= i
      BY <1>1 DEF CatchesUp, Ids, Deleted
    <3>1. ServerHas(x)' = Deleted(x)
      BY <1>2, <1>4 DEF ServerHas, NoFile, Ids
    <3>2. CASE x = srv.id
      BY <1>2, <2>2, <2>4, <3>1, <3>2, EventAppended
    <3>3. CASE x # srv.id
      <4>1. EventsOf(x)' = EventsOf(x) /\ \A i \in EventsOf(x) : events'[i] = events[i]
        BY <1>2, <2>2, <2>4, <3>3, EventAppended DEF EventsOf
      <4>2. ServerHas(x) = Deleted(x)
        BY <3>3 DEF ServerHas
      <4> QED BY <1>1, <3>1, <4>1, <4>2 DEF TableInv, CatchesUp, Ids
    <3> QED BY <3>2, <3>3
  <2> QED BY <2>3, <2>5, <2>6
<1> QED BY <1>3, <1>4 DEF deletefile

(* The answer to an upload finds the row of its id in the table, or the    *)
(* event that brings it is still to come.                                  *)
LEMMA TableCreated ==
  ASSUME TableInv, process_task_creat
  PROVE  ServerTypes' /\ NotDeleted' /\ CatchesUp'
<1>1. /\ answer = srv /\ srv # NoFile /\ UNCHANGED <<srv, nextid, events>>
      /\ table' = diff_create_file(srv) \/ table' = table
  BY DEF process_task_creat, TableInv, Asked, server
<1>2. table \subseteq KnownFile /\ srv \in KnownFile /\ srv.id \in Ids /\ srv.content # None
  BY <1>1 DEF TableInv, ServerTypes, KnownFile, None
<1>3. table' \subseteq table \cup {srv} /\ table \subseteq table' /\ (InTable(srv.id) => table' = table)
  BY <1>1 DEF diff_create_file
<1>4. ServerTypes' /\ NotDeleted'
  BY <1>1, <1>2, <1>3 DEF TableInv, ServerTypes, NotDeleted, KnownFile, Event, Ids
<1>5. CatchesUp'
  <2> SUFFICES ASSUME NEW x \in Ids, EventsOf(x) = {}
               PROVE  {f \in table' : f.id = x} = {f \in table : f.id = x}
    BY <1>1 DEF TableInv, CatchesUp, Ids, ServerHas, EventsOf, Deleted
  <2>1. CASE x = srv.id
    <3>1. {f \in table : f.id = x} = {srv} \ {Deleted(x)}
      BY <2>1 DEF TableInv, CatchesUp, Ids, ServerHas
    <3>2. srv \in table
      BY <1>2, <3>1 DEF Deleted
    <3> QED BY <1>3, <2>1, <3>2 DEF InTable
  <2>2. CASE x # srv.id
    BY <1>3, <2>2
  <2> QED BY <2>1, <2>2
<1> QED BY <1>4, <1>5

LEMMA TableUnlinked ==
  ASSUME TableInv, process_task_unlink
  PROVE  ServerTypes' /\ NotDeleted' /\ CatchesUp'
<1>1. /\ UNCHANGED <<srv, nextid, events>>
      /\ table' = IF answer.content # None THEN {f \in table : f.id # answer.id} ELSE table
      /\ answer.content = None \/ srv = NoFile
  BY DEF process_task_unlink, TableInv, Asked, server
<1>2. ServerTypes' /\ NotDeleted'
  BY <1>1 DEF TableInv, ServerTypes, NotDeleted, KnownFile, Event, Ids
<1>3. CatchesUp'
  <2> SUFFICES ASSUME NEW x \in Ids, EventsOf(x) = {}, srv = NoFile
               PROVE  {f \in table' : f.id = x} = {ServerHas(x)} \ {Deleted(x)}
    BY <1>1 DEF TableInv, CatchesUp, Ids, ServerHas, EventsOf, Deleted
  <2>1. ServerHas(x) = Deleted(x)
    BY DEF ServerHas, NoFile, Ids
  <2>2. {f \in table : f.id = x} = {ServerHas(x)} \ {Deleted(x)}
    BY DEF TableInv, CatchesUp, Ids
  <2> QED BY <1>1, <2>1, <2>2
<1> QED BY <1>2, <1>3

(* An event is the last of its id, then it tells what the server has, or   *)
(* another comes that does.                                                *)
LEMMA TableDiff ==
  ASSUME TableInv, Diff
  PROVE  ServerTypes' /\ NotDeleted' /\ CatchesUp'
<1> DEFINE e == Head(events)
<1>1. /\ events \in Seq(Event) /\ events # <<>> /\ events' = Tail(events) /\ table' = Applied(e)
      /\ UNCHANGED <<srv, nextid>>
  BY DEF Diff, TableInv, ServerTypes
<1>2. e = events[1] /\ 1 \in DOMAIN events /\ e \in Event
  BY <1>1, EventTaken
<1>3. Ids' = Ids /\ KnownFile' = KnownFile /\ Event' = Event
  BY <1>1 DEF Ids, KnownFile, Event
<1> HIDE DEF e
<1>4. ServerTypes'
  <2>1. events' \in Seq(Event)
    BY <1>1
  <2>2. table' \subseteq KnownFile
    BY <1>1, <1>2 DEF TableInv, ServerTypes, Applied, Event, KnownFile, None
  <2> QED BY <1>1, <1>3, <2>1, <2>2 DEF TableInv, ServerTypes
<1>5. NotDeleted'
  BY <1>1, EventTaken DEF TableInv, NotDeleted
<1>6. CatchesUp'
  <2> SUFFICES ASSUME NEW x \in Ids
               PROVE  IF EventsOf(x)' = {}
                      THEN {f \in table' : f.id = x} = {ServerHas(x)} \ {Deleted(x)}
                      ELSE \E i \in EventsOf(x)' :
                             events'[i] = ServerHas(x) /\ \A j \in EventsOf(x)' : j <= i
    BY <1>1, <1>3 DEF CatchesUp, Ids, Deleted, ServerHas
  <2>1. \A i \in EventsOf(x) : i = 1 \/ (i - 1 \in EventsOf(x)' /\ events'[i - 1] = events[i])
    BY <1>1, EventTaken DEF EventsOf
  <2>2. \A i \in EventsOf(x)' : i + 1 \in EventsOf(x) /\ i \in Nat \ {0}
    BY <1>1, EventTaken DEF EventsOf
  <2>3. EventsOf(x) \subseteq Nat \ {0}
    BY <1>1, EventTaken DEF EventsOf
  <2>4. CASE EventsOf(x)' # {}
    <3>1. PICK i \in EventsOf(x) : events[i] = ServerHas(x) /\ \A j \in EventsOf(x) : j <= i
      BY <2>2, <2>4 DEF TableInv, CatchesUp, Ids
    <3>2. i # 1 /\ \A j \in EventsOf(x)' : j <= i - 1
      BY <2>2, <2>3, <2>4, <3>1
    <3> QED BY <2>1, <3>1, <3>2
  <2>5. CASE EventsOf(x)' = {} /\ EventsOf(x) = {}
    <3>1. e.id # x
      BY <1>2, <2>5 DEF EventsOf
    <3>2. {f \in table' : f.id = x} = {f \in table : f.id = x}
      BY <1>1, <3>1 DEF Applied
    <3> QED BY <2>5, <3>2 DEF TableInv, CatchesUp, Ids
  <2>6. CASE EventsOf(x)' = {} /\ EventsOf(x) # {}
    <3>1. e = ServerHas(x)
      BY <1>2, <2>1, <2>6 DEF TableInv, CatchesUp, Ids
    <3>2. e.id = x
      BY <1>2, <2>1, <2>6 DEF EventsOf
    <3>3. e.content = None <=> e = Deleted(x)
      BY <3>1, <3>2 DEF ServerHas, Deleted, TableInv, ServerTypes, KnownFile, NoFile, Ids, None
    <3> QED BY <1>1, <2>6, <3>1, <3>2, <3>3 DEF Applied
  <2> QED BY <2>4, <2>5, <2>6
<1> QED BY <1>4, <1>5, <1>6

(* The server gave every id in the table.                                  *)
LEMMA TableIds == TableInv => \A f \in table : f.id \in Nat /\ f.id > 0
  BY DEF TableInv, ServerTypes, KnownFile, Ids

LEMMA TableInit == Init => TableInv
<1> SUFFICES ASSUME Init PROVE TableInv
  OBVIOUS
<1>1. /\ data = <<>> /\ table = {} /\ events = <<>> /\ srv = NoFile /\ nextid = 1 /\ ver = 0
      /\ pc = "check" /\ answer = NoFile
  BY DEF Init
<1>2. DataTypes /\ ServerTypes /\ Asked /\ NotDeleted
  BY <1>1 DEF DataTypes, ServerTypes, Asked, NotDeleted
<1>3. CatchesUp
  BY <1>1 DEF CatchesUp
<1> QED BY <1>2, <1>3 DEF TableInv

LEMMA TableNext == TableInv /\ [Next]_vars => TableInv'
<1> SUFFICES ASSUME TableInv, [Next]_vars PROVE TableInv'
  OBVIOUS
<1>1. DataTypes'
  BY DataKept DEF TableInv
<1>2. Asked'
  BY AskedKept, TableUploaded, TableDeleted DEF TableInv
<1>3. CASE uploadfile \/ deletefile \/ process_task_creat \/ process_task_unlink \/ Diff
  BY <1>1, <1>2, <1>3, TableUploaded, TableDeleted, TableCreated, TableUnlinked, TableDiff DEF TableInv
<1>4. CASE UNCHANGED <<table, server>>
  BY <1>1, <1>2, <1>4, TableSame DEF TableInv, server
<1> QED BY <1>3, <1>4, ServerAlone

(* The table, the events on their way and the server's file in every       *)
(* reachable state: what processing answers (pfsupload.c) and applying     *)
(* events (pdiff.c) in whatever order maintain together.                   *)
THEOREM TableInvariant == Spec => []TableInv
<1> QED BY TableInit, TableNext, PTL DEF Spec

(* What diff entries and answers of tasks leave in the table agrees with   *)
(* the server but for the last event on its way of each id, so when all    *)
(* events have been applied (pdiff.c:2351) nothing has been undone.        *)
THEOREM TableCatchesUp == Spec => []CatchesUp
<1>1. TableInv => CatchesUp
  BY DEF TableInv
<1> QED BY <1>1, TableInvariant, PTL

-----------------------------------------------------------------------------
(* A new row's id is above all others, so no row bears it.                 *)
LEMMA NewTaskFresh ==
  ASSUME DOMAIN rows \subseteq Nat \ {0}, IsFiniteSet(DOMAIN rows)
  PROVE  NewTask \in Nat \ {0} /\ \A u \in DOMAIN rows : u < NewTask
<1>1. CASE DOMAIN rows = {}
  BY <1>1 DEF NewTask
<1>2. CASE DOMAIN rows # {}
  <2> DEFINE D == DOMAIN rows
             Above(u) == {v \in D : v > u}
             T == {Above(u) : u \in D}
  <2>1. T \subseteq FiniteSubsetsOf(D) /\ T # {}
    <3>1. FiniteSubsetsOf(D) = SUBSET D
      BY FS_FiniteSubsetsOfFinite
    <3>2. \A u \in D : Above(u) \in SUBSET D /\ Above(u) \in T
      OBVIOUS
    <3>3. T \subseteq SUBSET D
      BY <3>2
    <3> HIDE DEF T, Above
    <3> QED BY <1>2, <3>1, <3>2, <3>3
  <2>2. PICK A \in T : \A B \in T : ~(<<B, A>> \in StrictSubsetOrdering(D))
    <3> HIDE DEF T
    <3> QED BY <2>1, FS_StrictSubsetOrderingWellFounded, WFMin
  <2>3. PICK u \in D : A = Above(u)
    OBVIOUS
  <2>4. ASSUME NEW v \in D, v > u PROVE FALSE
    <3>1. Above(v) \subseteq A /\ v \in A /\ v \notin Above(v)
      BY <2>3, <2>4
    <3>2. <<Above(v), A>> \in StrictSubsetOrdering(D)
      BY <3>1, <2>3 DEF StrictSubsetOrdering
    <3> QED BY <3>2, <2>2
  <2>5. \A v \in D : v <= u
    BY <2>4
  <2> QED BY <1>2, <2>5 DEF NewTask
<1> QED BY <1>1, <1>2

-----------------------------------------------------------------------------
(* What the steps do to open files and rows, field by field.               *)

(* A step adds n references to an open file, apart from that of its timer, *)
(* which it starts only with a new write id.                               *)
Timed(of) == IF of.timer # "none" THEN 1 ELSE 0
Moved(of, new, n) ==
  /\ new.refcnt - Timed(new) = of.refcnt - Timed(of) + n
  /\ new.writeid >= of.writeid
  /\ new.timer # "none" => of.timer # "none" \/ new.writeid > of.writeid

(* F becomes G by a step on o that adds n references.                      *)
FileMoved(F, G, o, n) ==
  /\ G \in [DOMAIN F -> OpenFile]
  /\ \A p \in DOMAIN F : p # o => G[p] = F[p]
  /\ Moved(F[o], G[o], n)

(* psync_fs_inc_writeid_locked.                                            *)
LEMMA IncWriteid ==
  ASSUME NEW D, NEW F \in [D -> OpenFile], NEW o \in D
  PROVE  LET G == inc_writeid(F, o)
         IN /\ FileMoved(F, G, o, 0)
            /\ G[o].fileid = F[o].fileid /\ G[o].modified = F[o].modified
<1> DEFINE G == inc_writeid(F, o)
<1>1. F[o].writeid + 1 \in Nat /\ F[o].refcnt + 1 \in Int /\ F[o].refcnt + 0 = F[o].refcnt
  BY DEF OpenFile
<1>2. G \in [D -> OpenFile]
  <2>1. F[o] \in OpenFile
    OBVIOUS
  <2> QED BY <1>1, <2>1, ZenonT(60) DEF inc_writeid, OpenFile
<1>3. \A p \in D : p # o => G[p] = F[p]
  BY DEF inc_writeid
<1>4. G[o].fileid = F[o].fileid /\ G[o].modified = F[o].modified
  BY DEF inc_writeid
<1>5. G[o].writeid = F[o].writeid + 1 /\ G[o].timer # "none"
  BY DEF inc_writeid
<1>6. G[o].refcnt = F[o].refcnt + (IF F[o].timer = "none" THEN 1 ELSE 0)
  BY <1>1, Zenon DEF inc_writeid, OpenFile
<1> HIDE DEF G
<1>7. Moved(F[o], G[o], 0)
  BY <1>2, <1>5, <1>6 DEF Moved, Timed, OpenFile
<1> QED BY <1>2, <1>3, <1>4, <1>7 DEF FileMoved, G

(* psync_fs_inc_of_refcnt.                                                 *)
LEMMA IncRefcnt ==
  ASSUME NEW D, NEW F \in [D -> OpenFile], NEW o \in D
  PROVE  LET G == inc_of_refcnt(F, o)
         IN FileMoved(F, G, o, 1) /\ G[o].fileid = F[o].fileid
<1> DEFINE G == inc_of_refcnt(F, o)
<1>1. F[o].refcnt + 1 \in Int /\ F[o] \in OpenFile
  BY DEF OpenFile
<1>2. G \in [D -> OpenFile]
  BY <1>1, ZenonT(60) DEF inc_of_refcnt, OpenFile
<1>3. \A p \in D : p # o => G[p] = F[p]
  BY DEF inc_of_refcnt
<1>4. /\ G[o].fileid = F[o].fileid /\ G[o].refcnt = F[o].refcnt + 1
      /\ G[o].writeid = F[o].writeid /\ G[o].timer = F[o].timer
  BY <1>1, Zenon DEF inc_of_refcnt, OpenFile
<1> HIDE DEF G
<1>5. Moved(F[o], G[o], 1)
  <2>1. F[o].refcnt \in Int /\ F[o].writeid \in Nat /\ Timed(F[o]) \in Int
    BY <1>1 DEF OpenFile, Timed
  <2>2. Timed(G[o]) = Timed(F[o])
    BY <1>4 DEF Timed
  <2>3. F[o].refcnt + 1 - Timed(F[o]) = F[o].refcnt - Timed(F[o]) + 1
    BY <2>1
  <2> QED BY <1>4, <2>1, <2>2, <2>3 DEF Moved
<1> QED BY <1>2, <1>3, <1>4, <1>5 DEF FileMoved, G

(* An opened file is released, or not, as its row is.                      *)
LEMMA ReleasedSet ==
  ASSUME NEW D, NEW F \in [D -> OpenFile], NEW o \in D, NEW b \in BOOLEAN
  PROVE  LET G == [F EXCEPT ![o].released = b]
         IN FileMoved(F, G, o, 0) /\ G[o].fileid = F[o].fileid
<1> DEFINE G == [F EXCEPT ![o].released = b]
<1>1. F[o] \in OpenFile
  OBVIOUS
<1>2. G \in [D -> OpenFile]
  BY <1>1, ZenonT(60) DEF OpenFile
<1>3. \A p \in D : p # o => G[p] = F[p]
  BY Zenon
<1>4. /\ G[o].fileid = F[o].fileid /\ G[o].refcnt = F[o].refcnt
      /\ G[o].writeid = F[o].writeid /\ G[o].timer = F[o].timer
  BY <1>1, Zenon DEF OpenFile
<1> HIDE DEF G
<1>5. Moved(F[o], G[o], 0)
  BY <1>1, <1>2, <1>4 DEF Moved, Timed, OpenFile
<1> QED BY <1>2, <1>3, <1>4, <1>5 DEF FileMoved, G

(* Two such changes of one open file are one.                              *)
LEMMA MovedTwice ==
  ASSUME NEW D, NEW F \in [D -> OpenFile], NEW o \in D, NEW G, NEW H,
         NEW n \in Int, FileMoved(F, G, o, n), FileMoved(G, H, o, 0)
  PROVE  FileMoved(F, H, o, n)
<1>1. /\ G \in [D -> OpenFile] /\ H \in [D -> OpenFile]
      /\ \A p \in D : p # o => H[p] = F[p]
      /\ Moved(F[o], G[o], n) /\ Moved(G[o], H[o], 0)
  BY DEF FileMoved
<1>2. F[o] \in OpenFile /\ G[o] \in OpenFile /\ H[o] \in OpenFile
  BY <1>1
<1>3. Moved(F[o], H[o], n)
  BY <1>1, <1>2 DEF Moved, Timed, OpenFile
<1> QED BY <1>1, <1>3 DEF FileMoved

(* An open file that stays as it is.                                       *)
LEMMA SameMoved ==
  ASSUME NEW D, NEW F \in [D -> OpenFile], NEW o \in D
  PROVE  FileMoved(F, F, o, 0) /\ Moved(F[o], F[o], 0)
<1>1. F[o].refcnt \in Int /\ F[o].writeid \in Nat /\ Timed(F[o]) \in Int
  BY DEF OpenFile, Timed
<1> QED BY <1>1 DEF FileMoved, Moved

-----------------------------------------------------------------------------
(* References: how the steps of handles, timers and calls move them.       *)

(* References outlive a step that moves files but neither handles nor      *)
(* calls.                                                                  *)
LEMMA FilesTouched ==
  ASSUME MemoryTypes, References, MemoryTypes', UNCHANGED <<fd, calls>>,
         \A h \in rewriting' : fd[h] # 0,
         DOMAIN ofs' = DOMAIN ofs, \A o \in DOMAIN ofs : Moved(ofs[o], ofs'[o], 0)
  PROVE  References'
<1>1. \A c \in calls : CallInv(c)'
  <2> SUFFICES ASSUME NEW c \in calls PROVE CallInv(c)'
    OBVIOUS
  <2>1. CallInv(c) /\ c.of \in DOMAIN ofs /\ c \in FileCall
    BY DEF References, CallInv, MemoryTypes
  <2>2. Moved(ofs[c.of], ofs'[c.of], 0) /\ ofs[c.of] \in OpenFile /\ ofs'[c.of] \in OpenFile
    BY <2>1 DEF MemoryTypes
  <2> QED BY <2>1, <2>2 DEF CallInv, Moved, OpenFile, FileCall
<1>2. \A o \in DOMAIN ofs : Referenced(o)'
  <2> SUFFICES ASSUME NEW o \in DOMAIN ofs PROVE Referenced(o)'
    OBVIOUS
  <2>1. Referenced(o) /\ Moved(ofs[o], ofs'[o], 0) /\ ofs[o] \in OpenFile /\ ofs'[o] \in OpenFile
    BY DEF References, MemoryTypes
  <2>2. HandlesOf(o)' = HandlesOf(o) /\ DropsOf(o)' = DropsOf(o)
    BY DEF HandlesOf, DropsOf
  <2>3. IsFiniteSet(HandlesOf(o)) /\ IsFiniteSet(DropsOf(o))
    BY HandlesFinite, FS_Subset DEF HandlesOf, DropsOf, MemoryTypes
  <2>4. Cardinality(HandlesOf(o)) \in Nat /\ Cardinality(DropsOf(o)) \in Nat
    BY <2>3, FS_CardinalityType
  <2> QED BY <2>1, <2>2, <2>4 DEF Referenced, Moved, Timed, OpenFile
<1> QED BY <1>1, <1>2 DEF References

(* A handle opens o, an open file that is new or gets a reference more.    *)
LEMMA FileOpened ==
  ASSUME MemoryTypes, References, MemoryTypes', UNCHANGED <<calls, rewriting>>,
         NEW h \in Handles, Unused(h), NEW o \in 1 .. MaxOpen, fd' = [fd EXCEPT ![h] = o],
         DOMAIN ofs' = DOMAIN ofs \cup {o},
         \A p \in DOMAIN ofs : p # o => ofs'[p] = ofs[p],
         o \in DOMAIN ofs => Moved(ofs[o], ofs'[o], 1),
         o \notin DOMAIN ofs => ofs'[o].refcnt = 1 /\ ofs'[o].timer = "none"
  PROVE  References'
<1>1. fd[h] = 0 /\ h \notin rewriting /\ \A c \in calls : c.by # h
  BY DEF Unused, Busy
<1>3. \A g \in Handles : fd'[g] # 0 => fd'[g] \in DOMAIN ofs'
  BY DEF References, MemoryTypes
<1>4. \A g \in rewriting' : fd'[g] # 0
  BY <1>1 DEF References, MemoryTypes
<1>5. \A c \in calls : CallInv(c)'
  <2> SUFFICES ASSUME NEW c \in calls PROVE CallInv(c)'
    OBVIOUS
  <2>1. CallInv(c) /\ c.of \in DOMAIN ofs /\ c \in FileCall /\ c.by # h
    BY <1>1 DEF References, CallInv, MemoryTypes
  <2>2. ofs[c.of] \in OpenFile /\ ofs'[c.of] \in OpenFile
    BY <2>1 DEF MemoryTypes
  <2>3. ~c.drop => c.by \in Handles /\ fd'[c.by] = c.of
    BY <2>1 DEF CallInv, MemoryTypes
  <2>4. c.by = Timer => /\ c.writeid <= ofs'[c.of].writeid
                        /\ ofs'[c.of].timer # "none" => c.writeid < ofs'[c.of].writeid
    BY <2>1, <2>2 DEF CallInv, OpenFile, FileCall, Moved
  <2> QED BY <2>1, <2>3, <2>4 DEF CallInv
<1>6. \A p \in DOMAIN ofs' : Referenced(p)'
  <2> SUFFICES ASSUME NEW p \in DOMAIN ofs' PROVE Referenced(p)'
    OBVIOUS
  <2>1. DropsOf(p)' = DropsOf(p) /\ HandlesOf(p)' = (IF p = o THEN HandlesOf(p) \cup {h} ELSE HandlesOf(p))
    <3>1. p # 0 /\ p \in 1 .. MaxOpen
      BY BoundsAreNumbers DEF MemoryTypes
    <3> QED BY <1>1, <3>1 DEF HandlesOf, DropsOf, MemoryTypes
  <2>2. IsFiniteSet(HandlesOf(p)) /\ IsFiniteSet(DropsOf(p)) /\ h \notin HandlesOf(o)
    <3>1. o # 0
      BY BoundsAreNumbers
    <3> QED BY <1>1, <3>1, HandlesFinite, FS_Subset DEF HandlesOf, DropsOf, MemoryTypes
  <2>3. Cardinality(HandlesOf(p)) \in Nat /\ Cardinality(DropsOf(p)) \in Nat
    BY <2>2, FS_CardinalityType
  <2>4. Cardinality(HandlesOf(p)') = Cardinality(HandlesOf(p)) + (IF p = o THEN 1 ELSE 0)
    <3>1. CASE p = o
      BY <2>1, <2>2, <3>1, FS_AddElement
    <3>2. CASE p # o
      BY <2>1, <2>3, <3>2
    <3> QED BY <3>1, <3>2
  <2>5. CASE p \in DOMAIN ofs
    <3>1. Referenced(p) /\ ofs[p] \in OpenFile /\ ofs'[p] \in OpenFile
      BY <2>5 DEF References, MemoryTypes
    <3> QED BY <3>1, <2>1, <2>3, <2>4, <2>5 DEF Referenced, Moved, Timed, OpenFile
  <2>6. CASE p \notin DOMAIN ofs
    <3>1. HandlesOf(p) = {} /\ DropsOf(p) = {} /\ p = o
      <4>1. p # 0
        BY BoundsAreNumbers DEF MemoryTypes
      <4> QED BY <2>6, <4>1 DEF References, CallInv, HandlesOf, DropsOf
    <3>2. Cardinality(HandlesOf(p)') = 1 /\ Cardinality(DropsOf(p)') = 0
      <4>1. Cardinality(HandlesOf(p)) = 0 /\ Cardinality(DropsOf(p)) = 0
        BY <3>1, FS_EmptySet
      <4> QED BY <3>1, <4>1, <2>1, <2>4
    <3> QED BY <3>1, <3>2, <2>6 DEF Referenced
  <2> QED BY <2>5, <2>6
<1> QED BY <1>3, <1>4, <1>5, <1>6 DEF References

-----------------------------------------------------------------------------
(* Rows that stay the rows of their tasks.                                 *)
SameTasks(S) ==
  /\ S \in [DOMAIN rows -> Row]
  /\ \A u \in DOMAIN rows : S[u].type = rows[u].type /\ S[u].fileid = rows[u].fileid

(* SetStatus changes a status and nothing else.                            *)
LEMMA StatusSet ==
  ASSUME rows \in [DOMAIN rows -> Row], NEW t, NEW s \in {0, 1, 11, 12}
  PROVE  LET S == SetStatus(t, s)
         IN /\ SameTasks(S)
            /\ \A u \in DOMAIN rows : u # t => S[u] = rows[u]
            /\ t \in DOMAIN rows => S[t].status = s
<1> DEFINE S == SetStatus(t, s)
<1>1. \A u \in DOMAIN rows : rows[u] \in Row
  OBVIOUS
<1>2. S \in [DOMAIN rows -> Row]
  BY <1>1, ZenonT(60) DEF SetStatus, Row
<1>3. \A u \in DOMAIN rows : u # t => S[u] = rows[u]
  BY Zenon DEF SetStatus
<1>4. \A u \in DOMAIN rows : S[u].type = rows[u].type /\ S[u].fileid = rows[u].fileid
  BY <1>1, ZenonT(60) DEF SetStatus, Row
<1>5. t \in DOMAIN rows => S[t].status = s
  BY <1>1, Zenon DEF SetStatus, Row
<1> QED BY <1>2, <1>3, <1>4, <1>5 DEF SameTasks

(* The row psync_fs_flush releases.                                        *)
LEMMA ReleasedRow ==
  ASSUME rows \in [DOMAIN rows -> Row], NEW t \in DOMAIN rows, NEW w \in Nat
  PROVE  LET S == [rows EXCEPT ![t].status = 0, ![t].int1 = w]
         IN /\ SameTasks(S)
            /\ \A u \in DOMAIN rows : u # t => S[u] = rows[u]
            /\ S[t].status = 0
<1> DEFINE S == [rows EXCEPT ![t].status = 0, ![t].int1 = w]
<1>1. \A u \in DOMAIN rows : rows[u] \in Row
  OBVIOUS
<1>2. S \in [DOMAIN rows -> Row]
  BY <1>1, ZenonT(60) DEF Row
<1>3. \A u \in DOMAIN rows : u # t => S[u] = rows[u]
  BY Zenon
<1>4. \A u \in DOMAIN rows : S[u].type = rows[u].type /\ S[u].fileid = rows[u].fileid
  BY <1>1, ZenonT(60) DEF Row
<1>5. S[t].status = 0
  BY <1>1, Zenon DEF Row
<1> QED BY <1>2, <1>3, <1>4, <1>5 DEF SameTasks

(* The row whose write id is raised.                                       *)
LEMMA WriteidRaised ==
  ASSUME rows \in [DOMAIN rows -> Row], NEW t \in DOMAIN rows, NEW w \in Nat
  PROVE  LET S == [rows EXCEPT ![t].int1 = w]
         IN SameTasks(S) /\ \A u \in DOMAIN rows : S[u].status = rows[u].status
<1> DEFINE S == [rows EXCEPT ![t].int1 = w]
<1>1. \A u \in DOMAIN rows : rows[u] \in Row
  OBVIOUS
<1>2. S \in [DOMAIN rows -> Row]
  BY <1>1, ZenonT(60) DEF Row
<1>3. \A u \in DOMAIN rows : /\ S[u].type = rows[u].type /\ S[u].fileid = rows[u].fileid
                             /\ S[u].status = rows[u].status
  BY <1>1, ZenonT(60) DEF Row
<1> QED BY <1>2, <1>3 DEF SameTasks

(* The row that learns the id its file has on the server.                  *)
LEMMA SfileSet ==
  ASSUME rows \in [DOMAIN rows -> Row], NEW t \in DOMAIN rows, NEW id \in Int
  PROVE  LET S == [rows EXCEPT ![t].sfile = id]
         IN SameTasks(S) /\ \A u \in DOMAIN rows : S[u].status = rows[u].status
<1> DEFINE S == [rows EXCEPT ![t].sfile = id]
<1>1. \A u \in DOMAIN rows : rows[u] \in Row
  OBVIOUS
<1>2. S \in [DOMAIN rows -> Row]
  BY <1>1, ZenonT(60) DEF Row
<1>3. \A u \in DOMAIN rows : /\ S[u].type = rows[u].type /\ S[u].fileid = rows[u].fileid
                             /\ S[u].status = rows[u].status
  BY <1>1, ZenonT(60) DEF Row
<1> QED BY <1>2, <1>3 DEF SameTasks

(* pr_update_fileid changes file ids only.                                 *)
LEMMA Renumbered ==
  ASSUME NEW D, NEW R \in [D -> Row], NEW f \in Int, NEW id \in Int
  PROVE  LET S == Renumber(R, f, id)
         IN /\ S \in [D -> Row]
            /\ \A u \in D : /\ S[u].type = R[u].type /\ S[u].status = R[u].status
                            /\ R[u].fileid # f => S[u].fileid = R[u].fileid
<1> DEFINE S == Renumber(R, f, id)
<1>1. \A u \in D : R[u] \in Row
  OBVIOUS
<1>2. S \in [D -> Row]
  BY <1>1, ZenonT(60) DEF Renumber, Row
<1>3. \A u \in D : /\ S[u].type = R[u].type /\ S[u].status = R[u].status
                   /\ R[u].fileid # f => S[u].fileid = R[u].fileid
  BY <1>1, ZenonT(60) DEF Renumber, Row
<1> QED BY <1>2, <1>3

(* A cancelled unlink that is sent after all.                              *)
LEMMA UnlinkSent ==
  ASSUME NEW t \in DOMAIN rows, rows \in [DOMAIN rows -> Row], NEW id \in Int
  PROVE  LET S == [rows EXCEPT ![t].status = 0, ![t].fileid = id]
         IN /\ S \in [DOMAIN rows -> Row]
            /\ \A u \in DOMAIN rows : u # t => S[u] = rows[u]
            /\ S[t].type = rows[t].type
<1> DEFINE S == [rows EXCEPT ![t].status = 0, ![t].fileid = id]
<1>1. \A u \in DOMAIN rows : rows[u] \in Row
  OBVIOUS
<1>2. S \in [DOMAIN rows -> Row]
  BY <1>1, ZenonT(60) DEF Row
<1>3. \A u \in DOMAIN rows : u # t => S[u] = rows[u]
  BY Zenon
<1>4. S[t].type = rows[t].type
  BY <1>1, Zenon DEF Row
<1> QED BY <1>2, <1>3, <1>4

(* The rows after psync_fstask_init.                                       *)
LEMMA RowsRestarted ==
  ASSUME rows \in [DOMAIN rows -> Row]
  PROVE  LET S == [t \in DOMAIN rows |-> [rows[t] EXCEPT !.status = InitStatus(@)]]
         IN SameTasks(S) /\ \A u \in DOMAIN rows : S[u].status = InitStatus(rows[u].status)
<1> DEFINE S == [t \in DOMAIN rows |-> [rows[t] EXCEPT !.status = InitStatus(@)]]
<1>1. \A u \in DOMAIN rows : rows[u] \in Row
  OBVIOUS
<1>2. \A u \in DOMAIN rows : InitStatus(rows[u].status) \in {0, 1, 11, 12}
  BY <1>1, SMTT(30) DEF Row, InitStatus
<1>3. S \in [DOMAIN rows -> Row]
  BY <1>1, <1>2, ZenonT(60) DEF Row
<1>4. \A u \in DOMAIN rows : /\ S[u].type = rows[u].type /\ S[u].fileid = rows[u].fileid
                             /\ S[u].status = InitStatus(rows[u].status)
  BY <1>1, ZenonT(60) DEF Row
<1> QED BY <1>3, <1>4 DEF SameTasks

(* Cardinalities of the references an open file has.                       *)
LEMMA Countable ==
  ASSUME MemoryTypes, NEW o
  PROVE  /\ IsFiniteSet(HandlesOf(o)) /\ IsFiniteSet(DropsOf(o))
         /\ Cardinality(HandlesOf(o)) \in Nat /\ Cardinality(DropsOf(o)) \in Nat
<1>1. IsFiniteSet(HandlesOf(o)) /\ IsFiniteSet(DropsOf(o))
  BY HandlesFinite, FS_Subset DEF HandlesOf, DropsOf, MemoryTypes
<1> QED BY <1>1, FS_CardinalityType

(* A call begins on the file of a handle, which it closes or not.          *)
LEMMA FlushCalled ==
  ASSUME MemoryTypes, References, MemoryTypes', UNCHANGED rewriting,
         NEW h \in Handles, Ready(h), NEW c \in FileCall, c.by = h, c.of = fd[h],
         c.step = "drop" => c.drop,
         calls' = calls \cup {c}, fd' = IF c.drop THEN [fd EXCEPT ![h] = 0] ELSE fd,
         DOMAIN ofs' = DOMAIN ofs, \A o \in DOMAIN ofs : Moved(ofs[o], ofs'[o], 0)
  PROVE  References'
<1>1. fd[h] # 0 /\ h \notin rewriting /\ \A d \in calls : d.by # h
  BY DEF Ready, Busy
<1>2. /\ fd[h] \in DOMAIN ofs /\ h # Timer /\ c \notin calls
      /\ \A g \in Handles : fd'[g] = IF g = h /\ c.drop THEN 0 ELSE fd[g]
  BY <1>1, TimerIsNoHandle DEF References, MemoryTypes
<1>3. \A g \in Handles : fd'[g] # 0 => fd'[g] \in DOMAIN ofs'
  BY <1>2 DEF References
<1>4. \A g \in rewriting' : fd'[g] # 0
  BY <1>1, <1>2 DEF References, MemoryTypes
<1>5. \A d \in calls' : CallInv(d)'
  <2>1. CallInv(c)'
    BY <1>2 DEF CallInv
  <2>2. ASSUME NEW d \in calls PROVE CallInv(d)'
    <3>1. CallInv(d) /\ d.of \in DOMAIN ofs /\ d \in FileCall /\ d.by # h
      BY <1>1 DEF References, CallInv, MemoryTypes
    <3>2. Moved(ofs[d.of], ofs'[d.of], 0) /\ ofs[d.of] \in OpenFile /\ ofs'[d.of] \in OpenFile
      BY <3>1 DEF MemoryTypes
    <3> QED BY <1>2, <3>1, <3>2 DEF CallInv, Moved, OpenFile, FileCall
  <2> QED BY <2>1, <2>2
<1>6. \A d, e \in calls' : Same(d, e) => d = e
  BY <1>1, <1>2 DEF References, Same
<1>7. \A o \in DOMAIN ofs' : Referenced(o)'
  <2> SUFFICES ASSUME NEW o \in DOMAIN ofs PROVE Referenced(o)'
    OBVIOUS
  <2>1. Referenced(o) /\ Moved(ofs[o], ofs'[o], 0) /\ ofs[o] \in OpenFile /\ ofs'[o] \in OpenFile
    BY DEF References, MemoryTypes
  <2>2. CASE c.drop /\ o = fd[h]
    <3>1. HandlesOf(o)' = HandlesOf(o) \ {h} /\ DropsOf(o)' = DropsOf(o) \cup {c}
      BY <1>1, <1>2, <2>2 DEF HandlesOf, DropsOf
    <3>2. h \in HandlesOf(o) /\ c \notin DropsOf(o)
      BY <1>2, <2>2 DEF HandlesOf, DropsOf
    <3>3. Cardinality(HandlesOf(o)') = Cardinality(HandlesOf(o)) - 1
      <4>1. IsFiniteSet(HandlesOf(o))
        BY Countable
      <4>2. Cardinality(HandlesOf(o) \ {h}) = Cardinality(HandlesOf(o)) - 1
        BY <3>2, <4>1, FS_RemoveElement
      <4> QED BY <3>1, <4>2
    <3>4. Cardinality(DropsOf(o)') = Cardinality(DropsOf(o)) + 1
      <4>1. IsFiniteSet(DropsOf(o))
        BY Countable
      <4> QED BY <3>1, <3>2, <4>1, FS_AddElement
    <3> QED BY <2>1, <3>3, <3>4, Countable DEF Referenced, Moved, Timed, OpenFile
  <2>3. CASE ~(c.drop /\ o = fd[h])
    <3>1. HandlesOf(o)' = HandlesOf(o) /\ DropsOf(o)' = DropsOf(o)
      BY <1>2, <2>3 DEF HandlesOf, DropsOf, MemoryTypes
    <3> QED BY <2>1, <3>1, Countable DEF Referenced, Moved, Timed, OpenFile
  <2> QED BY <2>2, <2>3
<1> QED BY <1>3, <1>4, <1>5, <1>6, <1>7 DEF References

(* The write timer's reference becomes that of the call it starts.         *)
LEMMA TimerCalled ==
  ASSUME MemoryTypes, References, MemoryTypes', UNCHANGED <<rewriting, fd>>,
         NEW o \in DOMAIN ofs, ofs[o].timer # "none",
         NEW c \in FileCall, c.by = Timer, c.of = o, c.writeid = ofs[o].writeid, c.drop,
         calls' = calls \cup {c},
         DOMAIN ofs' = DOMAIN ofs, \A p \in DOMAIN ofs : p # o => ofs'[p] = ofs[p],
         ofs'[o].timer = "none", ofs'[o].refcnt = ofs[o].refcnt,
         ofs'[o].writeid = ofs[o].writeid
  PROVE  References'
<1>1. \A d \in calls : ~Same(c, d)
  <2> SUFFICES ASSUME NEW d \in calls, Same(c, d) PROVE FALSE
    OBVIOUS
  <2>1. CallInv(d) /\ d.by = Timer /\ d.of = o /\ d.writeid = ofs[o].writeid
    BY TimerIsNoHandle DEF References, Same
  <2> QED BY <2>1 DEF CallInv, MemoryTypes, OpenFile
<1>2. c \notin calls
  BY <1>1 DEF Same
<1>3. \A d \in calls' : CallInv(d)'
  <2>1. CallInv(c)'
    BY DEF CallInv, MemoryTypes, OpenFile
  <2>2. ASSUME NEW d \in calls PROVE CallInv(d)'
    <3>1. CallInv(d) /\ d.of \in DOMAIN ofs /\ d \in FileCall
      BY DEF References, CallInv, MemoryTypes
    <3> QED BY <3>1 DEF CallInv
  <2> QED BY <2>1, <2>2
<1>4. \A d, e \in calls' : Same(d, e) => d = e
  BY <1>1 DEF References, Same
<1>5. \A p \in DOMAIN ofs' : Referenced(p)'
  <2> SUFFICES ASSUME NEW p \in DOMAIN ofs PROVE Referenced(p)'
    OBVIOUS
  <2>1. Referenced(p) /\ ofs[p] \in OpenFile /\ HandlesOf(p)' = HandlesOf(p)
    BY DEF References, MemoryTypes, HandlesOf
  <2>2. CASE p = o
    <3>1. DropsOf(p)' = DropsOf(p) \cup {c} /\ c \notin DropsOf(p)
      BY <1>2, <2>2 DEF DropsOf
    <3>2. Cardinality(DropsOf(p)') = Cardinality(DropsOf(p)) + 1
      BY <3>1, Countable, FS_AddElement
    <3> QED BY <2>1, <2>2, <3>2, Countable DEF Referenced, OpenFile
  <2>3. CASE p # o
    <3>1. DropsOf(p)' = DropsOf(p)
      BY <2>3 DEF DropsOf
    <3> QED BY <2>1, <2>3, <3>1 DEF Referenced
  <2> QED BY <2>2, <2>3
<1> QED BY <1>3, <1>4, <1>5 DEF References

(* A call c goes on as d, with the reference it has to give back.          *)
LEMMA CallGoesOn ==
  ASSUME MemoryTypes, References, UNCHANGED <<rewriting, fd, ofs>>,
         NEW c \in calls, NEW d, calls' = (calls \ {c}) \cup {d},
         d.by = c.by, d.of = c.of, d.writeid = c.writeid, d.drop = c.drop,
         d.step = "drop" => d.drop
  PROVE  References'
<1>1. CallInv(c)
  BY DEF References
<1>2. \A e \in calls' : CallInv(e)'
  <2>1. CallInv(d)'
    BY <1>1 DEF CallInv
  <2>2. ASSUME NEW e \in calls PROVE CallInv(e)'
    BY DEF References, CallInv
  <2> QED BY <2>1, <2>2
<1>3. \A e \in calls \ {c} : ~Same(d, e) /\ ~Same(e, d)
  BY DEF References, Same
<1>4. \A e, f \in calls' : Same(e, f) => e = f
  BY <1>3 DEF References, Same
<1>5. \A o \in DOMAIN ofs' : Referenced(o)'
  <2> SUFFICES ASSUME NEW o \in DOMAIN ofs PROVE Referenced(o)'
    OBVIOUS
  <2>1. Referenced(o) /\ HandlesOf(o)' = HandlesOf(o)
    BY DEF References, HandlesOf
  <2>2. CASE c.drop /\ c.of = o
    <3>1. DropsOf(o)' = (DropsOf(o) \ {c}) \cup {d} /\ c \in DropsOf(o)
      BY <2>2 DEF DropsOf
    <3>2. d \notin DropsOf(o) \ {c}
      BY <1>3 DEF DropsOf, Same
    <3>3. IsFiniteSet(DropsOf(o) \ {c}) /\ Cardinality(DropsOf(o) \ {c}) = Cardinality(DropsOf(o)) - 1
      BY <3>1, Countable, FS_RemoveElement
    <3>4. Cardinality(DropsOf(o)') = Cardinality(DropsOf(o) \ {c}) + 1
      BY <3>1, <3>2, <3>3, FS_AddElement
    <3>5. Cardinality(DropsOf(o)') = Cardinality(DropsOf(o))
      BY <3>3, <3>4, Countable
    <3> QED BY <2>1, <3>5 DEF Referenced
  <2>3. CASE ~(c.drop /\ c.of = o)
    <3>1. DropsOf(o)' = DropsOf(o)
      BY <2>3 DEF DropsOf
    <3> QED BY <2>1, <3>1 DEF Referenced
  <2> QED BY <2>2, <2>3
<1> QED BY <1>2, <1>4, <1>5 DEF References

(* A call that has no reference to give back ends.                         *)
LEMMA CallEnds ==
  ASSUME MemoryTypes, References, UNCHANGED <<rewriting, fd, ofs>>,
         NEW c \in calls, ~c.drop, calls' = calls \ {c}
  PROVE  References'
<1>1. \A o \in DOMAIN ofs : Referenced(o)'
  BY DEF References, Referenced, HandlesOf, DropsOf
<1>2. \A e \in calls' : CallInv(e)'
  BY DEF References, CallInv
<1> QED BY <1>1, <1>2 DEF References

(* A call gives its reference back; the last one frees the open file.      *)
LEMMA ReferenceDropped ==
  ASSUME MemoryTypes, References, MemoryTypes', UNCHANGED <<rewriting, fd>>,
         NEW c \in calls, c.drop, calls' = calls \ {c},
         DOMAIN ofs' = IF ofs[c.of].refcnt = 1 THEN DOMAIN ofs \ {c.of} ELSE DOMAIN ofs,
         \A p \in DOMAIN ofs : p # c.of => ofs'[p] = ofs[p],
         ofs[c.of].refcnt # 1 => Moved(ofs[c.of], ofs'[c.of], -1)
  PROVE  References'
<1> DEFINE o == c.of
<1>1. CallInv(c) /\ o \in DOMAIN ofs /\ Referenced(o) /\ ofs[o] \in OpenFile
  BY DEF References, CallInv, MemoryTypes
<1>2. c \in DropsOf(o)
  BY DEF DropsOf
<1>3. CASE ofs[o].refcnt = 1
  <2>1. /\ IsFiniteSet(DropsOf(o) \ {c})
        /\ Cardinality(DropsOf(o) \ {c}) = Cardinality(DropsOf(o)) - 1
        /\ Cardinality(DropsOf(o) \ {c}) \in Nat
    BY <1>2, Countable, FS_RemoveElement, FS_CardinalityType
  <2>2. Cardinality(HandlesOf(o)) = 0 /\ Cardinality(DropsOf(o) \ {c}) = 0
    BY <1>1, <1>3, <2>1, Countable DEF Referenced
  <2>3. HandlesOf(o) = {} /\ DropsOf(o) \ {c} = {}
    BY <2>1, <2>2, Countable, FS_EmptySet
  <2>4. \A h \in Handles : fd[h] # o
    BY <2>3 DEF HandlesOf
  <2>5. \A d \in calls : d # c => d.of # o
    BY <2>3, <2>4 DEF DropsOf, References, CallInv
  <2>6. \A p \in DOMAIN ofs' : Referenced(p)'
    BY <1>3 DEF References, Referenced, HandlesOf, DropsOf
  <2>7. \A e \in calls' : CallInv(e)'
    BY <1>3, <2>5 DEF References, CallInv
  <2>8. \A h \in Handles : fd'[h] # 0 => fd'[h] \in DOMAIN ofs'
    BY <1>3, <2>4 DEF References
  <2> QED BY <2>6, <2>7, <2>8 DEF References
<1>4. CASE ofs[o].refcnt # 1
  <2>1. Moved(ofs[o], ofs'[o], -1) /\ ofs'[o] \in OpenFile
    BY <1>1, <1>4 DEF MemoryTypes
  <2>2. \A p \in DOMAIN ofs' : Referenced(p)'
    <3> SUFFICES ASSUME NEW p \in DOMAIN ofs PROVE Referenced(p)'
      BY <1>4
    <3>1. Referenced(p) /\ HandlesOf(p)' = HandlesOf(p)
      BY DEF References, HandlesOf
    <3>2. CASE p = o
      <4>1. DropsOf(p)' = DropsOf(p) \ {c}
        BY <3>2 DEF DropsOf
      <4>2. Cardinality(DropsOf(p)') = Cardinality(DropsOf(p)) - 1
        BY <1>2, <3>2, <4>1, Countable, FS_RemoveElement
      <4> QED BY <1>1, <2>1, <3>1, <3>2, <4>2, Countable DEF Referenced, Moved, Timed, OpenFile
    <3>3. CASE p # o
      <4>1. DropsOf(p)' = DropsOf(p)
        BY <3>3 DEF DropsOf
      <4> QED BY <3>1, <3>3, <4>1 DEF Referenced
    <3> QED BY <3>2, <3>3
  <2>3. \A e \in calls' : CallInv(e)'
    <3> SUFFICES ASSUME NEW e \in calls PROVE CallInv(e)'
      OBVIOUS
    <3>1. CallInv(e) /\ e \in FileCall /\ e.of \in DOMAIN ofs
      BY DEF References, CallInv, MemoryTypes
    <3>2. CASE e.of = o
      BY <1>1, <1>4, <2>1, <3>1, <3>2 DEF CallInv, Moved, OpenFile, FileCall
    <3>3. CASE e.of # o
      BY <1>4, <3>1, <3>3 DEF CallInv
    <3> QED BY <3>2, <3>3
  <2>4. \A h \in Handles : fd'[h] # 0 => fd'[h] \in DOMAIN ofs'
    BY <1>4 DEF References
  <2> QED BY <2>2, <2>3, <2>4 DEF References
<1> QED BY <1>3, <1>4

-----------------------------------------------------------------------------
(* Rows: how the steps of the user's calls move them.                      *)

(* Nobody cancels a row but an unlink, and a delayed cancel begins when no *)
(* open file bears the row's name any more.                                *)
StatusMoves ==
  \A u \in DOMAIN rows :
    \/ rows'[u].status = rows[u].status
    \/ rows[u].status # 11 /\ rows'[u].status \in {0, 1}
    \/ /\ rows[u].status = 12 /\ rows'[u].status = 11
       /\ \A o \in DOMAIN ofs' : ofs'[o].fileid # -u

(* An open file keeps its file, or is new and bears that of an entry.      *)
OpensEntry(o, cr) ==
  /\ ofs'[o].fileid = -cr.id /\ cr.id \in DOMAIN data'
  /\ \A p \in DOMAIN ofs' : p # o => ofs'[p].fileid # -cr.id

OpensMove ==
  \A o \in DOMAIN ofs' :
    \/ o \in DOMAIN ofs /\ ofs'[o].fileid = ofs[o].fileid
    \/ ofs'[o].fileid >= 0
    \/ \E cr \in creats : OpensEntry(o, cr)

(* A step that adds no row and removes none keeps what RowsKept says.      *)
LEMMA RowsMoved ==
  ASSUME TableTypes, MemoryTypes, MemoryTypes', RowsKept, UNCHANGED <<pc, task>>,
         creats' \subseteq creats, DOMAIN data \subseteq DOMAIN data',
         SameTasks(rows'), StatusMoves, OpensMove
  PROVE  RowsKept'
<1>1. /\ DOMAIN rows' = DOMAIN rows /\ DOMAIN rows \subseteq Nat
      /\ \A u \in DOMAIN rows : rows'[u].type = rows[u].type /\ rows'[u].fileid = rows[u].fileid
  BY DEF SameTasks, TableTypes
<1>2. \A cr \in creats' : Entry(cr)'
  <2> SUFFICES ASSUME NEW cr \in creats' PROVE Entry(cr)'
    OBVIOUS
  <2>1. cr \in creats /\ Entry(cr)
    BY DEF RowsKept
  <2> QED BY <1>1, <2>1 DEF Entry, StatusMoves
<1>3. \A o \in DOMAIN ofs' : Kept(o)'
  <2> SUFFICES ASSUME NEW o \in DOMAIN ofs' PROVE Kept(o)'
    OBVIOUS
  <2>1. ofs'[o].fileid \in Int
    BY DEF MemoryTypes, OpenFile
  <2>2. CASE o \in DOMAIN ofs /\ ofs'[o].fileid = ofs[o].fileid
    <3>1. Kept(o)
      BY <2>2 DEF RowsKept
    <3>2. -(-ofs[o].fileid) = ofs[o].fileid
      BY <2>1, <2>2
    <3> QED BY <1>1, <2>1, <2>2, <3>1, <3>2 DEF Kept, StatusMoves
  <2>3. CASE ofs'[o].fileid >= 0
    BY <2>1, <2>3 DEF Kept
  <2>4. ASSUME NEW cr \in creats, OpensEntry(o, cr) PROVE Kept(o)'
    <3>1. Entry(cr) /\ cr.id \in Nat
      BY DEF RowsKept, TableTypes
    <3>2. -ofs'[o].fileid = cr.id
      BY <2>4, <3>1 DEF OpensEntry
    <3> QED BY <1>1, <2>4, <3>1, <3>2 DEF Kept, Entry, OpensEntry, StatusMoves
  <2> QED BY <2>2, <2>3, <2>4 DEF OpensMove
<1>4. \A o, p \in DOMAIN ofs' : ofs'[o].fileid = ofs'[p].fileid /\ ofs'[o].fileid < 0 => o = p
  <2> SUFFICES ASSUME NEW o \in DOMAIN ofs', NEW p \in DOMAIN ofs', o # p,
                      ofs'[o].fileid = ofs'[p].fileid, ofs'[o].fileid < 0
               PROVE  FALSE
    BY Zenon
  <2>1. ofs'[o].fileid \in Int /\ ofs'[p].fileid \in Int
    BY DEF MemoryTypes, OpenFile
  <2>2. \A cr \in creats : ~OpensEntry(o, cr) /\ ~OpensEntry(p, cr)
    BY DEF OpensEntry
  <2>3. /\ o \in DOMAIN ofs /\ ofs'[o].fileid = ofs[o].fileid
        /\ p \in DOMAIN ofs /\ ofs'[p].fileid = ofs[p].fileid
    BY <2>1, <2>2 DEF OpensMove
  <2> QED BY <2>3 DEF RowsKept
<1>5. \A u \in DOMAIN rows' : Unlinked(u)'
  <2> SUFFICES ASSUME NEW u \in DOMAIN rows, rows'[u].type = "creat", rows'[u].status \in {11, 12}
               PROVE  \E w \in DOMAIN rows : w > u /\ rows'[w].type = "unlink" /\ rows'[w].fileid = -u
    BY <1>1 DEF Unlinked
  <2>1. rows[u].status \in {11, 12}
    BY DEF StatusMoves
  <2> QED BY <1>1, <2>1 DEF RowsKept, Unlinked
<1>6. Batch'
  <2>1. pc \in Working => Oldest(task.id)' /\ task'.row.type = rows'[task'.id].type
    BY <1>1 DEF RowsKept, Batch, Oldest, TableTypes
  <2>2. pc = "cancel" => rows'[task'.id].status = 11
    BY <1>1 DEF RowsKept, Batch, TableTypes, StatusMoves, Working
  <2>3. ASSUME pc \in {"cache", "finish"} PROVE OpenOf(ofs', -task.id) = {}
    <3>1. /\ task.id \in Nat \ {0} /\ \A cr \in creats : cr.id # task.id
          /\ \A o \in DOMAIN ofs : ofs[o].fileid # -task.id
      BY <2>3 DEF RowsKept, Batch, TableTypes, OpenOf, Working
    <3>2. ASSUME NEW o \in DOMAIN ofs' PROVE ofs'[o].fileid # -task.id
      <4>1. ofs'[o].fileid >= 0 => ofs'[o].fileid # -task.id
        BY <3>1
      <4>2. \A cr \in creats : OpensEntry(o, cr) => ofs'[o].fileid # -task.id
        BY <3>1 DEF OpensEntry, TableTypes
      <4> QED BY <3>1, <4>1, <4>2 DEF OpensMove
    <3> QED BY <3>2 DEF OpenOf
  <2> QED BY <2>1, <2>2, <2>3 DEF RowsKept, Batch
<1> QED BY <1>2, <1>3, <1>4, <1>5, <1>6 DEF RowsKept

(* A call of the user that adds no row keeps the invariant.                *)
LEMMA UserKeeps ==
  ASSUME FilesInv, MemoryTypes', References', UNCHANGED <<table, upload, server>>,
         "gone" \in odd => "gone" \in odd',
         creats' \subseteq creats, DOMAIN data \subseteq DOMAIN data', SameTasks(rows'),
         RowsKept => StatusMoves /\ OpensMove
  PROVE  FilesInv'
<1>1. TableTypes' /\ Answered'
  BY DEF FilesInv, TableTypes, Answered, SameTasks, upload, server
<1>2. RowsKept => RowsKept'
  BY RowsMoved DEF FilesInv, upload
<1> QED BY <1>1, <1>2 DEF FilesInv

(* An operation adds the creat t, the youngest row, for the open file o.   *)
LEMMA CreatAdded ==
  ASSUME FilesInv, MemoryTypes', References', UNCHANGED <<table, upload, server>>,
         "gone" \in odd => "gone" \in odd',
         NEW t, t = NewTask, NEW f \in Int, add_creat(t, f), DOMAIN data' = DOMAIN data \cup {t},
         NEW o, DOMAIN ofs' = DOMAIN ofs \cup {o}, ofs'[o].fileid = -t,
         \A p \in DOMAIN ofs : p # o => ofs'[p].fileid = ofs[p].fileid
  PROVE  FilesInv'
<1>1. t \in Nat \ {0} /\ \A u \in DOMAIN rows : u < t
  BY NewTaskFresh DEF FilesInv, TableTypes
<1>2. /\ DOMAIN rows' = DOMAIN rows \cup {t} /\ \A u \in DOMAIN rows : rows'[u] = rows[u]
      /\ rows'[t].type = "creat" /\ rows'[t].status = 1 /\ rows'[t] \in Row
      /\ rows' \in [DOMAIN rows' -> Row]
      /\ creats' = creats \cup {[id |-> t, rfileid |-> f]}
  BY <1>1 DEF add_creat, With, Row, FilesInv, TableTypes
<1>3. TableTypes'
  <2>1. IsFiniteSet(DOMAIN rows')
    BY <1>2, FS_AddElement DEF FilesInv, TableTypes
  <2> QED BY <1>1, <1>2, <2>1 DEF FilesInv, TableTypes, upload, server
<1>4. Answered'
  BY DEF FilesInv, Answered, upload
<1>5. ASSUME RowsKept PROVE RowsKept'
  <2> USE <1>5
  <2>1. \A p \in DOMAIN ofs' : Kept(p)'
    <3> SUFFICES ASSUME NEW p \in DOMAIN ofs' PROVE Kept(p)'
      OBVIOUS
    <3>1. CASE p = o
      BY <1>1, <1>2, <3>1 DEF Kept
    <3>2. CASE p # o
      BY <1>1, <1>2, <3>2 DEF Kept, RowsKept
    <3> QED BY <3>1, <3>2
  <2>2. \A p, q \in DOMAIN ofs' : ofs'[p].fileid = ofs'[q].fileid /\ ofs'[p].fileid < 0 => p = q
    <3>1. \A p \in DOMAIN ofs : ofs[p].fileid \in Int /\ ofs[p].fileid # -t
      <4> SUFFICES ASSUME NEW p \in DOMAIN ofs PROVE ofs[p].fileid \in Int /\ ofs[p].fileid # -t
        OBVIOUS
      <4>1. ofs[p].fileid \in Int /\ Kept(p)
        BY DEF RowsKept, FilesInv, MemoryTypes, OpenFile
      <4> QED BY <1>1, <4>1 DEF Kept
    <3> QED BY <3>1 DEF RowsKept
  <2>3. \A cr \in creats' : Entry(cr)'
    <3>1. \A cr \in creats : Entry(cr) /\ cr.id # t
      BY <1>1 DEF RowsKept, Entry
    <3> QED BY <1>2, <3>1 DEF Entry
  <2>4. \A u \in DOMAIN rows' : Unlinked(u)'
    BY <1>1, <1>2 DEF RowsKept, Unlinked
  <2>5. Batch'
    <3>1. pc \in Working => Oldest(task.id)' /\ task'.row.type = rows'[task'.id].type
      BY <1>1, <1>2 DEF RowsKept, Batch, Oldest, FilesInv, TableTypes, upload
    <3>2. pc = "cancel" => rows'[task'.id].status = 11
      BY <1>2 DEF RowsKept, Batch, FilesInv, TableTypes, upload, Working
    <3>3. pc \in {"cache", "finish"} =>
            OpenOf(ofs', -task.id) = {} /\ \A cr \in creats' : cr.id # task.id
      BY <1>1, <1>2 DEF RowsKept, Batch, FilesInv, TableTypes, OpenOf, Working
    <3> QED BY <3>1, <3>2, <3>3 DEF RowsKept, Batch, upload
  <2> QED BY <2>1, <2>2, <2>3, <2>4, <2>5 DEF RowsKept
<1> QED BY <1>3, <1>4, <1>5 DEF FilesInv

-----------------------------------------------------------------------------
(* The open files and calls after each kind of step.                       *)
LEMMA FileStepped ==
  ASSUME MemoryTypes, References, UNCHANGED <<fd, calls>>,
         rewriting' \subseteq Handles, \A h \in rewriting' : fd[h] # 0,
         NEW o \in DOMAIN ofs, FileMoved(ofs, ofs', o, 0)
  PROVE  MemoryTypes' /\ References'
<1>1. MemoryTypes'
  BY DEF MemoryTypes, FileMoved
<1>2. \A p \in DOMAIN ofs : Moved(ofs[p], ofs'[p], 0)
  <2> SUFFICES ASSUME NEW p \in DOMAIN ofs, p # o PROVE Moved(ofs[p], ofs[p], 0)
    BY DEF FileMoved
  <2>1. ofs[p].refcnt \in Int /\ ofs[p].writeid \in Nat /\ Timed(ofs[p]) \in Int
    BY DEF MemoryTypes, OpenFile, Timed
  <2> QED BY <2>1 DEF Moved
<1> QED BY <1>1, <1>2, FilesTouched DEF FileMoved

(* A handle opens a file that is open already.                             *)
LEMMA OpenShared ==
  ASSUME MemoryTypes, References, UNCHANGED <<calls, rewriting>>,
         NEW h \in Handles, Unused(h), NEW o \in DOMAIN ofs, fd' = [fd EXCEPT ![h] = o],
         FileMoved(ofs, ofs', o, 1)
  PROVE  MemoryTypes' /\ References'
<1>1. o \in 1 .. MaxOpen /\ MemoryTypes'
  BY BoundsAreNumbers DEF MemoryTypes, FileMoved
<1> QED BY <1>1, FileOpened DEF FileMoved

(* A handle opens a file nobody has open.                                  *)
LEMMA OpenAdded ==
  ASSUME MemoryTypes, References, UNCHANGED <<calls, rewriting>>,
         NEW h \in Handles, Unused(h), Room, fd' = [fd EXCEPT ![h] = NewOpen],
         NEW f \in OpenFile, f.refcnt = 1, f.timer = "none", ofs' = With(ofs, NewOpen, f)
  PROVE  /\ MemoryTypes' /\ References'
         /\ DOMAIN ofs' = DOMAIN ofs \cup {NewOpen} /\ NewOpen \notin DOMAIN ofs
         /\ ofs'[NewOpen] = f /\ \A p \in DOMAIN ofs : ofs'[p] = ofs[p]
<1>1. NewOpen \in 1 .. MaxOpen /\ NewOpen \notin DOMAIN ofs
  BY DEF NewOpen, Room, MemoryTypes
<1> HIDE DEF NewOpen
<1>2. /\ DOMAIN ofs' = DOMAIN ofs \cup {NewOpen} /\ ofs'[NewOpen] = f
      /\ \A p \in DOMAIN ofs : ofs'[p] = ofs[p]
  BY <1>1 DEF With
<1>3. MemoryTypes'
  <2>1. ofs' \in [DOMAIN ofs' -> OpenFile]
    BY DEF With, MemoryTypes
  <2>2. fd' \in [Handles -> 0 .. MaxOpen]
    BY <1>1 DEF MemoryTypes
  <2> QED BY <1>1, <1>2, <2>1, <2>2 DEF MemoryTypes
<1>4. References'
  BY <1>1, <1>2, <1>3, FileOpened
<1> QED BY <1>1, <1>2, <1>3, <1>4

(* A call of another step is a call.                                       *)
LEMMA StepSet ==
  ASSUME NEW c \in FileCall, NEW s \in {"status", "writeid", "drop"}
  PROVE  LET d == [c EXCEPT !.step = s]
         IN /\ d \in FileCall /\ d.step = s
            /\ d.by = c.by /\ d.of = c.of /\ d.writeid = c.writeid /\ d.drop = c.drop
BY Zenon DEF FileCall

(* The calls stay finite.                                                  *)
LEMMA StillFinite ==
  ASSUME NEW S, IsFiniteSet(S), NEW c, NEW d
  PROVE  IsFiniteSet(S \ {c}) /\ IsFiniteSet((S \ {c}) \cup {d})
<1>1. IsFiniteSet(S \ {c})
  BY FS_RemoveElement
<1> QED BY <1>1, FS_AddElement

(* A call whose row is not of status 1 goes on to raise the write id.      *)
LEMMA CallToWriteid ==
  ASSUME MemoryTypes, References, UNCHANGED <<rewriting, fd, ofs>>, NEW c \in calls,
         calls' = (calls \ {c}) \cup {[c EXCEPT !.step = "writeid"]}
  PROVE  MemoryTypes' /\ References'
<1>1. c \in FileCall
  BY DEF MemoryTypes
<1>2. PICK d \in FileCall : /\ calls' = (calls \ {c}) \cup {d} /\ d.step = "writeid"
                            /\ d.by = c.by /\ d.of = c.of /\ d.writeid = c.writeid /\ d.drop = c.drop
  BY <1>1, StepSet, Zenon
<1>3. IsFiniteSet(calls')
  <2>1. IsFiniteSet(calls)
    BY DEF MemoryTypes
  <2>2. IsFiniteSet((calls \ {c}) \cup {d})
    BY <2>1, StillFinite, Zenon
  <2> QED BY <1>2, <2>2, Zenon
<1>4. MemoryTypes'
  BY <1>2, <1>3 DEF MemoryTypes
<1>5. References'
  BY <1>2, CallGoesOn
<1> QED BY <1>4, <1>5

(* A call that is done with the row has its reference to give back, if     *)
(* any.                                                                    *)
LEMMA CallAfter ==
  ASSUME MemoryTypes, References, UNCHANGED <<rewriting, fd, ofs>>, NEW c \in calls,
         calls' = After(c)
  PROVE  MemoryTypes' /\ References'
<1>1. c \in FileCall
  BY DEF MemoryTypes
<1>2. CASE c.drop
  <2>1. calls' = (calls \ {c}) \cup {[c EXCEPT !.step = "drop"]}
    BY <1>2, Zenon DEF After
  <2>2. PICK d \in FileCall : /\ calls' = (calls \ {c}) \cup {d} /\ d.step = "drop"
                              /\ d.by = c.by /\ d.of = c.of /\ d.writeid = c.writeid /\ d.drop = c.drop
    BY <1>1, <2>1, StepSet, Zenon
  <2>3. IsFiniteSet(calls')
    <3>1. IsFiniteSet(calls)
      BY DEF MemoryTypes
    <3>2. IsFiniteSet((calls \ {c}) \cup {d})
      BY <3>1, StillFinite, Zenon
    <3> QED BY <2>2, <3>2, Zenon
  <2>4. MemoryTypes'
    BY <2>2, <2>3 DEF MemoryTypes
  <2>5. References'
    BY <1>2, <2>2, CallGoesOn
  <2> QED BY <2>4, <2>5
<1>3. CASE ~c.drop
  <2>1. calls' = calls \ {c}
    BY <1>3, Zenon DEF After
  <2>2. MemoryTypes'
    <3>1. IsFiniteSet(calls)
      BY DEF MemoryTypes
    <3>2. IsFiniteSet(calls \ {c})
      BY <3>1, StillFinite, Zenon
    <3> QED BY <2>1, <3>2 DEF MemoryTypes
  <2> QED BY <1>3, <2>1, <2>2, CallEnds
<1> QED BY <1>2, <1>3

(* A step that leaves the memory alone.                                    *)
LEMMA MemorySame ==
  ASSUME MemoryTypes, References, UNCHANGED memory
  PROVE  MemoryTypes' /\ References'
BY DEF memory, MemoryTypes, References, Referenced, HandlesOf, DropsOf, CallInv

-----------------------------------------------------------------------------
(* The user's calls.                                                       *)

(* A step that leaves the rows alone.                                      *)
LEMMA SameRows ==
  ASSUME TableTypes, UNCHANGED rows
  PROVE  SameTasks(rows') /\ StatusMoves
BY DEF TableTypes, SameTasks, StatusMoves

(* psync_fs_creat                                                          *)
LEMMA CreateStep ==
  ASSUME FilesInv, NEW h \in Handles, NEW trunc, Create(h, trunc)
  PROVE  FilesInv'
<1> DEFINE t == NewTask
           f == File(-t, 0, TRUE, FALSE)
<1>1. /\ Unused(h) /\ Room /\ add_creat(t, 0) /\ data' = With(data, t, 0)
      /\ ofs' = With(ofs, NewOpen, f) /\ fd' = [fd EXCEPT ![h] = NewOpen]
      /\ UNCHANGED <<table, rewriting, calls, upload, server, odd>>
  BY DEF Create
<1>2. t \in Nat \ {0}
  BY NewTaskFresh DEF FilesInv, TableTypes
<1> HIDE DEF t
<1>3. f \in OpenFile /\ f.refcnt = 1 /\ f.timer = "none" /\ f.fileid = -t
  BY <1>2 DEF File, OpenFile
<1> HIDE DEF f
<1>4. /\ MemoryTypes' /\ References'
      /\ DOMAIN ofs' = DOMAIN ofs \cup {NewOpen}
      /\ ofs'[NewOpen] = f /\ \A p \in DOMAIN ofs : ofs'[p] = ofs[p]
  BY <1>1, <1>3, OpenAdded DEF FilesInv
<1>5. DOMAIN data' = DOMAIN data \cup {t}
  BY <1>1 DEF With
<1>6. t = NewTask
  BY DEF t
<1> QED BY <1>1, <1>3, <1>4, <1>5, <1>6, CreatAdded

(* psync_fs_open of a file of the server                                   *)
LEMMA OpenServerFileStep ==
  ASSUME FilesInv, TableInv, NEW h \in Handles, OpenServerFile(h)
  PROVE  FilesInv'
<1>1. /\ Unused(h)
      /\ UNCHANGED <<rows, data, overlay, table, rewriting, calls, upload, server, odd>>
  BY DEF OpenServerFile, history
<1>2. SameTasks(rows') /\ StatusMoves
  BY <1>1, SameRows DEF FilesInv
<1>3. ASSUME NEW x \in table, NEW o \in OpenOf(ofs, x.id), ofs' = inc_of_refcnt(ofs, o), fd' = [fd EXCEPT ![h] = o]
      PROVE  FilesInv'
  <2>1. o \in DOMAIN ofs /\ ofs \in [DOMAIN ofs -> OpenFile]
    BY DEF OpenOf, FilesInv, MemoryTypes
  <2>2. FileMoved(ofs, ofs', o, 1) /\ ofs'[o].fileid = ofs[o].fileid
    BY <1>3, <2>1, IncRefcnt
  <2>3. MemoryTypes' /\ References'
    BY <1>1, <1>3, <2>1, <2>2, OpenShared DEF FilesInv
  <2>4. OpensMove
    BY <2>2 DEF OpensMove, FileMoved
  <2> QED BY <1>1, <1>2, <2>3, <2>4, UserKeeps DEF overlay
<1>4. ASSUME NEW x \in table, Room, ofs' = With(ofs, NewOpen, File(x.id, 0, FALSE, FALSE)),
             fd' = [fd EXCEPT ![h] = NewOpen]
      PROVE  FilesInv'
  <2> DEFINE f == File(x.id, 0, FALSE, FALSE)
  <2>1. f \in OpenFile /\ f.refcnt = 1 /\ f.timer = "none" /\ f.fileid >= 0
    <3>1. x.id \in Nat
      BY TableIds
    <3> QED BY <3>1 DEF File, OpenFile
  <2>2. ofs' = With(ofs, NewOpen, f)
    BY <1>4
  <2> HIDE DEF f
  <2>3. /\ MemoryTypes' /\ References'
        /\ DOMAIN ofs' = DOMAIN ofs \cup {NewOpen}
        /\ ofs'[NewOpen] = f /\ \A p \in DOMAIN ofs : ofs'[p] = ofs[p]
    BY <1>1, <1>4, <2>1, <2>2, OpenAdded DEF FilesInv
  <2>4. OpensMove
    BY <2>1, <2>3 DEF OpensMove
  <2> QED BY <1>1, <1>2, <2>3, <2>4, UserKeeps DEF overlay
<1> QED BY <1>3, <1>4 DEF OpenServerFile

(* The row of a released file is not being cancelled.                      *)
LEMMA UploadStopped ==
  ASSUME FilesInv, NEW F \in [DOMAIN ofs -> OpenFile], NEW o \in DOMAIN ofs,
         F[o].fileid = ofs[o].fileid, rows' = stop_upload(F, o)
  PROVE  SameTasks(rows') /\ (RowsKept => StatusMoves)
<1>1. CASE ~F[o].released
  BY <1>1, SameRows DEF stop_upload, FilesInv
<1>2. CASE F[o].released
  <2> DEFINE t == -F[o].fileid
  <2>1. rows' = SetStatus(t, 1) /\ rows \in [DOMAIN rows -> Row]
    BY <1>2 DEF stop_upload, FilesInv, TableTypes
  <2>2. /\ SameTasks(rows') /\ \A u \in DOMAIN rows : u # t => rows'[u] = rows[u]
        /\ t \in DOMAIN rows => rows'[t].status = 1
    BY <2>1, StatusSet
  <2>3. ASSUME RowsKept, t \in DOMAIN rows PROVE rows[t].status # 11
    <3>1. t > 0
      BY <2>3 DEF FilesInv, TableTypes
    <3> QED BY <2>3, <3>1 DEF RowsKept, Kept
  <2> QED BY <2>2, <2>3 DEF StatusMoves
<1> QED BY <1>1, <1>2

(* psync_fs_write                                                          *)
LEMMA WriteStep ==
  ASSUME FilesInv, NEW h \in Handles, Write(h)
  PROVE  FilesInv'
<1> DEFINE o == fd[h]
<1>1. /\ Ready(h) /\ ofs' = inc_writeid(ofs, o) /\ rows' = stop_upload(ofs, o)
      /\ data' = With(data, -ofs[o].fileid, ver')
      /\ UNCHANGED <<overlay, table, fd, rewriting, calls, upload, server, odd>>
  BY DEF Write, Written
<1>2. /\ o \in DOMAIN ofs /\ ofs \in [DOMAIN ofs -> OpenFile]
      /\ rewriting \subseteq Handles /\ \A g \in rewriting : fd[g] # 0
  BY <1>1 DEF Ready, FilesInv, References, MemoryTypes
<1>3. FileMoved(ofs, ofs', o, 0) /\ ofs'[o].fileid = ofs[o].fileid
  BY <1>1, <1>2, IncWriteid
<1>4. MemoryTypes' /\ References'
  BY <1>1, <1>2, <1>3, FileStepped DEF FilesInv
<1>5. SameTasks(rows') /\ (RowsKept => StatusMoves)
  BY <1>1, <1>2, UploadStopped
<1>6. OpensMove /\ DOMAIN data \subseteq DOMAIN data'
  BY <1>1, <1>3 DEF OpensMove, FileMoved, With
<1> QED BY <1>1, <1>4, <1>5, <1>6, UserKeeps DEF overlay

(* psync_fs_write of a file of the server, up to the SQL lock              *)
LEMMA WriteServerFileStep ==
  ASSUME FilesInv, NEW h \in Handles, WriteServerFile(h)
  PROVE  FilesInv'
<1> DEFINE o == fd[h]
<1>1. /\ Ready(h) /\ ofs' = inc_writeid(ofs, o) /\ rewriting' = rewriting \cup {h}
      /\ UNCHANGED <<rows, data, overlay, table, fd, calls, upload, server, odd>>
  BY DEF WriteServerFile, history
<1>2. /\ o \in DOMAIN ofs /\ ofs \in [DOMAIN ofs -> OpenFile] /\ fd[h] # 0
      /\ rewriting \subseteq Handles /\ \A g \in rewriting : fd[g] # 0
  BY <1>1 DEF Ready, FilesInv, References, MemoryTypes
<1>3. FileMoved(ofs, ofs', o, 0) /\ ofs'[o].fileid = ofs[o].fileid
  BY <1>1, <1>2, IncWriteid
<1>4. MemoryTypes' /\ References'
  <2>1. rewriting' \subseteq Handles /\ \A g \in rewriting' : fd[g] # 0
    BY <1>1, <1>2
  <2> QED BY <1>1, <1>2, <1>3, <2>1, FileStepped DEF FilesInv
<1>5. SameTasks(rows') /\ StatusMoves
  BY <1>1, SameRows DEF FilesInv
<1>6. OpensMove
  BY <1>1, <1>3 DEF OpensMove, FileMoved
<1> QED BY <1>1, <1>4, <1>5, <1>6, UserKeeps DEF overlay

(* A pending file, open already, gets one reference more.                  *)
LEMMA OpenedAgain ==
  ASSUME MemoryTypes, NEW o \in DOMAIN ofs, NEW b \in BOOLEAN
  PROVE  LET F == OpenAgain(o, b)
         IN FileMoved(ofs, F, o, 1) /\ F[o].fileid = ofs[o].fileid
<1> DEFINE E == inc_of_refcnt(ofs, o)
           F == [E EXCEPT ![o].released = b]
<1>1. FileMoved(ofs, E, o, 1) /\ E[o].fileid = ofs[o].fileid
  BY IncRefcnt DEF MemoryTypes
<1>2. E \in [DOMAIN ofs -> OpenFile]
  BY <1>1 DEF FileMoved
<1> HIDE DEF E
<1>3. FileMoved(E, F, o, 0) /\ F[o].fileid = E[o].fileid
  BY <1>2, ReleasedSet
<1> HIDE DEF F
<1>4. FileMoved(ofs, F, o, 1)
  BY <1>1, <1>2, <1>3, MovedTwice DEF MemoryTypes
<1> QED BY <1>1, <1>3, <1>4 DEF E, F, OpenAgain

(* psync_fs_open of a pending file                                         *)
LEMMA OpenPendingStep ==
  ASSUME FilesInv, NEW h \in Handles, NEW trunc, OpenPending(h, trunc)
  PROVE  FilesInv'
<1>1. /\ Unused(h)
      /\ UNCHANGED <<overlay, table, rewriting, calls, upload, server>>
  BY DEF OpenPending
<1>2. PICK cr \in creats :
        LET t == cr.id
            open == OpenOf(ofs, -t)
            released == rows[t].status # 1
        IN /\ t \in DOMAIN rows
           /\ \/ \E o \in open :
                   LET F == OpenAgain(o, released)
                       change == trunc /\ data[t] # 0
                   IN /\ ofs' = IF change THEN inc_writeid(F, o) ELSE F
                      /\ rows' = IF change THEN stop_upload(F, o) ELSE rows
                      /\ fd' = [fd EXCEPT ![h] = o]
                      /\ odd' = IF ofs[o].released /\ ~released THEN odd \cup {"crossed"} ELSE odd
              \/ /\ open = {} /\ Room
                 /\ ofs' = With(ofs, NewOpen, File(-t, rows[t].int1, TRUE, released))
                 /\ fd' = [fd EXCEPT ![h] = NewOpen]
                 /\ odd' = IF trunc /\ task.id = t THEN odd \cup {"raced"} ELSE odd
                 /\ UNCHANGED rows
           /\ data' = IF trunc \/ t \notin DOMAIN data THEN With(data, t, 0) ELSE data
  BY DEF OpenPending
<1> DEFINE t == cr.id
           released == rows[t].status # 1
<1>3. t \in DOMAIN rows /\ t \in Nat \ {0} /\ rows[t] \in Row
  BY <1>2 DEF FilesInv, TableTypes
<1>4. DOMAIN data \subseteq DOMAIN data' /\ t \in DOMAIN data'
  BY <1>2 DEF With
<1>5. ASSUME NEW o \in OpenOf(ofs, -t), fd' = [fd EXCEPT ![h] = o],
             NEW change \in BOOLEAN,
             ofs' = IF change THEN inc_writeid(OpenAgain(o, released), o) ELSE OpenAgain(o, released),
             rows' = IF change THEN stop_upload(OpenAgain(o, released), o) ELSE rows,
             odd' = IF ofs[o].released /\ ~released THEN odd \cup {"crossed"} ELSE odd
      PROVE  FilesInv'
  <2> DEFINE F == OpenAgain(o, released)
  <2>1. o \in DOMAIN ofs
    BY DEF OpenOf
  <2>2. FileMoved(ofs, F, o, 1) /\ F[o].fileid = ofs[o].fileid /\ F \in [DOMAIN ofs -> OpenFile]
    BY <2>1, OpenedAgain DEF FilesInv, FileMoved
  <2> HIDE DEF F
  <2>3. FileMoved(ofs, ofs', o, 1) /\ ofs'[o].fileid = ofs[o].fileid
    <3>1. CASE ~change
      BY <1>5, <2>2, <3>1 DEF F
    <3>2. CASE change
      <4>1. ofs' = inc_writeid(F, o)
        BY <1>5, <3>2 DEF F
      <4>2. FileMoved(F, ofs', o, 0) /\ ofs'[o].fileid = F[o].fileid
        BY <2>1, <2>2, <4>1, IncWriteid
      <4>3. ofs \in [DOMAIN ofs -> OpenFile]
        BY DEF FilesInv, MemoryTypes
      <4> QED BY <2>1, <2>2, <4>2, <4>3, MovedTwice
    <3> QED BY <3>1, <3>2
  <2>4. MemoryTypes' /\ References'
    BY <1>1, <1>5, <2>1, <2>3, OpenShared DEF FilesInv
  <2>5. SameTasks(rows') /\ (RowsKept => StatusMoves)
    <3>1. CASE ~change
      BY <1>5, <3>1, SameRows DEF FilesInv
    <3>2. CASE change
      <4>1. rows' = stop_upload(F, o)
        BY <1>5, <3>2 DEF F
      <4> QED BY <2>1, <2>2, <4>1, UploadStopped
    <3> QED BY <3>1, <3>2
  <2>6. OpensMove
    BY <2>3 DEF OpensMove, FileMoved
  <2>7. "gone" \in odd => "gone" \in odd'
    BY <1>5
  <2> QED BY <1>1, <1>4, <2>4, <2>5, <2>6, <2>7, UserKeeps DEF overlay
<1>6. ASSUME OpenOf(ofs, -t) = {}, Room, fd' = [fd EXCEPT ![h] = NewOpen], UNCHANGED rows,
             ofs' = With(ofs, NewOpen, File(-t, rows[t].int1, TRUE, released)),
             odd' = IF trunc /\ task.id = t THEN odd \cup {"raced"} ELSE odd
      PROVE  FilesInv'
  <2> DEFINE f == File(-t, rows[t].int1, TRUE, released)
  <2>1. f \in OpenFile /\ f.refcnt = 1 /\ f.timer = "none" /\ f.fileid = -t
    BY <1>3 DEF File, OpenFile, Row
  <2>2. ofs' = With(ofs, NewOpen, f)
    BY <1>6
  <2> HIDE DEF f
  <2>3. /\ MemoryTypes' /\ References'
        /\ DOMAIN ofs' = DOMAIN ofs \cup {NewOpen}
        /\ ofs'[NewOpen] = f /\ \A p \in DOMAIN ofs : ofs'[p] = ofs[p]
    BY <1>1, <1>6, <2>1, <2>2, OpenAdded DEF FilesInv
  <2>4. OpensMove
    <3>1. OpensEntry(NewOpen, cr)
      BY <1>4, <1>6, <2>1, <2>3 DEF OpensEntry, OpenOf
    <3> QED BY <2>3, <3>1 DEF OpensMove
  <2>5. SameTasks(rows') /\ StatusMoves
    BY <1>6, SameRows DEF FilesInv
  <2>6. "gone" \in odd => "gone" \in odd'
    BY <1>6
  <2> QED BY <1>1, <1>4, <2>3, <2>4, <2>5, <2>6, UserKeeps DEF overlay
<1> QED
  <2>1. CASE \E o \in OpenOf(ofs, -t) :
          LET F == OpenAgain(o, released)
              change == trunc /\ data[t] # 0
          IN /\ ofs' = IF change THEN inc_writeid(F, o) ELSE F
             /\ rows' = IF change THEN stop_upload(F, o) ELSE rows
             /\ fd' = [fd EXCEPT ![h] = o]
             /\ odd' = IF ofs[o].released /\ ~released THEN odd \cup {"crossed"} ELSE odd
    <3>1. CASE trunc /\ data[t] # 0
      BY <1>5, <2>1, <3>1
    <3>2. CASE ~(trunc /\ data[t] # 0)
      BY <1>5, <2>1, <3>2
    <3> QED BY <3>1, <3>2
  <2> QED BY <1>2, <1>6, <2>1

(* The open file of a flush, which stops the timer.                        *)
LEMMA ReleasedFile ==
  ASSUME MemoryTypes, NEW o \in DOMAIN ofs
  PROVE  LET G == Released(o)
         IN FileMoved(ofs, G, o, 0) /\ G[o].fileid = ofs[o].fileid
<1> DEFINE G == Released(o)
<1>1. ofs[o] \in OpenFile /\ ofs \in [DOMAIN ofs -> OpenFile] /\ ofs[o].refcnt - 1 \in Int
  BY DEF OpenFile, MemoryTypes
<1>2. G \in [DOMAIN ofs -> OpenFile]
  BY <1>1, ZenonT(60) DEF Released, OpenFile
<1>3. \A p \in DOMAIN ofs : p # o => G[p] = ofs[p]
  BY Zenon DEF Released
<1>4. /\ G[o].fileid = ofs[o].fileid /\ G[o].writeid = ofs[o].writeid
      /\ G[o].timer = IF ofs[o].timer = "set" THEN "none" ELSE ofs[o].timer
      /\ G[o].refcnt = IF ofs[o].timer = "set" THEN ofs[o].refcnt - 1 ELSE ofs[o].refcnt
  BY <1>1, ZenonT(60) DEF Released, OpenFile
<1> HIDE DEF G
<1>5. Moved(ofs[o], G[o], 0)
  <2>1. ofs[o].refcnt \in Int /\ ofs[o].writeid \in Nat
    BY <1>1 DEF OpenFile
  <2>2. CASE ofs[o].timer = "set"
    BY <1>4, <2>1, <2>2 DEF Moved, Timed
  <2>3. CASE ofs[o].timer # "set"
    BY <1>4, <2>1, <2>3 DEF Moved, Timed
  <2> QED BY <2>2, <2>3
<1> QED BY <1>2, <1>3, <1>4, <1>5 DEF FileMoved, G

(* psync_fs_flush and psync_fs_release                                     *)
LEMMA FlushStep ==
  ASSUME FilesInv, NEW h \in Handles, NEW closing \in BOOLEAN, Flush(h, closing)
  PROVE  FilesInv'
<1> DEFINE o == fd[h]
<1>1. /\ Ready(h) /\ fd' = IF closing THEN [fd EXCEPT ![h] = 0] ELSE fd
      /\ UNCHANGED <<rows, data, overlay, table, rewriting, upload, server, odd>>
  BY DEF Flush, history
<1>2. o \in DOMAIN ofs /\ o \in 1 .. MaxOpen /\ ofs[o] \in OpenFile /\ ofs \in [DOMAIN ofs -> OpenFile]
  BY <1>1 DEF Ready, FilesInv, References, MemoryTypes
<1>3. PICK c \in FileCall : /\ calls' = calls \cup {c} /\ c.by = h /\ c.of = o /\ c.drop = closing
                            /\ c.step = "drop" => closing
  <2>1. \A step \in {"status", "writeid", "drop"} :
          /\ Call(h, o, step, closing) \in FileCall
          /\ Call(h, o, step, closing).by = h /\ Call(h, o, step, closing).of = o
          /\ Call(h, o, step, closing).drop = closing /\ Call(h, o, step, closing).step = step
    BY <1>2 DEF Call, FileCall, OpenFile
  <2>2. \/ calls' = calls \cup {Call(h, o, "status", closing)}
        \/ closing /\ calls' = calls \cup {Call(h, o, "drop", closing)}
    BY DEF Flush
  <2>3. CASE calls' = calls \cup {Call(h, o, "status", closing)}
    BY <2>1, <2>3
  <2>4. CASE closing /\ calls' = calls \cup {Call(h, o, "drop", closing)}
    BY <2>1, <2>4
  <2> QED BY <2>2, <2>3, <2>4
<1>4. FileMoved(ofs, ofs', o, 0) /\ ofs'[o].fileid = ofs[o].fileid
  <2>1. CASE ofs' = Released(o)
    BY <1>2, <2>1, ReleasedFile DEF FilesInv
  <2>2. CASE ofs' = ofs
    BY <1>2, <2>2, SameMoved
  <2> QED BY <2>1, <2>2 DEF Flush
<1>5. /\ ofs' \in [DOMAIN ofs -> OpenFile] /\ \A p \in DOMAIN ofs : Moved(ofs[p], ofs'[p], 0)
      /\ \A p \in DOMAIN ofs : ofs'[p].fileid = ofs[p].fileid
  BY <1>2, <1>4, SameMoved DEF FileMoved
<1>6. MemoryTypes'
  <2>1. fd' \in [Handles -> 0 .. MaxOpen] /\ calls' \subseteq FileCall
    BY <1>1, <1>3, BoundsAreNumbers DEF FilesInv, MemoryTypes
  <2>2. IsFiniteSet(calls')
    <3>1. IsFiniteSet(calls)
      BY DEF FilesInv, MemoryTypes
    <3> QED BY <1>3, <3>1, FS_AddElement
  <2> QED BY <1>1, <1>5, <2>1, <2>2 DEF FilesInv, MemoryTypes
<1>7. References'
  <2>1. fd' = IF c.drop THEN [fd EXCEPT ![h] = 0] ELSE fd
    BY <1>1, <1>3
  <2> QED BY <1>1, <1>3, <1>5, <1>6, <2>1, FlushCalled DEF FilesInv
<1>8. SameTasks(rows') /\ StatusMoves
  BY <1>1, SameRows DEF FilesInv
<1>9. OpensMove
  BY <1>5 DEF OpensMove
<1> QED BY <1>1, <1>6, <1>7, <1>8, <1>9, UserKeeps DEF overlay

(* psync_fs_mark_openfile_deleted sets a flag that refers to nothing.      *)
LEMMA MarkedDeleted ==
  ASSUME MemoryTypes, NEW t
  PROVE  LET G == mark_openfile_deleted(t)
         IN /\ G \in [DOMAIN ofs -> OpenFile]
            /\ \A o \in DOMAIN ofs : G[o].fileid = ofs[o].fileid /\ Moved(ofs[o], G[o], 0)
<1> DEFINE G == mark_openfile_deleted(t)
<1>1. ofs \in [DOMAIN ofs -> OpenFile] /\ \A o \in DOMAIN ofs : ofs[o] \in OpenFile
  BY DEF MemoryTypes
<1>2. CASE task.id = t
  BY <1>1, <1>2, SameMoved DEF mark_openfile_deleted
<1>3. CASE task.id # t
  <2>1. \A o \in DOMAIN ofs : (ofs[o].deleted \/ ofs[o].fileid = -t) \in BOOLEAN
    BY <1>1 DEF OpenFile
  <2>2. G = [o \in DOMAIN ofs |-> [ofs[o] EXCEPT !.deleted = @ \/ ofs[o].fileid = -t]]
    BY <1>3, Zenon DEF mark_openfile_deleted
  <2>3. G \in [DOMAIN ofs -> OpenFile]
    BY <1>1, <2>1, <2>2, ZenonT(180) DEF OpenFile
  <2>4. \A o \in DOMAIN ofs : /\ G[o].fileid = ofs[o].fileid /\ G[o].writeid = ofs[o].writeid
                              /\ G[o].timer = ofs[o].timer /\ G[o].refcnt = ofs[o].refcnt
    BY <1>1, <2>2, ZenonT(60) DEF OpenFile
  <2> HIDE DEF G
  <2>5. \A o \in DOMAIN ofs : Moved(ofs[o], G[o], 0)
    <3> SUFFICES ASSUME NEW o \in DOMAIN ofs PROVE Moved(ofs[o], G[o], 0)
      OBVIOUS
    <3>1. ofs[o].refcnt \in Int /\ ofs[o].writeid \in Nat
      BY <1>1 DEF OpenFile
    <3> QED BY <2>4, <3>1 DEF Moved, Timed
  <2> QED BY <2>3, <2>4, <2>5 DEF G
<1> QED BY <1>2, <1>3

(* psync_fstask_unlink of a task that was given up                         *)
LEMMA UnlinkFailsStep ==
  ASSUME FilesInv, UnlinkFails
  PROVE  FilesInv'
<1>1. UNCHANGED <<rows, data, table, fd, rewriting, calls, upload, server, odd>>
  BY DEF UnlinkFails, history
<1>2. PICK cr \in creats : creats' = creats \ {cr} /\ ofs' = mark_openfile_deleted(cr.id)
  BY DEF UnlinkFails
<1>3. /\ ofs' \in [DOMAIN ofs -> OpenFile]
      /\ \A o \in DOMAIN ofs : ofs'[o].fileid = ofs[o].fileid /\ Moved(ofs[o], ofs'[o], 0)
  BY <1>2, MarkedDeleted DEF FilesInv
<1>4. MemoryTypes'
  BY <1>1, <1>3 DEF FilesInv, MemoryTypes
<1>5. References'
  <2>1. \A h \in rewriting' : fd[h] # 0
    BY <1>1 DEF FilesInv, References
  <2> QED BY <1>1, <1>3, <1>4, <2>1, FilesTouched DEF FilesInv
<1>6. SameTasks(rows') /\ StatusMoves
  BY <1>1, SameRows DEF FilesInv
<1>7. OpensMove
  BY <1>3 DEF OpensMove
<1> QED BY <1>1, <1>2, <1>4, <1>5, <1>6, <1>7, UserKeeps

(* The open file of a server file that becomes a new file.                 *)
LEMMA FileRenamed ==
  ASSUME MemoryTypes, NEW o \in DOMAIN ofs, NEW f \in Int
  PROVE  LET G == [ofs EXCEPT ![o].fileid = f, ![o].modified = TRUE]
         IN FileMoved(ofs, G, o, 0) /\ G[o].fileid = f
<1> DEFINE G == [ofs EXCEPT ![o].fileid = f, ![o].modified = TRUE]
<1>1. ofs[o] \in OpenFile /\ ofs \in [DOMAIN ofs -> OpenFile]
  BY DEF MemoryTypes
<1>2. G \in [DOMAIN ofs -> OpenFile]
  BY <1>1, ZenonT(60) DEF OpenFile
<1>3. \A p \in DOMAIN ofs : p # o => G[p] = ofs[p]
  BY Zenon
<1>4. /\ G[o].fileid = f /\ G[o].writeid = ofs[o].writeid
      /\ G[o].timer = ofs[o].timer /\ G[o].refcnt = ofs[o].refcnt
  BY <1>1, ZenonT(60) DEF OpenFile
<1> HIDE DEF G
<1>5. Moved(ofs[o], G[o], 0)
  <2>1. ofs[o].refcnt \in Int /\ ofs[o].writeid \in Nat
    BY <1>1 DEF OpenFile
  <2> QED BY <1>4, <2>1 DEF Moved, Timed
<1> QED BY <1>2, <1>3, <1>4, <1>5 DEF FileMoved, G

(* psync_fs_reopen_file_for_writing                                        *)
LEMMA ReopenStep ==
  ASSUME FilesInv, NEW h \in Handles, psync_fs_reopen_file_for_writing(h)
  PROVE  FilesInv'
<1> DEFINE o == fd[h]
           s == ofs[o].fileid
           t == NewTask
<1>1. /\ h \in rewriting /\ rewriting' = rewriting \ {h}
      /\ UNCHANGED <<table, fd, calls, upload, server>>
  BY DEF psync_fs_reopen_file_for_writing
<1>2. /\ o \in DOMAIN ofs /\ ofs[o] \in OpenFile /\ ofs \in [DOMAIN ofs -> OpenFile] /\ s \in Int
      /\ rewriting' \subseteq Handles /\ \A g \in rewriting' : fd[g] # 0
  BY <1>1 DEF FilesInv, References, MemoryTypes, OpenFile
<1>3. CASE /\ data' = With(data, -s, ver')
           /\ UNCHANGED <<rows, overlay, ofs>>
           /\ odd' = IF Sent(-s, ofs[o].writeid) THEN odd \cup {"late"} ELSE odd
  <2>1. FileMoved(ofs, ofs', o, 0)
    BY <1>2, <1>3, SameMoved
  <2>2. MemoryTypes' /\ References'
    BY <1>1, <1>2, <2>1, FileStepped DEF FilesInv
  <2>3. SameTasks(rows') /\ StatusMoves
    BY <1>3, SameRows DEF FilesInv
  <2>4. OpensMove /\ DOMAIN data \subseteq DOMAIN data'
    BY <1>3 DEF OpensMove, With
  <2>5. "gone" \in odd => "gone" \in odd'
    BY <1>3
  <2> QED BY <1>1, <1>3, <2>2, <2>3, <2>4, <2>5, UserKeeps DEF overlay
<1>4. ASSUME add_creat(t, s), data' = With(data, t, ver'),
             ofs' = [ofs EXCEPT ![o].fileid = -t, ![o].modified = TRUE],
             odd' = IF TableVisible /\ InTable(s) THEN odd ELSE odd \cup {"revived"}
      PROVE  FilesInv'
  <2>1. t \in Nat \ {0}
    BY NewTaskFresh DEF FilesInv, TableTypes
  <2>2. FileMoved(ofs, ofs', o, 0) /\ ofs'[o].fileid = -t
    <3>1. -t \in Int /\ MemoryTypes
      BY <2>1 DEF FilesInv
    <3> HIDE DEF t
    <3> QED BY <1>2, <1>4, <3>1, FileRenamed, Zenon
  <2>3. MemoryTypes' /\ References'
    BY <1>1, <1>2, <2>2, FileStepped DEF FilesInv
  <2>4. DOMAIN data' = DOMAIN data \cup {t}
    BY <1>4 DEF With
  <2>5. "gone" \in odd => "gone" \in odd'
    BY <1>4
  <2>6. /\ DOMAIN ofs' = DOMAIN ofs \cup {o}
        /\ \A p \in DOMAIN ofs : p # o => ofs'[p].fileid = ofs[p].fileid
    BY <1>2, <2>2 DEF FileMoved
  <2> QED BY <1>1, <1>2, <1>4, <2>2, <2>3, <2>4, <2>5, <2>6, CreatAdded
<1> QED BY <1>3, <1>4, Zenon DEF psync_fs_reopen_file_for_writing, Written

-----------------------------------------------------------------------------
(* The calls and the timer.                                                *)

(* The first update of the row by a flush.                                 *)
LEMMA ReleaseRowStep ==
  ASSUME FilesInv, NEW c \in calls, ReleaseRow(c)
  PROVE  FilesInv'
<1> DEFINE t == -ofs[c.of].fileid
<1>1. /\ UNCHANGED <<ofs, fd, rewriting>>
      /\ UNCHANGED <<data, overlay, table, upload, server>>
      /\ "gone" \in odd => "gone" \in odd'
  BY DEF ReleaseRow, OddIf
<1>2. c.writeid \in Nat /\ rows \in [DOMAIN rows -> Row]
  BY DEF FilesInv, MemoryTypes, FileCall, TableTypes
<1>3. OpensMove
  BY <1>1 DEF OpensMove
<1>4. ASSUME t \in DOMAIN rows, rows[t].status = 1, calls' = After(c),
             rows' = [rows EXCEPT ![t].status = 0, ![t].int1 = c.writeid]
      PROVE  FilesInv'
  <2>1. SameTasks(rows') /\ (\A u \in DOMAIN rows : u # t => rows'[u] = rows[u]) /\ rows'[t].status = 0
    BY <1>2, <1>4, ReleasedRow, Zenon
  <2>2. rows[t].status = 1 /\ calls' = After(c)
    BY <1>4
  <2>3. StatusMoves
    BY <2>1, <2>2 DEF StatusMoves
  <2>4. MemoryTypes' /\ References'
    BY <1>1, <2>2, CallAfter DEF FilesInv
  <2> QED BY <1>1, <1>3, <2>1, <2>3, <2>4, UserKeeps DEF overlay
<1>5. ASSUME calls' = (calls \ {c}) \cup {[c EXCEPT !.step = "writeid"]}, UNCHANGED rows
      PROVE  FilesInv'
  <2>1. MemoryTypes' /\ References'
    BY <1>1, <1>5, CallToWriteid, Zenon DEF FilesInv
  <2>2. rows' = rows
    BY <1>5
  <2>3. SameTasks(rows') /\ StatusMoves
    BY <2>2, SameRows DEF FilesInv
  <2> QED BY <1>1, <1>3, <2>1, <2>3, UserKeeps DEF overlay
<1> QED BY <1>4, <1>5, Zenon DEF ReleaseRow

(* The second update of the row by a flush.                                *)
LEMMA RaiseWriteidStep ==
  ASSUME FilesInv, NEW c \in calls, RaiseWriteid(c)
  PROVE  FilesInv'
<1> DEFINE t == -ofs[c.of].fileid
<1>1. /\ UNCHANGED <<ofs, fd, rewriting>> /\ calls' = After(c)
      /\ UNCHANGED <<data, overlay, table, upload, server>>
      /\ "gone" \in odd => "gone" \in odd'
  BY DEF RaiseWriteid, OddIf
<1>2. c.writeid \in Nat /\ rows \in [DOMAIN rows -> Row]
  BY DEF FilesInv, MemoryTypes, FileCall, TableTypes
<1>3. OpensMove
  BY <1>1 DEF OpensMove
<1>4. SameTasks(rows') /\ StatusMoves
  <2>1. ASSUME t \in DOMAIN rows, rows' = [rows EXCEPT ![t].int1 = c.writeid]
        PROVE  SameTasks(rows') /\ StatusMoves
    <3>1. SameTasks(rows') /\ \A u \in DOMAIN rows : rows'[u].status = rows[u].status
      BY <1>2, <2>1, WriteidRaised, Zenon
    <3> QED BY <3>1 DEF StatusMoves
  <2>2. CASE rows' = rows
    BY <2>2, SameRows DEF FilesInv
  <2> QED BY <2>1, <2>2, Zenon DEF RaiseWriteid
<1>5. MemoryTypes' /\ References'
  BY <1>1, CallAfter DEF FilesInv
<1> QED BY <1>1, <1>3, <1>4, <1>5, UserKeeps DEF overlay

(* An open file with one reference less.                                   *)
LEMMA DecRefcnt ==
  ASSUME MemoryTypes, NEW o \in DOMAIN ofs
  PROVE  LET G == [ofs EXCEPT ![o].refcnt = @ - 1]
         IN FileMoved(ofs, G, o, -1) /\ G[o].fileid = ofs[o].fileid
<1> DEFINE G == [ofs EXCEPT ![o].refcnt = @ - 1]
<1>1. ofs[o] \in OpenFile /\ ofs \in [DOMAIN ofs -> OpenFile] /\ ofs[o].refcnt - 1 \in Int
  BY DEF OpenFile, MemoryTypes
<1>2. G \in [DOMAIN ofs -> OpenFile]
  BY <1>1, ZenonT(60) DEF OpenFile
<1>3. \A p \in DOMAIN ofs : p # o => G[p] = ofs[p]
  BY Zenon
<1>4. /\ G[o].fileid = ofs[o].fileid /\ G[o].writeid = ofs[o].writeid
      /\ G[o].timer = ofs[o].timer /\ G[o].refcnt = ofs[o].refcnt - 1
  BY <1>1, ZenonT(60) DEF OpenFile
<1> HIDE DEF G
<1>5. Moved(ofs[o], G[o], -1)
  <2>1. ofs[o].refcnt \in Int /\ ofs[o].writeid \in Nat
    BY <1>1 DEF OpenFile
  <2>2. Timed(G[o]) = Timed(ofs[o]) /\ Timed(ofs[o]) \in Int
    BY <1>4 DEF Timed
  <2>3. ofs[o].refcnt - 1 - Timed(ofs[o]) = ofs[o].refcnt - Timed(ofs[o]) + (-1)
    BY <2>1, <2>2
  <2> QED BY <1>4, <2>1, <2>2, <2>3 DEF Moved
<1> QED BY <1>2, <1>3, <1>4, <1>5 DEF FileMoved, G

(* psync_fs_dec_of_refcnt                                                  *)
LEMMA DecOfRefcntStep ==
  ASSUME FilesInv, NEW c \in calls, psync_fs_dec_of_refcnt(c)
  PROVE  FilesInv'
<1> DEFINE o == c.of
           t == -ofs[o].fileid
<1>1. /\ c.step = "drop" /\ calls' = calls \ {c}
      /\ UNCHANGED <<data, overlay, table, fd, rewriting, upload, server, odd>>
  BY DEF psync_fs_dec_of_refcnt, history
<1>2. /\ c.drop /\ o \in DOMAIN ofs /\ ofs[o] \in OpenFile /\ ofs \in [DOMAIN ofs -> OpenFile]
      /\ rows \in [DOMAIN rows -> Row] /\ ofs[o].refcnt \in Int
  BY <1>1 DEF FilesInv, References, CallInv, MemoryTypes, TableTypes, OpenFile
<1>3. IsFiniteSet(calls')
  <2>1. IsFiniteSet(calls)
    BY DEF FilesInv, MemoryTypes
  <2> QED BY <1>1, <2>1, StillFinite
<1>4. ASSUME ofs[o].refcnt > 1, ofs' = [ofs EXCEPT ![o].refcnt = @ - 1], UNCHANGED rows
      PROVE  FilesInv'
  <2>1. FileMoved(ofs, ofs', o, -1) /\ ofs'[o].fileid = ofs[o].fileid
    BY <1>2, <1>4, DecRefcnt, Zenon DEF FilesInv
  <2>2. ofs[o].refcnt # 1 /\ rows' = rows
    BY <1>2, <1>4
  <2>3. MemoryTypes'
    BY <1>1, <1>3, <2>1 DEF FilesInv, MemoryTypes, FileMoved
  <2>4. References'
    BY <1>1, <1>2, <2>1, <2>2, <2>3, ReferenceDropped DEF FilesInv, FileMoved
  <2>5. SameTasks(rows') /\ StatusMoves
    BY <2>2, SameRows DEF FilesInv
  <2>6. OpensMove
    BY <2>1 DEF OpensMove, FileMoved
  <2> QED BY <1>1, <2>3, <2>4, <2>5, <2>6, UserKeeps DEF overlay
<1>5. ASSUME ofs[o].refcnt = 1, ofs' = Restrict(ofs, DOMAIN ofs \ {o}),
             rows' = IF ofs[o].deleted /\ t \in DOMAIN rows /\ rows[t].status = 12
                     THEN SetStatus(t, 11) ELSE rows
      PROVE  FilesInv'
  <2>1. DOMAIN ofs' = DOMAIN ofs \ {o} /\ \A p \in DOMAIN ofs' : ofs'[p] = ofs[p]
    BY <1>5 DEF Restrict
  <2>2. MemoryTypes'
    <3>1. ofs' \in [DOMAIN ofs' -> OpenFile]
      BY <1>2, <1>5 DEF Restrict
    <3> QED BY <1>1, <1>3, <2>1, <3>1 DEF FilesInv, MemoryTypes
  <2>3. References'
    BY <1>1, <1>2, <1>5, <2>1, <2>2, ReferenceDropped DEF FilesInv
  <2>4. OpensMove
    BY <2>1 DEF OpensMove
  <2>5. SameTasks(rows') /\ (RowsKept => StatusMoves)
    <3>1. CASE rows' = rows
      BY <3>1, SameRows DEF FilesInv
    <3>2. CASE t \in DOMAIN rows /\ rows[t].status = 12 /\ rows' = SetStatus(t, 11)
      <4>1. SameTasks(rows') /\ (\A u \in DOMAIN rows : u # t => rows'[u] = rows[u]) /\ rows'[t].status = 11
        BY <1>2, <3>2, StatusSet
      <4>2. ASSUME RowsKept, NEW p \in DOMAIN ofs' PROVE ofs'[p].fileid # -t
        <5>1. ofs[o].fileid \in Int /\ t > 0
          BY <1>2, <3>2 DEF OpenFile, FilesInv, TableTypes
        <5>2. -t = ofs[o].fileid /\ ofs[o].fileid < 0
          BY <5>1
        <5> QED BY <1>2, <2>1, <4>2, <5>2 DEF RowsKept
      <4> QED BY <3>2, <4>1, <4>2 DEF StatusMoves
    <3> QED BY <1>5, <3>1, <3>2
  <2> QED BY <1>1, <2>2, <2>3, <2>4, <2>5, UserKeeps DEF overlay
<1> QED BY <1>4, <1>5, Zenon DEF psync_fs_dec_of_refcnt

(* The open file whose timer expires.                                      *)
LEMMA TimerMoved ==
  ASSUME MemoryTypes, NEW o \in DOMAIN ofs, ofs[o].timer = "set"
  PROVE  LET G == [ofs EXCEPT ![o].timer = "running"]
         IN FileMoved(ofs, G, o, 0) /\ G[o].fileid = ofs[o].fileid
<1> DEFINE G == [ofs EXCEPT ![o].timer = "running"]
<1>1. ofs[o] \in OpenFile /\ ofs \in [DOMAIN ofs -> OpenFile]
  BY DEF MemoryTypes
<1>2. G \in [DOMAIN ofs -> OpenFile]
  BY <1>1, ZenonT(60) DEF OpenFile
<1>3. \A p \in DOMAIN ofs : p # o => G[p] = ofs[p]
  BY Zenon
<1>4. /\ G[o].fileid = ofs[o].fileid /\ G[o].writeid = ofs[o].writeid
      /\ G[o].timer = "running" /\ G[o].refcnt = ofs[o].refcnt
  BY <1>1, ZenonT(60) DEF OpenFile
<1> HIDE DEF G
<1>5. Moved(ofs[o], G[o], 0)
  <2>1. ofs[o].refcnt \in Int /\ ofs[o].writeid \in Nat
    BY <1>1 DEF OpenFile
  <2> QED BY <1>4, <2>1 DEF Moved, Timed
<1> QED BY <1>2, <1>3, <1>4, <1>5 DEF FileMoved, G

(* The timer thread starts the callback.                                   *)
LEMMA ExpireStep ==
  ASSUME FilesInv, Expire
  PROVE  FilesInv'
<1>1. /\ UNCHANGED <<fd, calls, rewriting>>
      /\ UNCHANGED <<rows, data, overlay, table, upload, server, odd>>
  BY Zenon DEF Expire, history
<1>2. PICK o \in DOMAIN ofs : ofs[o].timer = "set" /\ ofs' = [ofs EXCEPT ![o].timer = "running"]
  BY Zenon DEF Expire
<1>3. FileMoved(ofs, ofs', o, 0) /\ ofs'[o].fileid = ofs[o].fileid
  BY <1>2, TimerMoved, Zenon DEF FilesInv
<1>4. rewriting' \subseteq Handles /\ \A g \in rewriting' : fd[g] # 0
  BY <1>1 DEF FilesInv, References, MemoryTypes
<1>5. MemoryTypes' /\ References'
  BY <1>1, <1>3, <1>4, FileStepped DEF FilesInv
<1>6. SameTasks(rows') /\ StatusMoves
  BY <1>1, SameRows DEF FilesInv
<1>7. OpensMove
  BY <1>3 DEF OpensMove, FileMoved
<1> QED BY <1>1, <1>5, <1>6, <1>7, UserKeeps DEF overlay

(* The open file whose callback has of->mutex.                             *)
LEMMA TimerDone ==
  ASSUME MemoryTypes, NEW o \in DOMAIN ofs, NEW b \in BOOLEAN
  PROVE  LET G == [ofs EXCEPT ![o].timer = "none", ![o].released = @ \/ b]
         IN /\ G \in [DOMAIN ofs -> OpenFile] /\ \A p \in DOMAIN ofs : p # o => G[p] = ofs[p]
            /\ G[o].fileid = ofs[o].fileid /\ G[o].writeid = ofs[o].writeid
            /\ G[o].timer = "none" /\ G[o].refcnt = ofs[o].refcnt
<1> DEFINE G == [ofs EXCEPT ![o].timer = "none", ![o].released = @ \/ b]
<1>1. ofs[o] \in OpenFile /\ ofs \in [DOMAIN ofs -> OpenFile] /\ (ofs[o].released \/ b) \in BOOLEAN
  BY DEF MemoryTypes
<1>2. G \in [DOMAIN ofs -> OpenFile]
  BY <1>1, ZenonT(60) DEF OpenFile
<1>3. \A p \in DOMAIN ofs : p # o => G[p] = ofs[p]
  BY Zenon
<1>4. /\ G[o].fileid = ofs[o].fileid /\ G[o].writeid = ofs[o].writeid
      /\ G[o].timer = "none" /\ G[o].refcnt = ofs[o].refcnt
  BY <1>1, ZenonT(60) DEF OpenFile
<1> QED BY <1>2, <1>3, <1>4

(* psync_fs_write_timer                                                    *)
LEMMA WriteTimerStep ==
  ASSUME FilesInv, psync_fs_write_timer
  PROVE  FilesInv'
<1>1. UNCHANGED <<rows, data, overlay, table, fd, rewriting, upload, server, odd>>
  BY Zenon DEF psync_fs_write_timer, history
<1>2. PICK o \in DOMAIN ofs :
        LET release == ofs[o].modified /\ ~ofs[o].released
        IN /\ ofs[o].timer = "running"
           /\ ofs' = [ofs EXCEPT ![o].timer = "none", ![o].released = @ \/ release]
           /\ calls' = calls \cup {Call(Timer, o, IF release THEN "status" ELSE "drop", TRUE)}
  BY Zenon DEF psync_fs_write_timer
<1> DEFINE release == ofs[o].modified /\ ~ofs[o].released
           c == Call(Timer, o, IF release THEN "status" ELSE "drop", TRUE)
<1>3. /\ ofs' \in [DOMAIN ofs -> OpenFile] /\ \A p \in DOMAIN ofs : p # o => ofs'[p] = ofs[p]
      /\ ofs'[o].fileid = ofs[o].fileid /\ ofs'[o].writeid = ofs[o].writeid
      /\ ofs'[o].timer = "none" /\ ofs'[o].refcnt = ofs[o].refcnt
  <2>1. release \in BOOLEAN
    BY DEF FilesInv, MemoryTypes, OpenFile
  <2>2. ofs' = [ofs EXCEPT ![o].timer = "none", ![o].released = @ \/ release]
    BY <1>2, Zenon
  <2>3. MemoryTypes
    BY DEF FilesInv
  <2> HIDE DEF release
  <2> QED BY <2>1, <2>2, <2>3, TimerDone, ZenonT(60)
<1>4. ofs[o].timer = "running" /\ calls' = calls \cup {c}
  BY <1>2, Zenon
<1>5. c \in FileCall /\ c.by = Timer /\ c.of = o /\ c.writeid = ofs[o].writeid /\ c.drop
  BY DEF Call, FileCall, FilesInv, MemoryTypes, OpenFile
<1> HIDE DEF c, release
<1>6. MemoryTypes'
  <2>1. IsFiniteSet(calls')
    <3>1. IsFiniteSet(calls)
      BY DEF FilesInv, MemoryTypes
    <3> QED BY <1>4, <3>1, FS_AddElement
  <2> QED BY <1>1, <1>3, <1>4, <1>5, <2>1 DEF FilesInv, MemoryTypes
<1>7. References'
  BY <1>1, <1>3, <1>4, <1>5, <1>6, TimerCalled DEF FilesInv
<1>8. SameTasks(rows') /\ StatusMoves
  BY <1>1, SameRows DEF FilesInv
<1>9. OpensMove
  BY <1>3 DEF OpensMove
<1> QED BY <1>1, <1>6, <1>7, <1>8, <1>9, UserKeeps DEF overlay

-----------------------------------------------------------------------------
(* psync_fstask_unlink adds the youngest row; it cancels that of the entry *)
(* it removes, at once or when the file is closed for the last time.       *)
LEMMA UnlinkAdded ==
  ASSUME FilesInv, MemoryTypes', References', UNCHANGED <<data, table, upload, server>>,
         "gone" \in odd => "gone" \in odd', creats' \subseteq creats,
         NEW t, t = NewTask, NEW S, SameTasks(S), NEW f \in Int, NEW r \in Int, NEW s \in {0, 11},
         rows' = With(S, t, Unlink(f, r, s)),
         DOMAIN ofs' = DOMAIN ofs, \A o \in DOMAIN ofs : ofs'[o].fileid = ofs[o].fileid,
         RowsKept => \A u \in DOMAIN rows :
           \/ S[u].status = rows[u].status
           \/ /\ S[u].status \in {11, 12} /\ f = -u /\ u # task.id
              /\ \A cr \in creats' : cr.id # u
              /\ S[u].status = 11 => \A o \in DOMAIN ofs : ofs[o].fileid # -u
  PROVE  FilesInv'
<1>1. t \in Nat \ {0} /\ \A u \in DOMAIN rows : u < t
  BY NewTaskFresh DEF FilesInv, TableTypes
<1>2. /\ DOMAIN rows' = DOMAIN rows \cup {t} /\ rows' \in [DOMAIN rows' -> Row]
      /\ rows'[t] = Unlink(f, r, s) /\ rows'[t].type = "unlink" /\ rows'[t].fileid = f
      /\ \A u \in DOMAIN rows : rows'[u] = S[u]
      /\ \A u \in DOMAIN rows : S[u].type = rows[u].type /\ S[u].fileid = rows[u].fileid
  <2>1. Unlink(f, r, s) \in Row /\ Unlink(f, r, s).type = "unlink" /\ Unlink(f, r, s).fileid = f
    BY DEF Unlink, Row
  <2>2. S \in [DOMAIN rows -> Row]
    BY DEF SameTasks
  <2> QED BY <1>1, <2>1, <2>2 DEF With, SameTasks
<1>3. TableTypes'
  <2>1. IsFiniteSet(DOMAIN rows')
    <3>1. IsFiniteSet(DOMAIN rows)
      BY DEF FilesInv, TableTypes
    <3> QED BY <1>2, <3>1, FS_AddElement
  <2>2. creats' \subseteq [id : Nat \ {0}, rfileid : Int] /\ DOMAIN rows' \subseteq Nat \ {0}
    BY <1>1, <1>2 DEF FilesInv, TableTypes
  <2> QED BY <1>2, <2>1, <2>2 DEF FilesInv, TableTypes, upload, server
<1>4. Answered'
  BY DEF FilesInv, Answered, upload
<1>5. ASSUME RowsKept PROVE RowsKept'
  <2> USE <1>5
  <2>1. \A o \in DOMAIN ofs' : Kept(o)'
    <3> SUFFICES ASSUME NEW o \in DOMAIN ofs PROVE Kept(o)'
      OBVIOUS
    <3>1. Kept(o) /\ ofs[o].fileid \in Int
      BY DEF RowsKept, FilesInv, MemoryTypes, OpenFile
    <3> DEFINE u == -ofs[o].fileid
    <3>2. ofs[o].fileid = -u
      BY <3>1
    <3>3. u > 0 => u \in DOMAIN rows /\ rows'[u].type = "creat" /\ rows'[u].status # 11 /\ u \in DOMAIN data
      BY <1>2, <3>1, <3>2 DEF Kept
    <3> QED BY <1>2, <3>3 DEF Kept
  <2>2. \A o, p \in DOMAIN ofs' : ofs'[o].fileid = ofs'[p].fileid /\ ofs'[o].fileid < 0 => o = p
    BY DEF RowsKept
  <2>3. \A cr \in creats' : Entry(cr)'
    BY <1>2 DEF RowsKept, Entry
  <2>4. \A u \in DOMAIN rows' : Unlinked(u)'
    <3> SUFFICES ASSUME NEW u \in DOMAIN rows, rows'[u].type = "creat", rows'[u].status \in {11, 12}
                 PROVE  \E w \in DOMAIN rows' : w > u /\ rows'[w].type = "unlink" /\ rows'[w].fileid = -u
      BY <1>2 DEF Unlinked
    <3>1. CASE S[u].status = rows[u].status
      <4>1. PICK w \in DOMAIN rows : w > u /\ rows[w].type = "unlink" /\ rows[w].fileid = -u
        BY <1>2, <3>1 DEF RowsKept, Unlinked
      <4> QED BY <1>2, <4>1
    <3>2. CASE f = -u
      BY <1>1, <1>2, <3>2 DEF FilesInv, TableTypes
    <3> QED BY <3>1, <3>2
  <2>5. Batch'
    <3>1. pc \in Working => Oldest(task.id)' /\ task'.row.type = rows'[task'.id].type
      BY <1>1, <1>2 DEF RowsKept, Batch, Oldest, FilesInv, TableTypes, upload
    <3>2. pc = "cancel" => rows'[task'.id].status = 11
      BY <1>2 DEF RowsKept, Batch, FilesInv, TableTypes, upload, Working
    <3>3. pc \in {"cache", "finish"} =>
            OpenOf(ofs', -task.id) = {} /\ \A cr \in creats' : cr.id # task.id
      BY DEF RowsKept, Batch, OpenOf
    <3> QED BY <3>1, <3>2, <3>3 DEF RowsKept, Batch, upload
  <2> QED BY <2>1, <2>2, <2>3, <2>4, <2>5 DEF RowsKept
<1> QED BY <1>3, <1>4, <1>5 DEF FilesInv

(* psync_fstask_unlink                                                     *)
LEMMA UnlinkStep ==
  ASSUME FilesInv, TableInv, psync_fstask_unlink
  PROVE  FilesInv'
<1> DEFINE t == NewTask
<1>1. UNCHANGED <<data, table, fd, rewriting, calls, upload, server>>
  BY DEF psync_fstask_unlink
<1>2. rows \in [DOMAIN rows -> Row] /\ \A cr \in creats : cr.id \in Nat \ {0} /\ cr.rfileid \in Int
  BY DEF FilesInv, TableTypes
<1>3. ASSUME NEW f \in table, rows' = With(rows, t, Unlink(f.id, 0, 0)), UNCHANGED <<creats, ofs>>,
             odd' = IF Stale(f) THEN odd \cup {"stale"} ELSE odd
      PROVE  FilesInv'
  <2>0. PICK x \in Int : x = f.id
    BY TableIds
  <2>1. MemoryTypes' /\ References'
    BY <1>1, <1>3, MemorySame DEF FilesInv, memory
  <2>2. SameTasks(rows)
    BY <1>2 DEF SameTasks
  <2> QED BY <1>1, <1>2, <1>3, <2>0, <2>1, <2>2, UnlinkAdded
<1>4. ASSUME NEW cr \in creats,
             rows' = With(stop_and_delete_file(cr.id), t, Unlink(-cr.id, cr.rfileid, 11)),
             ofs' = mark_openfile_deleted(cr.id), creats' = creats \ {cr},
             odd' = IF Unknown(cr) THEN odd \cup {"orphan"} ELSE odd
      PROVE  FilesInv'
  <2> DEFINE S == stop_and_delete_file(cr.id)
  <2>1. /\ ofs' \in [DOMAIN ofs -> OpenFile]
        /\ \A o \in DOMAIN ofs : ofs'[o].fileid = ofs[o].fileid /\ Moved(ofs[o], ofs'[o], 0)
    BY <1>4, MarkedDeleted DEF FilesInv
  <2>2. MemoryTypes'
    BY <1>1, <2>1 DEF FilesInv, MemoryTypes
  <2>3. References'
    <3>1. \A h \in rewriting' : fd[h] # 0
      BY <1>1 DEF FilesInv, References
    <3> QED BY <1>1, <2>1, <2>2, <3>1, FilesTouched DEF FilesInv
  <2>4. /\ SameTasks(S)
        /\ \A u \in DOMAIN rows :
             \/ S[u].status = rows[u].status
             \/ /\ S[u].status \in {11, 12} /\ u = cr.id /\ u # task.id
                /\ S[u].status = 11 => \A o \in DOMAIN ofs : ofs[o].fileid # -u
    <3>1. CASE task.id = cr.id
      BY <1>2, <3>1 DEF stop_and_delete_file, SameTasks
    <3>2. CASE task.id # cr.id
      <4> DEFINE x == IF OpenOf(ofs, -cr.id) # {} THEN 12 ELSE 11
      <4>1. S = SetStatus(cr.id, x) /\ x \in {11, 12}
        BY <3>2 DEF stop_and_delete_file
      <4>2. x = 11 => \A o \in DOMAIN ofs : ofs[o].fileid # -cr.id
        BY DEF OpenOf
      <4> HIDE DEF S, x
      <4>3. /\ SameTasks(S) /\ \A u \in DOMAIN rows : u # cr.id => S[u] = rows[u]
            /\ cr.id \in DOMAIN rows => S[cr.id].status = x
        BY <1>2, <4>1, StatusSet
      <4> QED BY <3>2, <4>1, <4>2, <4>3
    <3> QED BY <3>1, <3>2
  <2> HIDE DEF S
  <2>5. RowsKept => \A dr \in creats' : dr.id # cr.id
    BY <1>4 DEF RowsKept, Entry
  <2>6. rows' = With(S, t, Unlink(-cr.id, cr.rfileid, 11)) /\ creats' \subseteq creats /\ -cr.id \in Int
    BY <1>2, <1>4 DEF S
  <2>7. DOMAIN ofs' = DOMAIN ofs /\ ("gone" \in odd => "gone" \in odd')
    BY <1>4, <2>1
  <2>8. RowsKept => \A u \in DOMAIN rows :
          \/ S[u].status = rows[u].status
          \/ /\ S[u].status \in {11, 12} /\ -cr.id = -u /\ u # task.id
             /\ \A dr \in creats' : dr.id # u
             /\ S[u].status = 11 => \A o \in DOMAIN ofs : ofs[o].fileid # -u
    BY <2>4, <2>5
  <2>9. /\ UNCHANGED <<data, table, upload, server>> /\ cr.rfileid \in Int /\ 11 \in {0, 11}
        /\ DOMAIN ofs' = DOMAIN ofs /\ \A o \in DOMAIN ofs : ofs'[o].fileid = ofs[o].fileid
        /\ SameTasks(S)
    BY <1>1, <1>2, <2>1, <2>4
  <2>10. PICK f \in Int : f = -cr.id
    BY <2>6
  <2>11. PICK r \in Int : r = cr.rfileid
    BY <2>9
  <2>12. rows' = With(S, t, Unlink(f, r, 11)) /\ t = NewTask /\ creats' \subseteq creats
    BY <2>6, <2>10, <2>11
  <2>13. RowsKept => \A u \in DOMAIN rows :
          \/ S[u].status = rows[u].status
          \/ /\ S[u].status \in {11, 12} /\ f = -u /\ u # task.id
             /\ \A dr \in creats' : dr.id # u
             /\ S[u].status = 11 => \A o \in DOMAIN ofs : ofs[o].fileid # -u
    BY <2>8, <2>10
  <2> HIDE DEF t
  <2> QED BY <2>2, <2>3, <2>7, <2>9, <2>12, <2>13, UnlinkAdded, ZenonT(60)
<1> QED BY <1>3, <1>4 DEF psync_fstask_unlink

-----------------------------------------------------------------------------
(* The upload thread and the server.                                       *)

(* A step that leaves rows, files and overlay alone.                       *)
LEMMA RowsSame ==
  ASSUME RowsKept, UNCHANGED <<rows, creats, data, ofs>>, Batch'
  PROVE  RowsKept'
<1>1. \A o \in DOMAIN ofs' : Kept(o)'
  BY DEF RowsKept, Kept
<1>2. \A cr \in creats' : Entry(cr)'
  BY DEF RowsKept, Entry
<1>3. \A t \in DOMAIN rows' : Unlinked(t)'
  BY DEF RowsKept, Unlinked
<1> QED BY <1>1, <1>2, <1>3 DEF RowsKept

(* A step of the thread that changes neither rows nor files.               *)
LEMMA ThreadKeeps ==
  ASSUME FilesInv, UNCHANGED <<rows, creats, data>>, UNCHANGED memory,
         srv'.id \in Nat, nextid' \in Nat, pc' \in Steps, answer'.id \in Int,
         pc' \in Working => task'.id \in DOMAIN rows /\ task'.row \in Row,
         Answered', "gone" \in odd => "gone" \in odd', RowsKept => Batch'
  PROVE  FilesInv'
<1>1. MemoryTypes' /\ References'
  BY MemorySame DEF FilesInv
<1>2. TableTypes'
  BY DEF FilesInv, TableTypes
<1>3. RowsKept => RowsKept'
  BY RowsSame DEF memory
<1> QED BY <1>1, <1>2, <1>3 DEF FilesInv

(* psync_fsupload_check_tasks                                              *)
LEMMA CheckTasksStep ==
  ASSUME FilesInv, psync_fsupload_check_tasks
  PROVE  FilesInv'
<1>1. /\ pc = "check"
      /\ UNCHANGED <<rows, creats, data, memory, table, answer, srv, nextid, odd>>
  BY DEF psync_fsupload_check_tasks, overlay, server, history
<1>2. /\ srv.id \in Nat /\ nextid \in Nat /\ answer.id \in Nat
      /\ rows \in [DOMAIN rows -> Row]
  BY <1>1 DEF FilesInv, TableTypes, Answered
<1>3. ASSUME NEW t \in DOMAIN rows, Oldest(t), rows[t].status \in {0, 11},
             task' = [id |-> t, row |-> rows[t]],
             pc' = IF rows[t].status = 11 THEN "cancel" ELSE "send"
      PROVE  FilesInv'
  <2>1. task'.id = t /\ task'.row = rows[t] /\ rows[t] \in Row
    BY <1>2, <1>3
  <2>2. Answered' /\ pc' \in Steps /\ pc' \in {"cancel", "send"}
    BY <1>1, <1>2, <1>3 DEF Answered, Steps
  <2>3. Batch'
    BY <1>1, <1>3, <2>1, <2>2 DEF Batch, Oldest
  <2> QED BY <1>1, <1>2, <2>1, <2>2, <2>3, ThreadKeeps
<1>4. ASSUME pc' = "wait" PROVE FilesInv'
  <2>1. Answered' /\ pc' \in Steps /\ pc' \notin Working /\ Batch'
    BY <1>1, <1>2, <1>4 DEF Answered, Steps, Working, Batch
  <2> QED BY <1>1, <1>2, <2>1, ThreadKeeps
<1> QED BY <1>3, <1>4 DEF psync_fsupload_check_tasks

(* The thread is woken, or clears its batch.                               *)
LEMMA IdleStep ==
  ASSUME FilesInv, Woken \/ EndOfBatch
  PROVE  FilesInv'
<1>1. /\ UNCHANGED <<rows, creats, data, memory, table, srv, nextid, odd>>
      /\ pc' \in {"check", "wait"} /\ answer'.id \in Nat
  BY DEF Woken, EndOfBatch, overlay, server, history, FilesInv, Answered, NoFile
<1>2. srv.id \in Nat /\ nextid \in Nat
  BY DEF FilesInv, TableTypes
<1>3. Answered' /\ pc' \in Steps /\ pc' \notin Working /\ Batch'
  BY <1>1 DEF Answered, Steps, Working, Batch
<1> QED BY <1>1, <1>2, <1>3, ThreadKeeps

(* The thread gives up its batch: after a lost connection, or a change.    *)
LEMMA FailedStep ==
  ASSUME FilesInv, Failed
  PROVE  FilesInv'
<1>1. /\ UNCHANGED <<rows, creats, data, memory, table, srv, nextid, odd, answer>> /\ pc' = "end"
  BY DEF Failed, overlay, server, history
<1>2. srv.id \in Nat /\ nextid \in Nat /\ answer.id \in Int
  BY DEF FilesInv, TableTypes
<1>3. Answered' /\ pc' \in Steps /\ pc' \notin Working /\ Batch'
  BY <1>1 DEF Answered, Steps, Working, Batch
<1> QED BY <1>1, <1>2, <1>3, ThreadKeeps

(* The thread sends the task, or gives it up.                              *)
LEMMA SendStep ==
  ASSUME FilesInv, SendUnlink \/ SendCreat
  PROVE  FilesInv'
<1>1. /\ pc = "send" /\ UNCHANGED <<creats, data, memory, table, answer, srv, nextid>>
      /\ "gone" \in odd => "gone" \in odd'
  BY DEF SendUnlink, SendCreat, overlay, server, history
<1>2. /\ srv.id \in Nat /\ nextid \in Nat /\ answer.id \in Int
      /\ task.id \in DOMAIN rows /\ task.row \in Row /\ rows \in [DOMAIN rows -> Row]
  BY <1>1 DEF FilesInv, TableTypes, Working
<1>3. CASE pc' = "answer" /\ task'.id = task.id /\ task'.row = task.row /\ UNCHANGED rows
  <2>1. Answered' /\ pc' \in Steps
    BY <1>1, <1>3 DEF FilesInv, Answered, Steps
  <2>2. RowsKept => Batch'
    BY <1>1, <1>2, <1>3 DEF RowsKept, Batch, Oldest, Working
  <2> QED BY <1>1, <1>2, <1>3, <2>1, <2>2, ThreadKeeps
<1>4. CASE pc' = "end" /\ UNCHANGED rows
  <2>1. Answered' /\ pc' \in Steps /\ pc' \notin Working /\ Batch'
    BY <1>4 DEF Answered, Steps, Working, Batch
  <2> QED BY <1>1, <1>2, <1>4, <2>1, ThreadKeeps
<1>5. CASE /\ rows' = Restrict(rows, {u \in DOMAIN rows : u # task.id /\ rows[u].fileid # -task.id})
           /\ pc' = "end" /\ "gone" \in odd'
  <2>1. DOMAIN rows' \subseteq DOMAIN rows /\ rows' \in [DOMAIN rows' -> Row]
    BY <1>2, <1>5 DEF Restrict
  <2>2. IsFiniteSet(DOMAIN rows')
    BY <2>1, FS_Subset DEF FilesInv, TableTypes
  <2>3. TableTypes' /\ Answered'
    BY <1>1, <1>5, <2>1, <2>2 DEF FilesInv, TableTypes, Answered, Steps, Working
  <2>4. MemoryTypes' /\ References'
    BY <1>1, MemorySame DEF FilesInv
  <2> QED BY <1>5, <2>3, <2>4 DEF FilesInv
<1>6. SendUnlink => pc' = "answer" /\ UNCHANGED <<rows, task>>
  BY DEF SendUnlink
<1>7. SendCreat => \/ /\ pc' = "answer" /\ task' = [id |-> task.id, row |-> task.row, content |-> data[task.id]]
                      /\ UNCHANGED rows
                   \/ pc' = "end" /\ UNCHANGED rows
                   \/ /\ rows' = Restrict(rows, {u \in DOMAIN rows : u # task.id /\ rows[u].fileid # -task.id})
                      /\ pc' = "end" /\ odd' = odd \cup {"gone"}
  BY DEF SendCreat
<1> QED BY <1>3, <1>4, <1>5, <1>6, <1>7

(* The server answers.                                                     *)
LEMMA ServerStep ==
  ASSUME FilesInv, uploadfile \/ deletefile
  PROVE  FilesInv'
<1>1. /\ pc = "answer" /\ UNCHANGED <<rows, creats, data, memory, table, pc, task, odd>>
  BY DEF uploadfile, deletefile, overlay, history
<1>2. /\ srv.id \in Nat /\ nextid \in Nat
      /\ task.id \in DOMAIN rows /\ task.row \in Row
  BY <1>1 DEF FilesInv, TableTypes, Working
<1>3. srv'.id \in Nat /\ nextid' \in Nat /\ answer'.id \in Int /\ Answered'
  <2>1. CASE uploadfile
    <3>1. srv'.id \in Nat /\ answer' = srv' /\ nextid' \in Nat
      BY <1>2, <2>1 DEF uploadfile
    <3> QED BY <1>1, <3>1 DEF Answered
  <2>2. CASE deletefile
    <3>1. /\ answer'.id = task.row.fileid /\ task.row.fileid \in Int /\ task.row.type = "unlink"
          /\ nextid' = nextid /\ srv' \in {srv, NoFile}
      BY <1>2, <2>2 DEF deletefile, Row, Deleted
    <3> QED BY <1>1, <1>2, <3>1 DEF Answered, NoFile
  <2> QED BY <2>1, <2>2
<1>4. pc' \in Steps /\ (RowsKept => Batch')
  BY <1>1 DEF Steps, RowsKept, Batch, Oldest, memory
<1> QED BY <1>1, <1>2, <1>3, <1>4, ThreadKeeps

(* An event of the server.                                                 *)
LEMMA DiffStep ==
  ASSUME FilesInv, Diff
  PROVE  FilesInv'
<1>1. UNCHANGED <<rows, creats, data, memory, srv, nextid, pc, task, answer, odd>>
  BY DEF Diff, overlay, upload, history
<1>2. srv.id \in Nat /\ nextid \in Nat /\ pc' \in Steps /\ answer'.id \in Int
  BY <1>1 DEF FilesInv, TableTypes
<1>3. pc' \in Working => task'.id \in DOMAIN rows /\ task'.row \in Row
  BY <1>1 DEF FilesInv, TableTypes
<1>4. Answered' /\ (RowsKept => Batch')
  BY <1>1 DEF FilesInv, Answered, RowsKept, Batch, Oldest, memory
<1> QED BY <1>1, <1>2, <1>3, <1>4, ThreadKeeps

(* A task t, the oldest, is done, given up or left for another attempt.    *)
LEMMA TaskEnds ==
  ASSUME FilesInv, pc \in Working, pc' = "end", UNCHANGED memory,
         UNCHANGED <<srv, nextid, answer, odd>>,
         NEW t, t = task.id,
         rows' \in [DOMAIN rows' -> Row],
         DOMAIN rows' \subseteq DOMAIN rows, DOMAIN rows \ {t} \subseteq DOMAIN rows',
         \A u \in DOMAIN rows \ {t} :
           /\ rows'[u].type = rows[u].type /\ rows'[u].status = rows[u].status
           /\ rows[u].fileid # -t \/ t \in DOMAIN rows' => rows'[u].fileid = rows[u].fileid,
         t \in DOMAIN rows' => /\ rows'[t].type = rows[t].type
                               /\ rows[t].type = "creat" => rows'[t].status = rows[t].status
                               /\ DOMAIN data \subseteq DOMAIN data',
         creats' \subseteq creats, DOMAIN data \ {t} \subseteq DOMAIN data',
         RowsKept /\ t \notin DOMAIN rows' =>
           (\A o \in DOMAIN ofs : ofs[o].fileid # -t) /\ \A cr \in creats' : cr.id # t
  PROVE  FilesInv'
<1>1. MemoryTypes' /\ References'
  BY MemorySame DEF FilesInv
<1>2. TableTypes' /\ Answered'
  <2>1. IsFiniteSet(DOMAIN rows')
    <3>1. IsFiniteSet(DOMAIN rows)
      BY DEF FilesInv, TableTypes
    <3> QED BY <3>1, FS_Subset
  <2> QED BY <2>1 DEF FilesInv, TableTypes, Answered, Steps, Working
<1>3. ASSUME RowsKept PROVE RowsKept'
  <2> USE <1>3
  <2>1. t \in DOMAIN rows /\ t \in Nat \ {0} /\ (\A u \in DOMAIN rows : t <= u) /\ DOMAIN rows \subseteq Nat
    BY DEF FilesInv, TableTypes, RowsKept, Batch, Oldest
  <2>2. ofs' = ofs
    BY DEF memory
  <2>3. \A o \in DOMAIN ofs' : Kept(o)'
    <3> SUFFICES ASSUME NEW o \in DOMAIN ofs PROVE Kept(o)'
      BY <2>2
    <3> DEFINE u == -ofs[o].fileid
    <3>1. Kept(o) /\ ofs[o].fileid \in Int /\ ofs[o].fileid = -u
      BY DEF RowsKept, FilesInv, MemoryTypes, OpenFile
    <3>2. u > 0 => u \in DOMAIN rows /\ rows[u].type = "creat" /\ rows[u].status # 11 /\ u \in DOMAIN data
      BY <3>1 DEF Kept
    <3>3. u = t => t \in DOMAIN rows'
      BY <3>1
    <3>4. u > 0 => u \in DOMAIN rows' /\ rows'[u].type = "creat" /\ rows'[u].status # 11 /\ u \in DOMAIN data'
      <4>1. CASE u = t
        BY <3>2, <3>3, <4>1
      <4>2. CASE u # t
        BY <3>2, <4>2
      <4> QED BY <4>1, <4>2
    <3> QED BY <2>2, <3>4 DEF Kept
  <2>4. \A o, p \in DOMAIN ofs' : ofs'[o].fileid = ofs'[p].fileid /\ ofs'[o].fileid < 0 => o = p
    BY <2>2 DEF RowsKept
  <2>5. \A cr \in creats' : Entry(cr)'
    <3> SUFFICES ASSUME NEW cr \in creats' PROVE Entry(cr)'
      OBVIOUS
    <3>1. Entry(cr)
      BY DEF RowsKept
    <3>2. CASE cr.id = t
      BY <3>1, <3>2 DEF Entry
    <3>3. CASE cr.id # t
      BY <3>1, <3>3 DEF Entry
    <3> QED BY <3>2, <3>3
  <2>6. \A w \in DOMAIN rows' : Unlinked(w)'
    <3> SUFFICES ASSUME NEW w \in DOMAIN rows', rows'[w].type = "creat", rows'[w].status \in {11, 12}
                 PROVE  \E u \in DOMAIN rows' : u > w /\ rows'[u].type = "unlink" /\ rows'[u].fileid = -w
      BY DEF Unlinked
    <3>1. w \in DOMAIN rows /\ rows[w].type = "creat" /\ rows[w].status \in {11, 12}
      OBVIOUS
    <3>2. PICK u \in DOMAIN rows : u > w /\ rows[u].type = "unlink" /\ rows[u].fileid = -w
      BY <3>1 DEF RowsKept, Unlinked
    <3>3. u # t /\ (w = t => t \in DOMAIN rows') /\ (w # t => -w # -t)
      BY <2>1, <3>1, <3>2
    <3>4. rows'[u].fileid = -w /\ rows'[u].type = "unlink" /\ u \in DOMAIN rows'
      BY <3>2, <3>3
    <3> QED BY <3>2, <3>4
  <2>7. Batch'
    BY DEF Batch, Working
  <2> QED BY <2>3, <2>4, <2>5, <2>6, <2>7 DEF RowsKept
<1> QED BY <1>1, <1>2, <1>3 DEF FilesInv

(* pr_del_task removes one row and changes none.                           *)
LEMMA Removed ==
  ASSUME rows \in [DOMAIN rows -> Row], NEW t
  PROVE  LET S == Remove(rows, t)
         IN /\ DOMAIN S = DOMAIN rows \ {t} /\ S \in [DOMAIN rows \ {t} -> Row]
            /\ \A u \in DOMAIN rows \ {t} : S[u] = rows[u]
BY DEF Remove, Restrict

(* One row is removed and the rows about its file get the new id.          *)
LEMMA RemovedRenumbered ==
  ASSUME rows \in [DOMAIN rows -> Row], NEW t \in Int, NEW id \in Int
  PROVE  LET S == Renumber(Remove(rows, t), -t, id)
         IN /\ DOMAIN S = DOMAIN rows \ {t} /\ S \in [DOMAIN rows \ {t} -> Row]
            /\ \A u \in DOMAIN rows \ {t} :
                 /\ S[u].type = rows[u].type /\ S[u].status = rows[u].status
                 /\ rows[u].fileid # -t => S[u].fileid = rows[u].fileid
<1> DEFINE R == Remove(rows, t)
<1>1. /\ DOMAIN R = DOMAIN rows \ {t} /\ R \in [DOMAIN rows \ {t} -> Row]
      /\ \A u \in DOMAIN rows \ {t} : R[u] = rows[u]
  BY Removed
<1>2. -t \in Int
  OBVIOUS
<1> HIDE DEF R
<1> DEFINE S == Renumber(R, -t, id)
<1>3. /\ S \in [DOMAIN rows \ {t} -> Row]
      /\ \A u \in DOMAIN rows \ {t} : /\ S[u].type = R[u].type /\ S[u].status = R[u].status
                                      /\ R[u].fileid # -t => S[u].fileid = R[u].fileid
  BY <1>1, <1>2, Renumbered
<1> HIDE DEF S
<1>4. DOMAIN S = DOMAIN rows \ {t}
  BY <1>3
<1> QED BY <1>1, <1>3, <1>4 DEF R, S

(* The row of an accepted upload is removed.                               *)
LEMMA FinishCreatStep ==
  ASSUME FilesInv, FinishCreat
  PROVE  FilesInv'
<1> DEFINE t == task.id
<1>1. /\ pc = "finish" /\ pc' = "end" /\ rows' = Renumber(Remove(rows, t), -t, answer.id)
      /\ UNCHANGED <<data, creats, table, memory, answer, srv, nextid, odd>>
  BY DEF FinishCreat, overlay, server, history
<1>2. /\ rows \in [DOMAIN rows -> Row] /\ t \in DOMAIN rows /\ t \in Int /\ answer.id \in Int
  BY <1>1 DEF FilesInv, TableTypes, Working
<1>3. /\ DOMAIN rows' = DOMAIN rows \ {t} /\ rows' \in [DOMAIN rows' -> Row]
      /\ \A u \in DOMAIN rows \ {t} :
           /\ rows'[u].type = rows[u].type /\ rows'[u].status = rows[u].status
           /\ rows[u].fileid # -t => rows'[u].fileid = rows[u].fileid
  BY <1>1, <1>2, RemovedRenumbered
<1>4. RowsKept => (\A o \in DOMAIN ofs : ofs[o].fileid # -t) /\ \A cr \in creats' : cr.id # t
  BY <1>1 DEF RowsKept, Batch, OpenOf
<1>5. pc \in Working
  BY <1>1 DEF Working
<1> QED BY <1>1, <1>2, <1>3, <1>4, <1>5, TaskEnds

(* Neither an open file nor an entry bears the id of an unlink's row.      *)
LEMMA UnlinkUnused ==
  ASSUME RowsKept, TableTypes, MemoryTypes, pc \in Working, task.row.type = "unlink"
  PROVE  /\ \A o \in DOMAIN ofs : ofs[o].fileid # -task.id
         /\ \A cr \in creats : cr.id # task.id
<1>1. task.id \in Nat \ {0} /\ rows[task.id].type = "unlink"
  BY DEF RowsKept, Batch, TableTypes
<1>2. ASSUME NEW o \in DOMAIN ofs, ofs[o].fileid = -task.id PROVE FALSE
  <2>1. Kept(o) /\ -ofs[o].fileid = task.id
    BY <1>1, <1>2 DEF RowsKept
  <2> QED BY <1>1, <2>1 DEF Kept
<1>3. ASSUME NEW cr \in creats, cr.id = task.id PROVE FALSE
  BY <1>1, <1>3 DEF RowsKept, Entry
<1> QED BY <1>2, <1>3

(* psync_process_task_unlink                                               *)
LEMMA TaskUnlinkStep ==
  ASSUME FilesInv, process_task_unlink
  PROVE  FilesInv'
<1> DEFINE t == task.id
<1>1. /\ pc = "answer" /\ task.row.type = "unlink" /\ pc' = "end" /\ rows' = Remove(rows, t)
      /\ UNCHANGED <<data, creats, memory, answer, srv, nextid, odd>>
  BY DEF process_task_unlink, server, history
<1>2. rows \in [DOMAIN rows -> Row] /\ t \in DOMAIN rows /\ t \in Nat \ {0}
  BY <1>1 DEF FilesInv, TableTypes, Working, NoFile
<1>3. /\ DOMAIN rows' = DOMAIN rows \ {t} /\ rows' \in [DOMAIN rows' -> Row]
      /\ \A u \in DOMAIN rows \ {t} : rows'[u] = rows[u]
  BY <1>1, <1>2, Removed
<1>4. RowsKept => (\A o \in DOMAIN ofs : ofs[o].fileid # -t) /\ \A cr \in creats' : cr.id # t
  BY <1>1, <1>2, UnlinkUnused DEF FilesInv, Working
<1>5. pc \in Working
  BY <1>1 DEF Working
<1> QED BY <1>1, <1>2, <1>3, <1>4, <1>5, TaskEnds

(* psync_cancel_task_creat                                                 *)
LEMMA CancelCreatStep ==
  ASSUME FilesInv, cancel_task_creat
  PROVE  FilesInv'
<1> DEFINE t == task.id
<1>1. /\ pc = "cancel" /\ pc' = "end" /\ rows' = Cancelled(t)
      /\ data' = Restrict(data, DOMAIN data \ {t}) /\ creats' = WithoutCreat(t)
      /\ UNCHANGED <<table, memory, answer, srv, nextid, odd>>
  BY DEF cancel_task_creat, server, history
<1>2. /\ rows \in [DOMAIN rows -> Row] /\ t \in DOMAIN rows /\ t \in Nat \ {0}
      /\ rows[t].sfile \in Int
  BY <1>1 DEF FilesInv, TableTypes, Working, Row
<1>3. /\ DOMAIN rows' = DOMAIN rows \ {t} /\ rows' \in [DOMAIN rows' -> Row]
      /\ \A u \in DOMAIN rows \ {t} :
           /\ rows'[u].type = rows[u].type /\ rows'[u].status = rows[u].status
           /\ rows[u].fileid # -t => rows'[u].fileid = rows[u].fileid
  <2>1. CASE rows' = Renumber(Remove(rows, t), -t, rows[t].sfile)
    <3>1. PICK id \in Int : id = rows[t].sfile
      BY <1>2
    <3>2. rows' = Renumber(Remove(rows, t), -t, id) /\ t \in Int
      BY <1>2, <2>1, <3>1
    <3>3. rows \in [DOMAIN rows -> Row]
      BY <1>2
    <3> HIDE DEF t
    <3>4. LET S == Renumber(Remove(rows, t), -t, id)
          IN /\ DOMAIN S = DOMAIN rows \ {t} /\ S \in [DOMAIN rows \ {t} -> Row]
             /\ \A u \in DOMAIN rows \ {t} :
                  /\ S[u].type = rows[u].type /\ S[u].status = rows[u].status
                  /\ rows[u].fileid # -t => S[u].fileid = rows[u].fileid
      BY <3>2, <3>3, RemovedRenumbered, Zenon
    <3> QED BY <3>2, <3>4
  <2>2. CASE rows' = Remove(rows, t)
    BY <1>2, <2>2, Removed
  <2> QED BY <1>1, <2>1, <2>2 DEF Cancelled
<1>4. ASSUME RowsKept PROVE (\A o \in DOMAIN ofs : ofs[o].fileid # -t) /\ \A cr \in creats' : cr.id # t
  <2>1. rows[t].status = 11
    BY <1>1, <1>4 DEF RowsKept, Batch
  <2>2. ASSUME NEW o \in DOMAIN ofs, ofs[o].fileid = -t PROVE FALSE
    <3>1. Kept(o) /\ -ofs[o].fileid = t /\ t > 0
      BY <1>2, <1>4, <2>2 DEF RowsKept
    <3> QED BY <2>1, <3>1 DEF Kept
  <2> QED BY <1>1, <2>2 DEF WithoutCreat
<1>5. /\ pc \in Working /\ creats' \subseteq creats /\ DOMAIN data \ {t} \subseteq DOMAIN data'
      /\ DOMAIN rows' \subseteq DOMAIN rows /\ DOMAIN rows \ {t} \subseteq DOMAIN rows' /\ t \notin DOMAIN rows'
      /\ UNCHANGED memory 
  BY <1>1, <1>2, <1>3 DEF Working, WithoutCreat, Restrict
<1> QED BY <1>1, <1>3, <1>4, <1>5, TaskEnds

(* psync_cancel_task_unlink                                                *)
LEMMA CancelUnlinkStep ==
  ASSUME FilesInv, cancel_task_unlink
  PROVE  FilesInv'
<1> DEFINE t == task.id
           of == IF task.row.fileid > 0 THEN task.row.fileid ELSE task.row.rfileid
<1>1. /\ pc = "cancel" /\ task.row.type = "unlink" /\ pc' = "end"
      /\ UNCHANGED <<data, creats, table, memory, answer, srv, nextid, odd>>
  BY Zenon DEF cancel_task_unlink, server, history
<1>2. /\ rows \in [DOMAIN rows -> Row] /\ t \in DOMAIN rows /\ t \in Nat \ {0}
      /\ of \in Int /\ pc \in Working
  BY <1>1 DEF FilesInv, TableTypes, Working, Row
<1>3. RowsKept => /\ \A o \in DOMAIN ofs : ofs[o].fileid # -t
                  /\ \A cr \in creats' : cr.id # t
                  /\ rows[t].type = "unlink"
  BY <1>1, <1>2, UnlinkUnused DEF FilesInv, Working, RowsKept, Batch
<1>4. ASSUME rows' = [rows EXCEPT ![t].status = 0, ![t].fileid = of] PROVE FilesInv'
  <2>1. /\ rows' \in [DOMAIN rows -> Row] /\ \A u \in DOMAIN rows : u # t => rows'[u] = rows[u]
        /\ rows'[t].type = rows[t].type
    <3> HIDE DEF t, of
    <3> QED BY <1>2, <1>4, UnlinkSent, Zenon
  <2>2. ASSUME RowsKept PROVE FilesInv'
    <3>1. rows[t].type # "creat"
      BY <1>3, <2>2
    <3>2. DOMAIN rows' = DOMAIN rows
      BY <2>1
    <3> QED BY <1>1, <1>2, <2>1, <3>1, <3>2, TaskEnds
  <2>3. ASSUME ~RowsKept PROVE FilesInv'
    <3>1. MemoryTypes' /\ References'
      BY <1>1, MemorySame DEF FilesInv
    <3>2. TableTypes' /\ Answered' /\ "gone" \in odd'
      BY <1>1, <1>2, <2>1, <2>3 DEF FilesInv, TableTypes, Answered, Steps, Working
    <3> QED BY <3>1, <3>2 DEF FilesInv
  <2> QED BY <2>2, <2>3
<1>5. ASSUME rows' = Remove(rows, t) PROVE FilesInv'
  <2>1. /\ DOMAIN rows' = DOMAIN rows \ {t} /\ rows' \in [DOMAIN rows' -> Row]
        /\ \A u \in DOMAIN rows \ {t} : rows'[u] = rows[u]
    BY <1>2, <1>5, Removed
  <2> QED BY <1>1, <1>2, <1>3, <2>1, TaskEnds
<1> QED BY <1>4, <1>5, Zenon DEF cancel_task_unlink

(* The file of an accepted upload is the server's, in every open file.     *)
LEMMA FilesAccepted ==
  ASSUME MemoryTypes, NEW t, answer.id \in Int
  PROVE  LET G == update_openfile(t)
         IN /\ G \in [DOMAIN ofs -> OpenFile]
            /\ \A o \in DOMAIN ofs : /\ Moved(ofs[o], G[o], 0)
                                     /\ G[o].fileid = IF ofs[o].fileid = -t THEN answer.id ELSE ofs[o].fileid
<1> DEFINE G == update_openfile(t)
<1>1. \A o \in DOMAIN ofs : ofs[o] \in OpenFile
  BY DEF MemoryTypes
<1>2. G \in [DOMAIN ofs -> OpenFile]
  BY <1>1, ZenonT(60) DEF OpenFile, update_openfile
<1>3. \A o \in DOMAIN ofs :
        /\ G[o].fileid = IF ofs[o].fileid = -t THEN answer.id ELSE ofs[o].fileid
        /\ G[o].writeid = ofs[o].writeid /\ G[o].timer = ofs[o].timer /\ G[o].refcnt = ofs[o].refcnt
  BY <1>1, ZenonT(60) DEF OpenFile, update_openfile
<1> HIDE DEF G
<1>4. ASSUME NEW o \in DOMAIN ofs PROVE Moved(ofs[o], G[o], 0)
  <2>1. ofs[o].refcnt \in Int /\ ofs[o].writeid \in Nat
    BY <1>1 DEF OpenFile
  <2> QED BY <1>3, <2>1 DEF Moved, Timed
<1> QED BY <1>2, <1>3, <1>4 DEF G

(* psync_process_task_creat                                                *)
LEMMA TaskCreatStep ==
  ASSUME FilesInv, process_task_creat
  PROVE  FilesInv'
<1> DEFINE t == task.id
<1>1. /\ pc = "answer" /\ task.row.type = "creat"
      /\ UNCHANGED <<data, fd, rewriting, calls, task, answer, srv, nextid, odd>>
  BY Zenon DEF process_task_creat, server
<1>2. /\ rows \in [DOMAIN rows -> Row] /\ t \in DOMAIN rows /\ t \in Nat \ {0} /\ task.row \in Row
      /\ answer.id \in Nat /\ answer.id \in Int /\ srv.id \in Nat /\ nextid \in Nat
  BY <1>1 DEF FilesInv, TableTypes, Answered, Working
<1>3. ASSUME ofs' = update_openfile(t),
             creats' = WithoutCreat(t), pc' = "cache", UNCHANGED rows
      PROVE  FilesInv'
  <2>1. /\ ofs' \in [DOMAIN ofs -> OpenFile]
        /\ \A o \in DOMAIN ofs : /\ Moved(ofs[o], ofs'[o], 0)
                                 /\ ofs'[o].fileid = IF ofs[o].fileid = -t THEN answer.id ELSE ofs[o].fileid
    BY <1>2, <1>3, FilesAccepted DEF FilesInv
  <2>2. creats' = {cr \in creats : cr.id # t} /\ pc' = "cache" /\ rows' = rows
    BY <1>2, <1>3, Zenon DEF WithoutCreat
  <2>3. MemoryTypes'
    BY <1>1, <2>1 DEF FilesInv, MemoryTypes
  <2>4. References'
    <3>1. \A h \in rewriting' : fd[h] # 0
      BY <1>1 DEF FilesInv, References
    <3> QED BY <1>1, <2>1, <2>3, <3>1, FilesTouched DEF FilesInv
  <2>5. TableTypes' /\ Answered'
    BY <1>1, <1>2, <2>2 DEF FilesInv, TableTypes, Answered, Steps, Working
  <2>6. ASSUME RowsKept PROVE RowsKept'
    <3> USE <2>6
    <3>1. DOMAIN ofs' = DOMAIN ofs /\ \A o \in DOMAIN ofs : ofs[o].fileid \in Int
      BY <2>1 DEF FilesInv, MemoryTypes, OpenFile
    <3>2. \A o \in DOMAIN ofs' : Kept(o)'
      <4> SUFFICES ASSUME NEW o \in DOMAIN ofs PROVE Kept(o)'
        BY <3>1
      <4>1. CASE ofs[o].fileid = -t
        <5>1. ofs'[o].fileid = answer.id
          BY <2>1, <4>1
        <5> QED BY <1>2, <5>1 DEF Kept
      <4>2. CASE ofs[o].fileid # -t
        <5>1. ofs'[o].fileid = ofs[o].fileid /\ Kept(o)
          BY <2>1, <4>2 DEF RowsKept
        <5> QED BY <1>1, <2>2, <5>1 DEF Kept
      <4> QED BY <4>1, <4>2
    <3>3. \A o, p \in DOMAIN ofs' : ofs'[o].fileid = ofs'[p].fileid /\ ofs'[o].fileid < 0 => o = p
      <4> SUFFICES ASSUME NEW o \in DOMAIN ofs, NEW p \in DOMAIN ofs,
                          ofs'[o].fileid = ofs'[p].fileid, ofs'[o].fileid < 0
                   PROVE  o = p
        BY <3>1
      <4>1. ofs'[o].fileid = ofs[o].fileid /\ ofs'[p].fileid = ofs[p].fileid
        BY <1>2, <2>1
      <4> QED BY <4>1 DEF RowsKept
    <3>4. \A cr \in creats' : Entry(cr)'
      BY <2>2 DEF RowsKept, Entry
    <3>5. \A u \in DOMAIN rows' : Unlinked(u)'
      BY <2>2 DEF RowsKept, Unlinked
    <3>6. Batch'
      <4>1. OpenOf(ofs', -t) = {}
        <5> SUFFICES ASSUME NEW o \in DOMAIN ofs PROVE ofs'[o].fileid # -t
          BY <3>1 DEF OpenOf
        <5>1. CASE ofs[o].fileid = -t
          <6>1. ofs'[o].fileid = answer.id
            BY <2>1, <5>1
          <6> QED BY <1>2, <6>1
        <5>2. CASE ofs[o].fileid # -t
          BY <2>1, <5>2
        <5> QED BY <5>1, <5>2
      <4> QED BY <1>1, <2>2, <4>1 DEF RowsKept, Batch, Oldest, Working
    <3> QED BY <3>2, <3>3, <3>4, <3>5, <3>6 DEF RowsKept
  <2> QED BY <1>1, <2>3, <2>4, <2>5, <2>6 DEF FilesInv
<1>4. ASSUME rows' = IF OpenOf(ofs, -t) # {} THEN [rows EXCEPT ![t].sfile = answer.id] ELSE rows,
             pc' = "end", UNCHANGED <<ofs, table, overlay>>
      PROVE  FilesInv'
  <2>1. SameTasks(rows') /\ \A u \in DOMAIN rows : rows'[u].status = rows[u].status
    <3>1. ASSUME rows' = [rows EXCEPT ![t].sfile = answer.id]
          PROVE  SameTasks(rows') /\ \A u \in DOMAIN rows : rows'[u].status = rows[u].status
      BY <1>2, <3>1, SfileSet, Zenon
    <3>2. CASE rows' = rows
      BY <1>2, <3>2 DEF SameTasks
    <3> QED BY <1>4, <3>1, <3>2, Zenon
  <2>2. pc' = "end" /\ UNCHANGED <<ofs, table, creats>>
    BY <1>4, Zenon DEF overlay
  <2>3. /\ DOMAIN rows' = DOMAIN rows /\ rows' \in [DOMAIN rows' -> Row]
        /\ \A u \in DOMAIN rows : /\ rows'[u].type = rows[u].type /\ rows'[u].status = rows[u].status
                                  /\ rows'[u].fileid = rows[u].fileid
    BY <2>1 DEF SameTasks
  <2>4. UNCHANGED memory /\ pc \in Working
    BY <1>1, <1>2, <2>2 DEF memory, Working
  <2> QED BY <1>1, <1>2, <2>2, <2>3, <2>4, TaskEnds
<1> QED BY <1>3, <1>4, Zenon DEF process_task_creat

(* The data file is moved to the page cache.                               *)
LEMMA CopyStep ==
  ASSUME FilesInv, CopyToPageCache
  PROVE  FilesInv'
<1> DEFINE t == task.id
<1>1. /\ pc = "cache" /\ pc' = "finish" /\ data' = Restrict(data, DOMAIN data \ {t})
      /\ UNCHANGED <<rows, creats, table, memory, task, answer, srv, nextid, odd>>
  BY DEF CopyToPageCache, overlay, server, history
<1>2. MemoryTypes' /\ References'
  BY <1>1, MemorySame DEF FilesInv
<1>3. TableTypes' /\ Answered'
  BY <1>1 DEF FilesInv, TableTypes, Answered, Steps, Working
<1>4. ASSUME RowsKept PROVE RowsKept'
  <2> USE <1>4
  <2>1. DOMAIN data' = DOMAIN data \ {t} /\ ofs' = ofs /\ rows' = rows /\ creats' = creats /\ task' = task
    BY <1>1 DEF Restrict, memory
  <2>2. \A o \in DOMAIN ofs : ofs[o].fileid # -t
    BY <1>1 DEF RowsKept, Batch, OpenOf
  <2>3. \A o \in DOMAIN ofs' : Kept(o)'
    <3> SUFFICES ASSUME NEW o \in DOMAIN ofs PROVE Kept(o)'
      BY <2>1
    <3>1. Kept(o) /\ ofs[o].fileid \in Int
      BY DEF RowsKept, FilesInv, MemoryTypes, OpenFile
    <3>2. -ofs[o].fileid # t
      BY <2>2, <3>1
    <3> QED BY <2>1, <3>1, <3>2 DEF Kept
  <2>4. Batch'
    BY <1>1, <2>1 DEF RowsKept, Batch, Oldest, Working
  <2>5. /\ \A o, p \in DOMAIN ofs' : ofs'[o].fileid = ofs'[p].fileid /\ ofs'[o].fileid < 0 => o = p
        /\ \A cr \in creats' : Entry(cr)'
        /\ \A u \in DOMAIN rows' : Unlinked(u)'
    BY <2>1 DEF RowsKept, Entry, Unlinked
  <2> QED BY <2>3, <2>4, <2>5 DEF RowsKept
<1> QED BY <1>1, <1>2, <1>3, <1>4 DEF FilesInv

(* A restart forgets the open files; a row whose removal was delayed has a *)
(* younger unlink, so its entry does not return.                           *)
LEMMA RestartStep ==
  ASSUME FilesInv, Restart
  PROVE  FilesInv'
<1>1. /\ ofs' = <<>> /\ fd' = [h \in Handles |-> 0] /\ rewriting' = {} /\ calls' = {}
      /\ pc' = "check" /\ answer' = NoFile /\ UNCHANGED <<table, srv, nextid>>
      /\ "gone" \in odd => "gone" \in odd'
  <2>1. odd' = IF pc \in {"cache", "finish"} THEN odd \cup {"cut"} ELSE odd
    BY Zenon DEF Restart
  <2>2. /\ ofs' = <<>> /\ fd' = [h \in Handles |-> 0] /\ rewriting' = {} /\ calls' = {}
        /\ pc' = "check" /\ answer' = NoFile /\ UNCHANGED <<table, srv, nextid>>
    BY Zenon DEF Restart, server
  <2> QED BY <2>1, <2>2
<1>2. creats' = {[id |-> t, rfileid |-> rows[t].fileid] : t \in {u \in DOMAIN rows :
                   /\ rows[u].type = "creat"
                   /\ \A x \in DOMAIN rows : x > u => rows[x].type = "creat"}}
  BY Zenon DEF Restart
<1>3. SameTasks(rows') /\ \A u \in DOMAIN rows : rows'[u].status = InitStatus(rows[u].status)
  BY RowsRestarted, Zenon DEF Restart, FilesInv, TableTypes
<1>4. DOMAIN ofs' = {}
  BY <1>1
<1>5. MemoryTypes' /\ References'
  <2>1. ofs' \in [DOMAIN ofs' -> OpenFile]
    BY <1>1, <1>4
  <2>2. IsFiniteSet(calls')
    BY <1>1, FS_EmptySet
  <2>3. fd' \in [Handles -> 0 .. MaxOpen]
    BY <1>1, BoundsAreNumbers
  <2> QED BY <1>1, <1>4, <2>1, <2>2, <2>3 DEF MemoryTypes, References
<1>6. TableTypes' /\ Answered'
  <2>1. creats' \subseteq [id : Nat \ {0}, rfileid : Int]
    BY <1>2 DEF FilesInv, TableTypes, Row
  <2>2. rows' \in [DOMAIN rows' -> Row] /\ DOMAIN rows' = DOMAIN rows
    BY <1>3 DEF SameTasks
  <2> QED BY <1>1, <2>1, <2>2 DEF FilesInv, TableTypes, Answered, Steps, Working, NoFile
<1>7. ASSUME RowsKept PROVE RowsKept'
  <2> USE <1>7
  <2>1. /\ DOMAIN rows' = DOMAIN rows
        /\ \A u \in DOMAIN rows :
             /\ rows'[u].type = rows[u].type /\ rows'[u].fileid = rows[u].fileid
             /\ rows[u].status \in {0, 1, 11, 12}
             /\ rows'[u].status \in {11, 12} => rows[u].status \in {11, 12}
    BY <1>3 DEF SameTasks, InitStatus, FilesInv, TableTypes, Row
  <2>2. \A u \in DOMAIN rows' : Unlinked(u)'
    BY <2>1 DEF RowsKept, Unlinked
  <2>3. \A cr \in creats' : Entry(cr)'
    <3> SUFFICES ASSUME NEW cr \in creats' PROVE Entry(cr)'
      OBVIOUS
    <3>1. PICK u \in DOMAIN rows : /\ cr = [id |-> u, rfileid |-> rows[u].fileid]
                                   /\ rows[u].type = "creat"
                                   /\ \A x \in DOMAIN rows : x > u => rows[x].type = "creat"
      BY <1>2
    <3>2. cr.id = u /\ rows'[u].status \notin {11, 12}
      BY <2>1, <3>1 DEF RowsKept, Unlinked
    <3>3. \A dr \in creats' : dr.id = u => dr = cr
      BY <1>2, <3>1
    <3> QED BY <2>1, <3>1, <3>2, <3>3 DEF Entry
  <2>4. Batch'
    BY <1>1 DEF Batch, Working
  <2> QED BY <1>4, <2>2, <2>3, <2>4 DEF RowsKept
<1> QED BY <1>1, <1>5, <1>6, <1>7 DEF FilesInv

-----------------------------------------------------------------------------
(* The invariant holds at first,                                           *)
LEMMA FilesInit == Init => FilesInv
<1> SUFFICES ASSUME Init PROVE FilesInv
  OBVIOUS
<1>1. /\ rows = <<>> /\ data = <<>> /\ creats = {} /\ ofs = <<>>
      /\ fd = [h \in Handles |-> 0] /\ rewriting = {} /\ calls = {}
      /\ pc = "check" /\ answer = NoFile /\ srv = NoFile /\ nextid = 1
  BY DEF Init
<1>2. DOMAIN rows = {} /\ DOMAIN ofs = {}
  BY <1>1
<1>3. rows \in [DOMAIN rows -> Row] /\ ofs \in [DOMAIN ofs -> OpenFile]
  BY <1>1, <1>2
<1>4. IsFiniteSet(DOMAIN rows) /\ IsFiniteSet(calls)
  BY <1>1, <1>2, FS_EmptySet
<1>5. TableTypes /\ Answered
  BY <1>1, <1>2, <1>3, <1>4 DEF TableTypes, Answered, Steps, Working, NoFile
<1>6. MemoryTypes /\ References
  BY <1>1, <1>2, <1>3, <1>4, BoundsAreNumbers DEF MemoryTypes, References
<1>7. RowsKept
  BY <1>1, <1>2 DEF RowsKept, Batch, Working
<1> QED BY <1>5, <1>6, <1>7 DEF FilesInv

(* and every step keeps it.                                                *)
LEMMA FilesNext == FilesInv /\ TableInv /\ [Next]_vars => FilesInv'
<1> SUFFICES ASSUME FilesInv, TableInv, [Next]_vars PROVE FilesInv'
  OBVIOUS
<1>1. CASE User
  BY <1>1, CreateStep, OpenPendingStep, OpenServerFileStep, WriteStep, WriteServerFileStep,
     FlushStep, UnlinkStep, UnlinkFailsStep DEF User
<1>2. CASE InCall
  BY <1>2, ReopenStep, ReleaseRowStep, RaiseWriteidStep, DecOfRefcntStep DEF InCall
<1>3. CASE Expire \/ psync_fs_write_timer
  BY <1>3, ExpireStep, WriteTimerStep
<1>4. CASE Upload
  BY <1>4, CheckTasksStep, IdleStep, SendStep, TaskCreatStep, CopyStep, FinishCreatStep,
     TaskUnlinkStep, CancelCreatStep, CancelUnlinkStep DEF Upload
<1>5. CASE uploadfile \/ deletefile \/ Failed \/ Diff \/ Restart
  BY <1>5, ServerStep, FailedStep, DiffStep, RestartStep
<1>6. CASE UNCHANGED vars
  <2>1. /\ UNCHANGED <<rows, creats, data, memory, table, srv, nextid, pc, task, answer, odd>>
    BY <1>6 DEF vars, overlay, upload, server, history
  <2>2. /\ srv'.id \in Nat /\ nextid' \in Nat /\ pc' \in Steps /\ answer'.id \in Int
        /\ pc' \in Working => task'.id \in DOMAIN rows /\ task'.row \in Row
    BY <2>1 DEF FilesInv, TableTypes
  <2>3. Answered' /\ (RowsKept => Batch')
    BY <2>1 DEF FilesInv, Answered, RowsKept, Batch, Oldest, memory
  <2> QED BY <2>1, <2>2, <2>3, ThreadKeeps
<1> QED BY <1>1, <1>2, <1>3, <1>4, <1>5, <1>6 DEF Next

(* The open files, their references and the rows they wait for, in every   *)
(* reachable state: what the locks and counts of pfs.c, pfstasks.c and     *)
(* pfsupload.c maintain together.                                          *)
THEOREM FilesInvariant == Spec => []FilesInv
<1>1. Init => FilesInv
  BY FilesInit
<1>2. FilesInv /\ TableInv /\ [Next]_vars => FilesInv'
  BY FilesNext
<1> QED BY <1>1, <1>2, TableInvariant, PTL DEF Spec

(* No call, handle or timer uses an open file that psync_fs_free_openfile  *)
(* freed, none is left over, and a file that is not uploaded yet keeps the *)
(* row that psync_fsupload_stop_upload_locked updates, and its data file.  *)
THEOREM OpenFilesKept == Spec => []OpenFilesOK
<1>1. FilesInv => OpenFilesOK
  <2> SUFFICES ASSUME FilesInv PROVE OpenFilesOK
    OBVIOUS
  <2>1. \A h \in Handles : fd[h] # 0 => fd[h] \in DOMAIN ofs
    BY DEF FilesInv, References
  <2>2. \A c \in calls : c.of \in DOMAIN ofs
    BY DEF FilesInv, References, CallInv
  <2>3. ASSUME NEW o \in DOMAIN ofs
        PROVE  LET t == -ofs[o].fileid
               IN /\ ofs[o].refcnt = Cardinality({h \in Handles : fd[h] = o})
                                     + Cardinality({c \in calls : c.of = o /\ c.drop})
                                     + (IF ofs[o].timer # "none" THEN 1 ELSE 0)
                  /\ t > 0 /\ "gone" \notin odd =>
                       /\ t \in DOMAIN rows /\ rows[t].type = "creat" /\ rows[t].status # 11
                       /\ t \in DOMAIN data
    <3>1. Referenced(o) /\ ("gone" \notin odd => Kept(o))
      BY DEF FilesInv, References, RowsKept
    <3> QED BY <3>1 DEF Referenced, HandlesOf, DropsOf, Kept
  <2> QED BY <2>1, <2>2, <2>3 DEF OpenFilesOK
<1> QED BY <1>1, FilesInvariant, PTL

-----------------------------------------------------------------------------
(* What a write id says about the content of a file.                       *)

(* The row of a pending file has a write id the file has had, and that of  *)
(* its last write once nobody has it open but the calls that will see to   *)
(* it: a flush or the timer that has still to update the row.              *)
Updates(o, step) ==
  \E c \in calls : c.of = o /\ c.step = step /\ c.writeid = ofs[o].writeid

Covered(o) ==
  LET row == rows[-ofs[o].fileid]
  IN \/ Updates(o, "status")
     \/ row.status # 1 /\ (Updates(o, "writeid") \/ row.int1 = ofs[o].writeid)

FileIds(o) ==
  /\ ofs[o].modified <=> ofs[o].fileid < 0
  /\ ofs[o].fileid < 0 =>
       /\ rows[-ofs[o].fileid].int1 <= ofs[o].writeid
       /\ HandlesOf(o) # {} \/ Covered(o)

(* What is on its way to the server is the content of the data file as     *)
(* long as the file has the write id with which it was sent.               *)
Current(w) == task.row.int1 <= w /\ (w = task.row.int1 => data[task.id] = task.content)

Content ==
  pc = "answer" /\ task.row.type = "creat" =>
    /\ task.id \in DOMAIN data
    /\ \A o \in OpenOf(ofs, -task.id) : Current(ofs[o].writeid)
    /\ OpenOf(ofs, -task.id) = {} => Current(rows[task.id].int1)

(* Calls bring write ids their files have had, and no upload was accepted  *)
(* with other content; but for the three odd events after which that may   *)
(* not be so.                                                              *)
WritesKnown ==
  /\ \A c \in calls : c.writeid <= ofs[c.of].writeid
  /\ \A o \in DOMAIN ofs : FileIds(o)
  /\ Content
  /\ ~changed

Clean == {"raced", "late", "gone"} \cap odd = {}
WritesInv == Clean => WritesKnown

Good == FilesInv /\ TableInv /\ RowsKept /\ WritesKnown

-----------------------------------------------------------------------------
(* Of the steps that change an open file, two change its write id or what  *)
(* file it is: the others leave both.                                      *)
SameIds(F, G) ==
  /\ DOMAIN G = DOMAIN F
  /\ \A p \in DOMAIN F : /\ G[p].fileid = F[p].fileid /\ G[p].writeid = F[p].writeid
                         /\ G[p].modified = F[p].modified

(* An open file with one reference more.                                   *)
LEMMA SharedIds ==
  ASSUME MemoryTypes, NEW o \in DOMAIN ofs
  PROVE  SameIds(ofs, inc_of_refcnt(ofs, o))
<1> DEFINE G == inc_of_refcnt(ofs, o)
<1>1. ofs \in [DOMAIN ofs -> OpenFile] /\ \A p \in DOMAIN ofs : ofs[p] \in OpenFile
  BY DEF MemoryTypes
<1>2. DOMAIN G = DOMAIN ofs
  BY Zenon DEF inc_of_refcnt
<1>3. \A p \in DOMAIN ofs : /\ G[p].fileid = ofs[p].fileid /\ G[p].writeid = ofs[p].writeid
                            /\ G[p].modified = ofs[p].modified
  BY <1>1, ZenonT(60) DEF inc_of_refcnt, OpenFile
<1> QED BY <1>2, <1>3 DEF SameIds

(* A pending file that is opened once more.                                *)
LEMMA OpenedAgainIds ==
  ASSUME MemoryTypes, NEW o \in DOMAIN ofs, NEW b
  PROVE  SameIds(ofs, OpenAgain(o, b))
<1> DEFINE E == inc_of_refcnt(ofs, o)
           G == [E EXCEPT ![o].released = b]
<1>1. SameIds(ofs, E)
  BY SharedIds
<1>2. E \in [DOMAIN ofs -> OpenFile]
  BY IncRefcnt DEF MemoryTypes, FileMoved
<1> HIDE DEF E
<1>3. \A p \in DOMAIN ofs : E[p] \in OpenFile
  BY <1>2
<1>4. DOMAIN G = DOMAIN ofs
  BY <1>2, Zenon
<1>5. \A p \in DOMAIN ofs : /\ G[p].fileid = E[p].fileid /\ G[p].writeid = E[p].writeid
                            /\ G[p].modified = E[p].modified
  BY <1>2, <1>3, ZenonT(60) DEF OpenFile
<1> HIDE DEF G
<1>6. SameIds(ofs, G)
  BY <1>1, <1>4, <1>5 DEF SameIds
<1> QED BY <1>6 DEF E, G, OpenAgain

(* A file released for upload.                                             *)
LEMMA ReleasedIds ==
  ASSUME MemoryTypes, NEW o \in DOMAIN ofs
  PROVE  SameIds(ofs, Released(o))
<1> DEFINE G == Released(o)
<1>1. ofs \in [DOMAIN ofs -> OpenFile] /\ \A p \in DOMAIN ofs : ofs[p] \in OpenFile
  BY DEF MemoryTypes
<1>2. DOMAIN G = DOMAIN ofs
  BY Zenon DEF Released
<1>3. \A p \in DOMAIN ofs : /\ G[p].fileid = ofs[p].fileid /\ G[p].writeid = ofs[p].writeid
                            /\ G[p].modified = ofs[p].modified
  BY <1>1, ZenonT(60) DEF Released, OpenFile
<1> QED BY <1>2, <1>3 DEF SameIds

(* A file whose timer runs out, and then has done its work.                *)
LEMMA TimerIds ==
  ASSUME MemoryTypes, NEW o \in DOMAIN ofs, NEW b
  PROVE  /\ SameIds(ofs, [ofs EXCEPT ![o].timer = "running"])
         /\ SameIds(ofs, [ofs EXCEPT ![o].timer = "none", ![o].released = @ \/ b])
<1> DEFINE G == [ofs EXCEPT ![o].timer = "running"]
           H == [ofs EXCEPT ![o].timer = "none", ![o].released = @ \/ b]
<1>1. ofs \in [DOMAIN ofs -> OpenFile] /\ \A p \in DOMAIN ofs : ofs[p] \in OpenFile
  BY DEF MemoryTypes
<1>2. DOMAIN G = DOMAIN ofs /\ DOMAIN H = DOMAIN ofs
  BY Zenon
<1>3. \A p \in DOMAIN ofs : /\ G[p].fileid = ofs[p].fileid /\ G[p].writeid = ofs[p].writeid
                            /\ G[p].modified = ofs[p].modified
  BY <1>1, ZenonT(60) DEF OpenFile
<1>4. \A p \in DOMAIN ofs : /\ H[p].fileid = ofs[p].fileid /\ H[p].writeid = ofs[p].writeid
                            /\ H[p].modified = ofs[p].modified
  BY <1>1, ZenonT(60) DEF OpenFile
<1> HIDE DEF G, H
<1>5. SameIds(ofs, G) /\ SameIds(ofs, H)
  BY <1>2, <1>3, <1>4 DEF SameIds
<1> QED BY <1>5 DEF G, H

(* An open file with one reference less.                                   *)
LEMMA DroppedIds ==
  ASSUME MemoryTypes, NEW o \in DOMAIN ofs
  PROVE  SameIds(ofs, [ofs EXCEPT ![o].refcnt = @ - 1])
<1> DEFINE G == [ofs EXCEPT ![o].refcnt = @ - 1]
<1>1. ofs \in [DOMAIN ofs -> OpenFile] /\ \A p \in DOMAIN ofs : ofs[p] \in OpenFile
  BY DEF MemoryTypes
<1>2. DOMAIN G = DOMAIN ofs
  BY Zenon
<1>3. \A p \in DOMAIN ofs : /\ G[p].fileid = ofs[p].fileid /\ G[p].writeid = ofs[p].writeid
                            /\ G[p].modified = ofs[p].modified
  BY <1>1, ZenonT(60) DEF OpenFile
<1> HIDE DEF G
<1>4. SameIds(ofs, G)
  BY <1>2, <1>3 DEF SameIds
<1> QED BY <1>4 DEF G

(* The open files of a removed file.                                       *)
LEMMA DeletedIds ==
  ASSUME MemoryTypes, NEW t
  PROVE  SameIds(ofs, mark_openfile_deleted(t))
<1> DEFINE G == mark_openfile_deleted(t)
<1>1. \A p \in DOMAIN ofs : ofs[p] \in OpenFile
  BY DEF MemoryTypes
<1>2. DOMAIN G = DOMAIN ofs
  BY Zenon DEF mark_openfile_deleted
<1>3. \A p \in DOMAIN ofs : /\ G[p].fileid = ofs[p].fileid /\ G[p].writeid = ofs[p].writeid
                            /\ G[p].modified = ofs[p].modified
  BY <1>1, ZenonT(60) DEF mark_openfile_deleted, OpenFile
<1> QED BY <1>2, <1>3 DEF SameIds

(* A write raises the write id; a file made new keeps it; an accepted file *)
(* is one of the server.                                                   *)
LEMMA RaisedIds ==
  ASSUME NEW D, NEW F \in [D -> OpenFile], NEW o \in D
  PROVE  LET G == inc_writeid(F, o)
         IN G[o].writeid = F[o].writeid + 1
<1> QED BY DEF inc_writeid

(* A server file that its first write makes a new file.                    *)
LEMMA RenamedIds ==
  ASSUME MemoryTypes, NEW o \in DOMAIN ofs, NEW f
  PROVE  LET G == [ofs EXCEPT ![o].fileid = f, ![o].modified = TRUE]
         IN /\ G[o].fileid = f /\ G[o].writeid = ofs[o].writeid /\ G[o].modified = TRUE
            /\ DOMAIN G = DOMAIN ofs /\ \A p \in DOMAIN ofs : p # o => G[p] = ofs[p]
<1> DEFINE G == [ofs EXCEPT ![o].fileid = f, ![o].modified = TRUE]
<1>1. ofs[o] \in OpenFile
  BY DEF MemoryTypes
<1>2. G[o].fileid = f /\ G[o].writeid = ofs[o].writeid /\ G[o].modified = TRUE
  BY <1>1, ZenonT(60) DEF OpenFile
<1>3. DOMAIN G = DOMAIN ofs /\ \A p \in DOMAIN ofs : p # o => G[p] = ofs[p]
  BY Zenon
<1> QED BY <1>2, <1>3

(* The open files of a file whose upload is accepted.                      *)
LEMMA AcceptedIds ==
  ASSUME MemoryTypes, NEW t
  PROVE  LET G == update_openfile(t)
         IN /\ DOMAIN G = DOMAIN ofs
            /\ \A p \in DOMAIN ofs :
                 /\ ofs[p].fileid # -t => G[p] = ofs[p]
                 /\ ofs[p].fileid = -t => G[p].fileid = answer.id /\ G[p].modified = FALSE
                 /\ G[p].writeid = ofs[p].writeid
<1> DEFINE G == update_openfile(t)
<1>1. \A p \in DOMAIN ofs : ofs[p] \in OpenFile
  BY DEF MemoryTypes
<1>2. DOMAIN G = DOMAIN ofs
  BY Zenon DEF update_openfile
<1>3. \A p \in DOMAIN ofs :
        /\ ofs[p].fileid # -t => G[p] = ofs[p]
        /\ ofs[p].fileid = -t => G[p].fileid = answer.id /\ G[p].modified = FALSE
        /\ G[p].writeid = ofs[p].writeid
  BY <1>1, ZenonT(60) DEF update_openfile, OpenFile
<1> QED BY <1>2, <1>3

(* The same for the write id in the row: a flush alone sets it.            *)
SameInts(S) == \A u \in DOMAIN rows : S[u].int1 = rows[u].int1

(* A row with another status.                                              *)
LEMMA StatusInts ==
  ASSUME rows \in [DOMAIN rows -> Row], NEW t, NEW s
  PROVE  SameInts(SetStatus(t, s))
<1>1. \A u \in DOMAIN rows : rows[u] \in Row
  OBVIOUS
<1> QED BY <1>1, ZenonT(60) DEF SetStatus, Row, SameInts

(* A row that learns what file the server has made.                        *)
LEMMA SfileInts ==
  ASSUME rows \in [DOMAIN rows -> Row], NEW t, NEW id
  PROVE  SameInts([rows EXCEPT ![t].sfile = id])
<1>1. \A u \in DOMAIN rows : rows[u] \in Row
  OBVIOUS
<1> QED BY <1>1, ZenonT(60) DEF Row, SameInts

(* A row that a flush updates.                                             *)
LEMMA IntSet ==
  ASSUME rows \in [DOMAIN rows -> Row], NEW t \in DOMAIN rows, NEW w
  PROVE  /\ [rows EXCEPT ![t].status = 0, ![t].int1 = w][t].int1 = w
         /\ [rows EXCEPT ![t].int1 = w][t].int1 = w
         /\ \A u \in DOMAIN rows : u # t => [rows EXCEPT ![t].int1 = w][u] = rows[u]
<1>1. rows[t] \in Row
  OBVIOUS
<1> QED BY <1>1, ZenonT(60) DEF Row

(* Rows about a file that has got its id.                                  *)
LEMMA RenumberedInts ==
  ASSUME NEW D, NEW R \in [D -> Row], NEW f, NEW id
  PROVE  \A u \in D : Renumber(R, f, id)[u].int1 = R[u].int1
<1>1. \A u \in D : R[u] \in Row
  OBVIOUS
<1> QED BY <1>1, ZenonT(60) DEF Renumber, Row

-----------------------------------------------------------------------------
(* What the steps have in common.                                          *)

(* A file that a step leaves alone, with its handles, its calls and what   *)
(* its row says of it.                                                     *)
LEMMA FileIdsKept ==
  ASSUME NEW o \in DOMAIN ofs, FileIds(o), ofs'[o].fileid = ofs[o].fileid,
         ofs'[o].writeid = ofs[o].writeid, ofs'[o].modified = ofs[o].modified,
         ofs[o].fileid < 0 /\ HandlesOf(o) # {} => HandlesOf(o)' # {} \/ Updates(o, "status")',
         \A c \in calls : c.of = o /\ c.step # "drop" => c \in calls',
         ofs[o].fileid < 0 =>
           LET t == -ofs[o].fileid
           IN rows'[t].int1 = rows[t].int1 /\ (rows[t].status # 1 => rows'[t].status # 1)
  PROVE  FileIds(o)'
<1>1. \A step \in {"status", "writeid"} : Updates(o, step) => Updates(o, step)'
  BY DEF Updates
<1>2. ofs[o].fileid < 0 /\ Covered(o) => Covered(o)'
  BY <1>1 DEF Covered
<1> QED BY <1>2 DEF FileIds, Covered

(* The content under way stays what it is when nothing happens to its file.*)
LEMMA ContentStays ==
  ASSUME Good, UNCHANGED <<pc, task>>, SameIds(ofs, ofs'),
         \A u \in DOMAIN rows : rows[u].type = "creat" => rows'[u].int1 = rows[u].int1,
         \A u \in DOMAIN data : u \in DOMAIN data' /\ data'[u] = data[u]
  PROVE  Content'
<1> SUFFICES ASSUME pc = "answer", task.row.type = "creat" PROVE Content'
  BY DEF Content
<1>1. task.id \in DOMAIN rows /\ rows[task.id].type = "creat"
  BY DEF Good, FilesInv, TableTypes, Working, RowsKept, Batch
<1>2. OpenOf(ofs', -task.id) = OpenOf(ofs, -task.id)
  BY DEF OpenOf, SameIds
<1>3. OpenOf(ofs, -task.id) \subseteq DOMAIN ofs
  BY DEF OpenOf
<1> QED BY <1>1, <1>2, <1>3 DEF Good, WritesKnown, Content, Current, SameIds

(* Calls that open, flush, release or remove a file leave write ids and    *)
(* contents alone.                                                         *)
LEMMA IdsStay ==
  ASSUME Good, SameIds(ofs, ofs'), UNCHANGED <<pc, task, changed>>,
         \A c \in calls' : c \in calls \/ (c.of \in DOMAIN ofs /\ c.writeid = ofs[c.of].writeid),
         \A c \in calls : c.step # "drop" => c \in calls',
         \A o \in DOMAIN ofs : ofs[o].fileid < 0 /\ HandlesOf(o) # {} =>
                                 HandlesOf(o)' # {} \/ Updates(o, "status")',
         \A u \in DOMAIN rows : rows[u].type = "creat" =>
            rows'[u].int1 = rows[u].int1 /\ (rows[u].status # 1 => rows'[u].status # 1),
         \A u \in DOMAIN data : u \in DOMAIN data' /\ data'[u] = data[u]
  PROVE  WritesKnown'
<1>1. Content'
  BY ContentStays
<1>2. ASSUME NEW o \in DOMAIN ofs' PROVE FileIds(o)'
  <2>1. o \in DOMAIN ofs /\ FileIds(o)
    BY <1>2 DEF SameIds, Good, WritesKnown
  <2>2. ofs[o].fileid < 0 => -ofs[o].fileid \in DOMAIN rows /\ rows[-ofs[o].fileid].type = "creat"
    BY <2>1 DEF Good, RowsKept, Kept, FilesInv, MemoryTypes, OpenFile
  <2> QED BY <2>1, <2>2, FileIdsKept DEF SameIds
<1>3. ASSUME NEW c \in calls' PROVE c.writeid <= ofs'[c.of].writeid
  <2>1. c.of \in DOMAIN ofs /\ c.writeid <= ofs[c.of].writeid
    <3>1. CASE c \in calls
      BY <3>1 DEF Good, WritesKnown, FilesInv, References, CallInv
    <3>2. CASE c.of \in DOMAIN ofs /\ c.writeid = ofs[c.of].writeid
      BY <3>2 DEF Good, FilesInv, MemoryTypes, OpenFile
    <3> QED BY <3>1, <3>2
  <2> QED BY <2>1 DEF SameIds
<1> QED BY <1>1, <1>2, <1>3 DEF WritesKnown, Good

(* The upload thread changes no open file but when an upload is accepted.  *)
LEMMA ThreadStays ==
  ASSUME Good, RowsKept', UNCHANGED memory, UNCHANGED changed, Content',
         \A u \in DOMAIN rows \cap DOMAIN rows' : rows[u].type = "creat" =>
            rows'[u].int1 = rows[u].int1 /\ rows'[u].status = rows[u].status
  PROVE  WritesKnown'
<1>1. UNCHANGED <<ofs, fd, calls>>
  BY DEF memory
<1>2. ASSUME NEW o \in DOMAIN ofs' PROVE FileIds(o)'
  <2>1. o \in DOMAIN ofs /\ FileIds(o)
    BY <1>1, <1>2 DEF Good, WritesKnown
  <2>2. ofs[o].fileid < 0 => /\ -ofs[o].fileid \in DOMAIN rows /\ rows[-ofs[o].fileid].type = "creat"
                             /\ -ofs[o].fileid \in DOMAIN rows'
    BY <1>1, <2>1 DEF Good, RowsKept, Kept, FilesInv, MemoryTypes, OpenFile
  <2>3. HandlesOf(o)' = HandlesOf(o)
    BY <1>1 DEF HandlesOf
  <2> QED BY <1>1, <2>1, <2>2, <2>3, FileIdsKept
<1> QED BY <1>1, <1>2 DEF WritesKnown, Good

(* A write raises the write id of its file: what is under way of that file *)
(* will not be accepted, whatever the data file holds now.                 *)
LEMMA FileWritten ==
  ASSUME Good, UNCHANGED <<pc, task, changed, calls>>,
         NEW o \in DOMAIN ofs, DOMAIN ofs' = DOMAIN ofs,
         \A p \in DOMAIN ofs :
           /\ ofs'[p].fileid = ofs[p].fileid /\ ofs'[p].modified = ofs[p].modified
           /\ p # o => ofs'[p].writeid = ofs[p].writeid
           /\ HandlesOf(p) # {} => HandlesOf(p)' # {},
         HandlesOf(o)' # {}, ofs'[o].writeid = ofs[o].writeid + 1,
         \A u \in DOMAIN rows :
           /\ rows'[u].int1 = rows[u].int1
           /\ u # -ofs[o].fileid => rows'[u].status = rows[u].status,
         \A u \in DOMAIN data :
           u \in DOMAIN data' /\ (u # -ofs[o].fileid => data'[u] = data[u])
  PROVE  WritesKnown'
<1>1. ASSUME NEW p \in DOMAIN ofs
      PROVE  /\ FileIds(p) /\ ofs[p].fileid \in Int /\ ofs[p].writeid \in Nat
             /\ ofs[p].fileid < 0 => /\ -ofs[p].fileid \in DOMAIN rows
                                     /\ -ofs[p].fileid \in Nat /\ rows[-ofs[p].fileid].int1 \in Nat
  BY DEF Good, WritesKnown, RowsKept, Kept, FilesInv, MemoryTypes, OpenFile, TableTypes, Row
<1>2. ASSUME NEW p \in DOMAIN ofs, p # o, ofs[p].fileid < 0
      PROVE  -ofs[p].fileid # -ofs[o].fileid
  <2>1. ofs[p].fileid # ofs[o].fileid
    BY <1>2 DEF Good, RowsKept
  <2>2. ofs[p].fileid \in Int /\ ofs[o].fileid \in Int
    BY <1>1
  <2> QED BY <2>1, <2>2
<1>3. FileIds(o)'
  <2>1. /\ ofs'[o].fileid = ofs[o].fileid /\ ofs'[o].modified = ofs[o].modified
        /\ (ofs[o].modified <=> ofs[o].fileid < 0)
    BY <1>1 DEF FileIds
  <2>2. ASSUME ofs[o].fileid < 0 PROVE rows'[-ofs'[o].fileid].int1 <= ofs'[o].writeid
    <3>1. rows[-ofs[o].fileid].int1 <= ofs[o].writeid
      BY <1>1, <2>2 DEF FileIds
    <3>2. rows'[-ofs[o].fileid].int1 = rows[-ofs[o].fileid].int1 /\ rows[-ofs[o].fileid].int1 \in Nat
      BY <1>1, <2>2
    <3>3. ofs[o].writeid \in Nat
      BY <1>1
    <3> QED BY <2>1, <3>1, <3>2, <3>3
  <2> QED BY <2>1, <2>2 DEF FileIds
<1>4. ASSUME NEW p \in DOMAIN ofs, p # o PROVE FileIds(p)'
  <2>1. ofs[p].fileid < 0 =>
          LET t == -ofs[p].fileid
          IN rows'[t].int1 = rows[t].int1 /\ (rows[t].status # 1 => rows'[t].status # 1)
    BY <1>1, <1>2, <1>4
  <2> QED BY <1>1, <1>4, <2>1, FileIdsKept
<1>5. Content'
  <2> SUFFICES ASSUME pc = "answer", task.row.type = "creat" PROVE Content'
    BY DEF Content
  <2>1. task.id \in DOMAIN rows /\ task.id \in Nat /\ task.row.int1 \in Nat /\ Content
    BY DEF Good, WritesKnown, FilesInv, TableTypes, Working, Row
  <2>2. OpenOf(ofs', -task.id) = OpenOf(ofs, -task.id) /\ OpenOf(ofs, -task.id) \subseteq DOMAIN ofs
    BY DEF OpenOf
  <2>3. ASSUME NEW p \in OpenOf(ofs, -task.id) PROVE Current(ofs[p].writeid)'
    <3>1. Current(ofs[p].writeid) /\ task.id \in DOMAIN data /\ p \in DOMAIN ofs /\ ofs[p].fileid = -task.id
      BY <2>1, <2>3 DEF Content, OpenOf
    <3>2. CASE p = o
      <4>1. ofs'[o].writeid = ofs[o].writeid + 1 /\ ofs[o].writeid \in Nat
        BY <1>1
      <4> QED BY <2>1, <3>1, <3>2, <4>1 DEF Current
    <3>3. CASE p # o
      <4>1. ofs[p].fileid < 0
        BY <2>1, <3>1 DEF Good, FilesInv, TableTypes
      <4>2. task.id # -ofs[o].fileid
        BY <1>2, <2>1, <3>1, <3>3, <4>1
      <4> QED BY <3>1, <3>3, <4>2 DEF Current
    <3> QED BY <3>2, <3>3
  <2>4. ASSUME OpenOf(ofs, -task.id) = {} PROVE Current(rows[task.id].int1)'
    <3>1. ofs[o].fileid # -task.id /\ ofs[o].fileid \in Int
      BY <1>1, <2>4 DEF OpenOf
    <3>2. task.id # -ofs[o].fileid
      BY <2>1, <3>1
    <3> QED BY <2>1, <2>4, <3>2 DEF Current, Content
  <2> QED BY <2>1, <2>2, <2>3, <2>4 DEF Content
<1>6. ASSUME NEW c \in calls PROVE c.writeid <= ofs'[c.of].writeid
  <2>1. c.of \in DOMAIN ofs /\ c.writeid \in Nat /\ c.writeid <= ofs[c.of].writeid
    BY DEF Good, WritesKnown, FilesInv, References, CallInv, MemoryTypes, FileCall
  <2>2. ofs[c.of].writeid \in Nat
    BY <1>1, <2>1
  <2>3. ofs'[c.of].writeid = ofs[c.of].writeid \/ ofs'[c.of].writeid = ofs[c.of].writeid + 1
    BY <2>1
  <2> QED BY <2>1, <2>2, <2>3
<1> QED BY <1>3, <1>4, <1>5, <1>6 DEF WritesKnown, Good

(* An open file comes with the write id of its row, or 0 if that is new.   *)
LEMMA FileAdded ==
  ASSUME Good, UNCHANGED <<pc, task, changed, calls>>,
         NEW o, o \notin DOMAIN ofs, DOMAIN ofs' = DOMAIN ofs \cup {o},
         \A p \in DOMAIN ofs : ofs'[p] = ofs[p] /\ (HandlesOf(p) # {} => HandlesOf(p)' # {}),
         HandlesOf(o)' # {}, ofs'[o].fileid \in Int,
         (ofs'[o].modified <=> ofs'[o].fileid < 0),
         ofs'[o].fileid < 0 => rows'[-ofs'[o].fileid].int1 <= ofs'[o].writeid,
         \A u \in DOMAIN rows : rows'[u] = rows[u],
         \A u \in DOMAIN data : u # -ofs'[o].fileid => u \in DOMAIN data' /\ data'[u] = data[u],
         pc = "answer" /\ ofs'[o].fileid = -task.id =>
           /\ OpenOf(ofs, -task.id) = {} /\ ofs'[o].writeid = rows[task.id].int1
           /\ task.id \in DOMAIN data => task.id \in DOMAIN data' /\ data'[task.id] = data[task.id]
  PROVE  WritesKnown'
<1>1. \A p \in DOMAIN ofs : /\ FileIds(p) /\ ofs[p].fileid \in Int
                            /\ ofs[p].fileid < 0 => -ofs[p].fileid \in DOMAIN rows
  BY DEF Good, WritesKnown, RowsKept, Kept, FilesInv, MemoryTypes, OpenFile
<1>2. ASSUME NEW p \in DOMAIN ofs' PROVE FileIds(p)'
  <2>1. CASE p = o
    BY <2>1 DEF FileIds
  <2>2. CASE p # o
    BY <1>1, <2>2, FileIdsKept
  <2> QED BY <2>1, <2>2
<1>3. Content'
  <2> SUFFICES ASSUME pc = "answer", task.row.type = "creat" PROVE Content'
    BY DEF Content
  <2>1. task.id \in DOMAIN rows /\ task.id \in Nat /\ Content
    BY DEF Good, WritesKnown, FilesInv, TableTypes, Working
  <2>2. CASE ofs'[o].fileid = -task.id
    <3>1. OpenOf(ofs', -task.id) = {o}
      BY <2>2 DEF OpenOf
    <3> QED BY <2>1, <2>2, <3>1 DEF Content, Current
  <2>3. CASE ofs'[o].fileid # -task.id
    <3>1. OpenOf(ofs', -task.id) = OpenOf(ofs, -task.id) /\ OpenOf(ofs, -task.id) \subseteq DOMAIN ofs
      BY <2>3 DEF OpenOf
    <3>2. task.id # -ofs'[o].fileid
      BY <2>1, <2>3
    <3>3. task.id \in DOMAIN data' /\ data'[task.id] = data[task.id]
      BY <2>1, <3>2 DEF Content
    <3> QED BY <2>1, <3>1, <3>3 DEF Content, Current
  <2> QED BY <2>2, <2>3
<1>4. \A c \in calls : c.writeid <= ofs'[c.of].writeid
  BY DEF Good, WritesKnown, FilesInv, References, CallInv
<1> QED BY <1>2, <1>3, <1>4 DEF WritesKnown, Good

(* A handle that opens a file takes none from another.                     *)
LEMMA HandleAdded ==
  ASSUME MemoryTypes, NEW h \in Handles, Unused(h), NEW o, fd' = [fd EXCEPT ![h] = o]
  PROVE  /\ HandlesOf(o)' # {}
         /\ \A p \in DOMAIN ofs : HandlesOf(p) # {} => HandlesOf(p)' # {}
<1>1. fd \in [Handles -> 0 .. MaxOpen] /\ 0 \notin DOMAIN ofs /\ fd[h] = 0
  BY DEF MemoryTypes, Unused
<1>2. fd'[h] = o /\ \A g \in Handles : g # h => fd'[g] = fd[g]
  BY <1>1
<1>3. \A p \in DOMAIN ofs : HandlesOf(p) \subseteq HandlesOf(p)'
  BY <1>1, <1>2 DEF HandlesOf
<1>4. h \in HandlesOf(o)'
  BY <1>2 DEF HandlesOf
<1> QED BY <1>3, <1>4

-----------------------------------------------------------------------------
(* The steps.  psync_fs_creat                                              *)
LEMMA CreateIds ==
  ASSUME Good, NEW h \in Handles, NEW trunc, Create(h, trunc)
  PROVE  WritesKnown'
<1> DEFINE t == NewTask
           f == File(-t, 0, TRUE, FALSE)
<1>0. PICK o : o = NewOpen
  OBVIOUS
<1>1. /\ Unused(h) /\ Room /\ add_creat(t, 0) /\ data' = With(data, t, 0)
      /\ ofs' = With(ofs, o, f) /\ fd' = [fd EXCEPT ![h] = o]
      /\ UNCHANGED <<rewriting, calls, pc, task, changed>>
  BY <1>0 DEF Create, upload
<1>2. t \in Nat \ {0} /\ \A u \in DOMAIN rows : u < t
  BY NewTaskFresh DEF Good, FilesInv, TableTypes
<1>3. MemoryTypes /\ References /\ DOMAIN rows \subseteq Nat
  BY DEF Good, FilesInv, TableTypes
<1> HIDE DEF t
<1>4. /\ f \in OpenFile /\ f.refcnt = 1 /\ f.timer = "none" /\ f.fileid = -t /\ f.writeid = 0
      /\ f.modified = TRUE
  BY <1>2 DEF File, OpenFile
<1> HIDE DEF f
<1>5. /\ DOMAIN ofs' = DOMAIN ofs \cup {o} /\ o \notin DOMAIN ofs
      /\ ofs'[o] = f /\ \A p \in DOMAIN ofs : ofs'[p] = ofs[p]
  BY <1>0, <1>1, <1>3, <1>4, OpenAdded
<1>6. HandlesOf(o)' # {} /\ \A p \in DOMAIN ofs : HandlesOf(p) # {} => HandlesOf(p)' # {}
  BY <1>1, <1>3, HandleAdded
<1>7. t \notin DOMAIN rows /\ (pc = "answer" => task.id \in DOMAIN rows)
  BY <1>2, <1>3 DEF Good, FilesInv, TableTypes, Working
<1>8. rows'[t].int1 = 0 /\ \A u \in DOMAIN rows : rows'[u] = rows[u]
  BY <1>1, <1>7 DEF add_creat, With
<1>9. \A u \in DOMAIN data : u # t => u \in DOMAIN data' /\ data'[u] = data[u]
  BY <1>1 DEF With
<1>10. ofs'[o].fileid = -t /\ ofs'[o].fileid < 0 /\ -(-t) = t /\ ofs'[o].fileid \in Int
  BY <1>2, <1>4, <1>5
<1>11. pc = "answer" => ofs'[o].fileid # -task.id
  BY <1>2, <1>3, <1>7, <1>10
<1>12. (ofs'[o].modified <=> ofs'[o].fileid < 0) /\ rows'[-ofs'[o].fileid].int1 <= ofs'[o].writeid
  BY <1>4, <1>5, <1>8, <1>10
<1> QED BY <1>1, <1>5, <1>6, <1>8, <1>9, <1>10, <1>11, <1>12, FileAdded

(* psync_fs_open of a file of the server                                   *)
LEMMA OpenServerFileIds ==
  ASSUME Good, NEW h \in Handles, OpenServerFile(h)
  PROVE  WritesKnown'
<1>1. Unused(h) /\ UNCHANGED <<rows, data, rewriting, calls, pc, task, changed>>
  BY DEF OpenServerFile, upload, history
<1>2. MemoryTypes /\ References /\ \A x \in table : x.id \in Nat
  BY TableIds DEF Good, FilesInv
<1>3. ASSUME NEW x \in table, NEW o \in OpenOf(ofs, x.id), ofs' = inc_of_refcnt(ofs, o), fd' = [fd EXCEPT ![h] = o]
      PROVE  WritesKnown'
  <2>1. SameIds(ofs, ofs')
    BY <1>2, <1>3, SharedIds DEF OpenOf
  <2>2. \A p \in DOMAIN ofs : HandlesOf(p) # {} => HandlesOf(p)' # {}
    BY <1>1, <1>2, <1>3, HandleAdded
  <2> QED BY <1>1, <2>1, <2>2, IdsStay
<1>4. ASSUME NEW x \in table, Room, ofs' = With(ofs, NewOpen, File(x.id, 0, FALSE, FALSE)),
             fd' = [fd EXCEPT ![h] = NewOpen]
      PROVE  WritesKnown'
  <2> DEFINE f == File(x.id, 0, FALSE, FALSE)
  <2>0. PICK o : o = NewOpen
    OBVIOUS
  <2>1. /\ f \in OpenFile /\ f.refcnt = 1 /\ f.timer = "none" /\ f.fileid = x.id
        /\ f.modified = FALSE
    BY <1>2 DEF File, OpenFile
  <2>2. ofs' = With(ofs, o, f) /\ fd' = [fd EXCEPT ![h] = o]
    BY <1>4, <2>0
  <2> HIDE DEF f
  <2>3. /\ DOMAIN ofs' = DOMAIN ofs \cup {o} /\ o \notin DOMAIN ofs
        /\ ofs'[o] = f /\ \A p \in DOMAIN ofs : ofs'[p] = ofs[p]
    BY <1>1, <1>2, <1>4, <2>0, <2>1, <2>2, OpenAdded
  <2>4. HandlesOf(o)' # {} /\ \A p \in DOMAIN ofs : HandlesOf(p) # {} => HandlesOf(p)' # {}
    BY <1>1, <1>2, <2>2, HandleAdded
  <2>5. /\ ofs'[o].fileid \in Int /\ ofs'[o].fileid >= 0
        /\ (ofs'[o].modified <=> ofs'[o].fileid < 0)
    BY <1>2, <2>1, <2>3
  <2>6. pc = "answer" => task.id \in Nat \ {0}
    BY DEF Good, FilesInv, TableTypes, Working
  <2>7. pc = "answer" => ofs'[o].fileid # -task.id
    BY <2>5, <2>6
  <2> QED BY <1>1, <2>3, <2>4, <2>5, <2>7, FileAdded
<1> QED BY <1>3, <1>4 DEF OpenServerFile

(* stop_upload changes no more than the status of the file's own row.      *)
LEMMA StoppedInts ==
  ASSUME rows \in [DOMAIN rows -> Row], NEW F, NEW o, rows' = stop_upload(F, o)
  PROVE  \A u \in DOMAIN rows : /\ rows'[u].int1 = rows[u].int1
                                /\ u # -F[o].fileid => rows'[u].status = rows[u].status
<1>1. CASE ~F[o].released
  BY <1>1 DEF stop_upload
<1>2. CASE F[o].released
  <2>1. rows' = SetStatus(-F[o].fileid, 1)
    BY <1>2 DEF stop_upload
  <2>2. SameInts(rows') /\ \A u \in DOMAIN rows : u # -F[o].fileid => rows'[u] = rows[u]
    BY <2>1, StatusInts, StatusSet
  <2> QED BY <2>2 DEF SameInts
<1> QED BY <1>1, <1>2

(* psync_fs_write to a file that is not uploaded yet                       *)
LEMMA WriteIds ==
  ASSUME Good, NEW h \in Handles, Write(h)
  PROVE  WritesKnown'
<1>0. PICK o : o = fd[h]
  OBVIOUS
<1>1. /\ Ready(h) /\ ofs' = inc_writeid(ofs, o) /\ rows' = stop_upload(ofs, o)
      /\ data' = With(data, -ofs[o].fileid, ver')
      /\ UNCHANGED <<fd, calls, pc, task, changed>>
  BY <1>0 DEF Write, Written, upload
<1>2. o \in DOMAIN ofs /\ ofs \in [DOMAIN ofs -> OpenFile] /\ rows \in [DOMAIN rows -> Row]
  BY <1>0, <1>1 DEF Ready, Good, FilesInv, References, MemoryTypes, TableTypes
<1>3. FileMoved(ofs, ofs', o, 0) /\ ofs'[o].fileid = ofs[o].fileid /\ ofs'[o].modified = ofs[o].modified
  BY <1>1, <1>2, IncWriteid
<1>4. ofs'[o].writeid = ofs[o].writeid + 1
  BY <1>1, <1>2, RaisedIds
<1>5. DOMAIN ofs' = DOMAIN ofs /\ \A p \in DOMAIN ofs : p # o => ofs'[p] = ofs[p]
  BY <1>3 DEF FileMoved
<1>6. \A u \in DOMAIN rows : /\ rows'[u].int1 = rows[u].int1
                             /\ u # -ofs[o].fileid => rows'[u].status = rows[u].status
  BY <1>1, <1>2, StoppedInts
<1>7. HandlesOf(o)' # {} /\ \A p \in DOMAIN ofs : HandlesOf(p)' = HandlesOf(p)
  BY <1>0, <1>1 DEF HandlesOf
<1>8. \A u \in DOMAIN data : u \in DOMAIN data' /\ (u # -ofs[o].fileid => data'[u] = data[u])
  BY <1>1 DEF With
<1> QED BY <1>1, <1>2, <1>3, <1>4, <1>5, <1>6, <1>7, <1>8, FileWritten

(* psync_fs_write to a file of the server, the first part                  *)
LEMMA WriteServerFileIds ==
  ASSUME Good, NEW h \in Handles, WriteServerFile(h)
  PROVE  WritesKnown'
<1>0. PICK o : o = fd[h]
  OBVIOUS
<1>1. /\ Ready(h) /\ ofs' = inc_writeid(ofs, o)
      /\ UNCHANGED <<rows, data, fd, calls, pc, task, changed>>
  BY <1>0 DEF WriteServerFile, upload, history
<1>2. o \in DOMAIN ofs /\ ofs \in [DOMAIN ofs -> OpenFile]
  BY <1>0, <1>1 DEF Ready, Good, FilesInv, References, MemoryTypes
<1>3. FileMoved(ofs, ofs', o, 0) /\ ofs'[o].fileid = ofs[o].fileid /\ ofs'[o].modified = ofs[o].modified
  BY <1>1, <1>2, IncWriteid
<1>4. ofs'[o].writeid = ofs[o].writeid + 1
  BY <1>1, <1>2, RaisedIds
<1>5. DOMAIN ofs' = DOMAIN ofs /\ \A p \in DOMAIN ofs : p # o => ofs'[p] = ofs[p]
  BY <1>3 DEF FileMoved
<1>6. HandlesOf(o)' # {} /\ \A p \in DOMAIN ofs : HandlesOf(p)' = HandlesOf(p)
  BY <1>0, <1>1 DEF HandlesOf
<1> QED BY <1>1, <1>2, <1>3, <1>4, <1>5, <1>6, FileWritten

(* psync_fs_open of a pending file                                         *)
LEMMA OpenPendingIds ==
  ASSUME Good, Clean', NEW h \in Handles, NEW trunc, OpenPending(h, trunc)
  PROVE  WritesKnown'
<1>1. Unused(h) /\ UNCHANGED <<rewriting, calls, pc, task, changed>>
  BY DEF OpenPending, upload
<1>2. PICK cr \in creats :
        LET t == cr.id
            open == OpenOf(ofs, -t)
            released == rows[t].status # 1
        IN /\ t \in DOMAIN rows /\ rows[t].type = "creat"
           /\ \/ \E o \in open :
                   LET F == OpenAgain(o, released)
                       change == trunc /\ data[t] # 0
                   IN /\ ofs' = IF change THEN inc_writeid(F, o) ELSE F
                      /\ rows' = IF change THEN stop_upload(F, o) ELSE rows
                      /\ fd' = [fd EXCEPT ![h] = o]
              \/ /\ open = {} /\ Room
                 /\ ofs' = With(ofs, NewOpen, File(-t, rows[t].int1, TRUE, released))
                 /\ fd' = [fd EXCEPT ![h] = NewOpen]
                 /\ odd' = IF trunc /\ task.id = t THEN odd \cup {"raced"} ELSE odd
                 /\ UNCHANGED rows
           /\ data' = IF trunc \/ t \notin DOMAIN data THEN With(data, t, 0) ELSE data
  BY DEF OpenPending
<1>3. PICK t : t = cr.id
  OBVIOUS
<1>4. PICK released \in BOOLEAN : released = (rows[t].status # 1)
  OBVIOUS
<1>5. /\ t \in DOMAIN rows /\ t \in Nat \ {0} /\ rows[t] \in Row /\ MemoryTypes /\ References
      /\ rows \in [DOMAIN rows -> Row] /\ ofs \in [DOMAIN ofs -> OpenFile]
  BY <1>2, <1>3 DEF Good, FilesInv, TableTypes, MemoryTypes
<1>6. \A u \in DOMAIN data : u \in DOMAIN data' /\ (u # t => data'[u] = data[u])
  BY <1>2, <1>3 DEF With
<1>7. ASSUME NEW o \in OpenOf(ofs, -t), fd' = [fd EXCEPT ![h] = o], UNCHANGED rows,
             ofs' = OpenAgain(o, released), ~(trunc /\ data[t] # 0)
      PROVE  WritesKnown'
  <2>1. SameIds(ofs, ofs')
    BY <1>5, <1>7, OpenedAgainIds DEF OpenOf
  <2>2. \A p \in DOMAIN ofs : HandlesOf(p) # {} => HandlesOf(p)' # {}
    BY <1>1, <1>5, <1>7, HandleAdded
  <2>3. \A u \in DOMAIN data : u \in DOMAIN data' /\ data'[u] = data[u]
    BY <1>2, <1>3, <1>7 DEF With
  <2> QED BY <1>1, <1>7, <2>1, <2>2, <2>3, IdsStay
<1>8. ASSUME NEW o \in OpenOf(ofs, -t), fd' = [fd EXCEPT ![h] = o],
             rows' = stop_upload(OpenAgain(o, released), o),
             ofs' = inc_writeid(OpenAgain(o, released), o)
      PROVE  WritesKnown'
  <2>1. PICK F : F = OpenAgain(o, released)
    OBVIOUS
  <2>2. o \in DOMAIN ofs /\ -ofs[o].fileid = t
    BY <1>5 DEF OpenOf
  <2>3. SameIds(ofs, F) /\ F \in [DOMAIN ofs -> OpenFile]
    BY <1>5, <2>1, <2>2, OpenedAgainIds, OpenedAgain DEF FileMoved
  <2>4. ofs' = inc_writeid(F, o) /\ rows' = stop_upload(F, o)
    BY <1>8, <2>1
  <2>5. /\ FileMoved(F, ofs', o, 0) /\ ofs'[o].fileid = F[o].fileid /\ ofs'[o].modified = F[o].modified
        /\ ofs'[o].writeid = F[o].writeid + 1
    BY <2>2, <2>3, <2>4, IncWriteid, RaisedIds
  <2>6. /\ DOMAIN ofs' = DOMAIN ofs
        /\ \A p \in DOMAIN ofs : /\ ofs'[p].fileid = ofs[p].fileid /\ ofs'[p].modified = ofs[p].modified
                                 /\ p # o => ofs'[p].writeid = ofs[p].writeid
        /\ ofs'[o].writeid = ofs[o].writeid + 1
    BY <2>2, <2>3, <2>5 DEF SameIds, FileMoved
  <2>7. HandlesOf(o)' # {} /\ \A p \in DOMAIN ofs : HandlesOf(p) # {} => HandlesOf(p)' # {}
    BY <1>1, <1>5, <1>8, HandleAdded
  <2>8. \A u \in DOMAIN rows : /\ rows'[u].int1 = rows[u].int1
                               /\ u # -F[o].fileid => rows'[u].status = rows[u].status
    BY <1>5, <2>4, StoppedInts
  <2>9. F[o].fileid = ofs[o].fileid
    BY <2>2, <2>3 DEF SameIds
  <2> QED BY <1>1, <1>6, <2>2, <2>6, <2>7, <2>8, <2>9, FileWritten
<1>9. ASSUME OpenOf(ofs, -t) = {}, Room, fd' = [fd EXCEPT ![h] = NewOpen], UNCHANGED rows,
             ofs' = With(ofs, NewOpen, File(-t, rows[t].int1, TRUE, released)),
             odd' = IF trunc /\ task.id = t THEN odd \cup {"raced"} ELSE odd
      PROVE  WritesKnown'
  <2>1. PICK o : o = NewOpen
    OBVIOUS
  <2>2. PICK f : f = File(-t, rows[t].int1, TRUE, released)
    OBVIOUS
  <2>3. /\ f \in OpenFile /\ f.refcnt = 1 /\ f.timer = "none" /\ f.fileid = -t
        /\ f.modified = TRUE /\ f.writeid = rows[t].int1
    BY <1>5, <2>2 DEF File, OpenFile, Row
  <2>4. ofs' = With(ofs, o, f) /\ fd' = [fd EXCEPT ![h] = o]
    BY <1>9, <2>1, <2>2
  <2>5. /\ DOMAIN ofs' = DOMAIN ofs \cup {o} /\ o \notin DOMAIN ofs
        /\ ofs'[o] = f /\ \A p \in DOMAIN ofs : ofs'[p] = ofs[p]
    BY <1>1, <1>5, <1>9, <2>1, <2>3, <2>4, OpenAdded
  <2>6. HandlesOf(o)' # {} /\ \A p \in DOMAIN ofs : HandlesOf(p) # {} => HandlesOf(p)' # {}
    BY <1>1, <1>5, <2>4, HandleAdded
  <2>7. /\ ofs'[o].fileid = -t /\ ofs'[o].fileid < 0 /\ -(-t) = t /\ ofs'[o].fileid \in Int
        /\ rows[t].int1 \in Nat /\ ofs'[o].writeid = rows[t].int1 /\ ofs'[o].modified
    BY <1>5, <2>3, <2>5 DEF Row
  <2>8. ofs'[o].modified <=> ofs'[o].fileid < 0
    BY <2>7
  <2>9. rows'[-ofs'[o].fileid].int1 <= ofs'[o].writeid
    <3>1. -ofs'[o].fileid = t /\ rows' = rows
      BY <1>9, <2>7
    <3> QED BY <2>7, <3>1
  <2>10. ASSUME pc = "answer", ofs'[o].fileid = -task.id
         PROVE  /\ OpenOf(ofs, -task.id) = {} /\ ofs'[o].writeid = rows[task.id].int1
                /\ task.id \in DOMAIN data => task.id \in DOMAIN data' /\ data'[task.id] = data[task.id]
    <3>1. task.id \in Nat
      BY <2>10 DEF Good, FilesInv, TableTypes, Working
    <3>2. task.id = t
      BY <2>7, <2>10, <3>1
    <3>3. ~trunc
      BY <1>9, <3>2 DEF Clean
    <3> QED BY <1>2, <1>3, <1>6, <1>9, <2>7, <3>2, <3>3
  <2>11. \A u \in DOMAIN rows : rows'[u] = rows[u]
    BY <1>9
  <2>12. \A u \in DOMAIN data : u # -ofs'[o].fileid => u \in DOMAIN data' /\ data'[u] = data[u]
    BY <1>6, <2>7
  <2> QED BY <1>1, <2>5, <2>6, <2>7, <2>8, <2>9, <2>10, <2>11, <2>12, FileAdded
<1>10. CASE \E o \in OpenOf(ofs, -t) :
          LET F == OpenAgain(o, released)
              change == trunc /\ data[t] # 0
          IN /\ ofs' = IF change THEN inc_writeid(F, o) ELSE F
             /\ rows' = IF change THEN stop_upload(F, o) ELSE rows
             /\ fd' = [fd EXCEPT ![h] = o]
  <2>1. CASE trunc /\ data[t] # 0
    BY <1>8, <1>10, <2>1
  <2>2. CASE ~(trunc /\ data[t] # 0)
    BY <1>7, <1>10, <2>2
  <2> QED BY <2>1, <2>2
<1> QED BY <1>2, <1>3, <1>4, <1>9, <1>10

(* psync_fs_reopen_file_for_writing                                        *)
LEMMA ReopenIds ==
  ASSUME Good, Clean', NEW h \in Handles, psync_fs_reopen_file_for_writing(h)
  PROVE  WritesKnown'
<1>1. PICK o : o = fd[h]
  OBVIOUS
<1>2. PICK s : s = ofs[o].fileid
  OBVIOUS
<1>3. PICK t : t = NewTask
  OBVIOUS
<1>4. h \in rewriting /\ UNCHANGED <<fd, calls, pc, task, changed>>
  BY DEF psync_fs_reopen_file_for_writing, upload
<1>5. /\ o \in DOMAIN ofs /\ s \in Int /\ FileIds(o) /\ MemoryTypes /\ DOMAIN rows \subseteq Nat
      /\ (pc = "answer" => task.id \in Nat /\ task.id \in DOMAIN rows)
  BY <1>1, <1>2, <1>4
     DEF Good, WritesKnown, FilesInv, References, MemoryTypes, OpenFile, TableTypes, Working
<1>6. ASSUME ofs[o].modified, data' = With(data, -s, ver'), UNCHANGED <<rows, ofs>>,
             odd' = IF Sent(-s, ofs[o].writeid) THEN odd \cup {"late"} ELSE odd
      PROVE  WritesKnown'
  <2>1. ~Sent(-s, ofs[o].writeid)
    BY <1>6 DEF Clean
  <2>2. \A p \in DOMAIN ofs' : FileIds(p)'
    BY <1>4, <1>6 DEF Good, WritesKnown, FileIds, Covered, Updates, HandlesOf
  <2>3. Content'
    <3> SUFFICES ASSUME pc = "answer", task.row.type = "creat" PROVE Content'
      BY <1>4 DEF Content
    <3>1. task.id \in DOMAIN data' /\ (task.id # -s => data'[task.id] = data[task.id]) /\ Content
      BY <1>6 DEF Good, WritesKnown, Content, With
    <3>2. CASE task.id # -s
      BY <1>4, <1>6, <3>1, <3>2 DEF Content, Current
    <3>3. CASE task.id = -s
      <4>1. s = -task.id /\ -task.id < 0
        BY <1>5, <3>3 DEF Good, FilesInv, TableTypes
      <4>2. OpenOf(ofs, -task.id) = {o}
        BY <1>2, <1>5, <4>1 DEF OpenOf, Good, RowsKept
      <4>3. Current(ofs[o].writeid) /\ ofs[o].writeid # task.row.int1
        BY <2>1, <3>1, <3>3, <4>2 DEF Content, Sent
      <4>4. Current(ofs[o].writeid)'
        BY <1>4, <1>6, <4>3 DEF Current
      <4> QED BY <1>4, <1>6, <3>1, <4>2, <4>4 DEF Content
    <3> QED BY <3>2, <3>3
  <2> QED BY <1>4, <1>6, <2>2, <2>3 DEF Good, WritesKnown
<1>7. ASSUME ~ofs[o].modified, add_creat(t, s), data' = With(data, t, ver'),
             ofs' = [ofs EXCEPT ![o].fileid = -t, ![o].modified = TRUE]
      PROVE  WritesKnown'
  <2>1. t \in Nat \ {0} /\ t \notin DOMAIN rows
    BY <1>3, NewTaskFresh DEF Good, FilesInv, TableTypes
  <2>2. PICK f : f = -t
    OBVIOUS
  <2>3. ofs' = [ofs EXCEPT ![o].fileid = f, ![o].modified = TRUE]
    BY Zenon, <1>7, <2>2
  <2>4. /\ ofs'[o].fileid = f /\ ofs'[o].writeid = ofs[o].writeid /\ ofs'[o].modified = TRUE
        /\ DOMAIN ofs' = DOMAIN ofs /\ \A p \in DOMAIN ofs : p # o => ofs'[p] = ofs[p]
    BY Zenon, <1>5, <2>3, RenamedIds
  <2> DEFINE facts == /\ ~ofs[o].modified /\ add_creat(t, s) /\ data' = With(data, t, ver')
  <2>5. facts
    BY Zenon, <1>7
  <2>6. rows'[t].int1 = 0 /\ \A u \in DOMAIN rows : rows'[u] = rows[u]
    BY <2>1, <2>5 DEF add_creat, With
  <2>7. \A u \in DOMAIN data : u \in DOMAIN data' /\ (u # t => data'[u] = data[u])
    BY <2>5 DEF With
  <2>8. s >= 0
    BY <1>2, <1>5, <2>5 DEF FileIds
  <2> HIDE DEF facts
  <2>9. \A p \in DOMAIN ofs : HandlesOf(p)' = HandlesOf(p)
    BY <1>4 DEF HandlesOf
  <2>10. h \in HandlesOf(o)'
    BY <1>1, <1>4 DEF HandlesOf
  <2>11. ASSUME NEW p \in DOMAIN ofs PROVE FileIds(p)'
    <3>1. CASE p = o
      <4>1. ofs[o].writeid \in Nat /\ -f = t /\ f < 0
        BY <1>5, <2>1, <2>2 DEF MemoryTypes, OpenFile
      <4> QED BY <2>4, <2>6, <2>10, <3>1, <4>1 DEF FileIds
    <3>2. CASE p # o
      <4>1. FileIds(p) /\ (ofs[p].fileid < 0 => -ofs[p].fileid \in DOMAIN rows)
        BY DEF Good, WritesKnown, RowsKept, Kept, FilesInv, MemoryTypes, OpenFile
      <4> QED BY <1>4, <2>4, <2>6, <2>9, <3>2, <4>1, FileIdsKept
    <3> QED BY <3>1, <3>2
  <2>12. Content'
    <3> SUFFICES ASSUME pc = "answer", task.row.type = "creat" PROVE Content'
      BY <1>4 DEF Content
    <3>1. task.id # t /\ f # -task.id /\ s # -task.id
      <4>1. task.id \in Nat \ {0}
        BY <1>5 DEF Good, FilesInv, TableTypes
      <4> QED BY <1>5, <2>1, <2>2, <2>8, <4>1
    <3>2. OpenOf(ofs', -task.id) = OpenOf(ofs, -task.id) /\ OpenOf(ofs, -task.id) \subseteq DOMAIN ofs
      BY <1>2, <2>4, <3>1 DEF OpenOf
    <3>3. \A p \in DOMAIN ofs : ofs'[p].writeid = ofs[p].writeid
      BY <2>4
    <3>4. Content /\ task.id \in DOMAIN rows
      BY <1>5 DEF Good, WritesKnown
    <3> QED BY <1>4, <2>6, <2>7, <3>1, <3>2, <3>3, <3>4 DEF Content, Current
  <2>13. \A c \in calls : c.writeid <= ofs'[c.of].writeid
    <3>1. \A p \in DOMAIN ofs : ofs'[p].writeid = ofs[p].writeid
      BY <2>4
    <3> QED BY <3>1 DEF Good, WritesKnown, FilesInv, References, CallInv
  <2> QED BY <1>4, <2>4, <2>11, <2>12, <2>13 DEF Good, WritesKnown
<1>8. \/ /\ ofs[o].modified /\ data' = With(data, -s, ver') /\ UNCHANGED <<rows, ofs>>
         /\ odd' = IF Sent(-s, ofs[o].writeid) THEN odd \cup {"late"} ELSE odd
      \/ /\ ~ofs[o].modified /\ add_creat(t, s) /\ data' = With(data, t, ver')
         /\ ofs' = [ofs EXCEPT ![o].fileid = -t, ![o].modified = TRUE]
  BY Zenon, <1>1, <1>2, <1>3 DEF psync_fs_reopen_file_for_writing, Written
<1> QED BY Zenon, <1>6, <1>7, <1>8

(* psync_fs_flush, psync_fs_release: the call will update the row with the *)
(* write id the file has.                                                  *)
LEMMA FlushIds ==
  ASSUME Good, NEW h \in Handles, NEW closing \in BOOLEAN, Flush(h, closing)
  PROVE  WritesKnown'
<1>1. PICK o : o = fd[h]
  OBVIOUS
<1>2. /\ Ready(h) /\ fd' = IF closing THEN [fd EXCEPT ![h] = 0] ELSE fd
      /\ UNCHANGED <<rows, data, pc, task, changed>>
  BY DEF Flush, upload, history
<1>3. /\ o \in DOMAIN ofs /\ MemoryTypes /\ fd \in [Handles -> 0 .. MaxOpen] /\ 0 \notin DOMAIN ofs
      /\ FileIds(o)
  BY <1>1, <1>2 DEF Ready, Good, WritesKnown, FilesInv, References, MemoryTypes
<1>4. \A p \in DOMAIN ofs : p # o => HandlesOf(p)' = HandlesOf(p)
  BY <1>1, <1>2, <1>3 DEF HandlesOf
<1>5. ASSUME ofs' = Released(o), calls' = calls \cup {Call(h, o, "status", closing)}
      PROVE  WritesKnown'
  <2>1. SameIds(ofs, ofs')
    BY <1>3, <1>5, ReleasedIds
  <2>2. PICK c : c = Call(h, o, "status", closing)
    OBVIOUS
  <2>3. calls' = calls \cup {c} /\ c.of = o /\ c.step = "status" /\ c.writeid = ofs[o].writeid
    BY <1>5, <2>2 DEF Call
  <2>4. Updates(o, "status")'
    BY <1>3, <2>1, <2>3 DEF Updates, SameIds
  <2> QED BY <1>2, <1>3, <1>4, <2>1, <2>3, <2>4, IdsStay
<1>6. ASSUME UNCHANGED ofs, ~ofs[o].modified, calls' = calls \cup {Call(h, o, "drop", TRUE)}
      PROVE  WritesKnown'
  <2>1. SameIds(ofs, ofs') /\ ~(ofs[o].fileid < 0)
    BY <1>3, <1>6 DEF SameIds, FileIds
  <2>2. PICK c : c = Call(h, o, "drop", TRUE)
    OBVIOUS
  <2>3. calls' = calls \cup {c} /\ c.of = o /\ c.writeid = ofs[o].writeid
    BY <1>6, <2>2 DEF Call
  <2> QED BY <1>2, <1>3, <1>4, <2>1, <2>3, IdsStay
<1> QED BY <1>1, <1>5, <1>6 DEF Flush

(* psync_fs_write_timer                                                    *)
LEMMA TimerStepIds ==
  ASSUME Good, Expire \/ psync_fs_write_timer
  PROVE  WritesKnown'
<1>1. UNCHANGED <<rows, data, fd, pc, task, changed>>
  BY DEF Expire, psync_fs_write_timer, upload, history
<1>2. MemoryTypes /\ \A p \in DOMAIN ofs : HandlesOf(p)' = HandlesOf(p)
  BY <1>1 DEF Good, FilesInv, HandlesOf
<1>3. CASE Expire
  <2>1. PICK o \in DOMAIN ofs : ofs' = [ofs EXCEPT ![o].timer = "running"]
    BY Zenon, <1>3 DEF Expire
  <2>2. calls' = calls
    BY <1>3 DEF Expire
  <2>3. SameIds(ofs, ofs')
    BY Zenon, <1>2, <2>1, TimerIds
  <2> QED BY <1>1, <1>2, <2>2, <2>3, IdsStay
<1>4. CASE psync_fs_write_timer
  <2>1. PICK o \in DOMAIN ofs : \E release :
          /\ ofs' = [ofs EXCEPT ![o].timer = "none", ![o].released = @ \/ release]
          /\ calls' = calls \cup {Call(Timer, o, IF release THEN "status" ELSE "drop", TRUE)}
    BY Zenon, <1>4 DEF psync_fs_write_timer
  <2>2. PICK release :
          /\ ofs' = [ofs EXCEPT ![o].timer = "none", ![o].released = @ \/ release]
          /\ calls' = calls \cup {Call(Timer, o, IF release THEN "status" ELSE "drop", TRUE)}
    BY Zenon, <2>1
  <2>3. SameIds(ofs, ofs')
    BY Zenon, <1>2, <2>2, TimerIds
  <2>4. PICK c : c = Call(Timer, o, IF release THEN "status" ELSE "drop", TRUE)
    OBVIOUS
  <2>5. calls' = calls \cup {c} /\ c.of = o /\ c.writeid = ofs[o].writeid
    BY Zenon, <2>2, <2>4 DEF Call
  <2> QED BY <1>1, <1>2, <2>3, <2>5, IdsStay
<1> QED BY <1>3, <1>4

(* A call that updates the row of its file, or leaves that to a later step.*)
LEMMA CallUpdates ==
  ASSUME Good, UNCHANGED <<data, ofs, fd, pc, task, changed>>, NEW c \in calls, NEW o, o = c.of,
         \A u \in DOMAIN rows : u # -ofs[o].fileid => rows'[u] = rows[u],
         \A d \in calls' : d \in calls \/ (d.of = c.of /\ d.writeid = c.writeid),
         \A d \in calls : d # c => d \in calls',
         ofs[o].fileid < 0 => /\ rows'[-ofs[o].fileid].int1 <= ofs[o].writeid
                              /\ Covered(o) => Covered(o)'
  PROVE  WritesKnown'
<1>1. /\ o \in DOMAIN ofs /\ FileIds(o) /\ MemoryTypes
      /\ (pc = "answer" => task.id \in Nat \ {0} /\ task.id \in DOMAIN rows)
  BY DEF Good, WritesKnown, FilesInv, TableTypes, References, CallInv, Working
<1>2. \A p \in DOMAIN ofs : HandlesOf(p)' = HandlesOf(p)
  BY DEF HandlesOf
<1>3. FileIds(o)'
  BY <1>1, <1>2 DEF FileIds
<1>4. ASSUME NEW p \in DOMAIN ofs, p # o PROVE FileIds(p)'
  <2>1. /\ FileIds(p) /\ ofs[p].fileid \in Int /\ ofs[o].fileid \in Int
        /\ ofs[p].fileid < 0 => -ofs[p].fileid \in DOMAIN rows /\ ofs[p].fileid # ofs[o].fileid
    BY <1>1, <1>4 DEF Good, WritesKnown, RowsKept, Kept, FilesInv, MemoryTypes, OpenFile
  <2>2. ofs[p].fileid < 0 => -ofs[p].fileid # -ofs[o].fileid
    BY <2>1
  <2>3. \A d \in calls : d.of = p /\ d.step # "drop" => d \in calls'
    BY <1>4
  <2>4. ofs[p].fileid < 0 =>
          LET t == -ofs[p].fileid
          IN rows'[t].int1 = rows[t].int1 /\ (rows[t].status # 1 => rows'[t].status # 1)
    BY <2>1, <2>2
  <2> QED BY <1>2, <1>4, <2>1, <2>3, <2>4, FileIdsKept
<1>5. Content'
  <2> SUFFICES ASSUME pc = "answer", task.row.type = "creat" PROVE Content'
    BY DEF Content
  <2>1. Content /\ task.id \in DOMAIN rows /\ task.id \in Nat
    BY <1>1 DEF Good, WritesKnown
  <2>2. CASE OpenOf(ofs, -task.id) # {}
    BY <2>1, <2>2 DEF Content, Current
  <2>3. CASE OpenOf(ofs, -task.id) = {}
    <3>1. ofs[o].fileid # -task.id /\ ofs[o].fileid \in Int
      BY <1>1, <2>3 DEF OpenOf, MemoryTypes, OpenFile
    <3>2. task.id # -ofs[o].fileid
      BY <2>1, <3>1
    <3> QED BY <2>1, <2>3, <3>2 DEF Content, Current
  <2> QED BY <2>2, <2>3
<1>6. \A d \in calls' : d.writeid <= ofs'[d.of].writeid
  BY DEF Good, WritesKnown
<1> QED BY <1>3, <1>4, <1>5, <1>6 DEF Good, WritesKnown

(* What is left of a call after a step.                                    *)
LEMMA AfterCall ==
  ASSUME NEW c \in FileCall, calls' = After(c)
  PROVE  /\ \A d \in calls' : d \in calls \/ (d.of = c.of /\ d.writeid = c.writeid)
         /\ \A d \in calls : d # c => d \in calls'
<1>1. PICK e : e = [c EXCEPT !.step = "drop"]
  OBVIOUS
<1>2. e.of = c.of /\ e.writeid = c.writeid
  BY <1>1, StepSet, Zenon
<1>3. calls' = (calls \ {c}) \cup (IF c.drop THEN {e} ELSE {})
  BY <1>1, Zenon DEF After
<1> QED BY <1>2, <1>3

(* The first update of the row by a flush.                                 *)
LEMMA ReleaseRowIds ==
  ASSUME Good, NEW c \in calls, ReleaseRow(c)
  PROVE  WritesKnown'
<1>1. PICK o : o = c.of
  OBVIOUS
<1>2. PICK t : t = -ofs[o].fileid
  OBVIOUS
<1>3. c.step = "status" /\ UNCHANGED <<data, ofs, fd, pc, task, changed>>
  BY DEF ReleaseRow, upload
<1>4. /\ c \in FileCall /\ c.writeid \in Nat /\ o \in DOMAIN ofs /\ c.writeid <= ofs[o].writeid
      /\ rows \in [DOMAIN rows -> Row] /\ FileIds(o)
      /\ ofs[o].fileid < 0 => t \in DOMAIN rows
  BY <1>1, <1>2 DEF Good, WritesKnown, RowsKept, Kept, FilesInv, TableTypes, MemoryTypes,
                    FileCall, OpenFile, References, CallInv
<1>5. ASSUME t \in DOMAIN rows, rows[t].status = 1, calls' = After(c),
             rows' = [rows EXCEPT ![t].status = 0, ![t].int1 = c.writeid]
      PROVE  WritesKnown'
  <2>1. rows'[t].status = 0 /\ \A u \in DOMAIN rows : u # t => rows'[u] = rows[u]
    BY <1>4, <1>5, ReleasedRow, Zenon
  <2>2. rows'[t].int1 = c.writeid
    BY <1>4, <1>5, IntSet, Zenon
  <2>3. rows[t].status = 1 /\ calls' = After(c)
    BY <1>5
  <2>4. /\ \A d \in calls' : d \in calls \/ (d.of = c.of /\ d.writeid = c.writeid)
        /\ \A d \in calls : d # c => d \in calls'
    BY <1>4, <2>3, AfterCall
  <2>5. Covered(o) => Covered(o)'
    <3>1. ASSUME Covered(o) PROVE Covered(o)'
      <4>1. PICK d \in calls : d.of = o /\ d.step = "status" /\ d.writeid = ofs[o].writeid
        BY <1>2, <2>3, <3>1 DEF Covered, Updates
      <4>2. CASE d = c
        BY <1>2, <1>3, <2>1, <2>2, <4>1, <4>2 DEF Covered
      <4>3. CASE d # c
        BY <1>3, <2>4, <4>1, <4>3 DEF Covered, Updates
      <4> QED BY <4>2, <4>3
    <3> QED BY <3>1
  <2> QED BY <1>1, <1>2, <1>3, <1>4, <2>1, <2>2, <2>4, <2>5, CallUpdates
<1>6. ASSUME ~(t \in DOMAIN rows /\ rows[t].status = 1), UNCHANGED rows,
             calls' = (calls \ {c}) \cup {[c EXCEPT !.step = "writeid"]}
      PROVE  WritesKnown'
  <2>1. PICK e : e = [c EXCEPT !.step = "writeid"]
    OBVIOUS
  <2>2. e.of = c.of /\ e.writeid = c.writeid /\ e.step = "writeid"
    BY <1>4, <2>1, StepSet, Zenon
  <2>3. calls' = (calls \ {c}) \cup {e}
    BY <1>6, <2>1, Zenon
  <2>4. rows' = rows /\ ~(t \in DOMAIN rows /\ rows[t].status = 1)
    BY <1>6
  <2>5. /\ \A d \in calls' : d \in calls \/ (d.of = c.of /\ d.writeid = c.writeid)
        /\ \A d \in calls : d # c => d \in calls'
    BY <2>2, <2>3
  <2>6. ASSUME ofs[o].fileid < 0, Covered(o) PROVE Covered(o)'
    <3>1. rows[t].status # 1
      BY <1>4, <2>4, <2>6
    <3>2. CASE Updates(o, "status")
      <4>1. PICK d \in calls : d.of = o /\ d.step = "status" /\ d.writeid = ofs[o].writeid
        BY <3>2 DEF Updates
      <4>2. CASE d = c
        <5>1. Updates(o, "writeid")'
          BY <1>1, <1>3, <2>2, <2>3, <4>1, <4>2 DEF Updates
        <5> QED BY <1>2, <1>3, <2>4, <3>1, <5>1 DEF Covered
      <4>3. CASE d # c
        BY <1>3, <2>5, <4>1, <4>3 DEF Covered, Updates
      <4> QED BY <4>2, <4>3
    <3>3. CASE Updates(o, "writeid")
      <4>1. PICK d \in calls : d.of = o /\ d.step = "writeid" /\ d.writeid = ofs[o].writeid
        BY <3>3 DEF Updates
      <4>2. Updates(o, "writeid")'
        BY <1>3, <2>5, <4>1 DEF Updates
      <4> QED BY <1>2, <1>3, <2>4, <3>1, <4>2 DEF Covered
    <3>4. CASE rows[t].int1 = ofs[o].writeid
      BY <1>2, <1>3, <2>4, <3>1, <3>4 DEF Covered
    <3> QED BY <1>2, <2>6, <3>2, <3>3, <3>4 DEF Covered
  <2> QED BY <1>1, <1>2, <1>3, <1>4, <2>4, <2>5, <2>6, CallUpdates DEF FileIds
<1> QED BY <1>1, <1>2, <1>5, <1>6, Zenon DEF ReleaseRow

(* The second update of the row by a flush.                                *)
LEMMA RaiseWriteidIds ==
  ASSUME Good, NEW c \in calls, RaiseWriteid(c)
  PROVE  WritesKnown'
<1>1. PICK o : o = c.of
  OBVIOUS
<1>2. PICK t : t = -ofs[o].fileid
  OBVIOUS
<1>3. c.step = "writeid" /\ calls' = After(c) /\ UNCHANGED <<data, ofs, fd, pc, task, changed>>
  BY DEF RaiseWriteid, upload
<1>4. /\ c \in FileCall /\ c.writeid \in Nat /\ o \in DOMAIN ofs /\ c.writeid <= ofs[o].writeid
      /\ rows \in [DOMAIN rows -> Row] /\ FileIds(o) /\ ofs[o].writeid \in Nat
      /\ ofs[o].fileid < 0 => t \in DOMAIN rows
  BY <1>1, <1>2 DEF Good, WritesKnown, RowsKept, Kept, FilesInv, TableTypes, MemoryTypes,
                    FileCall, OpenFile, References, CallInv
<1>5. /\ \A d \in calls' : d \in calls \/ (d.of = c.of /\ d.writeid = c.writeid)
      /\ \A d \in calls : d # c => d \in calls'
  BY <1>3, <1>4, AfterCall
<1>6. \/ t \in DOMAIN rows /\ rows[t].int1 < c.writeid /\ rows' = [rows EXCEPT ![t].int1 = c.writeid]
      \/ ~(t \in DOMAIN rows /\ rows[t].int1 < c.writeid) /\ rows' = rows
  BY <1>1, <1>2, Zenon DEF RaiseWriteid
<1>7. /\ \A u \in DOMAIN rows : u # t => rows'[u] = rows[u]
      /\ t \in DOMAIN rows =>
           /\ rows'[t].status = rows[t].status
           /\ rows'[t].int1 = IF rows[t].int1 < c.writeid THEN c.writeid ELSE rows[t].int1
  <2>1. CASE t \in DOMAIN rows /\ rows[t].int1 < c.writeid /\ rows' = [rows EXCEPT ![t].int1 = c.writeid]
    <3>1. /\ \A u \in DOMAIN rows : u # t => rows'[u] = rows[u]
          /\ rows'[t].int1 = c.writeid
      BY <1>4, <2>1, IntSet, Zenon
    <3>2. \A u \in DOMAIN rows : rows'[u].status = rows[u].status
      BY <1>4, <2>1, WriteidRaised, Zenon
    <3>3. t \in DOMAIN rows /\ rows[t].int1 < c.writeid
      BY <2>1
    <3> QED BY <3>1, <3>2, <3>3
  <2>2. CASE ~(t \in DOMAIN rows /\ rows[t].int1 < c.writeid) /\ rows' = rows
    BY <2>2
  <2> QED BY <1>6, <2>1, <2>2, Zenon
<1>8. ASSUME ofs[o].fileid < 0
      PROVE  rows'[t].int1 <= ofs[o].writeid /\ (Covered(o) => Covered(o)')
  <2>1. t \in DOMAIN rows /\ rows[t].int1 <= ofs[o].writeid /\ rows[t].int1 \in Nat
    BY <1>2, <1>4, <1>8 DEF FileIds, Row
  <2>2. rows'[t].int1 <= ofs[o].writeid
    BY <1>4, <1>7, <2>1
  <2>3. CASE Updates(o, "status")
    BY <1>3, <1>5, <2>2, <2>3 DEF Covered, Updates
  <2>4. CASE rows[t].status # 1 /\ Updates(o, "writeid")
    <3>1. PICK d \in calls : d.of = o /\ d.step = "writeid" /\ d.writeid = ofs[o].writeid
      BY <2>4 DEF Updates
    <3>2. CASE d = c
      <4>1. rows'[t].int1 = ofs[o].writeid /\ rows'[t].status # 1
        BY <1>4, <1>7, <2>1, <2>4, <3>1, <3>2
      <4> QED BY <1>2, <1>3, <2>2, <4>1 DEF Covered
    <3>3. CASE d # c
      <4>1. Updates(o, "writeid")' /\ rows'[t].status # 1
        BY <1>3, <1>5, <1>7, <2>1, <2>4, <3>1, <3>3 DEF Updates
      <4> QED BY <1>2, <1>3, <2>2, <4>1 DEF Covered
    <3> QED BY <3>2, <3>3
  <2>5. CASE rows[t].status # 1 /\ rows[t].int1 = ofs[o].writeid
    <3>1. rows'[t].int1 = ofs[o].writeid /\ rows'[t].status # 1
      BY <1>4, <1>7, <2>1, <2>5
    <3> QED BY <1>2, <1>3, <2>2, <3>1 DEF Covered
  <2> QED BY <1>2, <2>2, <2>3, <2>4, <2>5 DEF Covered
<1> QED BY <1>1, <1>2, <1>3, <1>5, <1>7, <1>8, CallUpdates

(* A call with the last reference is the only one of its file, and its row *)
(* has the write id of the last write.                                     *)
LEMMA LastReference ==
  ASSUME Good, NEW c \in calls, c.step = "drop", NEW o, o = c.of, ofs[o].refcnt = 1
  PROVE  /\ \A d \in calls : d.of = o => d = c
         /\ ofs[o].fileid < 0 => rows[-ofs[o].fileid].int1 = ofs[o].writeid
                                 /\ rows[-ofs[o].fileid].status # 1
<1>1. MemoryTypes /\ References /\ CallInv(c) /\ o \in DOMAIN ofs /\ FileIds(o)
  BY DEF Good, WritesKnown, FilesInv, References, CallInv
<1>2. c \in DropsOf(o)
  BY <1>1 DEF DropsOf, CallInv
<1>3. PICK hs : hs = Cardinality(HandlesOf(o))
  OBVIOUS
<1>4. PICK ds : ds = Cardinality(DropsOf(o))
  OBVIOUS
<1>5. IsFiniteSet(DropsOf(o)) /\ IsFiniteSet(HandlesOf(o)) /\ hs \in Nat /\ ds \in Nat
  BY <1>1, <1>3, <1>4, Countable
<1>6. hs + ds + (IF ofs[o].timer # "none" THEN 1 ELSE 0) = 1
  BY <1>1, <1>3, <1>4 DEF References, Referenced
<1>7. ds # 0
  BY <1>2, <1>4, <1>5, FS_EmptySet
<1>8. hs = 0 /\ ds = 1
  BY <1>5, <1>6, <1>7
<1>9. HandlesOf(o) = {}
  BY <1>3, <1>5, <1>8, FS_EmptySet
<1>10. ASSUME NEW d \in calls, d.of = o PROVE d = c
  <2>1. CallInv(d) /\ d \in FileCall
    BY <1>1 DEF References, MemoryTypes
  <2>2. d.drop
    BY <1>9, <1>10, <2>1 DEF CallInv, HandlesOf
  <2>3. d \in DropsOf(o)
    BY <1>10, <2>2 DEF DropsOf
  <2>4. \E x : DropsOf(o) = {x}
    BY <1>4, <1>5, <1>8, FS_Singleton
  <2> QED BY <1>2, <2>3, <2>4
<1>11. ofs[o].fileid < 0 => Covered(o)
  BY <1>1, <1>9 DEF FileIds
<1>12. ~Updates(o, "status") /\ ~Updates(o, "writeid")
  BY <1>10 DEF Updates
<1> QED BY <1>10, <1>11, <1>12 DEF Covered

(* psync_fs_dec_of_refcnt                                                  *)
LEMMA DecOfRefcntIds ==
  ASSUME Good, NEW c \in calls, psync_fs_dec_of_refcnt(c)
  PROVE  WritesKnown'
<1>1. PICK o : o = c.of
  OBVIOUS
<1>2. PICK t : t = -ofs[o].fileid
  OBVIOUS
<1>3. c.step = "drop" /\ calls' = calls \ {c} /\ UNCHANGED <<data, fd, pc, task, changed>>
  BY DEF psync_fs_dec_of_refcnt, upload, history
<1>4. /\ o \in DOMAIN ofs /\ rows \in [DOMAIN rows -> Row] /\ MemoryTypes
      /\ (pc = "answer" => task.id \in Nat \ {0} /\ task.id \in DOMAIN rows)
  BY <1>1 DEF Good, FilesInv, TableTypes, References, CallInv, Working
<1>5. \A p \in DOMAIN ofs : HandlesOf(p)' = HandlesOf(p)
  BY <1>3 DEF HandlesOf
<1>6. ASSUME ofs' = [ofs EXCEPT ![o].refcnt = @ - 1], UNCHANGED rows PROVE WritesKnown'
  <2>1. SameIds(ofs, ofs')
    BY Zenon, <1>4, <1>6, DroppedIds
  <2>2. rows' = rows
    BY <1>6
  <2> QED BY <1>3, <1>5, <2>1, <2>2, IdsStay
<1>7. ASSUME ofs[o].refcnt = 1, ofs' = Restrict(ofs, DOMAIN ofs \ {o}),
             rows' = IF ofs[o].deleted /\ t \in DOMAIN rows /\ rows[t].status = 12
                     THEN SetStatus(t, 11) ELSE rows
      PROVE  WritesKnown'
  <2>1. /\ \A d \in calls : d.of = o => d = c
        /\ ofs[o].fileid < 0 => rows[t].int1 = ofs[o].writeid
    BY <1>1, <1>2, <1>3, <1>7, LastReference
  <2>2. DOMAIN ofs' = DOMAIN ofs \ {o} /\ \A p \in DOMAIN ofs' : ofs'[p] = ofs[p]
    BY <1>7 DEF Restrict
  <2>3. \A u \in DOMAIN rows : /\ rows'[u].int1 = rows[u].int1
                               /\ rows[u].status # 1 => rows'[u].status # 1
    <3>1. CASE rows' = rows
      BY <3>1
    <3>2. CASE t \in DOMAIN rows /\ rows' = SetStatus(t, 11)
      <4>1. SameInts(rows') /\ rows'[t].status = 11 /\ \A u \in DOMAIN rows : u # t => rows'[u] = rows[u]
        BY <1>4, <3>2, StatusInts, StatusSet
      <4> QED BY <4>1 DEF SameInts
    <3> QED BY <1>7, <3>1, <3>2
  <2>4. ASSUME NEW p \in DOMAIN ofs' PROVE FileIds(p)'
    <3>1. p \in DOMAIN ofs /\ p # o /\ FileIds(p) /\ (ofs[p].fileid < 0 => -ofs[p].fileid \in DOMAIN rows)
      BY <2>2, <2>4 DEF Good, WritesKnown, RowsKept, Kept, FilesInv, MemoryTypes, OpenFile
    <3>2. \A d \in calls : d.of = p /\ d.step # "drop" => d \in calls'
      BY <1>3
    <3> QED BY <1>5, <2>2, <2>3, <2>4, <3>1, <3>2, FileIdsKept
  <2>5. Content'
    <3> SUFFICES ASSUME pc = "answer", task.row.type = "creat" PROVE Content'
      BY <1>3 DEF Content
    <3>1. Content /\ task.id \in DOMAIN rows /\ -task.id < 0 /\ rows'[task.id].int1 = rows[task.id].int1
      BY <1>4, <2>3 DEF Good, WritesKnown
    <3>2. CASE ofs[o].fileid = -task.id
      <4>1. OpenOf(ofs, -task.id) = {o} /\ t = task.id
        BY <1>2, <1>4, <3>1, <3>2 DEF OpenOf, Good, RowsKept
      <4>2. OpenOf(ofs', -task.id) = {}
        BY <2>2, <4>1 DEF OpenOf
      <4>3. Current(rows[task.id].int1)
        BY <2>1, <3>1, <3>2, <4>1 DEF Content
      <4> QED BY <1>3, <3>1, <4>2, <4>3 DEF Content, Current
    <3>3. CASE ofs[o].fileid # -task.id
      <4>1. OpenOf(ofs', -task.id) = OpenOf(ofs, -task.id) /\ OpenOf(ofs, -task.id) \subseteq DOMAIN ofs'
        BY <2>2, <3>3 DEF OpenOf
      <4> QED BY <1>3, <2>2, <3>1, <4>1 DEF Content, Current
    <3> QED BY <3>2, <3>3
  <2>6. ASSUME NEW d \in calls' PROVE d.writeid <= ofs'[d.of].writeid
    <3>1. d \in calls /\ d.of # o /\ d.of \in DOMAIN ofs /\ d.writeid <= ofs[d.of].writeid
      BY <1>3, <2>1, <2>6 DEF Good, WritesKnown, FilesInv, References, CallInv
    <3> QED BY <2>2, <3>1
  <2> QED BY <1>3, <2>4, <2>5, <2>6 DEF Good, WritesKnown
<1> QED BY <1>1, <1>2, <1>6, <1>7, Zenon DEF psync_fs_dec_of_refcnt

(* psync_fstask_unlink                                                     *)
LEMMA UnlinkIds ==
  ASSUME Good, psync_fstask_unlink \/ UnlinkFails
  PROVE  WritesKnown'
<1>1. UNCHANGED <<data, fd, calls, pc, task, changed>>
  BY DEF psync_fstask_unlink, UnlinkFails, upload, history
<1>2. MemoryTypes /\ rows \in [DOMAIN rows -> Row] /\ \A p \in DOMAIN ofs : HandlesOf(p)' = HandlesOf(p)
  BY <1>1 DEF Good, FilesInv, TableTypes, HandlesOf
<1>3. \/ ofs' = ofs
      \/ \E id : ofs' = mark_openfile_deleted(id)
  BY DEF psync_fstask_unlink, UnlinkFails
<1>4. SameIds(ofs, ofs')
  <2>1. CASE ofs' = ofs
    BY <2>1 DEF SameIds
  <2>2. CASE \E id : ofs' = mark_openfile_deleted(id)
    BY <1>2, <2>2, DeletedIds
  <2> QED BY <1>3, <2>1, <2>2
<1>5. NewTask \notin DOMAIN rows
  BY NewTaskFresh DEF Good, FilesInv, TableTypes
<1>6. \/ rows' = rows
      \/ \E S, r : rows' = With(S, NewTask, r) /\ (S = rows \/ \E id : S = stop_and_delete_file(id))
  BY DEF psync_fstask_unlink, UnlinkFails
<1>7. \A u \in DOMAIN rows : /\ rows'[u].int1 = rows[u].int1
                             /\ rows[u].status # 1 => rows'[u].status # 1
  <2>1. ASSUME NEW S, NEW r, rows' = With(S, NewTask, r), DOMAIN S = DOMAIN rows, NEW u \in DOMAIN rows
        PROVE  rows'[u] = S[u]
    BY <1>5, <2>1 DEF With
  <2>2. ASSUME NEW id PROVE LET S == stop_and_delete_file(id)
                            IN /\ DOMAIN S = DOMAIN rows
                               /\ \A u \in DOMAIN rows : /\ S[u].int1 = rows[u].int1
                                                         /\ rows[u].status # 1 => S[u].status # 1
    <3>1. CASE task.id = id
      BY <3>1 DEF stop_and_delete_file
    <3>2. CASE task.id # id
      <4>1. PICK x \in {11, 12} : stop_and_delete_file(id) = SetStatus(id, x)
        BY <3>2 DEF stop_and_delete_file
      <4>2. PICK S : S = SetStatus(id, x)
        OBVIOUS
      <4>3. /\ SameInts(S) /\ DOMAIN S = DOMAIN rows
            /\ \A u \in DOMAIN rows : u # id => S[u] = rows[u]
            /\ id \in DOMAIN rows => S[id].status = x
        BY <1>2, <4>2, StatusInts, StatusSet DEF SameTasks
      <4> QED BY <4>1, <4>2, <4>3 DEF SameInts
    <3> QED BY <3>1, <3>2
  <2> QED BY <1>6, <2>1, <2>2
<1> QED BY <1>1, <1>2, <1>4, <1>7, IdsStay

-----------------------------------------------------------------------------
(* A step of the thread after which nothing is under way.                  *)
LEMMA NothingSent ==
  ASSUME Good, RowsKept', UNCHANGED memory, UNCHANGED changed, pc' # "answer",
         \A u \in DOMAIN rows \cap DOMAIN rows' : rows[u].type = "creat" =>
            rows'[u].int1 = rows[u].int1 /\ rows'[u].status = rows[u].status
  PROVE  WritesKnown'
<1>1. Content'
  BY DEF Content
<1> QED BY <1>1, ThreadStays

(* The thread takes a task, sleeps, wakes up, gives up, or has copied.     *)
LEMMA ThreadIds ==
  ASSUME Good, RowsKept',
         \/ psync_fsupload_check_tasks \/ Woken \/ EndOfBatch \/ Failed \/ CopyToPageCache
  PROVE  WritesKnown'
<1>1. rows' = rows /\ UNCHANGED memory /\ UNCHANGED changed /\ pc' # "answer"
  BY DEF psync_fsupload_check_tasks, Woken, EndOfBatch, Failed, CopyToPageCache, history
<1> QED BY <1>1, NothingSent

(* What is sent is the content of the data file.                           *)
LEMMA SendIds ==
  ASSUME Good, Clean', RowsKept', SendUnlink \/ SendCreat
  PROVE  WritesKnown'
<1>1. pc = "send" /\ UNCHANGED data /\ UNCHANGED memory /\ UNCHANGED changed
  BY DEF SendUnlink, SendCreat, history
<1>2. /\ task.id \in DOMAIN rows /\ -task.id < 0 /\ rows[task.id] \in Row /\ ofs' = ofs
      /\ task.row.int1 \in Nat /\ MemoryTypes
  BY <1>1 DEF Good, FilesInv, TableTypes, Working, memory, Row
<1>3. CASE SendUnlink
  <2>1. rows' = rows /\ task' = task /\ task.row.type = "unlink"
    BY <1>3 DEF SendUnlink
  <2>2. Content'
    BY <2>1 DEF Content
  <2> QED BY <1>1, <2>1, <2>2, ThreadStays
<1>4. CASE SendCreat /\ pc' = "end"
  <2>1. rows' = rows
    BY <1>4 DEF SendCreat, Clean
  <2> QED BY <1>1, <1>4, <2>1, NothingSent
<1>5. CASE SendCreat /\ pc' # "end"
  <2>1. /\ task.id \in DOMAIN data /\ task.row.int1 \in get_file_writeid(task.id)
        /\ task' = [id |-> task.id, row |-> task.row, content |-> data[task.id]]
        /\ rows' = rows
    BY <1>5 DEF SendCreat
  <2>2. task'.id = task.id /\ task'.row = task.row /\ task'.content = data[task.id]
    BY <2>1
  <2>3. \A w : w = task.row.int1 => Current(w)'
    BY <1>1, <1>2, <2>2 DEF Current
  <2>4. CASE OpenOf(ofs, -task.id) = {}
    <3>1. rows[task.id].int1 = task.row.int1
      BY <2>1, <2>4 DEF get_file_writeid
    <3> QED BY <1>1, <1>2, <2>1, <2>2, <2>3, <2>4, <3>1, ThreadStays DEF Content
  <2>5. CASE OpenOf(ofs, -task.id) # {}
    <3>1. PICK o \in OpenOf(ofs, -task.id) : ofs[o].writeid = task.row.int1
      BY <2>1, <2>5 DEF get_file_writeid
    <3>2. OpenOf(ofs, -task.id) = {o}
      BY <1>2 DEF OpenOf, Good, RowsKept
    <3>3. Content'
      BY <1>1, <1>2, <2>1, <2>2, <2>3, <3>1, <3>2 DEF Content
    <3> QED BY <1>1, <2>1, <3>3, ThreadStays
  <2> QED BY <2>4, <2>5
<1> QED BY <1>3, <1>4, <1>5

(* The server answers, or one of its events arrives.                       *)
LEMMA ServerIds ==
  ASSUME Good, RowsKept', uploadfile \/ deletefile \/ Diff
  PROVE  WritesKnown'
<1>1. /\ UNCHANGED <<rows, data, pc, task, changed>> /\ UNCHANGED memory
  BY DEF uploadfile, deletefile, Diff, upload, history
<1>2. ofs' = ofs
  BY <1>1 DEF memory
<1>3. Content'
  BY <1>1, <1>2 DEF Good, WritesKnown, Content, Current
<1> QED BY <1>1, <1>3, ThreadStays

(* The task is done, or given up.                                          *)
LEMMA RemovedIds ==
  ASSUME Good, RowsKept', FinishCreat \/ process_task_unlink \/ cancel_task_creat \/ cancel_task_unlink
  PROVE  WritesKnown'
<1>1. PICK t : t = task.id
  OBVIOUS
<1>2. pc' = "end" /\ UNCHANGED memory /\ UNCHANGED changed
  BY DEF FinishCreat, process_task_unlink, cancel_task_creat, cancel_task_unlink, history
<1>3. /\ rows \in [DOMAIN rows -> Row] /\ t \in DOMAIN rows /\ t \in Nat \ {0} /\ answer.id \in Int
      /\ rows[t].type = task.row.type /\ rows[t].sfile \in Int
      /\ task.row.fileid \in Int /\ task.row.rfileid \in Int
  BY <1>1 DEF Good, RowsKept, Batch, FilesInv, TableTypes, Working, Row,
              FinishCreat, process_task_unlink, cancel_task_creat, cancel_task_unlink
<1>4. CASE rows' = Remove(rows, t)
  <2>1. DOMAIN rows' = DOMAIN rows \ {t} /\ \A u \in DOMAIN rows \ {t} : rows'[u] = rows[u]
    BY <1>3, <1>4, Removed
  <2> QED BY <1>2, <2>1, NothingSent
<1>5. ASSUME NEW id \in Int, rows' = Renumber(Remove(rows, t), -t, id) PROVE WritesKnown'
  <2>1. /\ DOMAIN rows' = DOMAIN rows \ {t}
        /\ \A u \in DOMAIN rows \ {t} : rows'[u].status = rows[u].status
    <3>1. t \in Int /\ rows \in [DOMAIN rows -> Row]
      BY <1>3
    <3> QED BY Zenon, <1>5, <3>1, RemovedRenumbered
  <2>2. PICK R : R = Remove(rows, t)
    OBVIOUS
  <2>3. /\ DOMAIN R = DOMAIN rows \ {t} /\ R \in [DOMAIN rows \ {t} -> Row]
        /\ \A u \in DOMAIN rows \ {t} : R[u] = rows[u]
    BY <1>3, <2>2, Removed
  <2>4. \A u \in DOMAIN rows \ {t} : rows'[u].int1 = R[u].int1
    BY <1>5, <2>2, <2>3, RenumberedInts
  <2> QED BY <1>2, <2>1, <2>3, <2>4, NothingSent
<1>6. ASSUME NEW id \in Int, task.row.type = "unlink",
             rows' = [rows EXCEPT ![t].status = 0, ![t].fileid = id]
      PROVE  WritesKnown'
  <2>1. \A u \in DOMAIN rows : u # t => rows'[u] = rows[u]
    BY Zenon, <1>3, <1>6, UnlinkSent
  <2>2. rows[t].type # "creat"
    BY <1>3, <1>6
  <2> QED BY <1>2, <2>1, <2>2, NothingSent
<1>7. CASE FinishCreat
  BY <1>1, <1>3, <1>5, <1>7 DEF FinishCreat
<1>8. CASE process_task_unlink
  BY <1>1, <1>4, <1>8 DEF process_task_unlink
<1>9. CASE cancel_task_creat
  BY <1>1, <1>3, <1>4, <1>5, <1>9 DEF cancel_task_creat, Cancelled
<1>10. CASE cancel_task_unlink
  <2>1. PICK id \in Int : id = IF task.row.fileid > 0 THEN task.row.fileid ELSE task.row.rfileid
    BY <1>3
  <2>2. \/ task.row.type = "unlink" /\ rows' = [rows EXCEPT ![t].status = 0, ![t].fileid = id]
        \/ rows' = Remove(rows, t)
    BY Zenon, <1>1, <1>10, <2>1 DEF cancel_task_unlink
  <2> QED BY Zenon, <1>4, <1>6, <2>2
<1> QED BY <1>7, <1>8, <1>9, <1>10

(* psync_process_task_creat: an upload is accepted when the file has the   *)
(* write id with which it was sent.                                        *)
LEMMA TaskCreatIds ==
  ASSUME Good, RowsKept', process_task_creat
  PROVE  WritesKnown'
<1>1. PICK t : t = task.id
  OBVIOUS
<1>2. pc = "answer" /\ task.row.type = "creat" /\ UNCHANGED <<data, fd, calls>>
  BY DEF process_task_creat
<1>3. /\ rows \in [DOMAIN rows -> Row] /\ t \in DOMAIN rows /\ answer.id \in Nat /\ MemoryTypes
      /\ Content
  BY <1>1, <1>2 DEF Good, WritesKnown, FilesInv, TableTypes, Working, Answered
<1>4. ASSUME SameWriteid(t, task.row.int1), ofs' = update_openfile(t), pc' = "cache", UNCHANGED rows,
             changed' = (changed \/ data[t] # task.content)
      PROVE  WritesKnown'
  <2>1. data[t] = task.content
    <3>1. PICK w \in get_file_writeid(t) : w = task.row.int1
      BY <1>4 DEF SameWriteid
    <3>2. Current(w)
      <4>1. CASE OpenOf(ofs, -t) = {}
        BY <1>1, <1>2, <1>3, <3>1, <4>1 DEF Content, get_file_writeid
      <4>2. CASE OpenOf(ofs, -t) # {}
        <5>1. PICK o \in OpenOf(ofs, -t) : w = ofs[o].writeid
          BY <3>1, <4>2 DEF get_file_writeid
        <5> QED BY <1>1, <1>2, <1>3, <5>1 DEF Content
      <4> QED BY <4>1, <4>2
    <3> QED BY <1>1, <3>1, <3>2 DEF Current
  <2>2. ~changed'
    BY <1>4, <2>1 DEF Good, WritesKnown
  <2>3. /\ DOMAIN ofs' = DOMAIN ofs
        /\ \A p \in DOMAIN ofs :
             /\ ofs[p].fileid # -t => ofs'[p] = ofs[p]
             /\ ofs[p].fileid = -t => ofs'[p].fileid = answer.id /\ ofs'[p].modified = FALSE
             /\ ofs'[p].writeid = ofs[p].writeid
    BY <1>3, <1>4, AcceptedIds
  <2>4. ASSUME NEW p \in DOMAIN ofs PROVE FileIds(p)'
    <3>1. CASE ofs[p].fileid = -t
      BY <1>3, <2>3, <3>1 DEF FileIds
    <3>2. CASE ofs[p].fileid # -t
      <4>1. FileIds(p) /\ ofs'[p] = ofs[p] /\ HandlesOf(p)' = HandlesOf(p)
        BY <1>2, <2>3, <3>2 DEF Good, WritesKnown, HandlesOf
      <4> QED BY <1>2, <1>4, <4>1, FileIdsKept
    <3> QED BY <3>1, <3>2
  <2>5. \A c \in calls' : c.writeid <= ofs'[c.of].writeid
    BY <1>2, <2>3 DEF Good, WritesKnown, FilesInv, References, CallInv
  <2> QED BY <1>4, <2>2, <2>3, <2>4, <2>5 DEF WritesKnown, Content
<1>5. ASSUME UNCHANGED <<ofs, changed>>, pc' = "end",
             rows' = IF OpenOf(ofs, -t) # {} THEN [rows EXCEPT ![t].sfile = answer.id] ELSE rows
      PROVE  WritesKnown'
  <2>1. /\ pc' # "answer" /\ changed' = changed /\ UNCHANGED memory
    BY <1>5 DEF memory, process_task_creat
  <2>2. \/ rows' = rows
        \/ rows' = [rows EXCEPT ![t].sfile = answer.id]
    BY Zenon, <1>5
  <2>3. \A u \in DOMAIN rows : rows'[u].int1 = rows[u].int1 /\ rows'[u].status = rows[u].status
    <3>1. CASE rows' = rows
      BY <3>1
    <3>2. CASE rows' = [rows EXCEPT ![t].sfile = answer.id]
      <4>1. SameInts(rows')
        BY Zenon, <1>3, <3>2, SfileInts
      <4>2. answer.id \in Int
        BY <1>3
      <4>3. \A u \in DOMAIN rows : rows'[u].status = rows[u].status
        BY Zenon, <1>3, <3>2, <4>2, SfileSet
      <4> QED BY <4>1, <4>3 DEF SameInts
    <3> QED BY Zenon, <2>2, <3>1, <3>2
  <2> QED BY <2>1, <2>3, NothingSent
<1> QED BY Zenon, <1>1, <1>4, <1>5 DEF process_task_creat

(* Nothing is open after a restart.                                        *)
LEMMA RestartIds ==
  ASSUME Good, Restart
  PROVE  WritesKnown'
<1>1. ofs' = <<>> /\ calls' = {} /\ pc' = "check" /\ changed' = changed
  BY DEF Restart
<1> QED BY <1>1 DEF Good, WritesKnown, Content

-----------------------------------------------------------------------------
(* Nothing is open or under way at the start.                              *)
LEMMA WritesInit == Init => WritesInv
<1> SUFFICES ASSUME Init PROVE WritesKnown
  BY DEF WritesInv
<1>1. ofs = <<>> /\ calls = {} /\ pc = "check" /\ changed = FALSE
  BY DEF Init
<1> QED BY <1>1 DEF WritesKnown, Content

(* No step forgets an odd event: if there is none after it, there was none *)
(* before it.                                                              *)
LEMMA OddKept == [Next]_vars => odd \subseteq odd'
<1> USE DEF history
<1>1. User => odd \subseteq odd'
  BY ZenonT(90) DEF User, Create, OpenPending, OpenServerFile, Write, WriteServerFile, Flush,
         psync_fstask_unlink, UnlinkFails
<1>2. InCall => odd \subseteq odd'
  BY DEF InCall, psync_fs_reopen_file_for_writing, ReleaseRow, RaiseWriteid, OddIf,
         psync_fs_dec_of_refcnt
<1>3. Upload => odd \subseteq odd'
  BY DEF Upload, psync_fsupload_check_tasks, Woken, EndOfBatch, SendUnlink, SendCreat,
         process_task_creat, CopyToPageCache, FinishCreat, process_task_unlink,
         cancel_task_creat, cancel_task_unlink
<1>4. Expire \/ psync_fs_write_timer \/ uploadfile \/ deletefile \/ Failed \/ Diff \/ Restart
        => odd \subseteq odd'
  BY DEF Expire, psync_fs_write_timer, uploadfile, deletefile, Failed, Diff, Restart
<1>5. UNCHANGED vars => odd \subseteq odd'
  BY DEF vars
<1> QED BY <1>1, <1>2, <1>3, <1>4, <1>5 DEF Next

(* Every step of the drive keeps it, where no odd event happens.           *)
LEMMA WritesNext == FilesInv /\ FilesInv' /\ TableInv /\ WritesInv /\ [Next]_vars => WritesInv'
<1> SUFFICES ASSUME FilesInv, FilesInv', TableInv, WritesInv, [Next]_vars, Clean' PROVE WritesKnown'
  BY DEF WritesInv
<1>1. Good /\ RowsKept'
  BY OddKept DEF Good, WritesInv, Clean, FilesInv
<1>2. CASE User
  <2>1. ASSUME NEW h \in Handles, NEW trunc \in Trunc, Create(h, trunc) \/ OpenPending(h, trunc)
        PROVE  WritesKnown'
    BY <1>1, <2>1, CreateIds, OpenPendingIds
  <2>2. ASSUME NEW h \in Handles,
               OpenServerFile(h) \/ Write(h) \/ WriteServerFile(h) \/ Flush(h, FALSE) \/ Flush(h, TRUE)
        PROVE  WritesKnown'
    BY <1>1, <2>2, OpenServerFileIds, WriteIds, WriteServerFileIds, FlushIds
  <2>3. CASE psync_fstask_unlink \/ UnlinkFails
    BY <1>1, <2>3, UnlinkIds
  <2> QED BY <1>2, <2>1, <2>2, <2>3 DEF User
<1>3. CASE InCall
  BY <1>1, <1>3, ReopenIds, ReleaseRowIds, RaiseWriteidIds, DecOfRefcntIds DEF InCall
<1>4. CASE Expire \/ psync_fs_write_timer
  BY <1>1, <1>4, TimerStepIds
<1>5. CASE Upload \/ Failed
  BY <1>1, <1>5, ThreadIds, SendIds, RemovedIds, TaskCreatIds DEF Upload
<1>6. CASE uploadfile \/ deletefile \/ Diff
  BY <1>1, <1>6, ServerIds
<1>7. CASE Restart
  BY <1>1, <1>7, RestartIds
<1>8. CASE UNCHANGED vars
  <2>1. UNCHANGED <<rows, data, ofs, fd, calls, pc, task, changed>>
    BY <1>8 DEF vars, memory, upload, history
  <2> QED BY <1>1, <2>1
     DEF Good, WritesKnown, FileIds, Covered, Updates, HandlesOf, Content, Current, OpenOf
<1> QED BY <1>2, <1>3, <1>4, <1>5, <1>6, <1>7, <1>8 DEF Next

(* An upload is accepted only with the content its file still has: a write *)
(* raises the write id first, the row follows it, and the id under which   *)
(* the file was sent stands for the content that was sent.                 *)
THEOREM UploadsUnchanged == Spec => []ChangedFailsUnlessRaced
<1>1. WritesInv => ChangedFailsUnlessRaced
  BY DEF WritesInv, WritesKnown, Clean, ChangedFailsUnlessRaced
<1>2. Init => FilesInv /\ WritesInv
  BY FilesInit, WritesInit
<1>3. FilesInv /\ TableInv /\ WritesInv /\ [Next]_vars => (FilesInv /\ WritesInv)'
  BY FilesNext, WritesNext
<1> QED BY <1>1, <1>2, <1>3, TableInvariant, PTL DEF Spec

-----------------------------------------------------------------------------
(* What the user finds under the name.                                     *)

(* A row whose upload was accepted is about to be removed and counts no    *)
(* more.                                                                   *)
Finishing == IF pc \in {"cache", "finish"} THEN {task.id} ELSE {}
Pending == DOMAIN rows \ Finishing

UnlinkOf(t) == \E u \in DOMAIN rows : u > t /\ rows[u].type = "unlink" /\ rows[u].fileid = -t

(* A creat that is not in the overlay any more was unlinked, and only the  *)
(* oldest can have a file on the server: the one the server has.           *)
CreatRow(t) ==
  rows[t].type = "creat" =>
    /\ rows[t].fileid >= 0
    /\ rows[t].sfile # 0 => rows[t].sfile = srv.id /\ Oldest(t)
    /\ t \in Pending => Named(t) \/ UnlinkOf(t)

(* An unlink is of a file of the server or of an older row.                *)
UnlinkRow(t) ==
  rows[t].type = "unlink" =>
    /\ rows[t].sfile = 0 /\ rows[t].rfileid >= 0 /\ rows[t].status \in {0, 11}
    /\ \/ rows[t].fileid > 0
       \/ rows[t].fileid < 0 /\ -rows[t].fileid < t /\ rows[t].status = 11

(* The overlay has one pending file at most, and its row is the youngest.  *)
EntryLast(cr) ==
  /\ cr.id \in DOMAIN rows /\ rows[cr.id].fileid = cr.rfileid
  /\ \A t \in DOMAIN rows : t <= cr.id

Overlay == unlinks = Pending /\ \A cr \in creats : EntryLast(cr)

(* What the upload thread works with is what the rows say, and the answer  *)
(* it holds is the server's.                                               *)
OfRow == task.row.fileid = rows[task.id].fileid /\ task.row.rfileid = rows[task.id].rfileid

Holds ==
  IF task.row.type = "creat" THEN answer = srv /\ answer.content = task.content
  ELSE srv.id # task.row.fileid

Thread ==
  /\ pc \in {"check", "wait", "send", "cancel"} => answer = NoFile
  /\ pc \in {"send", "cancel", "answer"} => OfRow
  /\ pc \in {"send", "answer"} =>
       IF rows[task.id].type = "unlink" THEN task.row.fileid > 0
       ELSE rows[task.id].status \notin {11, 12}
  /\ pc = "answer" /\ answer # NoFile => Holds
  /\ pc \in {"cache", "finish"} => answer = srv /\ srv # NoFile

ServerFile ==
  /\ srv = NoFile \/ (srv.id > 0 /\ srv.id < nextid)
  /\ nextid > 0

(* An unlink that will delete the file of the server: it names its id, or  *)
(* the file of a row that will bring that id, or has it as the file that   *)
(* was modified.                                                           *)
Awaited(c) == c \in DOMAIN rows /\ rows[c].type = "creat" /\ rows[c].status \notin {11, 12}

Leads(u) ==
  /\ rows[u].type = "unlink"
  /\ \/ rows[u].fileid = srv.id
     \/ /\ rows[u].fileid < 0
        /\ LET c == -rows[u].fileid
           IN \/ Awaited(c)
              \/ c \in DOMAIN rows /\ rows[c].sfile = srv.id
              \/ rows[u].rfileid = srv.id

Led == \E u \in DOMAIN rows : Leads(u)

(* No file of the server is forgotten: where the user removed the file, or *)
(* an unlink is left that may lead to it, one does.                        *)
MayLead(u) == rows[u].type = "unlink" /\ ~(rows[u].fileid > 0 /\ rows[u].fileid # srv.id)

Found ==
  srv # NoFile =>
    /\ (\E u \in DOMAIN rows : MayLead(u)) => Led
    /\ creats = {} /\ unlinks # {} => Led

Shown ==
  IF creats # {} THEN \A cr \in creats : cr.id \in DOMAIN data /\ data[cr.id] = want
  ELSE IF unlinks # {} THEN want = None
  ELSE srv.content = want /\ (srv # NoFile => InTable(srv.id))

NameKnown ==
  /\ \A t \in DOMAIN rows : CreatRow(t) /\ UnlinkRow(t)
  /\ Overlay /\ Thread /\ ServerFile /\ Found /\ Shown

ShownInv == odd = {} => NameKnown

(* Where no odd event happened, all that is known so far.                  *)
Known == Good /\ NameKnown

-----------------------------------------------------------------------------
(* Steps that leave the rows what they are to the name.                    *)
SameFields(S) ==
  /\ DOMAIN S = DOMAIN rows
  /\ \A u \in DOMAIN rows : /\ S[u].type = rows[u].type /\ S[u].fileid = rows[u].fileid
                            /\ S[u].rfileid = rows[u].rfileid /\ S[u].sfile = rows[u].sfile

SameCancels(S) ==
  \A u \in DOMAIN rows :
    /\ S[u].status \in {11, 12} => rows[u].status \in {11, 12}
    /\ rows[u].type = "unlink" => S[u].status = rows[u].status

Alike == SameFields(rows') /\ SameCancels(rows')

(* The updates of a status or a write id leave the other fields.           *)
LEMMA FieldsKept ==
  ASSUME rows \in [DOMAIN rows -> Row], NEW t, NEW s, NEW w
  PROVE  /\ SameFields(SetStatus(t, s))
         /\ SameFields([rows EXCEPT ![t].status = s, ![t].int1 = w])
         /\ SameFields([rows EXCEPT ![t].int1 = w])
<1>1. \A u \in DOMAIN rows : rows[u] \in Row
  OBVIOUS
<1>2. SameFields(SetStatus(t, s))
  BY <1>1, ZenonT(60) DEF SetStatus, SameFields, Row
<1>3. SameFields([rows EXCEPT ![t].status = s, ![t].int1 = w])
  BY <1>1, ZenonT(60) DEF SameFields, Row
<1>4. SameFields([rows EXCEPT ![t].int1 = w])
  BY <1>1, ZenonT(60) DEF SameFields, Row
<1> QED BY <1>2, <1>3, <1>4

(* What the proofs below need of the types.                                *)
LEMMA Typed ==
  ASSUME Known
  PROVE  /\ rows \in [DOMAIN rows -> Row] /\ DOMAIN rows \subseteq Nat \ {0}
         /\ \A u \in DOMAIN rows :
              /\ rows[u] \in Row /\ u \in Nat \ {0} /\ rows[u].type \in {"creat", "unlink"}
              /\ rows[u].fileid \in Int /\ rows[u].rfileid \in Int /\ rows[u].sfile \in Int
              /\ -(-u) = u /\ -u < 0
         /\ srv.id \in Nat /\ nextid \in Nat /\ NoFile.id = 0
         /\ pc \in Steps
         /\ pc \in Working => task.id \in DOMAIN rows /\ Oldest(task.id)
                              /\ task.row.type = rows[task.id].type
                              /\ task.row \in Row
         /\ \A cr \in creats : Entry(cr)
         /\ NoTask.id = 0
BY DEF Known, Good, FilesInv, TableTypes, Row, NoFile, NoTask, RowsKept, Batch

(* Such a step keeps all but what depends on the thread and the contents.  *)
LEMMA AlikeKeeps ==
  ASSUME Known, Alike, UNCHANGED <<creats, unlinks, srv, nextid>>, Finishing' = Finishing
  PROVE  /\ \A t \in DOMAIN rows' : CreatRow(t)' /\ UnlinkRow(t)'
         /\ Overlay' /\ ServerFile' /\ Found'
<1>1. /\ DOMAIN rows' = DOMAIN rows /\ Pending' = Pending
      /\ \A u \in DOMAIN rows :
           /\ rows'[u].type = rows[u].type /\ rows'[u].fileid = rows[u].fileid
           /\ rows'[u].rfileid = rows[u].rfileid /\ rows'[u].sfile = rows[u].sfile
           /\ rows'[u].status \in {11, 12} => rows[u].status \in {11, 12}
           /\ rows[u].type = "unlink" => rows'[u].status = rows[u].status
  BY DEF Alike, SameFields, SameCancels, Pending
<1>2. \A t \in DOMAIN rows' : CreatRow(t)' /\ UnlinkRow(t)'
  BY <1>1 DEF Known, NameKnown, CreatRow, UnlinkRow, Named, UnlinkOf, Oldest
<1>3. Overlay'
  BY <1>1 DEF Known, NameKnown, Overlay, EntryLast
<1>4. ServerFile'
  BY DEF Known, NameKnown, ServerFile
<1>5. \A u \in DOMAIN rows : (Leads(u) => Leads(u)') /\ MayLead(u)' = MayLead(u)
  BY <1>1 DEF Leads, Awaited, MayLead
<1>6. Found'
  BY <1>1, <1>5 DEF Known, NameKnown, Found, Led
<1> QED BY <1>2, <1>3, <1>4, <1>6

(* And one that is not the thread's keeps what the thread knows.           *)
LEMMA ThreadAlike ==
  ASSUME Known, Alike, UNCHANGED <<upload, srv>>
  PROVE  Thread' /\ Finishing' = Finishing
<1>1. Finishing' = Finishing
  BY DEF Finishing, upload
<1>2. pc \in Working => task.id \in DOMAIN rows
  BY Typed
<1>3. \A u \in DOMAIN rows :
           /\ rows'[u].type = rows[u].type /\ rows'[u].fileid = rows[u].fileid
           /\ rows'[u].rfileid = rows[u].rfileid
           /\ rows'[u].status \in {11, 12} => rows[u].status \in {11, 12}
  BY DEF Alike, SameFields, SameCancels
<1> QED BY <1>1, <1>2, <1>3 DEF Known, NameKnown, Thread, OfRow, Holds, upload, Working

(* The overlay has one entry at most.                                      *)
LEMMA OneEntry ==
  ASSUME Known, NEW cr \in creats
  PROVE  creats = {cr} /\ cr.id \in DOMAIN rows /\ EntryLast(cr) /\ Entry(cr)
<1>1. \A dr \in creats : Entry(dr) /\ EntryLast(dr) /\ dr.id \in Nat
  BY Typed DEF Known, NameKnown, Overlay, EntryLast
<1>2. \A dr \in creats : dr.id = cr.id
  BY <1>1 DEF EntryLast
<1> QED BY <1>1, <1>2 DEF Entry

(* Writing the file of the entry is what the user wants, and writing       *)
(* another file changes nothing the user can find.                         *)
LEMMA ShownWritten ==
  ASSUME Known, UNCHANGED <<creats, unlinks, srv, table>>, NEW t, NEW v,
         data' = With(data, t, v), want' = IF Named(t) THEN v ELSE want
  PROVE  Shown'
<1>1. \A cr \in creats : creats = {cr}
  BY OneEntry
<1>2. t \in DOMAIN data' /\ data'[t] = v
  BY DEF With
<1>3. \A u \in DOMAIN data : u # t => u \in DOMAIN data' /\ data'[u] = data[u]
  BY DEF With
<1> QED BY <1>1, <1>2, <1>3 DEF Known, NameKnown, Shown, InTable, Named

(* A step that changes nothing of the kind.                                *)
LEMMA NameStays ==
  ASSUME Known, Alike, UNCHANGED <<data, creats, unlinks, table, upload, server, want>>
  PROVE  NameKnown'
<1>1. srv' = srv /\ nextid' = nextid
  BY DEF server
<1>2. Thread' /\ Finishing' = Finishing
  BY <1>1, ThreadAlike
<1>3. /\ \A t \in DOMAIN rows' : CreatRow(t)' /\ UnlinkRow(t)'
      /\ Overlay' /\ ServerFile' /\ Found'
  BY <1>1, <1>2, AlikeKeeps
<1>4. Shown'
  BY <1>1 DEF Known, NameKnown, Shown, InTable
<1> QED BY <1>2, <1>3, <1>4 DEF NameKnown

(* A step that leaves the rows alone leaves them alike.                    *)
LEMMA SameAlike == rows' = rows => Alike
BY DEF Alike, SameFields, SameCancels

(* The calls that leave the rows and the contents alone.                   *)
LEMMA OpenOrFlushName ==
  ASSUME Known,
         \/ \E h \in Handles : OpenServerFile(h) \/ WriteServerFile(h)
         \/ \E h \in Handles, closing \in BOOLEAN : Flush(h, closing)
         \/ Expire \/ psync_fs_write_timer
  PROVE  NameKnown'
<1>1. UNCHANGED <<rows, data, overlay, table, upload, server, want>>
  BY DEF OpenServerFile, WriteServerFile, Flush, Expire, psync_fs_write_timer, history
<1> QED BY <1>1, SameAlike, NameStays DEF overlay

(* A step that sets the status of a creat and does not begin its cancel.   *)
LEMMA StatusAlike ==
  ASSUME Known, NEW t, NEW s \in {0, 1, 11, 12}, rows' = SetStatus(t, s),
         t \in DOMAIN rows =>
           rows[t].type = "creat" /\ (s \in {11, 12} => rows[t].status \in {11, 12})
  PROVE  Alike
<1>1. rows \in [DOMAIN rows -> Row]
  BY Typed
<1>2. SameFields(rows')
  BY <1>1, FieldsKept
<1>3. (\A u \in DOMAIN rows : u # t => rows'[u] = rows[u]) /\ (t \in DOMAIN rows => rows'[t].status = s)
  BY <1>1, StatusSet
<1>4. SameCancels(rows')
  BY <1>3 DEF SameCancels
<1> QED BY <1>2, <1>4 DEF Alike

(* psync_fs_flush makes the row of a creat ready.                          *)
LEMMA ReadyAlike ==
  ASSUME Known, NEW t \in DOMAIN rows, NEW w \in Nat,
         rows' = [rows EXCEPT ![t].status = 0, ![t].int1 = w],
         rows[t].type = "creat", rows[t].status = 1
  PROVE  Alike
<1>1. rows \in [DOMAIN rows -> Row]
  BY Typed
<1>2. SameFields(rows')
  BY <1>1, FieldsKept, Zenon
<1>3. (\A u \in DOMAIN rows : u # t => rows'[u] = rows[u]) /\ rows'[t].status = 0
  BY <1>1, ReleasedRow, Zenon
<1>4. SameCancels(rows')
  BY <1>3 DEF SameCancels
<1> QED BY <1>2, <1>4 DEF Alike

(* The row of an open file is not being cancelled, and is cancelled later  *)
(* only when the file was removed.                                         *)
LEMMA OpenRow ==
  ASSUME Known, NEW o \in DOMAIN ofs, -ofs[o].fileid \in DOMAIN rows
  PROVE  rows[-ofs[o].fileid].type = "creat" /\ rows[-ofs[o].fileid].status # 11
BY Typed DEF Known, Good, RowsKept, Kept

(* psync_fs_flush sets a status only where it is 1.                        *)
LEMMA ReleaseRowName ==
  ASSUME Known, NEW c \in calls, ReleaseRow(c)
  PROVE  NameKnown'
<1> DEFINE t == -ofs[c.of].fileid
<1>1. /\ UNCHANGED <<data, creats, unlinks, table, upload, server, want>>
      /\ c.of \in DOMAIN ofs /\ c.writeid \in Nat
  BY DEF ReleaseRow, overlay, Known, Good, FilesInv, References, CallInv, MemoryTypes, FileCall
<1>2. \/ t \in DOMAIN rows /\ rows[t].status = 1 /\ rows' = [rows EXCEPT ![t].status = 0, ![t].int1 = c.writeid]
      \/ rows' = rows
  BY Zenon DEF ReleaseRow
<1>3. ASSUME t \in DOMAIN rows, rows[t].status = 1,
             rows' = [rows EXCEPT ![t].status = 0, ![t].int1 = c.writeid]
      PROVE  Alike
  <2>1. rows[t].type = "creat"
    BY <1>1, <1>3, OpenRow
  <2> QED BY <1>1, <1>3, <2>1, ReadyAlike, Zenon
<1> QED BY <1>1, <1>2, <1>3, SameAlike, NameStays, Zenon

(* A call that raises the write id of a row changes nothing that the user  *)
(* finds.                                                                  *)
LEMMA RaiseWriteidName ==
  ASSUME Known, NEW c \in calls, RaiseWriteid(c)
  PROVE  NameKnown'
<1> DEFINE t == -ofs[c.of].fileid
<1>1. UNCHANGED <<data, creats, unlinks, table, upload, server, want>> /\ c.writeid \in Nat
  BY DEF RaiseWriteid, overlay, Known, Good, FilesInv, MemoryTypes, FileCall
<1>2. \/ t \in DOMAIN rows /\ rows' = [rows EXCEPT ![t].int1 = c.writeid]
      \/ rows' = rows
  BY Zenon DEF RaiseWriteid
<1>3. ASSUME t \in DOMAIN rows, rows' = [rows EXCEPT ![t].int1 = c.writeid] PROVE Alike
  <2>1. rows \in [DOMAIN rows -> Row]
    BY Typed
  <2>2. SameFields(rows')
    BY <1>3, <2>1, FieldsKept
  <2>3. \A u \in DOMAIN rows : rows'[u].status = rows[u].status
    BY <1>1, <1>3, <2>1, WriteidRaised, Zenon
  <2> QED BY <2>2, <2>3 DEF Alike, SameCancels
<1> QED BY <1>1, <1>2, <1>3, SameAlike, NameStays

(* Nor does a call that gives a reference back, even the last.             *)
LEMMA DecOfRefcntName ==
  ASSUME Known, NEW c \in calls, psync_fs_dec_of_refcnt(c)
  PROVE  NameKnown'
<1> DEFINE t == -ofs[c.of].fileid
<1>1. UNCHANGED <<data, creats, unlinks, table, upload, server, want>> /\ c.of \in DOMAIN ofs
  BY DEF psync_fs_dec_of_refcnt, overlay, history, Known, Good, FilesInv, References, CallInv
<1>2. \/ t \in DOMAIN rows /\ rows[t].status = 12 /\ rows' = SetStatus(t, 11)
      \/ rows' = rows
  BY Zenon DEF psync_fs_dec_of_refcnt
<1>3. ASSUME t \in DOMAIN rows, rows[t].status = 12, rows' = SetStatus(t, 11) PROVE Alike
  <2>1. rows[t].type = "creat"
    BY <1>1, <1>3, OpenRow
  <2> QED BY <1>3, <2>1, StatusAlike
<1> QED BY <1>1, <1>2, <1>3, SameAlike, NameStays

(* stop_upload of an open file.                                            *)
LEMMA StopAlike ==
  ASSUME Known, NEW F, NEW o \in DOMAIN ofs, F[o].fileid = ofs[o].fileid, rows' = stop_upload(F, o)
  PROVE  Alike
<1>1. CASE ~F[o].released
  BY <1>1, SameAlike DEF stop_upload
<1>2. CASE F[o].released
  <2>1. rows' = SetStatus(-ofs[o].fileid, 1)
    BY <1>2 DEF stop_upload
  <2> QED BY <2>1, OpenRow, StatusAlike
<1> QED BY <1>1, <1>2

(* A step of the user on an open file and its data.                        *)
LEMMA UserName ==
  ASSUME Known, Alike, Shown', UNCHANGED <<creats, unlinks, table, upload, server>>
  PROVE  NameKnown'
<1>1. srv' = srv /\ nextid' = nextid
  BY DEF server
<1>2. Thread' /\ Finishing' = Finishing
  BY <1>1, ThreadAlike
<1>3. /\ \A t \in DOMAIN rows' : CreatRow(t)' /\ UnlinkRow(t)'
      /\ Overlay' /\ ServerFile' /\ Found'
  BY <1>1, <1>2, AlikeKeeps
<1> QED BY <1>2, <1>3 DEF NameKnown

(* psync_fs_write                                                          *)
LEMMA WriteName ==
  ASSUME Known, NEW h \in Handles, Write(h)
  PROVE  NameKnown'
<1>1. /\ fd[h] \in DOMAIN ofs /\ rows' = stop_upload(ofs, fd[h])
      /\ data' = With(data, -ofs[fd[h]].fileid, ver')
      /\ want' = IF Named(-ofs[fd[h]].fileid) THEN ver' ELSE want
      /\ UNCHANGED <<creats, unlinks, table, upload, server>>
  BY DEF Write, Written, Ready, overlay, Known, Good, FilesInv, References
<1>2. Shown'
  BY <1>1, ShownWritten DEF server
<1> QED BY <1>1, <1>2, StopAlike, UserName

(* psync_fs_open of a pending file: with O_TRUNC it is empty.              *)
LEMMA OpenPendingName ==
  ASSUME Known, NEW h \in Handles, NEW trunc, OpenPending(h, trunc)
  PROVE  NameKnown'
<1>1. UNCHANGED <<creats, unlinks, table, upload, server>>
  BY DEF OpenPending, overlay
<1>2. PICK cr \in creats :
        LET t == cr.id
            open == OpenOf(ofs, -t)
            released == rows[t].status # 1
        IN /\ t \in DOMAIN rows
           /\ \/ \E o \in open :
                   LET F == OpenAgain(o, released)
                       change == trunc /\ data[t] # 0
                   IN rows' = IF change THEN stop_upload(F, o) ELSE rows
              \/ UNCHANGED rows
           /\ data' = IF trunc \/ t \notin DOMAIN data THEN With(data, t, 0) ELSE data
           /\ want' = IF trunc THEN 0 ELSE want
  BY DEF OpenPending
<1>3. Alike
  <2>1. ASSUME NEW o \in OpenOf(ofs, -cr.id), NEW released \in BOOLEAN,
               rows' = stop_upload(OpenAgain(o, released), o)
        PROVE  Alike
    <3>1. o \in DOMAIN ofs /\ MemoryTypes
      BY DEF OpenOf, Known, Good, FilesInv
    <3>2. OpenAgain(o, released)[o].fileid = ofs[o].fileid
      BY <3>1, OpenedAgainIds DEF SameIds
    <3> QED BY <2>1, <3>1, <3>2, StopAlike
  <2>2. PICK released \in BOOLEAN : released = (rows[cr.id].status # 1)
    OBVIOUS
  <2>3. rows' = rows \/ \E o \in OpenOf(ofs, -cr.id) : rows' = stop_upload(OpenAgain(o, released), o)
    BY <1>2, <2>2
  <2> QED BY <2>1, <2>3, SameAlike
<1>4. creats = {cr} /\ cr.id \in DOMAIN data /\ data[cr.id] = want /\ Named(cr.id)
  BY OneEntry DEF Known, NameKnown, Shown, InTable, Named
<1>5. CASE trunc
  <2>1. data' = With(data, cr.id, 0) /\ want' = 0
    BY <1>2, <1>5
  <2>2. Shown'
    BY <1>1, <1>4, <2>1, ShownWritten DEF server
  <2> QED BY <1>1, <1>3, <2>2, UserName
<1>6. CASE ~trunc
  <2>1. UNCHANGED <<data, want>>
    BY <1>2, <1>4, <1>6
  <2> QED BY <1>1, <1>3, <2>1, NameStays
<1> QED BY <1>5, <1>6

(* psync_fstask_add_creat under a name that no pending file bears: the new *)
(* row is the youngest.                                                    *)
LEMMA CreatName ==
  ASSUME Known, UNCHANGED <<table, upload, server>>, creats = {},
         NEW t, t = NewTask, NEW f \in Nat, add_creat(t, f), NEW v, data' = With(data, t, v), want' = v
  PROVE  NameKnown'
<1>1. t \in Nat \ {0} /\ \A u \in DOMAIN rows : u < t
  BY NewTaskFresh DEF Known, Good, FilesInv, TableTypes
<1>2. /\ DOMAIN rows' = DOMAIN rows \cup {t} /\ \A u \in DOMAIN rows : rows'[u] = rows[u]
      /\ rows'[t].type = "creat" /\ rows'[t].status = 1 /\ rows'[t].fileid = f /\ rows'[t].sfile = 0
      /\ rows'[t].type # "unlink"
      /\ creats' = {[id |-> t, rfileid |-> f]} /\ unlinks' = unlinks \cup {t}
  BY <1>1 DEF add_creat, With
<1>3. /\ UNCHANGED <<pc, task, answer, srv, nextid>> /\ Finishing' = Finishing
      /\ pc \in Working => task.id \in DOMAIN rows
      /\ DOMAIN rows \subseteq Nat
  BY Typed DEF upload, server, Finishing
<1>4. Pending' = Pending \cup {t} /\ t \notin Finishing
  BY <1>1, <1>2, <1>3 DEF Pending, Finishing, Working
<1>5. \A u \in DOMAIN rows : UnlinkOf(u) => UnlinkOf(u)'
  BY <1>2 DEF UnlinkOf
<1>6. \A u \in DOMAIN rows' : CreatRow(u)' /\ UnlinkRow(u)'
  <2>1. CreatRow(t)' /\ UnlinkRow(t)'
    <3>1. Named(t)'
      BY <1>2 DEF Named
    <3> QED BY <1>2, <3>1 DEF CreatRow, UnlinkRow
  <2>2. ASSUME NEW u \in DOMAIN rows PROVE CreatRow(u)' /\ UnlinkRow(u)'
    <3>1. CreatRow(u) /\ UnlinkRow(u) /\ rows'[u] = rows[u] /\ u # t /\ ~Named(u)
      BY <1>1, <1>2 DEF Known, NameKnown, Named
    <3>2. Oldest(u) => Oldest(u)'
      BY <1>1, <1>2, <1>3 DEF Oldest
    <3> QED BY <1>3, <1>4, <1>5, <3>1, <3>2 DEF CreatRow, UnlinkRow
  <2> QED BY <1>2, <2>1, <2>2
<1>7. Overlay'
  BY <1>1, <1>2, <1>3, <1>4 DEF Known, NameKnown, Overlay, EntryLast
<1>8. Thread'
  BY <1>2, <1>3 DEF Known, NameKnown, Thread, OfRow, Holds, Working
<1>9. ServerFile'
  BY <1>3 DEF Known, NameKnown, ServerFile
<1>10. Found'
  <2>1. \A u \in DOMAIN rows : (Leads(u) => Leads(u)') /\ MayLead(u)' = MayLead(u)
    BY <1>2, <1>3 DEF Leads, Awaited, MayLead
  <2>2. ~MayLead(t)' /\ creats' # {}
    BY <1>2 DEF MayLead
  <2> QED BY <1>2, <1>3, <2>1, <2>2 DEF Known, NameKnown, Found, Led
<1>11. Shown'
  BY <1>2 DEF Shown, InTable, With
<1> QED BY <1>6, <1>7, <1>8, <1>9, <1>10, <1>11 DEF NameKnown

(* psync_fs_creat                                                          *)
LEMMA CreateName ==
  ASSUME Known, NEW h \in Handles, NEW trunc, Create(h, trunc)
  PROVE  NameKnown'
BY CreatName DEF Create, Exists, TableVisible

(* psync_fs_reopen_file_for_writing: the file is new already, or the name  *)
(* shows the file of the server that is opened ("revived" otherwise).      *)
LEMMA ReopenName ==
  ASSUME Known, NEW h \in Handles, psync_fs_reopen_file_for_writing(h), odd' = {}
  PROVE  NameKnown'
<1> DEFINE o == fd[h]
           s == ofs[o].fileid
<1>1. o \in DOMAIN ofs /\ FileIds(o) /\ s \in Int /\ UNCHANGED <<table, upload, server>>
  BY DEF psync_fs_reopen_file_for_writing, Known, Good, WritesKnown, FilesInv, References,
         MemoryTypes, OpenFile
<1>2. CASE ofs[o].modified
  <2>1. /\ data' = With(data, -s, ver') /\ want' = IF Named(-s) THEN ver' ELSE want
        /\ UNCHANGED <<rows, creats, unlinks>>
    BY <1>2 DEF psync_fs_reopen_file_for_writing, Written, overlay
  <2>2. Shown'
    BY <1>1, <2>1, ShownWritten DEF server
  <2> QED BY <1>1, <2>1, <2>2, SameAlike, UserName
<1>3. CASE ~ofs[o].modified
  <2>1. /\ add_creat(NewTask, s) /\ data' = With(data, NewTask, ver') /\ want' = ver'
        /\ TableVisible
    BY <1>3 DEF psync_fs_reopen_file_for_writing, Written
  <2>2. s \in Nat /\ creats = {}
    BY <1>1, <1>3, <2>1 DEF FileIds, TableVisible
  <2> QED BY <1>1, <2>1, <2>2, CreatName
<1> QED BY <1>2, <1>3

(* The rows after an unlink is added, the youngest of them.                *)
LEMMA UnlinkRows ==
  ASSUME Known, NEW t, t = NewTask, NEW S, SameFields(S), NEW f, NEW r, NEW s,
         rows' = With(S, t, Unlink(f, r, s))
  PROVE  /\ t \in Nat \ {0} /\ t \notin DOMAIN rows /\ \A u \in DOMAIN rows : u < t
         /\ DOMAIN rows' = DOMAIN rows \cup {t}
         /\ rows'[t].type = "unlink" /\ rows'[t].type # "creat" /\ rows'[t].status = s
         /\ rows'[t].fileid = f /\ rows'[t].rfileid = r /\ rows'[t].sfile = 0
         /\ \A u \in DOMAIN rows :
              /\ rows'[u].type = rows[u].type /\ rows'[u].fileid = rows[u].fileid
              /\ rows'[u].rfileid = rows[u].rfileid /\ rows'[u].sfile = rows[u].sfile
              /\ rows'[u].status = S[u].status
<1>1. t \in Nat \ {0} /\ \A u \in DOMAIN rows : u < t
  BY NewTaskFresh DEF Known, Good, FilesInv, TableTypes
<1>2. PICK x : x = Unlink(f, r, s)
  OBVIOUS
<1>3. /\ x.type = "unlink" /\ x.status = s /\ x.fileid = f /\ x.rfileid = r /\ x.sfile = 0
  BY <1>2 DEF Unlink
<1>4. \A u \in DOMAIN rows : u \in Nat
  BY Typed
<1> QED BY <1>1, <1>2, <1>3, <1>4 DEF With, SameFields

(* An unlink keeps it when some unlink leads to the file of the server.    *)
LEMMA UnlinkName ==
  ASSUME Known, UNCHANGED <<table, upload, server>>, NEW t, t = NewTask,
         NEW S, SameFields(S), NEW f \in Int, NEW r \in Nat, NEW s,
         rows' = With(S, t, Unlink(f, r, s)),
         (f > 0 /\ s = 0) \/ (f < 0 /\ -f < t /\ s = 11),
         creats' = {}, unlinks' = unlinks \cup {t}, want' = None,
         \A u \in DOMAIN rows :
           /\ S[u].status = rows[u].status \/ (u # task.id /\ rows[u].type = "creat")
           /\ Named(u) => f = -u,
         srv # NoFile => Led'
  PROVE  NameKnown'
<1>1. /\ t \in Nat \ {0} /\ t \notin DOMAIN rows /\ \A u \in DOMAIN rows : u < t
      /\ DOMAIN rows' = DOMAIN rows \cup {t}
      /\ rows'[t].type = "unlink" /\ rows'[t].type # "creat" /\ rows'[t].status = s
      /\ rows'[t].fileid = f /\ rows'[t].rfileid = r /\ rows'[t].sfile = 0
      /\ \A u \in DOMAIN rows :
           /\ rows'[u].type = rows[u].type /\ rows'[u].fileid = rows[u].fileid
           /\ rows'[u].rfileid = rows[u].rfileid /\ rows'[u].sfile = rows[u].sfile
           /\ rows'[u].status = S[u].status
  BY UnlinkRows, SMTT(30)
<1>2. /\ UNCHANGED <<pc, task, answer, srv, nextid>> /\ Finishing' = Finishing
      /\ pc \in Working => task.id \in DOMAIN rows
      /\ DOMAIN rows \subseteq Nat
  BY Typed DEF upload, server, Finishing
<1>3. Pending' = Pending \cup {t}
  BY <1>1, <1>2 DEF Pending, Finishing, Working
<1>4. \A u \in DOMAIN rows' : CreatRow(u)' /\ UnlinkRow(u)'
  <2>1. CreatRow(t)' /\ UnlinkRow(t)'
    BY <1>1 DEF CreatRow, UnlinkRow
  <2>2. ASSUME NEW u \in DOMAIN rows PROVE CreatRow(u)'
    <3>1. CreatRow(u) /\ u # t
      BY <1>1 DEF Known, NameKnown
    <3>2. Oldest(u) => Oldest(u)'
      BY <1>1, <1>2 DEF Oldest
    <3>3. UnlinkOf(u) \/ Named(u) => UnlinkOf(u)'
      BY <1>1 DEF UnlinkOf
    <3> QED BY <1>1, <1>2, <1>3, <3>1, <3>2, <3>3 DEF CreatRow
  <2>3. ASSUME NEW u \in DOMAIN rows PROVE UnlinkRow(u)'
    <3>1. UnlinkRow(u) /\ (rows[u].type = "unlink" => S[u].status = rows[u].status)
      BY <1>1 DEF Known, NameKnown
    <3> QED BY <1>1, <3>1 DEF UnlinkRow
  <2> QED BY <1>1, <2>1, <2>2, <2>3
<1>5. Overlay'
  BY <1>3 DEF Known, NameKnown, Overlay
<1>6. Thread'
  BY <1>1, <1>2 DEF Known, NameKnown, Thread, OfRow, Holds, Working
<1>7. ServerFile' /\ Found' /\ Shown'
  BY <1>2 DEF Known, NameKnown, ServerFile, Found, Shown, InTable
<1> QED BY <1>4, <1>5, <1>6, <1>7 DEF NameKnown

(* psync_fstask_unlink of a file of the server.                            *)
LEMMA UnlinkServerName ==
  ASSUME Known, psync_fstask_unlink, TableVisible,
         NEW x \in table, ~Stale(x), rows' = With(rows, NewTask, Unlink(x.id, 0, 0)),
         unlinks' = unlinks \cup {NewTask}, UNCHANGED creats
  PROVE  NameKnown'
<1>1. UNCHANGED <<table, upload, server>> /\ want' = None
  BY DEF psync_fstask_unlink
<1>2. /\ creats = {} /\ unlinks = {} /\ x.id > 0 /\ x.id \in Int
      /\ srv # NoFile => x.id = srv.id
  BY TableIds DEF TableVisible, Known, Good, Stale
<1>3. PICK S : S = rows /\ SameFields(S)
  BY DEF SameFields
<1>4. PICK t : t = NewTask
  OBVIOUS
<1>5. PICK f \in Int : f = x.id /\ f > 0
  BY <1>2
<1>6. PICK z \in Nat : z = 0
  OBVIOUS
<1>7. rows' = With(S, t, Unlink(f, z, z))
  BY <1>3, <1>4, <1>5, <1>6
<1>8. srv # NoFile => Led'
  <2>1. /\ DOMAIN rows' = DOMAIN rows \cup {t}
        /\ rows'[t].type = "unlink" /\ rows'[t].fileid = f
    <3>1. SameFields(S) /\ t = NewTask
      BY <1>3, <1>4
    <3>2. /\ DOMAIN rows' = DOMAIN rows \cup {t}
          /\ rows'[t].type = "unlink" /\ rows'[t].type # "creat" /\ rows'[t].status = z
          /\ rows'[t].fileid = f /\ rows'[t].rfileid = z /\ rows'[t].sfile = 0
      BY <1>7, <3>1, UnlinkRows
    <3> QED BY <3>2
  <2> QED BY <1>1, <1>2, <1>5, <2>1 DEF Led, Leads, server
<1>9. \A u \in DOMAIN rows : ~Named(u)
  BY <1>2 DEF Named
<1>10. creats' = {} /\ unlinks' = unlinks \cup {t}
  BY <1>2, <1>4
<1> QED BY <1>1, <1>3, <1>4, <1>7, <1>8, <1>9, <1>10, <1>5, <1>6, UnlinkName

(* psync_fstask_unlink of a pending file leads to the file of the server:  *)
(* the one that was modified, the one an upload has made, or the one an    *)
(* upload under way will make; or another unlink does.                     *)
LEMMA UnlinkPendingName ==
  ASSUME Known, psync_fstask_unlink, NEW cr \in creats, ~Unknown(cr), creats' = creats \ {cr},
         rows' = With(stop_and_delete_file(cr.id), NewTask, Unlink(-cr.id, cr.rfileid, 11)),
         unlinks' = unlinks \cup {NewTask}
  PROVE  NameKnown'
<1>1. UNCHANGED <<table, upload, server>> /\ want' = None /\ srv' = srv
  BY DEF psync_fstask_unlink, server
<1>2. PICK c : c = cr.id
  OBVIOUS
<1>3. /\ creats = {cr} /\ c \in DOMAIN rows /\ rows[c].type = "creat" /\ rows[c].status \notin {11, 12}
      /\ rows[c].fileid = cr.rfileid /\ cr.rfileid \in Nat /\ c \in Nat \ {0}
      /\ \A u \in DOMAIN rows : u <= c
  <2>1. creats = {cr} /\ c \in DOMAIN rows /\ EntryLast(cr) /\ Entry(cr)
    BY <1>2, OneEntry
  <2>2. CreatRow(c) /\ rows[c].fileid \in Int /\ c \in Nat \ {0}
    BY <2>1, Typed DEF Known, NameKnown
  <2> QED BY <1>2, <2>1, <2>2 DEF EntryLast, Entry, CreatRow
<1>4. PICK S : S = stop_and_delete_file(c)
  OBVIOUS
<1>5. /\ SameFields(S)
      /\ \A u \in DOMAIN rows : S[u].status = rows[u].status \/ (u = c /\ u # task.id)
  <2>1. rows \in [DOMAIN rows -> Row]
    BY Typed
  <2>2. CASE task.id = c
    BY <1>4, <2>2 DEF stop_and_delete_file, SameFields
  <2>3. CASE task.id # c
    <3>1. PICK x \in {11, 12} : S = SetStatus(c, x)
      BY <1>4, <2>3 DEF stop_and_delete_file
    <3>2. SameFields(SetStatus(c, x))
      BY <2>1, FieldsKept
    <3>3. \A u \in DOMAIN rows : u # c => SetStatus(c, x)[u] = rows[u]
      BY <2>1, StatusSet
    <3> QED BY <2>3, <3>1, <3>2, <3>3
  <2> QED BY <2>2, <2>3
<1>6. PICK t : t = NewTask
  OBVIOUS
<1>7. rows' = With(S, t, Unlink(-c, cr.rfileid, 11))
  BY <1>2, <1>4, <1>6
<1>8. /\ t \in Nat \ {0} /\ t \notin DOMAIN rows /\ \A u \in DOMAIN rows : u < t
      /\ DOMAIN rows' = DOMAIN rows \cup {t}
      /\ rows'[t].type = "unlink" /\ rows'[t].fileid = -c /\ rows'[t].rfileid = cr.rfileid
      /\ \A u \in DOMAIN rows :
           /\ rows'[u].type = rows[u].type /\ rows'[u].fileid = rows[u].fileid
           /\ rows'[u].rfileid = rows[u].rfileid /\ rows'[u].sfile = rows[u].sfile
           /\ rows'[u].status = S[u].status
  BY <1>5, <1>6, <1>7, UnlinkRows
<1>9. ASSUME srv # NoFile PROVE Led'
  <2>1. -(-c) = c /\ -c < 0 /\ c \in DOMAIN rows' /\ t \in DOMAIN rows'
    BY <1>3, <1>8
  <2>2. CASE srv.id = cr.rfileid \/ srv.id = rows[c].sfile
    BY <1>1, <1>3, <1>8, <2>1, <2>2 DEF Led, Leads
  <2>3. CASE task.id = c
    <3>1. Awaited(c)'
      BY <1>3, <1>5, <1>8, <2>1, <2>3 DEF Awaited
    <3> QED BY <1>8, <2>1, <3>1 DEF Led, Leads
  <2>4. CASE \E u \in DOMAIN rows : MayLead(u)
    <3>1. PICK u \in DOMAIN rows : Leads(u)
      BY <1>9, <2>4 DEF Known, NameKnown, Found, Led
    <3>2. UnlinkRow(u) /\ u <= c /\ u \in Nat /\ rows[u].fileid \in Int
      BY <1>3, Typed DEF Known, NameKnown
    <3>3. rows[u].fileid < 0 => -rows[u].fileid # c
      BY <1>3, <3>1, <3>2 DEF UnlinkRow, Leads
    <3>4. \A d \in DOMAIN rows : d # c /\ Awaited(d) => Awaited(d)'
      BY <1>5, <1>8 DEF Awaited
    <3>5. Leads(u)'
      BY <1>1, <1>8, <3>1, <3>3, <3>4 DEF Leads, Awaited
    <3> QED BY <1>8, <3>5 DEF Led
  <2> QED BY <1>2, <1>9, <2>2, <2>3, <2>4 DEF Unknown, MayLead
<1>10. \A u \in DOMAIN rows : Named(u) => -c = -u
  BY <1>2, <1>3 DEF Named
<1>11. creats' = {} /\ unlinks' = unlinks \cup {t}
  BY <1>3, <1>6
<1>12. PICK f \in Int : f = -c /\ f < 0 /\ -f < t
  BY <1>3, <1>8
<1>13. rows' = With(S, t, Unlink(f, cr.rfileid, 11))
  BY <1>7, <1>12
<1>14. \A u \in DOMAIN rows :
           /\ S[u].status = rows[u].status \/ (u # task.id /\ rows[u].type = "creat")
           /\ Named(u) => f = -u
  BY <1>3, <1>5, <1>10, <1>12
<1> QED BY <1>1, <1>3, <1>5, <1>6, <1>9, <1>11, <1>12, <1>13, <1>14, UnlinkName

(* psync_fstask_unlink; it cannot fail where the entry has its row.        *)
LEMMA UnlinkCallName ==
  ASSUME Known, psync_fstask_unlink \/ UnlinkFails, odd' = {}
  PROVE  NameKnown'
<1>1. CASE psync_fstask_unlink
  <2>1. ASSUME NEW f \in table, TableVisible, rows' = With(rows, NewTask, Unlink(f.id, 0, 0)),
               unlinks' = unlinks \cup {NewTask}, UNCHANGED <<creats, ofs>>,
               odd' = IF Stale(f) THEN odd \cup {"stale"} ELSE odd
        PROVE  NameKnown'
    <3>1. ~Stale(f)
      BY <2>1
    <3> QED BY <1>1, <2>1, <3>1, UnlinkServerName
  <2>2. ASSUME NEW cr \in creats,
               rows' = With(stop_and_delete_file(cr.id), NewTask, Unlink(-cr.id, cr.rfileid, 11)),
               creats' = creats \ {cr}, unlinks' = unlinks \cup {NewTask},
               odd' = IF Unknown(cr) THEN odd \cup {"orphan"} ELSE odd
        PROVE  NameKnown'
    <3>1. ~Unknown(cr)
      BY <2>2
    <3> QED BY <1>1, <2>2, <3>1, UnlinkPendingName
  <2> QED BY <1>1, <2>1, <2>2 DEF psync_fstask_unlink
<1>2. CASE UnlinkFails
  BY <1>2, OneEntry DEF UnlinkFails
<1> QED BY <1>1, <1>2

(* A step of the thread that changes neither rows nor contents.            *)
LEMMA ThreadName ==
  ASSUME Known, UNCHANGED <<rows, data, creats, unlinks, srv, nextid, want>>, Thread',
         Finishing' = Finishing, UNCHANGED table
  PROVE  NameKnown'
<1>1. Alike
  BY SameAlike
<1>2. /\ \A t \in DOMAIN rows' : CreatRow(t)' /\ UnlinkRow(t)'
      /\ Overlay' /\ ServerFile' /\ Found'
  BY <1>1, AlikeKeeps
<1>3. Shown'
  BY DEF Known, NameKnown, Shown, InTable
<1> QED BY <1>2, <1>3 DEF NameKnown

(* psync_fsupload_check_tasks: an unlink that is ready names its file.     *)
LEMMA CheckTasksName ==
  ASSUME Known, psync_fsupload_check_tasks
  PROVE  NameKnown'
<1>1. /\ pc = "check" /\ answer = NoFile
      /\ UNCHANGED <<rows, data, creats, unlinks, table, answer, srv, nextid, want>>
  BY DEF psync_fsupload_check_tasks, overlay, server, history, Known, NameKnown, Thread
<1>2. ASSUME NEW t \in DOMAIN rows, rows[t].status \in {0, 11},
             task' = [id |-> t, row |-> rows[t]],
             pc' = IF rows[t].status = 11 THEN "cancel" ELSE "send"
      PROVE  Thread'
  <2>1. task'.id = t /\ task'.row = rows[t] /\ UnlinkRow(t) /\ rows[t].type \in {"creat", "unlink"}
    BY <1>2, Typed DEF Known, NameKnown
  <2>2. pc' \in {"cancel", "send"} /\ (pc' = "send" => rows[t].status = 0)
    BY <1>2
  <2> QED BY <1>1, <2>1, <2>2 DEF Thread, OfRow, UnlinkRow
<1>3. ASSUME pc' = "wait" PROVE Thread'
  BY <1>1, <1>3 DEF Thread
<1>4. Thread' /\ pc' \in {"send", "cancel", "wait"}
  BY <1>2, <1>3 DEF psync_fsupload_check_tasks
<1>5. Finishing' = Finishing
  BY <1>1, <1>4 DEF Finishing
<1> QED BY <1>1, <1>4, <1>5, ThreadName

(* The thread is woken, clears its batch, loses the connection.            *)
LEMMA IdleName ==
  ASSUME Known, Woken \/ EndOfBatch \/ Failed
  PROVE  NameKnown'
<1>1. UNCHANGED <<rows, data, creats, unlinks, table, srv, nextid, want>>
  BY DEF Woken, EndOfBatch, Failed, overlay, server, history
<1>2. /\ Woken => pc = "wait" /\ pc' = "check" /\ answer' = answer
      /\ EndOfBatch => pc = "end" /\ pc' = "wait" /\ answer' = NoFile
      /\ Failed => pc = "answer" /\ pc' = "end"
  BY DEF Woken, EndOfBatch, Failed
<1>3. Thread'
  BY <1>2 DEF Known, NameKnown, Thread
<1>4. Finishing' = Finishing
  BY <1>2 DEF Finishing
<1> QED BY <1>1, <1>3, <1>4, ThreadName

(* The thread sends the task; it gives none up ("gone").                   *)
LEMMA SendName ==
  ASSUME Known, SendUnlink \/ SendCreat, odd' = {}
  PROVE  NameKnown'
<1>1. /\ pc = "send" /\ UNCHANGED <<data, creats, unlinks, table, answer, srv, nextid, want>>
      /\ pc' \in {"answer", "end"}
  BY DEF SendUnlink, SendCreat, overlay, server, history
<1>2. UNCHANGED rows
  BY DEF SendUnlink, SendCreat
<1>3. pc' = "answer" => task'.id = task.id /\ task'.row = task.row
  <2>1. CASE SendUnlink
    BY <2>1 DEF SendUnlink
  <2>2. CASE SendCreat
    <3>1. pc' = "answer" => task' = [id |-> task.id, row |-> task.row, content |-> data[task.id]]
      BY <2>2 DEF SendCreat
    <3> QED BY <3>1
  <2> QED BY <2>1, <2>2
<1>4. Thread'
  BY <1>1, <1>2, <1>3 DEF Known, NameKnown, Thread, OfRow
<1>5. Finishing' = Finishing
  BY <1>1 DEF Finishing
<1> QED BY <1>1, <1>2, <1>4, <1>5, ThreadName

-----------------------------------------------------------------------------
(* The server's answers.                                                   *)

(* The row of a task is not one that was accepted.                         *)
LEMMA TaskPending ==
  ASSUME Known, pc \in {"send", "cancel", "answer"}
  PROVE  /\ Finishing = {} /\ task.id \in DOMAIN rows /\ task.id \in Pending /\ task.id \in unlinks
         /\ Pending = DOMAIN rows /\ unlinks = DOMAIN rows
         /\ task.row.type = rows[task.id].type
         /\ \A u \in DOMAIN rows : task.id <= u
BY Typed DEF Finishing, Pending, Working, Known, NameKnown, Overlay, Oldest

(* A creat on its way either has its entry, and then no other row is left, *)
(* or was unlinked.                                                        *)
LEMMA TaskEntry ==
  ASSUME Known, pc = "answer", task.row.type = "creat"
  PROVE  /\ Awaited(task.id)
         /\ (creats # {} /\ DOMAIN rows = {task.id} /\ Named(task.id)) \/ UnlinkOf(task.id)
<1>1. /\ task.id \in DOMAIN rows /\ rows[task.id].type = "creat" /\ task.id \in Pending
      /\ \A u \in DOMAIN rows : task.id <= u /\ u \in Nat
  BY TaskPending, Typed
<1>2. Awaited(task.id)
  BY <1>1 DEF Known, NameKnown, Thread, Awaited
<1>3. Named(task.id) \/ UnlinkOf(task.id)
  BY <1>1 DEF Known, NameKnown, CreatRow
<1>4. ASSUME NEW cr \in creats, cr.id = task.id PROVE DOMAIN rows = {task.id}
  BY <1>1, <1>4, OneEntry DEF EntryLast
<1> QED BY <1>2, <1>3, <1>4 DEF Named

(* uploadfile: a new file of the server is that of the creat, to which the *)
(* unlink of that creat leads.                                             *)
LEMMA UploadfileName ==
  ASSUME Known, uploadfile
  PROVE  NameKnown'
<1> DEFINE c == task.id
           id == IF srv = NoFile THEN nextid ELSE srv.id
<1>1. /\ pc = "answer" /\ answer = NoFile /\ task.row.type = "creat"
      /\ srv' = [id |-> id, content |-> task.content] /\ answer' = srv'
      /\ nextid' = IF id = nextid THEN nextid + 1 ELSE nextid
      /\ UNCHANGED <<rows, data, creats, unlinks, table, pc, task, want>>
  BY DEF uploadfile, overlay, history
<1>2. /\ id \in Nat /\ id > 0 /\ srv'.id = id /\ srv'.content = task.content /\ srv' # NoFile
      /\ srv # NoFile => srv'.id = srv.id
      /\ nextid' \in Nat /\ id < nextid' /\ srv.id \in Nat
      /\ srv = NoFile => srv.id = 0
  BY <1>1, Typed DEF Known, NameKnown, ServerFile
<1>3. /\ c \in DOMAIN rows /\ rows[c].type = "creat" /\ Awaited(c) /\ c \in Nat \ {0}
      /\ (creats # {} /\ DOMAIN rows = {c}) \/ UnlinkOf(c)
      /\ unlinks # {}
  BY <1>1, TaskPending, TaskEntry, Typed
<1>4. Finishing' = Finishing /\ Pending' = Pending
  BY <1>1 DEF Finishing, Pending
<1>5. \A u \in DOMAIN rows' : CreatRow(u)' /\ UnlinkRow(u)'
  <2> SUFFICES ASSUME NEW u \in DOMAIN rows PROVE CreatRow(u)' /\ UnlinkRow(u)'
    BY <1>1
  <2>1. CreatRow(u) /\ UnlinkRow(u)
    BY DEF Known, NameKnown
  <2> QED BY <1>1, <1>2, <1>4, <2>1 DEF CreatRow, UnlinkRow, Named, UnlinkOf, Oldest
<1>6. Overlay' /\ Shown'
  BY <1>1, <1>3, <1>4 DEF Known, NameKnown, Overlay, EntryLast, Shown, InTable
<1>7. Thread'
  BY <1>1, <1>2, <1>3 DEF Known, NameKnown, Thread, OfRow, Holds
<1>8. ServerFile'
  BY <1>1, <1>2 DEF Known, NameKnown, ServerFile
<1>9. Found'
  <2>1. CASE srv # NoFile
    <3>1. \A u \in DOMAIN rows : Leads(u)' = Leads(u) /\ MayLead(u)' = MayLead(u)
      BY <1>1, <1>2, <2>1 DEF Leads, Awaited, MayLead
    <3> QED BY <1>1, <2>1, <3>1 DEF Known, NameKnown, Found, Led
  <2>2. CASE UnlinkOf(c)
    <3>1. PICK u \in DOMAIN rows : rows[u].type = "unlink" /\ rows[u].fileid = -c
      BY <2>2 DEF UnlinkOf
    <3>2. Leads(u)'
      BY <1>1, <1>3, <3>1 DEF Leads, Awaited
    <3> QED BY <1>1, <3>2 DEF Found, Led
  <2>3. CASE creats # {} /\ DOMAIN rows = {c}
    BY <1>1, <1>3, <2>3 DEF Found, MayLead
  <2> QED BY <1>3, <2>1, <2>2, <2>3
<1> QED BY <1>5, <1>6, <1>7, <1>8, <1>9 DEF NameKnown

(* deletefile: the file of the server is deleted or was another.           *)
LEMMA DeletefileName ==
  ASSUME Known, deletefile
  PROVE  NameKnown'
<1> DEFINE f == task.row.fileid
<1>1. /\ pc = "answer" /\ answer = NoFile /\ task.row.type = "unlink"
      /\ (srv' = NoFile /\ srv.id = f) \/ (srv' = srv /\ (srv = NoFile \/ srv.id # f))
      /\ UNCHANGED <<rows, data, creats, unlinks, table, pc, task, nextid, want>>
  BY DEF deletefile, overlay, history
<1>2. /\ task.id \in DOMAIN rows /\ rows[task.id].type = "unlink" /\ f > 0 /\ unlinks # {}
      /\ NoFile.id = 0 /\ srv.id \in Nat /\ f \in Int
      /\ \A u \in DOMAIN rows : task.id <= u
      /\ DOMAIN rows \subseteq Nat
  BY <1>1, TaskPending, Typed DEF Known, NameKnown, Thread, Row, Working
<1>3. Finishing' = Finishing /\ Pending' = Pending
  BY <1>1 DEF Finishing, Pending
<1>4. srv'.id # f
  BY <1>1, <1>2
<1>5. \A u \in DOMAIN rows' : CreatRow(u)' /\ UnlinkRow(u)'
  <2> SUFFICES ASSUME NEW u \in DOMAIN rows PROVE CreatRow(u)' /\ UnlinkRow(u)'
    BY <1>1
  <2>1. CreatRow(u) /\ UnlinkRow(u)
    BY DEF Known, NameKnown
  <2>2. rows[u].type = "creat" => rows[u].sfile = 0
    <3>1. Oldest(u) => u = task.id
      BY <1>2 DEF Oldest
    <3> QED BY <1>2, <2>1, <3>1 DEF CreatRow
  <2> QED BY <1>1, <1>3, <2>1, <2>2 DEF CreatRow, UnlinkRow, Named, UnlinkOf, Oldest
<1>6. Overlay' /\ ServerFile'
  BY <1>1, <1>3 DEF Known, NameKnown, Overlay, EntryLast, ServerFile
<1>7. Shown'
  BY <1>1, <1>2 DEF Known, NameKnown, Shown, InTable
<1>8. Thread'
  BY <1>1, <1>2, <1>4 DEF Known, NameKnown, Thread, OfRow, Holds
<1>9. Found'
  <2>1. srv' # NoFile => srv' = srv
    BY <1>1
  <2> QED BY <1>1, <2>1 DEF Known, NameKnown, Found, Led, Leads, Awaited, MayLead
<1> QED BY <1>5, <1>6, <1>7, <1>8, <1>9 DEF NameKnown

(* An event brings a file or takes one from the table, but not the file    *)
(* the server has.                                                         *)
LEMMA DiffName ==
  ASSUME Known, Diff
  PROVE  NameKnown'
<1>1. /\ events # <<>> /\ table' = Applied(Head(events))
      /\ UNCHANGED <<rows, data, creats, unlinks, upload, srv, nextid, want>>
  BY DEF Diff, overlay, history
<1>2. Thread' /\ Finishing' = Finishing /\ Alike
  BY <1>1, SameAlike, ThreadAlike
<1>3. /\ \A t \in DOMAIN rows' : CreatRow(t)' /\ UnlinkRow(t)'
      /\ Overlay' /\ ServerFile' /\ Found'
  BY <1>1, <1>2, AlikeKeeps
<1>4. InTable(srv.id) => InTable(srv.id)'
  <2>1. PICK e : e = Head(events)
    OBVIOUS
  <2>2. 1 \in DOMAIN events /\ e = events[1]
    BY <1>1, <2>1 DEF Known, Good, TableInv, ServerTypes
  <2>3. e.id = srv.id => e.content # None
    BY <2>2 DEF Known, Good, TableInv, NotDeleted
  <2>4. table' = {f \in table : f.id # e.id} \cup (IF e.content = None THEN {} ELSE {e})
    BY <1>1, <2>1 DEF Applied
  <2> QED BY <1>1, <2>3, <2>4 DEF InTable
<1>5. Shown'
  BY <1>1, <1>4 DEF Known, NameKnown, Shown
<1> QED BY <1>2, <1>3, <1>5 DEF NameKnown

-----------------------------------------------------------------------------
(* The tasks are done.                                                     *)

(* The content of an accepted upload is that of the data file.             *)
LEMMA AcceptedContent ==
  ASSUME Known, pc = "answer", answer # NoFile, task.row.type = "creat",
         SameWriteid(task.id, task.row.int1)
  PROVE  answer = srv /\ srv.content = data[task.id]
<1>1. answer = srv /\ answer.content = task.content
  BY DEF Known, NameKnown, Thread, Holds
<1>2. Content
  BY DEF Known, Good, WritesKnown
<1>3. CASE OpenOf(ofs, -task.id) # {}
  <2>1. PICK o \in OpenOf(ofs, -task.id) : ofs[o].writeid = task.row.int1
    BY <1>3 DEF SameWriteid, get_file_writeid
  <2> QED BY <1>1, <1>2, <2>1 DEF Content, Current
<1>4. CASE OpenOf(ofs, -task.id) = {}
  BY <1>1, <1>2, <1>4 DEF SameWriteid, get_file_writeid, Content, Current
<1> QED BY <1>3, <1>4

(* psync_process_task_creat of a file that has not changed: if this was    *)
(* all the name has, the table has the server's file.                      *)
LEMMA AcceptName ==
  ASSUME Known, pc = "answer", answer # NoFile, task.row.type = "creat",
         SameWriteid(task.id, task.row.int1), table' = diff_create_file(answer), pc' = "cache",
         creats' = WithoutCreat(task.id), unlinks' = unlinks \ {task.id},
         UNCHANGED <<rows, data, task, answer, srv, nextid, want>>
  PROVE  NameKnown'
<1>1. PICK t : t = task.id
  OBVIOUS
<1>2. answer = srv /\ srv.content = data[t] /\ srv # NoFile
  BY <1>1, AcceptedContent
<1> InTable(srv.id)'
  BY <1>2 DEF diff_create_file, InTable
<1>3. /\ t \in DOMAIN rows /\ Finishing = {} /\ Pending = DOMAIN rows /\ unlinks = DOMAIN rows
      /\ t \in Nat /\ \A u \in DOMAIN rows : t <= u /\ u \in Nat
      /\ (creats # {} /\ DOMAIN rows = {t} /\ Named(t)) \/ UnlinkOf(t)
  BY <1>1, TaskPending, TaskEntry, Typed
<1>4. Finishing' = {t} /\ Pending' = Pending \ {t} /\ unlinks' = Pending'
  BY <1>1, <1>3 DEF Finishing, Pending
<1>5. creats' \subseteq creats /\ \A cr \in creats : cr.id # t => cr \in creats'
  BY <1>1 DEF WithoutCreat
<1>6. \A u \in DOMAIN rows' : CreatRow(u)' /\ UnlinkRow(u)'
  <2> SUFFICES ASSUME NEW u \in DOMAIN rows PROVE CreatRow(u)' /\ UnlinkRow(u)'
    OBVIOUS
  <2>1. CreatRow(u) /\ UnlinkRow(u)
    BY DEF Known, NameKnown
  <2>2. u # t /\ Named(u) => Named(u)'
    BY <1>5 DEF Named
  <2> QED BY <1>3, <1>4, <2>1, <2>2 DEF CreatRow, UnlinkRow, UnlinkOf, Oldest
<1>7. Overlay'
  BY <1>4, <1>5 DEF Known, NameKnown, Overlay, EntryLast
<1>8. Thread' /\ ServerFile'
  BY <1>2 DEF Known, NameKnown, Thread, ServerFile
<1>9. CASE UnlinkOf(t)
  <2>1. PICK u \in DOMAIN rows : u > t /\ rows[u].type = "unlink"
    BY <1>9 DEF UnlinkOf
  <2>2. u \in unlinks'
    BY <1>3, <1>4, <2>1
  <2>3. \A cr \in creats : cr.id # t
    BY <1>3, <2>1, OneEntry DEF EntryLast
  <2>4. creats' = creats
    BY <1>5, <2>3
  <2>5. Found'
    BY <1>3, <2>2, <2>4 DEF Known, NameKnown, Found, Led, Leads, Awaited, MayLead
  <2>6. Shown'
    BY <1>3, <2>2, <2>4 DEF Known, NameKnown, Shown, InTable
  <2> QED BY <1>6, <1>7, <1>8, <2>5, <2>6 DEF NameKnown
<1>10. CASE creats # {} /\ DOMAIN rows = {t} /\ Named(t)
  <2>1. PICK cr \in creats : creats = {cr} /\ cr.id = t
    BY <1>10, OneEntry DEF Named
  <2>2. creats' = {} /\ unlinks' = {} /\ rows[t].type = "creat"
    BY <1>1, <1>3, <1>4, <1>10, <2>1, TaskPending DEF WithoutCreat
  <2>3. srv.content = want
    BY <1>2, <2>1 DEF Known, NameKnown, Shown, InTable
  <2>4. Found'
    BY <1>10, <2>2 DEF Found, MayLead
  <2>5. Shown'
    BY <2>2, <2>3 DEF Shown
  <2> QED BY <1>6, <1>7, <1>8, <2>4, <2>5 DEF NameKnown
<1> QED BY <1>3, <1>9, <1>10

(* psync_process_task_creat of a file that has changed: an open one keeps  *)
(* in its row the id of the file the server has made.                      *)
LEMMA RejectName ==
  ASSUME Known, pc = "answer", answer # NoFile, task.row.type = "creat", pc' = "end",
         rows' = [rows EXCEPT ![task.id].sfile = answer.id] \/ rows' = rows,
         UNCHANGED <<data, creats, unlinks, table, answer, task, srv, nextid, want>>
  PROVE  NameKnown'
<1>1. PICK t : t = task.id
  OBVIOUS
<1>2. /\ t \in DOMAIN rows /\ rows[t].type = "creat" /\ Finishing = {}
      /\ \A u \in DOMAIN rows : t <= u
      /\ rows \in [DOMAIN rows -> Row] /\ answer = srv
  BY <1>1, TaskPending, Typed DEF Known, NameKnown, Thread, Holds
<1>3. Finishing' = Finishing /\ Thread'
  BY <1>2 DEF Finishing, Thread
<1>4. CASE rows' = rows
  BY <1>3, <1>4, ThreadName
<1>5. CASE rows' = [rows EXCEPT ![task.id].sfile = answer.id]
  <2>1. PICK id \in Int : id = srv.id
    BY Typed
  <2>2. rows' = [rows EXCEPT ![t].sfile = id]
    BY <1>1, <1>2, <1>5, <2>1
  <2>3. /\ SameTasks(rows') /\ \A u \in DOMAIN rows : rows'[u].status = rows[u].status
    BY <1>2, <2>2, SfileSet, Zenon
  <2>4. /\ rows'[t].sfile = id
        /\ \A u \in DOMAIN rows : /\ rows'[u].rfileid = rows[u].rfileid
                                  /\ u # t => rows'[u].sfile = rows[u].sfile
    <3>1. \A u \in DOMAIN rows : rows[u] \in Row
      BY <1>2
    <3>2. rows'[t].sfile = id
      BY <1>2, <2>2, <3>1, ZenonT(60) DEF Row
    <3>3. \A u \in DOMAIN rows : rows'[u].rfileid = rows[u].rfileid
      BY <2>2, <3>1, ZenonT(60) DEF Row
    <3>4. \A u \in DOMAIN rows : u # t => rows'[u].sfile = rows[u].sfile
      BY <2>2, Zenon
    <3> QED BY <3>2, <3>3, <3>4
  <2>5. /\ DOMAIN rows' = DOMAIN rows /\ Pending' = Pending
        /\ \A u \in DOMAIN rows : rows'[u].type = rows[u].type /\ rows'[u].fileid = rows[u].fileid
    BY <1>3, <2>3 DEF SameTasks, Pending
  <2>6. \A u \in DOMAIN rows' : CreatRow(u)' /\ UnlinkRow(u)'
    <3> SUFFICES ASSUME NEW u \in DOMAIN rows PROVE CreatRow(u)' /\ UnlinkRow(u)'
      BY <2>5
    <3>1. CreatRow(u) /\ UnlinkRow(u) /\ (rows[u].type = "unlink" => u # t)
      BY <1>2 DEF Known, NameKnown
    <3>2. Oldest(t)' /\ (Oldest(u) => Oldest(u)')
      BY <1>2, <2>5 DEF Oldest
    <3>3. UnlinkOf(u) => UnlinkOf(u)'
      BY <2>5 DEF UnlinkOf
    <3> QED BY <2>1, <2>3, <2>4, <2>5, <3>1, <3>2, <3>3 DEF CreatRow, UnlinkRow, Named
  <2>7. Overlay' /\ ServerFile' /\ Shown'
    BY <2>5 DEF Known, NameKnown, Overlay, EntryLast, ServerFile, Shown, InTable
  <2>8. Found'
    <3>1. \A u \in DOMAIN rows : (Leads(u) => Leads(u)') /\ MayLead(u)' = MayLead(u)
      BY <2>1, <2>3, <2>4, <2>5 DEF Leads, Awaited, MayLead
    <3> QED BY <2>5, <3>1 DEF Known, NameKnown, Found, Led
  <2> QED BY <1>3, <2>6, <2>7, <2>8 DEF NameKnown
<1> QED BY <1>4, <1>5

(* psync_process_task_creat                                                *)
LEMMA TaskCreatName ==
  ASSUME Known, process_task_creat
  PROVE  NameKnown'
<1>1. /\ pc = "answer" /\ answer # NoFile /\ task.row.type = "creat"
      /\ UNCHANGED <<data, task, answer, srv, nextid, want>>
  BY DEF process_task_creat, server
<1>2. CASE /\ SameWriteid(task.id, task.row.int1) /\ table' = diff_create_file(answer) /\ pc' = "cache"
           /\ creats' = WithoutCreat(task.id) /\ unlinks' = unlinks \ {task.id} /\ UNCHANGED rows
  BY <1>1, <1>2, AcceptName
<1>3. CASE /\ rows' = [rows EXCEPT ![task.id].sfile = answer.id] \/ rows' = rows
           /\ pc' = "end" /\ UNCHANGED <<table, creats, unlinks>>
  BY <1>1, <1>3, RejectName
<1> QED BY <1>2, <1>3 DEF process_task_creat, overlay

(* The data file of an accepted upload is no entry's any more.             *)
LEMMA CopyName ==
  ASSUME Known, CopyToPageCache
  PROVE  NameKnown'
<1>1. /\ pc = "cache" /\ pc' = "finish" /\ data' = Restrict(data, DOMAIN data \ {task.id})
      /\ UNCHANGED <<rows, creats, unlinks, table, task, answer, srv, nextid, want>>
  BY DEF CopyToPageCache, overlay, server, history
<1>2. Thread' /\ Finishing' = Finishing /\ Alike
  BY <1>1, SameAlike DEF Known, NameKnown, Thread, Finishing
<1>3. /\ \A t \in DOMAIN rows' : CreatRow(t)' /\ UnlinkRow(t)'
      /\ Overlay' /\ ServerFile' /\ Found'
  BY <1>1, <1>2, AlikeKeeps DEF Known, NameKnown, ServerFile
<1>4. \A cr \in creats : cr.id # task.id
  BY <1>1 DEF Known, Good, RowsKept, Batch
<1>5. Shown'
  BY <1>1, <1>4 DEF Known, NameKnown, Shown, InTable, Restrict
<1> QED BY <1>2, <1>3, <1>5 DEF NameKnown

(* The fields of the rows about a file that gets its id.                   *)
LEMMA RenumberedFields ==
  ASSUME NEW D, NEW R \in [D -> Row], NEW f, NEW id
  PROVE  LET S == Renumber(R, f, id)
         IN /\ \A u \in D : R[u].fileid = f => S[u].fileid = id
            /\ \A u \in D : S[u].rfileid = R[u].rfileid /\ S[u].sfile = R[u].sfile
<1>1. \A u \in D : R[u] \in Row
  OBVIOUS
<1>2. \A u \in D : Renumber(R, f, id)[u].rfileid = R[u].rfileid /\ Renumber(R, f, id)[u].sfile = R[u].sfile
  BY <1>1, ZenonT(60) DEF Renumber, Row
<1>3. \A u \in D : R[u].fileid = f => Renumber(R, f, id)[u].fileid = id
  BY <1>1, ZenonT(60) DEF Renumber, Row
<1> QED BY <1>2, <1>3

(* The rows that stay keep all but the number of the file whose task       *)
(* ended.                                                                  *)
LEMMA RemovedFields ==
  ASSUME rows \in [DOMAIN rows -> Row], NEW t \in Int, NEW id \in Int
  PROVE  LET S == Renumber(Remove(rows, t), -t, id)
         IN /\ DOMAIN S = DOMAIN rows \ {t}
            /\ \A u \in DOMAIN rows \ {t} :
                 /\ S[u].type = rows[u].type /\ S[u].status = rows[u].status
                 /\ S[u].fileid = IF rows[u].fileid = -t THEN id ELSE rows[u].fileid
                 /\ S[u].rfileid = rows[u].rfileid /\ S[u].sfile = rows[u].sfile
<1> DEFINE R == Remove(rows, t)
<1>1. /\ DOMAIN R = DOMAIN rows \ {t} /\ R \in [DOMAIN rows \ {t} -> Row]
      /\ \A u \in DOMAIN rows \ {t} : R[u] = rows[u]
  BY Removed
<1> HIDE DEF R
<1> DEFINE S == Renumber(R, -t, id)
<1>2. /\ \A u \in DOMAIN rows \ {t} : R[u].fileid = -t => S[u].fileid = id
      /\ \A u \in DOMAIN rows \ {t} : S[u].rfileid = R[u].rfileid /\ S[u].sfile = R[u].sfile
  BY <1>1, RenumberedFields
<1>3. /\ DOMAIN S = DOMAIN rows \ {t}
      /\ \A u \in DOMAIN rows \ {t} :
                 /\ S[u].type = rows[u].type /\ S[u].status = rows[u].status
                 /\ rows[u].fileid # -t => S[u].fileid = rows[u].fileid
  BY RemovedRenumbered DEF R
<1> HIDE DEF S
<1>4. \A u \in DOMAIN rows \ {t} :
        S[u].fileid = IF rows[u].fileid = -t THEN id ELSE rows[u].fileid
  BY <1>1, <1>2, <1>3
<1> QED BY <1>1, <1>2, <1>3, <1>4 DEF R, S

(* The row of a creat is removed, and the rows about its file get the id   *)
(* of the file of the server when that is known: what led to that file     *)
(* through the row then names it.                                          *)
LEMMA CreatRemoved ==
  ASSUME Known, pc' = "end", UNCHANGED <<creats, table, srv, nextid, want>>,
         NEW t \in DOMAIN rows, t = task.id, rows[t].type = "creat", Oldest(t),
         NEW renumber \in BOOLEAN, DOMAIN rows' = DOMAIN rows \ {t},
         \A u \in DOMAIN rows \ {t} :
           /\ rows'[u].type = rows[u].type /\ rows'[u].status = rows[u].status
           /\ rows'[u].fileid = IF renumber /\ rows[u].fileid = -t THEN srv.id ELSE rows[u].fileid
           /\ rows'[u].rfileid = rows[u].rfileid /\ rows'[u].sfile = rows[u].sfile,
         renumber => srv # NoFile,
         ~renumber => rows[t].status \in {11, 12} /\ rows[t].sfile = 0,
         \A cr \in creats : cr.id # t /\ cr.id \in DOMAIN data' /\ data'[cr.id] = data[cr.id],
         unlinks' = unlinks \ {t}, unlinks' = DOMAIN rows', unlinks # {} => unlinks' # {}
  PROVE  NameKnown'
<1>1. /\ t \in Nat \ {0} /\ \A u \in DOMAIN rows : t <= u /\ u \in Nat \ {0}
      /\ srv.id \in Nat /\ NoFile.id = 0 /\ (srv # NoFile => srv.id > 0)
      /\ \A u \in DOMAIN rows : rows[u].fileid \in Int
  BY Typed DEF Oldest, Known, NameKnown, ServerFile
<1>2. Finishing' = {} /\ Pending' = DOMAIN rows'
  BY DEF Finishing, Pending
<1>3. \A u \in DOMAIN rows \ {t} : u \in Pending
  BY DEF Pending, Finishing
<1>4. \A u \in DOMAIN rows' : CreatRow(u)' /\ UnlinkRow(u)'
  <2> SUFFICES ASSUME NEW u \in DOMAIN rows, u # t PROVE CreatRow(u)' /\ UnlinkRow(u)'
    OBVIOUS
  <2>1. CreatRow(u) /\ UnlinkRow(u) /\ ~Oldest(u)
    BY <1>1 DEF Known, NameKnown, Oldest
  <2>2. UnlinkOf(u) => UnlinkOf(u)'
    <3>1. ASSUME NEW v \in DOMAIN rows, v > u, rows[v].type = "unlink", rows[v].fileid = -u
          PROVE  v \in DOMAIN rows' /\ rows'[v].type = "unlink" /\ rows'[v].fileid = -u
      BY <1>1, <3>1
    <3> QED BY <3>1 DEF UnlinkOf
  <2>3. CreatRow(u)'
    BY <1>1, <1>2, <1>3, <2>1, <2>2 DEF CreatRow, Named
  <2>4. UnlinkRow(u)'
    BY <1>1, <2>1 DEF UnlinkRow
  <2> QED BY <2>3, <2>4
<1>5. Overlay'
  <2> SUFFICES ASSUME NEW cr \in creats PROVE EntryLast(cr)'
    BY <1>2 DEF Overlay
  <2>1. EntryLast(cr) /\ CreatRow(cr.id) /\ Entry(cr)
    BY Typed DEF Known, NameKnown, Overlay, EntryLast
  <2> QED BY <1>1, <2>1 DEF EntryLast, CreatRow, Entry
<1>6. Thread' /\ ServerFile'
  BY DEF Known, NameKnown, Thread, ServerFile
<1>7. Found'
  <2> SUFFICES ASSUME srv # NoFile
               PROVE  /\ (\E u \in DOMAIN rows' : MayLead(u)') => Led'
                      /\ creats = {} /\ unlinks' # {} => Led'
    BY DEF Found
  <2>1. ASSUME NEW u \in DOMAIN rows, Leads(u) PROVE u \in DOMAIN rows' /\ Leads(u)'
    <3>1. u # t /\ rows'[u].type = "unlink"
      BY <2>1 DEF Leads
    <3>2. CASE rows[u].fileid = srv.id
      BY <1>1, <3>1, <3>2 DEF Leads
    <3>3. CASE rows[u].fileid < 0 /\ rows[u].fileid = -t
      <4>1. -rows[u].fileid = t
        BY <1>1, <3>3
      <4>2. CASE renumber
        BY <1>1, <3>1, <3>3, <4>2 DEF Leads
      <4>3. CASE ~renumber
        BY <1>1, <2>1, <3>1, <3>3, <4>1, <4>3 DEF Leads, Awaited
      <4> QED BY <4>2, <4>3
    <3>4. CASE rows[u].fileid < 0 /\ rows[u].fileid # -t
      <4>1. -rows[u].fileid # t
        BY <1>1, <3>4
      <4>2. PICK d : d = -rows[u].fileid
        OBVIOUS
      <4>3. Awaited(d) => Awaited(d)'
        BY <4>1, <4>2 DEF Awaited
      <4>4. d \in DOMAIN rows /\ rows[d].sfile = srv.id => d \in DOMAIN rows' /\ rows'[d].sfile = srv.id
        BY <4>1, <4>2
      <4>5. /\ rows'[u].fileid = rows[u].fileid /\ rows'[u].rfileid = rows[u].rfileid
            /\ u \in DOMAIN rows'
        BY <3>1, <3>4
      <4>6. Awaited(d) \/ (d \in DOMAIN rows /\ rows[d].sfile = srv.id) \/ rows[u].rfileid = srv.id
        BY <1>1, <2>1, <3>4, <4>2 DEF Leads
      <4> QED BY <3>1, <3>4, <4>2, <4>3, <4>4, <4>5, <4>6 DEF Leads
    <3> QED BY <2>1, <3>2, <3>3, <3>4 DEF Leads
  <2>2. Led => Led'
    BY <2>1 DEF Led
  <2>3. ASSUME NEW u \in DOMAIN rows', MayLead(u)' PROVE Led'
    <3>1. CASE rows'[u].fileid = srv.id
      BY <2>3, <3>1 DEF Led, Leads, MayLead
    <3>2. CASE rows'[u].fileid # srv.id
      <4>1. MayLead(u)
        BY <1>1, <2>3, <3>2 DEF MayLead
      <4> QED BY <2>2, <4>1 DEF Known, NameKnown, Found
    <3> QED BY <3>1, <3>2
  <2>4. creats = {} /\ unlinks' # {} => Led'
    BY <2>2 DEF Known, NameKnown, Found
  <2> QED BY <2>3, <2>4
<1>8. Shown'
  BY DEF Known, NameKnown, Shown, InTable
<1> QED BY <1>4, <1>5, <1>6, <1>7, <1>8 DEF NameKnown

(* The row of an accepted upload is removed: the server's file is known.   *)
LEMMA FinishCreatName ==
  ASSUME Known, FinishCreat
  PROVE  NameKnown'
<1>1. /\ pc = "finish" /\ pc' = "end" /\ rows' = Renumber(Remove(rows, task.id), -task.id, answer.id)
      /\ UNCHANGED <<data, creats, unlinks, table, srv, nextid, want>>
  BY DEF FinishCreat, overlay, server, history
<1>2. PICK t : t = task.id
  OBVIOUS
<1>3. /\ t \in DOMAIN rows /\ rows[t].type = "creat" /\ Oldest(t) /\ t \in Int
      /\ \A cr \in creats : cr.id # t
      /\ rows \in [DOMAIN rows -> Row] /\ answer = srv /\ srv # NoFile
  BY <1>1, <1>2, Typed DEF Known, NameKnown, Thread, Working, Good, RowsKept, Batch
<1>4. PICK id \in Int : id = srv.id
  BY Typed
<1>5. /\ DOMAIN rows' = DOMAIN rows \ {t}
      /\ \A u \in DOMAIN rows \ {t} :
                 /\ rows'[u].type = rows[u].type /\ rows'[u].status = rows[u].status
                 /\ rows'[u].fileid = IF rows[u].fileid = -t THEN id ELSE rows[u].fileid
                 /\ rows'[u].rfileid = rows[u].rfileid /\ rows'[u].sfile = rows[u].sfile
  <2>1. rows' = Renumber(Remove(rows, t), -t, id)
    BY <1>1, <1>2, <1>3, <1>4
  <2> QED BY <1>3, <2>1, RemovedFields, ZenonT(90)
<1>6. /\ unlinks' = unlinks \ {t} /\ unlinks' = DOMAIN rows' /\ unlinks' = unlinks
  <2>1. unlinks = DOMAIN rows \ {t}
    BY <1>1, <1>2 DEF Known, NameKnown, Overlay, Pending, Finishing
  <2> QED BY <1>1, <1>5, <2>1
<1>7. \A cr \in creats : cr.id # t /\ cr.id \in DOMAIN data' /\ data'[cr.id] = data[cr.id]
  BY <1>1, <1>3 DEF Known, NameKnown, Shown, InTable
<1>8. PICK renumber \in BOOLEAN : renumber = TRUE
  OBVIOUS
<1>9. \A u \in DOMAIN rows \ {t} :
                 /\ rows'[u].type = rows[u].type /\ rows'[u].status = rows[u].status
                 /\ rows'[u].fileid = IF renumber /\ rows[u].fileid = -t THEN srv.id ELSE rows[u].fileid
                 /\ rows'[u].rfileid = rows[u].rfileid /\ rows'[u].sfile = rows[u].sfile
  BY <1>4, <1>5, <1>8
<1> QED BY <1>1, <1>2, <1>3, <1>5, <1>6, <1>7, <1>8, <1>9, CreatRemoved, ZenonT(90)

(* psync_cancel_task_creat: the unlink of the row stays.                   *)
LEMMA CancelCreatName ==
  ASSUME Known, cancel_task_creat
  PROVE  NameKnown'
<1>1. /\ pc = "cancel" /\ pc' = "end" /\ rows' = Cancelled(task.id) /\ task.row.type = "creat"
      /\ data' = Restrict(data, DOMAIN data \ {task.id})
      /\ creats' = WithoutCreat(task.id) /\ unlinks' = unlinks \ {task.id}
      /\ UNCHANGED <<table, srv, nextid, want>>
  BY DEF cancel_task_creat, server, history
<1>2. PICK t : t = task.id
  OBVIOUS
<1>3. /\ t \in DOMAIN rows /\ rows[t].type = "creat" /\ Oldest(t) /\ t \in Int
      /\ rows[t].status = 11 /\ unlinks = DOMAIN rows
      /\ rows \in [DOMAIN rows -> Row] /\ CreatRow(t) /\ Unlinked(t)
      /\ srv.id \in Int /\ NoFile.id = 0
  BY <1>1, <1>2, Typed, TaskPending DEF Known, NameKnown, Working, Good, RowsKept, Batch
<1>4. \A cr \in creats : cr.id # t
  BY <1>3 DEF Known, Good, RowsKept, Entry
<1>5. creats' = creats
  BY <1>1, <1>2, <1>4 DEF WithoutCreat
<1>6. \A cr \in creats : cr.id # t /\ cr.id \in DOMAIN data' /\ data'[cr.id] = data[cr.id]
  BY <1>1, <1>2, <1>4 DEF Known, NameKnown, Shown, InTable, Restrict
<1>7. PICK renumber \in BOOLEAN : renumber = (rows[t].sfile # 0)
  OBVIOUS
<1>8. renumber => rows[t].sfile = srv.id /\ srv # NoFile
  BY <1>3, <1>7 DEF CreatRow
<1>9. /\ DOMAIN rows' = DOMAIN rows \ {t}
      /\ \A u \in DOMAIN rows \ {t} :
                 /\ rows'[u].type = rows[u].type /\ rows'[u].status = rows[u].status
                 /\ rows'[u].fileid = IF renumber /\ rows[u].fileid = -t THEN srv.id ELSE rows[u].fileid
                 /\ rows'[u].rfileid = rows[u].rfileid /\ rows'[u].sfile = rows[u].sfile
  <2>1. CASE renumber
    <3>1. PICK id \in Int : id = srv.id
      BY <1>3
    <3>2. rows' = Renumber(Remove(rows, t), -t, id)
      BY <1>1, <1>2, <1>7, <1>8, <2>1, <3>1 DEF Cancelled
    <3>3. /\ DOMAIN rows' = DOMAIN rows \ {t}
          /\ \A u \in DOMAIN rows \ {t} :
                 /\ rows'[u].type = rows[u].type /\ rows'[u].status = rows[u].status
                 /\ rows'[u].fileid = IF rows[u].fileid = -t THEN id ELSE rows[u].fileid
                 /\ rows'[u].rfileid = rows[u].rfileid /\ rows'[u].sfile = rows[u].sfile
      <4>1. rows \in [DOMAIN rows -> Row] /\ t \in Int
        BY <1>3
      <4>2. LET S == Renumber(Remove(rows, t), -t, id)
            IN /\ DOMAIN S = DOMAIN rows \ {t}
               /\ \A u \in DOMAIN rows \ {t} :
                    /\ S[u].type = rows[u].type /\ S[u].status = rows[u].status
                    /\ S[u].fileid = IF rows[u].fileid = -t THEN id ELSE rows[u].fileid
                    /\ S[u].rfileid = rows[u].rfileid /\ S[u].sfile = rows[u].sfile
        BY <4>1, RemovedFields, Zenon
      <4> QED BY <3>2, <4>2
    <3> QED BY <2>1, <3>1, <3>3
  <2>2. CASE ~renumber
    <3>1. rows' = Remove(rows, t)
      BY <1>1, <1>2, <1>7, <2>2 DEF Cancelled
    <3>2. DOMAIN rows' = DOMAIN rows \ {t} /\ \A u \in DOMAIN rows \ {t} : rows'[u] = rows[u]
      BY <1>3, <3>1, Removed
    <3> QED BY <2>2, <3>2
  <2> QED BY <2>1, <2>2
<1>10. unlinks' = unlinks \ {t} /\ unlinks' = DOMAIN rows' /\ unlinks' # {}
  <2>1. PICK u \in DOMAIN rows : u > t
    BY <1>3 DEF Unlinked
  <2> QED BY <1>1, <1>2, <1>3, <1>9, <2>1
<1>11. ~renumber => rows[t].status \in {11, 12} /\ rows[t].sfile = 0
  BY <1>3, <1>7
<1>12. pc' = "end" /\ UNCHANGED <<creats, table, srv, nextid, want>>
  BY <1>1, <1>5
<1> QED BY <1>2, <1>3, <1>6, <1>8, <1>9, <1>10, <1>11, <1>12, CreatRemoved

(* The oldest row is an unlink that leads to no file of the server: it is  *)
(* removed, and when it was the last, the server has no file.              *)
LEMMA UnlinkRemoved ==
  ASSUME Known, pc' = "end", UNCHANGED <<data, creats, srv, nextid, want>>, Finishing = {},
         NEW t \in DOMAIN rows, rows[t].type = "unlink", Oldest(t),
         rows' = Remove(rows, t), unlinks' = unlinks \ {t},
         srv # NoFile => ~Leads(t),
         \A c \in DOMAIN rows : rows[t].fileid # -c
  PROVE  NameKnown'
<1>1. /\ t \in Nat \ {0} /\ \A u \in DOMAIN rows : t <= u /\ u \in Nat \ {0}
      /\ srv.id \in Nat /\ NoFile.id = 0 /\ (srv # NoFile => srv.id > 0)
      /\ rows \in [DOMAIN rows -> Row]
      /\ NoFile.content = None
  BY Typed DEF Oldest, Known, NameKnown, ServerFile, NoFile
<1>2. DOMAIN rows' = DOMAIN rows \ {t} /\ \A u \in DOMAIN rows \ {t} : rows'[u] = rows[u]
  BY <1>1, Removed
<1>3. /\ Finishing' = {} /\ Pending' = DOMAIN rows' /\ Pending = DOMAIN rows
      /\ unlinks = DOMAIN rows /\ unlinks' = DOMAIN rows'
  BY <1>2 DEF Finishing, Pending, Known, NameKnown, Overlay
<1>4. \A u \in DOMAIN rows' : CreatRow(u)' /\ UnlinkRow(u)'
  <2> SUFFICES ASSUME NEW u \in DOMAIN rows, u # t PROVE CreatRow(u)' /\ UnlinkRow(u)'
    BY <1>2
  <2>1. CreatRow(u) /\ UnlinkRow(u) /\ (Oldest(u) => Oldest(u)')
    BY <1>2 DEF Known, NameKnown, Oldest
  <2>2. UnlinkOf(u) => UnlinkOf(u)'
    BY <1>2 DEF UnlinkOf
  <2> QED BY <1>2, <1>3, <2>1, <2>2 DEF CreatRow, UnlinkRow, Named
<1>5. Overlay'
  <2>1. \A cr \in creats : EntryLast(cr) /\ cr.id # t
    BY Typed DEF Known, NameKnown, Overlay, Entry
  <2> QED BY <1>2, <1>3, <2>1 DEF Overlay, EntryLast
<1>6. Thread' /\ ServerFile'
  BY DEF Known, NameKnown, Thread, ServerFile
<1>7. ASSUME srv # NoFile, Led PROVE Led'
  <2>1. PICK u \in DOMAIN rows : Leads(u) /\ u # t
    BY <1>7 DEF Led
  <2>2. \A d \in DOMAIN rows : Awaited(d) \/ rows[d].sfile = srv.id => d # t
    BY <1>1, <1>7 DEF Awaited, Known, NameKnown, UnlinkRow
  <2>3. Leads(u)'
    <3>1. PICK d : d = -rows[u].fileid
      OBVIOUS
    <3>2. rows'[u] = rows[u]
      BY <1>2, <2>1
    <3>3. Awaited(d) => Awaited(d)'
      BY <1>2, <2>2 DEF Awaited
    <3>4. d \in DOMAIN rows /\ rows[d].sfile = srv.id => d \in DOMAIN rows' /\ rows'[d].sfile = srv.id
      BY <1>2, <2>2
    <3> QED BY <2>1, <3>1, <3>2, <3>3, <3>4 DEF Leads
  <2> QED BY <1>2, <2>1, <2>3 DEF Led
<1>8. Found'
  <2>1. \A u \in DOMAIN rows' : u \in DOMAIN rows /\ (MayLead(u)' => MayLead(u))
    BY <1>2 DEF MayLead
  <2> QED BY <1>3, <1>7, <2>1 DEF Known, NameKnown, Found
<1>9. Shown'
  <2>1. CASE creats # {}
    BY <2>1 DEF Known, NameKnown, Shown, InTable
  <2>2. CASE creats = {} /\ unlinks' # {}
    BY <1>3, <2>2 DEF Known, NameKnown, Shown, InTable
  <2>3. CASE creats = {} /\ unlinks' = {}
    <3>1. DOMAIN rows = {t} /\ unlinks # {} /\ want = None
      BY <1>2, <1>3, <2>3 DEF Known, NameKnown, Shown, InTable
    <3>2. srv # NoFile => Led
      BY <2>3, <3>1 DEF Known, NameKnown, Found
    <3>3. srv = NoFile
      BY <3>1, <3>2 DEF Led
    <3> QED BY <1>1, <2>3, <3>1, <3>3 DEF Shown, InTable
  <2> QED BY <2>1, <2>2, <2>3
<1> QED BY <1>4, <1>5, <1>6, <1>8, <1>9 DEF NameKnown

(* psync_process_task_unlink: the server has no file of that id any more.  *)
LEMMA TaskUnlinkName ==
  ASSUME Known, process_task_unlink
  PROVE  NameKnown'
<1>1. /\ pc = "answer" /\ answer # NoFile /\ task.row.type = "unlink" /\ pc' = "end"
      /\ rows' = Remove(rows, task.id) /\ unlinks' = unlinks \ {task.id}
      /\ UNCHANGED <<data, creats, srv, nextid, want>>
  BY DEF process_task_unlink, server, history
<1>2. PICK t : t = task.id
  OBVIOUS
<1>3. /\ t \in DOMAIN rows /\ rows[t].type = "unlink" /\ Oldest(t) /\ Finishing = {}
      /\ rows[t].fileid = task.row.fileid /\ rows[t].fileid > 0 /\ srv.id # rows[t].fileid
      /\ rows[t].fileid \in Int /\ \A c \in DOMAIN rows : c \in Nat
  BY <1>1, <1>2, Typed, TaskPending DEF Working, Known, NameKnown, Thread, Holds, OfRow
<1>4. \A c \in DOMAIN rows : rows[t].fileid # -c
  BY <1>3
<1>5. ~Leads(t)
  BY <1>3 DEF Leads
<1> QED BY <1>1, <1>2, <1>3, <1>4, <1>5, UnlinkRemoved

(* The oldest unlink names the file it led to.                             *)
LEMMA UnlinkNamed ==
  ASSUME Known, pc' = "end", UNCHANGED <<data, creats, unlinks, table, srv, nextid, want>>,
         Finishing = {}, NEW t \in DOMAIN rows, rows[t].type = "unlink", Oldest(t),
         NEW f \in Nat \ {0}, f = IF rows[t].fileid > 0 THEN rows[t].fileid ELSE rows[t].rfileid,
         rows' = [rows EXCEPT ![t].status = 0, ![t].fileid = f]
  PROVE  NameKnown'
<1>1. /\ t \in Nat \ {0} /\ \A u \in DOMAIN rows : t <= u /\ u \in Nat \ {0}
      /\ srv.id \in Nat /\ NoFile.id = 0 /\ (srv # NoFile => srv.id > 0)
      /\ rows \in [DOMAIN rows -> Row] /\ UnlinkRow(t) /\ rows[t].fileid \in Int
  BY Typed DEF Oldest, Known, NameKnown, ServerFile, NoFile
<1>2. /\ rows'[t].status = 0 /\ rows'[t].fileid = f
      /\ rows'[t].rfileid = rows[t].rfileid /\ rows'[t].sfile = rows[t].sfile
      /\ rows'[t].type = "unlink" /\ rows'[t].type # "creat"
      /\ DOMAIN rows' = DOMAIN rows
      /\ \A u \in DOMAIN rows : u # t => rows'[u] = rows[u]
  <2>1. /\ rows'[t].status = 0 /\ rows'[t].fileid = f
        /\ rows'[t].rfileid = rows[t].rfileid /\ rows'[t].sfile = rows[t].sfile
        /\ rows'[t].type = rows[t].type
        /\ DOMAIN rows' = DOMAIN rows
        /\ \A u \in DOMAIN rows : u # t => rows'[u] = rows[u]
    <3>1. rows[t] \in Row
      BY <1>1
    <3>2. rows'[t].status = 0 /\ rows'[t].fileid = f
      BY <3>1, ZenonT(60) DEF Row
    <3>3. rows'[t].rfileid = rows[t].rfileid /\ rows'[t].sfile = rows[t].sfile
      BY <3>1, ZenonT(60) DEF Row
    <3>4. rows'[t].type = rows[t].type
      BY <3>1, ZenonT(60) DEF Row
    <3>5. DOMAIN rows' = DOMAIN rows /\ \A u \in DOMAIN rows : u # t => rows'[u] = rows[u]
      BY Zenon
    <3> QED BY <3>2, <3>3, <3>4, <3>5
  <2> QED BY <2>1
<1>3. Finishing' = {} /\ Pending' = Pending
  BY <1>2 DEF Finishing, Pending
<1>4. \A u \in DOMAIN rows' : CreatRow(u)' /\ UnlinkRow(u)'
  <2>1. CreatRow(t)' /\ UnlinkRow(t)'
    BY <1>1, <1>2 DEF CreatRow, UnlinkRow
  <2>2. ASSUME NEW u \in DOMAIN rows, u # t PROVE CreatRow(u)' /\ UnlinkRow(u)'
    <3>1. CreatRow(u) /\ UnlinkRow(u) /\ (Oldest(u) => Oldest(u)') /\ t < u
      BY <1>1, <1>2, <2>2 DEF Known, NameKnown, Oldest
    <3>2. UnlinkOf(u) => UnlinkOf(u)'
      BY <1>1, <1>2, <3>1 DEF UnlinkOf
    <3> QED BY <1>2, <1>3, <2>2, <3>1, <3>2 DEF CreatRow, UnlinkRow, Named
  <2> QED BY <1>2, <2>1, <2>2
<1>5. Overlay'
  <2>1. \A cr \in creats : EntryLast(cr) /\ cr.id # t
    BY Typed DEF Known, NameKnown, Overlay, Entry
  <2> QED BY <1>2, <1>3, <2>1 DEF Known, NameKnown, Overlay, EntryLast
<1>6. Thread' /\ ServerFile' /\ Shown'
  BY DEF Known, NameKnown, Thread, ServerFile, Shown, InTable
<1>7. ASSUME srv # NoFile, NEW u \in DOMAIN rows, Leads(u) PROVE Leads(u)'
  <2>1. CASE u = t
    <3>1. -rows[t].fileid \in DOMAIN rows => ~(rows[t].fileid < 0)
      BY <1>1 DEF UnlinkRow
    <3>2. rows[t].fileid = srv.id \/ (rows[t].fileid < 0 /\ rows[t].rfileid = srv.id)
      BY <1>7, <2>1, <3>1 DEF Leads, Awaited
    <3>3. f = srv.id
      BY <1>1, <1>7, <3>2
    <3> QED BY <1>2, <2>1, <3>3 DEF Leads
  <2>2. CASE u # t
    <3>1. PICK d : d = -rows[u].fileid
      OBVIOUS
    <3>2. rows'[u] = rows[u]
      BY <1>2, <2>2
    <3>3. Awaited(d) => Awaited(d)'
      BY <1>2 DEF Awaited
    <3>4. d \in DOMAIN rows /\ rows[d].sfile = srv.id => d \in DOMAIN rows' /\ rows'[d].sfile = srv.id
      BY <1>2
    <3> QED BY <1>7, <3>1, <3>2, <3>3, <3>4 DEF Leads
  <2> QED BY <2>1, <2>2
<1>8. Found'
  <2> SUFFICES ASSUME srv # NoFile
               PROVE  /\ (\E u \in DOMAIN rows' : MayLead(u)') => Led'
                      /\ creats = {} /\ unlinks # {} => Led'
    BY DEF Found
  <2>1. Led => Led'
    BY <1>2, <1>7 DEF Led
  <2>2. MayLead(t)' => Leads(t)'
    BY <1>2 DEF MayLead, Leads
  <2>3. \A u \in DOMAIN rows : u # t /\ MayLead(u)' => MayLead(u)
    BY <1>2 DEF MayLead
  <2> QED BY <1>2, <2>1, <2>2, <2>3 DEF Known, NameKnown, Found, Led
<1> QED BY <1>4, <1>5, <1>6, <1>8 DEF NameKnown

(* psync_cancel_task_unlink                                                *)
LEMMA CancelUnlinkName ==
  ASSUME Known, cancel_task_unlink
  PROVE  NameKnown'
<1> DEFINE of == IF task.row.fileid > 0 THEN task.row.fileid ELSE task.row.rfileid
<1>1. /\ pc = "cancel" /\ task.row.type = "unlink" /\ pc' = "end"
      /\ UNCHANGED <<data, creats, table, srv, nextid, want>>
  BY Zenon DEF cancel_task_unlink, server, history
<1>2. PICK t : t = task.id
  OBVIOUS
<1>3. /\ t \in DOMAIN rows /\ rows[t].type = "unlink" /\ Oldest(t) /\ Finishing = {}
      /\ rows[t].fileid = task.row.fileid /\ rows[t].rfileid = task.row.rfileid
      /\ rows[t].fileid \in Int /\ rows[t].rfileid \in Int /\ UnlinkRow(t)
      /\ t \in Nat /\ \A c \in DOMAIN rows : c \in Nat /\ t <= c
  BY <1>1, <1>2, Typed, TaskPending DEF Working, Known, NameKnown, Thread, OfRow
<1>4. CASE of # 0 /\ rows' = [rows EXCEPT ![task.id].status = 0, ![task.id].fileid = of] /\ UNCHANGED unlinks
  <2>1. PICK f \in Nat \ {0} : f = of
    BY <1>3, <1>4 DEF UnlinkRow
  <2>2. f = IF rows[t].fileid > 0 THEN rows[t].fileid ELSE rows[t].rfileid
    BY <1>3, <2>1
  <2>3. rows' = [rows EXCEPT ![t].status = 0, ![t].fileid = f]
    <3> HIDE DEF of
    <3>1. rows' = [rows EXCEPT ![task.id].status = 0, ![task.id].fileid = of]
      BY <1>4, Zenon
    <3> QED BY <1>2, <2>1, <3>1
  <2>4. UNCHANGED unlinks
    BY <1>4
  <2> HIDE DEF of
  <2> QED BY <1>1, <1>3, <2>1, <2>2, <2>3, <2>4, UnlinkNamed
<1>5. CASE of = 0 /\ rows' = Remove(rows, task.id) /\ unlinks' = unlinks \ {task.id}
  <2>1. rows[t].fileid < 0 /\ -rows[t].fileid < t /\ rows[t].rfileid = 0
    BY <1>3, <1>5 DEF UnlinkRow
  <2>2. \A c \in DOMAIN rows : rows[t].fileid # -c
    BY <1>3, <2>1
  <2>3. srv # NoFile => ~Leads(t)
    <3>1. srv # NoFile => srv.id > 0
      BY DEF Known, NameKnown, ServerFile
    <3>2. -rows[t].fileid \notin DOMAIN rows
      BY <1>3, <2>1
    <3> QED BY <1>3, <2>1, <3>1, <3>2, Typed DEF Leads, Awaited
  <2>4. rows' = Remove(rows, t) /\ unlinks' = unlinks \ {t}
    BY <1>2, <1>5
  <2> HIDE DEF of
  <2> QED BY <1>1, <1>3, <2>2, <2>3, <2>4, UnlinkRemoved
<1> QED BY <1>2, <1>4, <1>5, Zenon DEF cancel_task_unlink

(* psync_fstask_init makes the overlay what it was, and the rows keep what *)
(* they say about the name.                                                *)
LEMMA RestartFields ==
  ASSUME rows \in [DOMAIN rows -> Row],
         rows' = [t \in DOMAIN rows |-> [rows[t] EXCEPT !.status = InitStatus(@)]]
  PROVE  /\ SameFields(rows')
         /\ \A u \in DOMAIN rows : rows'[u].status = InitStatus(rows[u].status)
<1>1. \A u \in DOMAIN rows : rows[u] \in Row
  OBVIOUS
<1>2. SameFields(rows')
  BY <1>1, ZenonT(60) DEF SameFields, Row
<1>3. \A u \in DOMAIN rows : rows'[u].status = InitStatus(rows[u].status)
  BY <1>1, ZenonT(60) DEF Row
<1> QED BY <1>2, <1>3

(* A restart finds the same name: rows, entries and files.                 *)
LEMMA RestartName ==
  ASSUME Known, Restart, odd' = {}
  PROVE  NameKnown'
<1>1. /\ pc \notin {"cache", "finish"} /\ pc' = "check" /\ task' = NoTask /\ answer' = NoFile
      /\ unlinks' = DOMAIN rows /\ UNCHANGED <<data, table, srv, nextid, want>>
  BY DEF Restart, server
<1>2. creats' = {[id |-> t, rfileid |-> rows[t].fileid] : t \in {u \in DOMAIN rows :
                   /\ rows[u].type = "creat"
                   /\ \A x \in DOMAIN rows : x > u => rows[x].type = "creat"}}
  BY DEF Restart
<1>3. rows' = [t \in DOMAIN rows |-> [rows[t] EXCEPT !.status = InitStatus(@)]]
  BY DEF Restart
<1>4. Finishing = {} /\ Finishing' = {} /\ unlinks' = unlinks
  BY <1>1 DEF Finishing, Pending, Known, NameKnown, Overlay
<1>5. Alike
  <2>1. \A u \in DOMAIN rows : rows[u] \in Row /\ UnlinkRow(u)
    BY Typed DEF Known, NameKnown
  <2>2. /\ SameFields(rows')
        /\ \A u \in DOMAIN rows : rows'[u].status = InitStatus(rows[u].status)
    BY <1>3, Typed, RestartFields
  <2>3. \A u \in DOMAIN rows : InitStatus(rows[u].status) \in {11, 12} => rows[u].status \in {11, 12}
    BY DEF InitStatus
  <2>4. \A u \in DOMAIN rows : rows[u].type = "unlink" => InitStatus(rows[u].status) = rows[u].status
    BY <2>1, SMTT(30) DEF InitStatus, UnlinkRow
  <2> QED BY <2>2, <2>3, <2>4 DEF Alike, SameCancels
<1>6. creats' = creats
  <2>1. \A cr \in creats : /\ EntryLast(cr) /\ Entry(cr) /\ cr.id \in Nat
                           /\ cr = [id |-> cr.id, rfileid |-> cr.rfileid]
    BY DEF Known, NameKnown, Overlay, Good, FilesInv, RowsKept, TableTypes
  <2>2. \A u \in DOMAIN rows : u \in Nat
    BY Typed
  <2>3. ASSUME NEW cr \in creats PROVE cr \in creats'
    <3>1. cr.id \in DOMAIN rows /\ rows[cr.id].type = "creat" /\ rows[cr.id].fileid = cr.rfileid
          /\ \A x \in DOMAIN rows : ~(x > cr.id)
      BY <2>1, <2>2 DEF EntryLast, Entry
    <3>2. cr = [id |-> cr.id, rfileid |-> rows[cr.id].fileid]
      BY <2>1, <3>1
    <3> QED BY <1>2, <3>1, <3>2
  <2>4. ASSUME NEW u \in DOMAIN rows, rows[u].type = "creat",
               \A x \in DOMAIN rows : x > u => rows[x].type = "creat"
        PROVE  [id |-> u, rfileid |-> rows[u].fileid] \in creats
    <3>1. CreatRow(u) /\ u \in Pending /\ ~UnlinkOf(u)
      BY <1>4, <2>4 DEF Known, NameKnown, Pending, UnlinkOf
    <3>2. PICK cr \in creats : cr.id = u
      BY <2>4, <3>1 DEF CreatRow, Named
    <3> QED BY <2>1, <3>2 DEF EntryLast
  <2> QED BY <1>2, <2>3, <2>4
<1>7. Thread'
  BY <1>1 DEF Thread
<1>8. Shown'
  BY <1>1, <1>4, <1>6 DEF Known, NameKnown, Shown, InTable
<1>9. /\ \A t \in DOMAIN rows' : CreatRow(t)' /\ UnlinkRow(t)'
      /\ Overlay' /\ ServerFile' /\ Found'
  BY <1>1, <1>4, <1>5, <1>6, AlikeKeeps
<1> QED BY <1>7, <1>8, <1>9 DEF NameKnown

-----------------------------------------------------------------------------
(* At the start there is nothing under the name.                           *)
LEMMA ShownInit == Init => ShownInv
<1> SUFFICES ASSUME Init PROVE NameKnown
  BY DEF ShownInv
<1>1. /\ rows = <<>> /\ data = <<>> /\ creats = {} /\ unlinks = {}
      /\ pc = "check" /\ answer = NoFile /\ srv = NoFile /\ nextid = 1 /\ want = None
  BY DEF Init
<1>2. DOMAIN rows = {} /\ Finishing = {} /\ Pending = {}
  BY <1>1 DEF Finishing, Pending
<1>3. Overlay /\ Thread /\ ServerFile /\ Found /\ Shown
  BY <1>1, <1>2 DEF Overlay, Thread, ServerFile, Found, Led, Shown, InTable, NoFile
<1> QED BY <1>2, <1>3 DEF NameKnown

(* Every step of the drive keeps it, where no odd event happens.           *)
LEMMA ShownNext ==
  FilesInv /\ FilesInv' /\ TableInv /\ WritesInv /\ ShownInv /\ [Next]_vars => ShownInv'
<1> SUFFICES ASSUME FilesInv, FilesInv', TableInv, WritesInv, ShownInv, [Next]_vars, odd' = {}
             PROVE  NameKnown'
  BY DEF ShownInv
<1>1. Known
  BY OddKept DEF Known, Good, WritesInv, ShownInv, Clean, FilesInv
<1>2. CASE User
  <2>1. ASSUME NEW h \in Handles, NEW trunc \in Trunc, Create(h, trunc) \/ OpenPending(h, trunc)
        PROVE  NameKnown'
    BY <1>1, <2>1, CreateName, OpenPendingName
  <2>2. ASSUME NEW h \in Handles, Write(h) PROVE NameKnown'
    BY <1>1, <2>2, WriteName
  <2>3. ASSUME NEW h \in Handles,
               OpenServerFile(h) \/ WriteServerFile(h) \/ Flush(h, FALSE) \/ Flush(h, TRUE)
        PROVE  NameKnown'
    BY <1>1, <2>3, OpenOrFlushName
  <2>4. CASE psync_fstask_unlink \/ UnlinkFails
    BY <1>1, <2>4, UnlinkCallName
  <2> QED BY <1>2, <2>1, <2>2, <2>3, <2>4 DEF User
<1>3. CASE InCall
  BY <1>1, <1>3, ReopenName, ReleaseRowName, RaiseWriteidName, DecOfRefcntName DEF InCall
<1>4. CASE Expire \/ psync_fs_write_timer
  BY <1>1, <1>4, OpenOrFlushName
<1>5. CASE Upload \/ Failed
  <2>1. CASE psync_fsupload_check_tasks
    BY <1>1, <2>1, CheckTasksName
  <2>2. CASE Woken \/ EndOfBatch \/ Failed
    BY <1>1, <2>2, IdleName
  <2>3. CASE SendUnlink \/ SendCreat
    BY <1>1, <2>3, SendName
  <2>4. CASE process_task_creat
    BY <1>1, <2>4, TaskCreatName
  <2>5. CASE CopyToPageCache \/ FinishCreat
    BY <1>1, <2>5, CopyName, FinishCreatName
  <2>6. CASE process_task_unlink
    BY <1>1, <2>6, TaskUnlinkName
  <2>7. CASE cancel_task_creat \/ cancel_task_unlink
    BY <1>1, <2>7, CancelCreatName, CancelUnlinkName
  <2> QED BY <1>5, <2>1, <2>2, <2>3, <2>4, <2>5, <2>6, <2>7 DEF Upload
<1>6. CASE uploadfile \/ deletefile \/ Diff
  BY <1>1, <1>6, UploadfileName, DeletefileName, DiffName
<1>7. CASE Restart
  BY <1>1, <1>7, RestartName
<1>8. CASE UNCHANGED vars
  <2>1. UNCHANGED <<rows, data, creats, unlinks, table, upload, server, want>>
    BY <1>8 DEF vars, overlay, history
  <2> QED BY <1>1, <2>1, SameAlike, NameStays
<1> QED BY <1>2, <1>3, <1>4, <1>5, <1>6, <1>7, <1>8 DEF Next

(* When all events have come, the table has just the server's file.        *)
LEMMA TableComplete ==
  ASSUME TableInv, events = <<>>
  PROVE  table = {srv} \ {NoFile}
<1>1. ASSUME NEW f \in KnownFile
      PROVE  {g \in table : g.id = f.id} = {ServerHas(f.id)} \ {Deleted(f.id)} /\ f.id # 0 /\ f.content # None
  <2>1. f.id \in Ids /\ f.id # 0 /\ f.content # None
    BY DEF KnownFile, Ids, None
  <2>2. EventsOf(f.id) = {}
    BY DEF EventsOf
  <2> QED BY <2>1, <2>2 DEF TableInv, CatchesUp, Ids
<1>2. ASSUME NEW f \in table PROVE f = srv /\ f # NoFile
  <2>1. f \in KnownFile
    BY DEF TableInv, ServerTypes
  <2> QED BY <1>1, <2>1 DEF ServerHas, NoFile
<1>3. ASSUME srv # NoFile PROVE srv \in table
  <2>1. srv \in KnownFile
    BY <1>3 DEF TableInv, ServerTypes
  <2> QED BY <1>1, <2>1 DEF ServerHas, Deleted
<1> QED BY <1>2, <1>3

(* At every moment the user finds under the name what he last made it      *)
(* hold while it is pending or on its way, across restarts, lost answers   *)
(* and late events, where none of the odd events happened; when no task is *)
(* left, the server has it, its file is in the table whatever events are   *)
(* still to come (pdiff.c:1234), and is all the table has when they have.  *)
THEOREM NameShowsWant == Spec => []ShowsWant
<1>1. TableInv /\ ShownInv => ShowsWant
  BY TableComplete DEF ShownInv, NameKnown, Shown, ShowsWant
<1>2. Init => FilesInv /\ WritesInv /\ ShownInv
  BY FilesInit, WritesInit, ShownInit
<1>3. FilesInv /\ TableInv /\ WritesInv /\ ShownInv /\ [Next]_vars => (FilesInv /\ WritesInv /\ ShownInv)'
  BY FilesNext, WritesNext, ShownNext
<1> QED BY <1>1, <1>2, <1>3, TableInvariant, PTL DEF Spec

-----------------------------------------------------------------------------
(* What is left to do will be done.                                        *)

(* The upload thread sleeps only where the oldest row is not ready, or it  *)
(* will be woken.                                                          *)
NoFree == \A t \in DOMAIN rows : Oldest(t) => rows[t].status \notin {0, 11}
Asleep == pc \in {"wait", "end"} => wake \/ NoFree

(* A creat that is being sent is not given up without a wakeup: its answer *)
(* ends it, or its row waits for a flush again.                            *)
AsSent == \A w \in get_file_writeid(task.id) : w = task.row.int1

SentWork ==
  /\ rows[task.id].status \in {0, 1}
  /\ \/ wake \/ rows[task.id].status = 1
     \/ rows[task.id].int1 >= task.row.int1 /\ (pc = "answer" => AsSent)

Sending == pc \in {"send", "answer"} /\ task.row.type = "creat" => SentWork

(* A row that is ready with the write id its open file has was released,   *)
(* so the next write stops its upload.  A row that waits for a flush or    *)
(* for the last close has an open file that will bring it.                 *)
RowWork(t) ==
  /\ \A o \in OpenOf(ofs, -t) : rows[t].status = 0 /\ rows[t].int1 = ofs[o].writeid => ofs[o].released
  /\ t \in Pending /\ rows[t].status \in {1, 12} => OpenOf(ofs, -t) # {}
  /\ t \in Pending /\ rows[t].status = 12 => \A o \in OpenOf(ofs, -t) : ofs[o].deleted

WorkKept == Asleep /\ Sending /\ \A t \in DOMAIN rows : RowWork(t)

ArrivesInv == odd = {} => WorkKept

(* Where no odd event happened, all that is known.                         *)
Live == Known /\ WorkKept

-----------------------------------------------------------------------------
(* What the proofs below need of the types and of the open files.          *)
LEMMA OpenTyped ==
  ASSUME Known
  PROVE  /\ MemoryTypes
         /\ \A t \in DOMAIN rows : /\ t \in Nat \ {0} /\ -t < 0 /\ -(-t) = t
                                   /\ rows[t].status \in {0, 1, 11, 12} /\ rows[t].int1 \in Nat
         /\ \A o \in DOMAIN ofs :
              /\ ofs[o].fileid \in Int /\ ofs[o].writeid \in Nat /\ FileIds(o)
              /\ ofs[o].fileid < 0 => /\ -ofs[o].fileid \in DOMAIN rows
                                      /\ rows[-ofs[o].fileid].int1 <= ofs[o].writeid
                                      /\ rows[-ofs[o].fileid].type = "creat"
                                      /\ rows[-ofs[o].fileid].status # 11
                                      /\ OpenOf(ofs, ofs[o].fileid) = {o}
                                      /\ -(-ofs[o].fileid) = ofs[o].fileid
<1>1. FilesInv /\ RowsKept /\ WritesKnown
  BY DEF Known, Good
<1>2. ASSUME NEW t \in DOMAIN rows
      PROVE  /\ t \in Nat \ {0} /\ -t < 0 /\ -(-t) = t
             /\ rows[t].status \in {0, 1, 11, 12} /\ rows[t].int1 \in Nat
  BY <1>1, <1>2 DEF FilesInv, TableTypes, Row
<1>3. ASSUME NEW o \in DOMAIN ofs
      PROVE  /\ ofs[o].fileid \in Int /\ ofs[o].writeid \in Nat /\ FileIds(o)
             /\ ofs[o].fileid < 0 => /\ -ofs[o].fileid \in DOMAIN rows
                                     /\ rows[-ofs[o].fileid].int1 <= ofs[o].writeid
                                     /\ rows[-ofs[o].fileid].type = "creat"
                                     /\ rows[-ofs[o].fileid].status # 11
                                     /\ OpenOf(ofs, ofs[o].fileid) = {o}
                                     /\ -(-ofs[o].fileid) = ofs[o].fileid
  <2>1. ofs[o].fileid \in Int /\ ofs[o].writeid \in Nat /\ FileIds(o) /\ Kept(o)
    BY <1>1 DEF FilesInv, MemoryTypes, OpenFile, WritesKnown, RowsKept
  <2>2. \A p \in DOMAIN ofs : ofs[o].fileid = ofs[p].fileid /\ ofs[o].fileid < 0 => o = p
    BY <1>1 DEF RowsKept
  <2> QED BY <2>1, <2>2 DEF Kept, FileIds, OpenOf
<1> QED BY <1>1, <1>2, <1>3 DEF FilesInv

(* The file of a row is the same after a step that leaves the two alone.   *)
SameFile(t) ==
  /\ t \in DOMAIN rows' /\ rows'[t].status = rows[t].status /\ rows'[t].int1 = rows[t].int1
  /\ OpenOf(ofs', -t) = OpenOf(ofs, -t)
  /\ \A o \in OpenOf(ofs, -t) : /\ ofs'[o].writeid = ofs[o].writeid
                                /\ ofs[o].released => ofs'[o].released
                                /\ ofs[o].deleted => ofs'[o].deleted

(* What was left to do for the file of a row still is.                     *)
LEMMA RowStays ==
  ASSUME NEW t, RowWork(t), SameFile(t), t \in Pending' => t \in Pending
  PROVE  RowWork(t)'
BY DEF RowWork, SameFile

(* So it is with the creat that is being sent.                             *)
LEMMA SendingStays ==
  ASSUME Sending, UNCHANGED <<pc, task>>, wake => wake',
         pc \in {"send", "answer"} /\ task.row.type = "creat" => SameFile(task.id)
  PROVE  Sending'
<1> SUFFICES ASSUME pc \in {"send", "answer"}, task.row.type = "creat" PROVE SentWork'
  BY DEF Sending
<1>1. SentWork /\ SameFile(task.id)
  BY DEF Sending
<1>2. get_file_writeid(task.id)' = get_file_writeid(task.id)
  BY <1>1 DEF SameFile, get_file_writeid
<1> QED BY <1>1, <1>2 DEF SentWork, SameFile, AsSent

(* A call that touches the files of the rows T, adding some of these rows. *)
LEMMA CallWork ==
  ASSUME Live, UNCHANGED <<pc, task>>, wake => wake', NEW T,
         DOMAIN rows \subseteq DOMAIN rows', DOMAIN rows' \subseteq DOMAIN rows \cup T,
         \A u \in DOMAIN rows : u \notin T => SameFile(u),
         \A u \in T \cap DOMAIN rows' :
           /\ RowWork(u)'
           /\ rows'[u].status \in {0, 11} => wake' \/ (u \in DOMAIN rows /\ rows[u].status \in {0, 11}),
         task.id \in T /\ pc \in {"send", "answer"} /\ task.row.type = "creat" => SentWork'
  PROVE  WorkKept'
<1>1. Asleep'
  <2> SUFFICES ASSUME pc \in {"wait", "end"}, ~wake' PROVE NoFree'
    BY DEF Asleep
  <2>1. NoFree
    BY DEF Live, WorkKept, Asleep
  <2>2. ASSUME NEW t \in DOMAIN rows', Oldest(t)', rows'[t].status \in {0, 11} PROVE FALSE
    <3>1. t \in DOMAIN rows /\ rows[t].status \in {0, 11}
      BY <2>2 DEF SameFile
    <3>2. Oldest(t)
      BY <2>2, <3>1 DEF Oldest
    <3> QED BY <2>1, <3>1, <3>2 DEF NoFree
  <2> QED BY <2>2 DEF NoFree
<1>2. Sending'
  <2>1. CASE task.id \in T
    BY <2>1 DEF Sending
  <2>2. CASE task.id \notin T
    <3>1. pc \in {"send", "answer"} => task.id \in DOMAIN rows
      BY Typed DEF Live, Working
    <3> QED BY <2>2, <3>1, SendingStays DEF Live, WorkKept
  <2> QED BY <2>1, <2>2
<1>3. ASSUME NEW u \in DOMAIN rows', u \notin T PROVE RowWork(u)'
  <2>1. u \in DOMAIN rows /\ SameFile(u) /\ RowWork(u)
    BY <1>3 DEF Live, WorkKept
  <2>2. u \in Pending' => u \in Pending
    BY <2>1 DEF Pending, Finishing
  <2> QED BY <2>1, <2>2, RowStays
<1> QED BY <1>1, <1>2, <1>3 DEF WorkKept

-----------------------------------------------------------------------------
(* Open files that stay as released and as deleted as they were.           *)
KeptFlags(G) ==
  /\ DOMAIN G = DOMAIN ofs
  /\ \A p \in DOMAIN ofs : /\ G[p].fileid = ofs[p].fileid /\ G[p].writeid = ofs[p].writeid
                           /\ ofs[p].released => G[p].released
                           /\ ofs[p].deleted => G[p].deleted

(* A file that is opened once more, flushed, timed or closed, but not for  *)
(* the last time.                                                          *)
LEMMA FlagsKept ==
  ASSUME MemoryTypes, NEW o \in DOMAIN ofs, NEW b
  PROVE  /\ KeptFlags(inc_of_refcnt(ofs, o)) /\ KeptFlags(Released(o))
         /\ KeptFlags([ofs EXCEPT ![o].timer = "running"])
         /\ KeptFlags([ofs EXCEPT ![o].timer = "none", ![o].released = @ \/ b])
         /\ KeptFlags([ofs EXCEPT ![o].refcnt = @ - 1])
<1>1. \A p \in DOMAIN ofs : ofs[p] \in OpenFile
  BY DEF MemoryTypes
<1>2. KeptFlags(inc_of_refcnt(ofs, o))
  BY <1>1, ZenonT(60) DEF inc_of_refcnt, KeptFlags, OpenFile
<1>3. KeptFlags(Released(o))
  BY <1>1, ZenonT(60) DEF Released, KeptFlags, OpenFile
<1>4. KeptFlags([ofs EXCEPT ![o].timer = "running"])
  BY <1>1, ZenonT(60) DEF KeptFlags, OpenFile
<1>5. KeptFlags([ofs EXCEPT ![o].timer = "none", ![o].released = @ \/ b])
  BY <1>1, ZenonT(60) DEF KeptFlags, OpenFile
<1>6. KeptFlags([ofs EXCEPT ![o].refcnt = @ - 1])
  BY <1>1, ZenonT(60) DEF KeptFlags, OpenFile
<1> QED BY <1>2, <1>3, <1>4, <1>5, <1>6

(* The open files of a removed file.                                       *)
LEMMA DeletedFlags ==
  ASSUME MemoryTypes, NEW t
  PROVE  /\ KeptFlags(mark_openfile_deleted(t))
         /\ task.id # t => \A o \in OpenOf(ofs, -t) : mark_openfile_deleted(t)[o].deleted
<1>1. \A p \in DOMAIN ofs : ofs[p] \in OpenFile
  BY DEF MemoryTypes
<1>2. KeptFlags(mark_openfile_deleted(t))
  BY <1>1, ZenonT(60) DEF mark_openfile_deleted, KeptFlags, OpenFile
<1>3. ASSUME task.id # t, NEW o \in OpenOf(ofs, -t) PROVE mark_openfile_deleted(t)[o].deleted
  <2>1. o \in DOMAIN ofs /\ ofs[o].fileid = -t /\ ofs[o] \in OpenFile
    BY <1>1 DEF OpenOf
  <2> QED BY <1>3, <2>1, ZenonT(60) DEF mark_openfile_deleted, OpenFile
<1> QED BY <1>2, <1>3

(* Such open files change nothing for a row that keeps its status and      *)
(* write id.                                                               *)
LEMMA FlagsFile ==
  ASSUME KeptFlags(ofs'), NEW t \in DOMAIN rows',
         rows'[t].status = rows[t].status, rows'[t].int1 = rows[t].int1
  PROVE  SameFile(t)
BY DEF KeptFlags, SameFile, OpenOf

(* Calls that change no row and no file.                                   *)
LEMMA FlagsWork ==
  ASSUME Live, UNCHANGED <<rows, pc, task>>, wake => wake', KeptFlags(ofs')
  PROVE  WorkKept'
<1>1. \A u \in DOMAIN rows : SameFile(u)
  BY FlagsFile
<1>2. PICK T : T = {}
  OBVIOUS
<1> QED BY <1>1, <1>2, CallWork

(* psync_fs_flush and psync_fs_write_timer                                 *)
LEMMA FlushWork ==
  ASSUME Live, NEW h \in Handles, NEW closing \in BOOLEAN, Flush(h, closing)
  PROVE  WorkKept'
<1>1. /\ UNCHANGED <<rows, pc, task, wake>> /\ fd[h] \in DOMAIN ofs
      /\ ofs' = Released(fd[h]) \/ ofs' = ofs
  BY DEF Flush, upload, Ready, Live, Known, Good, FilesInv, References
<1>2. MemoryTypes
  BY OpenTyped DEF Live
<1>3. KeptFlags(ofs)
  BY DEF KeptFlags
<1>4. KeptFlags(ofs')
  BY <1>1, <1>2, <1>3, FlagsKept
<1> QED BY <1>1, <1>4, FlagsWork

(* The write timer releases a file, or gives its reference back; the row   *)
(* comes later.                                                            *)
LEMMA TimerWork ==
  ASSUME Live, Expire \/ psync_fs_write_timer
  PROVE  WorkKept'
<1>1. UNCHANGED <<rows, pc, task, wake>>
  BY DEF Expire, psync_fs_write_timer, upload
<1>2. MemoryTypes
  BY OpenTyped DEF Live
<1>3. CASE Expire
  <2>1. PICK o \in DOMAIN ofs : ofs' = [ofs EXCEPT ![o].timer = "running"]
    BY <1>3 DEF Expire
  <2>2. KeptFlags(ofs')
    BY <1>2, <2>1, FlagsKept
  <2> QED BY <1>1, <2>2, FlagsWork
<1>4. CASE psync_fs_write_timer
  <2>1. PICK o \in DOMAIN ofs, b \in BOOLEAN :
          ofs' = [ofs EXCEPT ![o].timer = "none", ![o].released = @ \/ b]
    <3>1. PICK o \in DOMAIN ofs :
            ofs' = [ofs EXCEPT ![o].timer = "none",
                               ![o].released = @ \/ (ofs[o].modified /\ ~ofs[o].released)]
      BY <1>4 DEF psync_fs_write_timer
    <3>2. PICK b \in BOOLEAN : b = (ofs[o].modified /\ ~ofs[o].released)
      OBVIOUS
    <3> QED BY <3>1, <3>2
  <2>2. KeptFlags(ofs')
    BY <1>2, <2>1, FlagsKept
  <2> QED BY <1>1, <2>2, FlagsWork
<1> QED BY <1>3, <1>4

(* A new open file changes nothing for the rows but its own.               *)
LEMMA NewOpenFile ==
  ASSUME MemoryTypes, Room, NEW f, ofs' = With(ofs, NewOpen, f)
  PROVE  /\ DOMAIN ofs' = DOMAIN ofs \cup {NewOpen} /\ NewOpen \notin DOMAIN ofs
         /\ ofs'[NewOpen] = f /\ \A p \in DOMAIN ofs : ofs'[p] = ofs[p]
         /\ \A x : f.fileid # x => OpenOf(ofs', x) = OpenOf(ofs, x)
<1>1. NewOpen \in 1 .. MaxOpen /\ NewOpen \notin DOMAIN ofs
  BY DEF NewOpen, Room, MemoryTypes
<1> HIDE DEF NewOpen
<1>2. /\ DOMAIN ofs' = DOMAIN ofs \cup {NewOpen} /\ ofs'[NewOpen] = f
      /\ \A p \in DOMAIN ofs : ofs'[p] = ofs[p]
  BY <1>1 DEF With
<1>3. \A x : f.fileid # x => OpenOf(ofs', x) = OpenOf(ofs, x)
  BY <1>1, <1>2 DEF OpenOf
<1> QED BY <1>1, <1>2, <1>3

(* psync_fs_open of a file of the server                                   *)
LEMMA OpenServerFileWork ==
  ASSUME Live, NEW h \in Handles, OpenServerFile(h)
  PROVE  WorkKept'
<1>1. UNCHANGED <<rows, pc, task, wake>> /\ MemoryTypes
  BY OpenTyped DEF OpenServerFile, upload, Live
<1>2. ASSUME NEW f \in table, \E o \in OpenOf(ofs, f.id) : ofs' = inc_of_refcnt(ofs, o)
      PROVE  WorkKept'
  <2>1. PICK o \in DOMAIN ofs : ofs' = inc_of_refcnt(ofs, o)
    BY <1>2 DEF OpenOf
  <2>2. KeptFlags(ofs')
    BY <1>1, <2>1, FlagsKept
  <2> QED BY <1>1, <2>2, FlagsWork
<1>3. ASSUME NEW f \in table, Room, ofs' = With(ofs, NewOpen, File(f.id, 0, FALSE, FALSE))
      PROVE  WorkKept'
  <2>1. File(f.id, 0, FALSE, FALSE).fileid = f.id /\ f.id \in Nat
    BY TableIds DEF File, Live, Known, Good
  <2>2. ASSUME NEW u \in DOMAIN rows PROVE SameFile(u)
    <3>1. f.id # -u
      BY <2>1, OpenTyped DEF Live
    <3>2. OpenOf(ofs', -u) = OpenOf(ofs, -u) /\ \A p \in DOMAIN ofs : ofs'[p] = ofs[p]
      BY <1>1, <1>3, <2>1, <3>1, NewOpenFile
    <3> QED BY <1>1, <3>2 DEF SameFile, OpenOf
  <2>3. PICK T : T = {}
    OBVIOUS
  <2> QED BY <1>1, <2>2, <2>3, CallWork
<1> QED BY <1>2, <1>3 DEF OpenServerFile

(* psync_fstask_add_creat: the new row waits for the flush of its file.    *)
LEMMA CreatWork ==
  ASSUME Live, UNCHANGED <<pc, task, wake>>, NEW t, t = NewTask, NEW f, add_creat(t, f),
         OpenOf(ofs', -t) # {},
         \A u \in DOMAIN rows : /\ OpenOf(ofs', -u) = OpenOf(ofs, -u)
                                /\ \A o \in OpenOf(ofs, -u) : ofs'[o] = ofs[o]
  PROVE  WorkKept'
<1>1. t \in Nat \ {0} /\ \A u \in DOMAIN rows : u < t /\ u \in Nat
  BY NewTaskFresh DEF Live, Known, Good, FilesInv, TableTypes
<1>2. /\ DOMAIN rows' = DOMAIN rows \cup {t} /\ \A u \in DOMAIN rows : rows'[u] = rows[u]
      /\ rows'[t].status = 1
  BY <1>1 DEF add_creat, With
<1>3. \A u \in DOMAIN rows : SameFile(u)
  BY <1>2 DEF SameFile
<1>4. RowWork(t)' /\ rows'[t].status \notin {0, 11}
  BY <1>2 DEF RowWork
<1>5. pc \in {"send", "answer"} => task.id # t
  BY <1>1, Typed DEF Live, Working
<1>6. PICK T : T = {t}
  OBVIOUS
<1> QED BY <1>2, <1>3, <1>4, <1>5, <1>6, CallWork

(* psync_fs_creat                                                          *)
LEMMA CreateWork ==
  ASSUME Live, NEW h \in Handles, NEW trunc, Create(h, trunc)
  PROVE  WorkKept'
<1>1. PICK t : t = NewTask
  OBVIOUS
<1>2. /\ Room /\ add_creat(t, 0) /\ UNCHANGED <<pc, task, wake>> /\ MemoryTypes
      /\ ofs' = With(ofs, NewOpen, File(-t, 0, TRUE, FALSE))
  BY <1>1, OpenTyped DEF Create, upload, Live
<1>3. t \in Nat \ {0} /\ \A u \in DOMAIN rows : u < t /\ u \in Nat
  BY <1>1, NewTaskFresh DEF Live, Known, Good, FilesInv, TableTypes
<1>4. PICK f : f = File(-t, 0, TRUE, FALSE)
  OBVIOUS
<1>5. f.fileid = -t
  BY <1>4 DEF File
<1>6. /\ DOMAIN ofs' = DOMAIN ofs \cup {NewOpen} /\ ofs'[NewOpen] = f
      /\ \A p \in DOMAIN ofs : ofs'[p] = ofs[p]
      /\ \A x : f.fileid # x => OpenOf(ofs', x) = OpenOf(ofs, x)
  BY <1>2, <1>4, NewOpenFile
<1>7. \A u \in DOMAIN rows : -u # -t
  BY <1>3
<1>8. OpenOf(ofs', -t) # {}
  BY <1>5, <1>6 DEF OpenOf
<1>9. \A u \in DOMAIN rows : OpenOf(ofs', -u) = OpenOf(ofs, -u)
  BY <1>5, <1>6, <1>7
<1>10. \A u \in DOMAIN rows : \A o \in OpenOf(ofs, -u) : ofs'[o] = ofs[o]
  BY <1>6 DEF OpenOf
<1> QED BY <1>1, <1>2, <1>8, <1>9, <1>10, CreatWork

(* psync_fs_reopen_file_for_writing                                        *)
LEMMA ReopenWork ==
  ASSUME Live, NEW h \in Handles, psync_fs_reopen_file_for_writing(h)
  PROVE  WorkKept'
<1>1. PICK t : t = NewTask
  OBVIOUS
<1>2. PICK o : o = fd[h]
  OBVIOUS
<1>3. /\ UNCHANGED <<pc, task, wake>> /\ o \in DOMAIN ofs /\ MemoryTypes
      /\ ofs[o].fileid \in Int /\ (ofs[o].modified <=> ofs[o].fileid < 0)
  BY <1>2, OpenTyped
     DEF psync_fs_reopen_file_for_writing, upload, Live, Known, Good, FilesInv, References, FileIds
<1>4. CASE UNCHANGED <<rows, ofs>>
  <2>1. KeptFlags(ofs')
    BY <1>4 DEF KeptFlags
  <2> QED BY <1>3, <1>4, <2>1, FlagsWork
<1>5. ASSUME ~ofs[o].modified, NEW s, add_creat(t, s),
             ofs' = [ofs EXCEPT ![o].fileid = -t, ![o].modified = TRUE]
      PROVE  WorkKept'
  <2>1. /\ DOMAIN ofs' = DOMAIN ofs /\ ofs'[o].fileid = -t
        /\ \A p \in DOMAIN ofs : p # o => ofs'[p] = ofs[p]
    BY <1>3, <1>5, RenamedIds
  <2>2. t \in Nat \ {0} /\ \A u \in DOMAIN rows : u < t /\ u \in Nat \ {0}
    BY <1>1, NewTaskFresh DEF Live, Known, Good, FilesInv, TableTypes
  <2>3. \A u \in DOMAIN rows : ofs[o].fileid # -u /\ ofs'[o].fileid # -u
    BY <1>3, <1>5, <2>1, <2>2
  <2>4. OpenOf(ofs', -t) # {}
    BY <1>3, <2>1 DEF OpenOf
  <2>5. \A u \in DOMAIN rows : OpenOf(ofs', -u) = OpenOf(ofs, -u)
    BY <2>1, <2>3 DEF OpenOf
  <2>6. \A u \in DOMAIN rows : \A p \in OpenOf(ofs, -u) : ofs'[p] = ofs[p]
    BY <2>1, <2>3 DEF OpenOf
  <2> QED BY <1>1, <1>3, <1>5, <2>4, <2>5, <2>6, CreatWork
<1> QED BY <1>1, <1>2, <1>4, <1>5 DEF psync_fs_reopen_file_for_writing

(* psync_fs_inc_writeid_locked: the next flush has to release the file.    *)
LEMMA WriteidFlags ==
  ASSUME NEW D, NEW F \in [D -> OpenFile], NEW o \in D
  PROVE  LET G == inc_writeid(F, o)
         IN /\ DOMAIN G = D /\ \A p \in D : p # o => G[p] = F[p]
            /\ \A p \in D : G[p].fileid = F[p].fileid
            /\ G[o].writeid = F[o].writeid + 1 /\ G[o].deleted = F[o].deleted
<1> DEFINE G == inc_writeid(F, o)
<1>1. FileMoved(F, G, o, 0) /\ G[o].fileid = F[o].fileid /\ G[o].writeid = F[o].writeid + 1
  BY IncWriteid, RaisedIds
<1>2. DOMAIN G = D /\ \A p \in D : p # o => G[p] = F[p]
  BY DEF inc_writeid
<1>3. G[o].deleted = F[o].deleted
  BY DEF inc_writeid
<1> HIDE DEF G
<1>4. \A p \in D : G[p].fileid = F[p].fileid
  BY <1>1, <1>2
<1> QED BY <1>1, <1>2, <1>3, <1>4 DEF G

(* A write to a file of the server is no matter of the rows yet.           *)
LEMMA WriteServerFileWork ==
  ASSUME Live, NEW h \in Handles, WriteServerFile(h)
  PROVE  WorkKept'
<1>1. PICK o : o = fd[h]
  OBVIOUS
<1>2. /\ UNCHANGED <<rows, pc, task, wake>> /\ o \in DOMAIN ofs /\ MemoryTypes
      /\ ofs[o].fileid \in Int /\ ~(ofs[o].fileid < 0) /\ ofs' = inc_writeid(ofs, o)
  BY <1>1, OpenTyped
     DEF WriteServerFile, Ready, upload, Live, Known, Good, FilesInv, References, FileIds
<1>3. /\ DOMAIN ofs' = DOMAIN ofs /\ \A p \in DOMAIN ofs : p # o => ofs'[p] = ofs[p]
      /\ \A p \in DOMAIN ofs : ofs'[p].fileid = ofs[p].fileid
  BY <1>2, WriteidFlags DEF MemoryTypes
<1>4. \A u \in DOMAIN rows : -u < 0
  BY OpenTyped DEF Live
<1>5. \A u \in DOMAIN rows : SameFile(u)
  BY <1>2, <1>3, <1>4 DEF SameFile, OpenOf
<1>6. PICK T : T = {}
  OBVIOUS
<1> QED BY <1>2, <1>5, <1>6, CallWork

(* A write to a pending file stops its upload, or it was not released.     *)
LEMMA WriteWork ==
  ASSUME Live, NEW h \in Handles, Write(h)
  PROVE  WorkKept'
<1>1. PICK o : o = fd[h]
  OBVIOUS
<1>2. /\ UNCHANGED <<pc, task, wake>> /\ o \in DOMAIN ofs /\ MemoryTypes
      /\ ofs' = inc_writeid(ofs, o) /\ rows' = stop_upload(ofs, o) /\ ofs[o].modified
  BY <1>1, OpenTyped DEF Write, Ready, upload, Live, Known, Good, FilesInv, References
<1>3. PICK t : t = -ofs[o].fileid
  OBVIOUS
<1>4. /\ t \in DOMAIN rows /\ ofs[o].fileid = -t /\ OpenOf(ofs, -t) = {o}
      /\ rows[t].int1 \in Nat /\ ofs[o].writeid \in Nat /\ rows[t].int1 <= ofs[o].writeid
      /\ rows \in [DOMAIN rows -> Row] /\ \A u \in DOMAIN rows : u \in Nat
  BY <1>2, <1>3, OpenTyped, Typed DEF Live, FileIds
<1>5. /\ DOMAIN ofs' = DOMAIN ofs /\ \A p \in DOMAIN ofs : p # o => ofs'[p] = ofs[p]
      /\ \A p \in DOMAIN ofs : ofs'[p].fileid = ofs[p].fileid
      /\ ofs'[o].writeid = ofs[o].writeid + 1 /\ ofs'[o].deleted = ofs[o].deleted
  BY <1>2, WriteidFlags DEF MemoryTypes
<1>6. \A x : OpenOf(ofs', x) = OpenOf(ofs, x)
  BY <1>5 DEF OpenOf
<1>7. /\ DOMAIN rows' = DOMAIN rows /\ \A u \in DOMAIN rows : u # t => rows'[u] = rows[u]
      /\ rows'[t].int1 = rows[t].int1
      /\ IF ofs[o].released THEN rows'[t].status = 1 ELSE rows'[t].status = rows[t].status
  <2>1. CASE ofs[o].released
    <3>1. rows' = SetStatus(t, 1)
      BY <1>2, <1>3, <2>1 DEF stop_upload
    <3>2. rows'[t].int1 = rows[t].int1
      BY <1>4, <3>1, StatusInts DEF SameInts
    <3>3. SameTasks(rows') /\ (\A u \in DOMAIN rows : u # t => rows'[u] = rows[u]) /\ rows'[t].status = 1
      BY <1>4, <3>1, StatusSet
    <3> QED BY <2>1, <3>2, <3>3 DEF SameTasks
  <2>2. CASE ~ofs[o].released
    BY <1>2, <2>2 DEF stop_upload
  <2> QED BY <2>1, <2>2
<1>8. \A u \in DOMAIN rows : u # t => SameFile(u)
  <2> SUFFICES ASSUME NEW u \in DOMAIN rows, u # t PROVE SameFile(u)
    OBVIOUS
  <2>1. -u # -t
    BY <1>4
  <2>2. o \notin OpenOf(ofs, -u)
    BY <1>4, <2>1 DEF OpenOf
  <2> QED BY <1>5, <1>6, <1>7, <2>2 DEF SameFile, OpenOf
<1>9. RowWork(t) /\ (t \in Pending' => t \in Pending)
  BY <1>2, <1>4, <1>7 DEF Live, WorkKept, Pending, Finishing
<1>10. RowWork(t)'
  <2>1. ofs'[o].writeid # rows'[t].int1
    BY <1>4, <1>5, <1>7
  <2>2. OpenOf(ofs', -t) = {o}
    BY <1>4, <1>6
  <2>3. CASE ofs[o].released
    BY <1>7, <2>2, <2>3 DEF RowWork
  <2>4. CASE ~ofs[o].released
    BY <1>4, <1>5, <1>7, <1>9, <2>1, <2>2, <2>4 DEF RowWork
  <2> QED BY <2>3, <2>4
<1>11. rows'[t].status \in {0, 11} => rows[t].status \in {0, 11}
  BY <1>7
<1>12. ASSUME task.id = t, pc \in {"send", "answer"}, task.row.type = "creat" PROVE SentWork'
  <2>1. SentWork /\ task.row.int1 \in Nat
    BY <1>12, Typed DEF Live, WorkKept, Sending, Row, Working
  <2>2. CASE ofs[o].released
    BY <1>2, <1>7, <1>12, <2>2 DEF SentWork
  <2>3. CASE ~ofs[o].released /\ (wake \/ rows[t].status = 1)
    BY <1>2, <1>7, <1>12, <2>1, <2>3 DEF SentWork
  <2>4. CASE ~ofs[o].released /\ ~wake /\ rows[t].status # 1
    <3>1. rows[t].status = 0 /\ rows[t].int1 >= task.row.int1 /\ (pc = "answer" => AsSent)
      BY <1>12, <2>1, <2>4 DEF SentWork
    <3>2. rows[t].int1 # ofs[o].writeid
      BY <1>4, <1>9, <2>4, <3>1 DEF RowWork
    <3>3. AsSent => ofs[o].writeid = task.row.int1
      BY <1>4, <1>12 DEF AsSent, get_file_writeid
    <3>4. pc # "answer"
      BY <1>4, <2>1, <3>1, <3>2, <3>3
    <3> QED BY <1>2, <1>7, <1>12, <2>4, <3>1, <3>4 DEF SentWork
  <2> QED BY <2>2, <2>3, <2>4
<1>13. PICK T : T = {t}
  OBVIOUS
<1> QED BY <1>2, <1>4, <1>7, <1>8, <1>10, <1>11, <1>12, <1>13, CallWork

(* A pending file that is opened once more takes over what its row says.   *)
LEMMA AgainFlags ==
  ASSUME MemoryTypes, NEW o \in DOMAIN ofs, NEW b \in BOOLEAN
  PROVE  LET F == OpenAgain(o, b)
         IN /\ F \in [DOMAIN ofs -> OpenFile] /\ F[o].released = b
            /\ SameIds(ofs, F) /\ \A p \in DOMAIN ofs : p # o => F[p] = ofs[p]
            /\ F[o].deleted = ofs[o].deleted
<1> DEFINE E == inc_of_refcnt(ofs, o)
           G == [E EXCEPT ![o].released = b]
<1>1. E \in [DOMAIN ofs -> OpenFile] /\ \A p \in DOMAIN ofs : p # o => E[p] = ofs[p]
  BY IncRefcnt DEF MemoryTypes, FileMoved
<1>2. E[o].deleted = ofs[o].deleted
  <2>1. ofs[o] \in OpenFile
    BY DEF MemoryTypes
  <2> QED BY <2>1, ZenonT(60) DEF inc_of_refcnt, OpenFile
<1> HIDE DEF E
<1>3. G \in [DOMAIN ofs -> OpenFile] /\ \A p \in DOMAIN ofs : p # o => G[p] = E[p]
  BY <1>1, ReleasedSet DEF FileMoved
<1>4. G[o].released = b /\ G[o].deleted = E[o].deleted
  <2>1. E[o] \in OpenFile
    BY <1>1
  <2> QED BY <1>1, <2>1, ZenonT(60) DEF OpenFile
<1>5. SameIds(ofs, OpenAgain(o, b))
  BY OpenedAgainIds
<1> HIDE DEF G
<1>6. /\ G \in [DOMAIN ofs -> OpenFile] /\ G[o].released = b
      /\ \A p \in DOMAIN ofs : p # o => G[p] = ofs[p]
      /\ G[o].deleted = ofs[o].deleted
  BY <1>1, <1>2, <1>3, <1>4
<1> QED BY <1>5, <1>6 DEF OpenAgain, G, E

(* psync_fs_open of a pending file whose data file is open: it is not taken*)
(* for unreleased while it is released ("crossed").                        *)
LEMMA OpenAgainWork ==
  ASSUME Live, NEW t \in DOMAIN rows, NEW o \in OpenOf(ofs, -t), NEW r \in BOOLEAN,
         UNCHANGED <<rows, pc, task, wake>>, ofs' = OpenAgain(o, r), ofs[o].released => r
  PROVE  WorkKept'
<1>1. MemoryTypes /\ o \in DOMAIN ofs
  BY OpenTyped DEF OpenOf, Live
<1>2. /\ SameIds(ofs, ofs') /\ \A p \in DOMAIN ofs : p # o => ofs'[p] = ofs[p]
      /\ ofs'[o].released = r /\ ofs'[o].deleted = ofs[o].deleted
  BY <1>1, AgainFlags
<1>3. KeptFlags(ofs')
  BY <1>2 DEF KeptFlags, SameIds
<1> QED BY <1>3, FlagsWork

(* O_TRUNC of an open file stops its upload.                               *)
LEMMA TruncateWork ==
  ASSUME Live, NEW t \in DOMAIN rows, rows[t].status \in {0, 1},
         NEW o \in OpenOf(ofs, -t), UNCHANGED <<pc, task, wake>>,
         NEW r \in BOOLEAN, r = (rows[t].status # 1),
         NEW F, F = OpenAgain(o, r), ofs' = inc_writeid(F, o), rows' = stop_upload(F, o)
  PROVE  WorkKept'
<1>1. /\ MemoryTypes /\ o \in DOMAIN ofs /\ rows \in [DOMAIN rows -> Row]
      /\ ofs[o].fileid = -t /\ -(-t) = t /\ \A u \in DOMAIN rows : u \in Nat
  BY OpenTyped, Typed DEF OpenOf, Live
<1>2. /\ F \in [DOMAIN ofs -> OpenFile] /\ F[o].released = r /\ SameIds(ofs, F)
      /\ \A p \in DOMAIN ofs : p # o => F[p] = ofs[p]
  BY <1>1, AgainFlags
<1>3. /\ DOMAIN ofs' = DOMAIN ofs /\ \A p \in DOMAIN ofs : p # o => ofs'[p] = F[p]
      /\ \A p \in DOMAIN ofs : ofs'[p].fileid = F[p].fileid
  BY <1>1, <1>2, WriteidFlags
<1>4. \A x : OpenOf(ofs', x) = OpenOf(ofs, x)
  BY <1>2, <1>3 DEF OpenOf, SameIds
<1>5. rows' = IF r THEN SetStatus(t, 1) ELSE rows
  BY <1>1, <1>2 DEF stop_upload, SameIds
<1>6. /\ DOMAIN rows' = DOMAIN rows /\ \A u \in DOMAIN rows : u # t => rows'[u] = rows[u]
      /\ rows'[t].status = 1
  <2>1. CASE r
    BY <1>1, <1>5, <2>1, StatusSet DEF SameTasks
  <2>2. CASE ~r
    BY <1>5, <2>2
  <2> QED BY <2>1, <2>2
<1>7. \A u \in DOMAIN rows : u # t => SameFile(u)
  <2> SUFFICES ASSUME NEW u \in DOMAIN rows, u # t PROVE SameFile(u)
    OBVIOUS
  <2>1. -u # -t
    BY <1>1
  <2>2. o \notin OpenOf(ofs, -u)
    BY <1>1, <2>1 DEF OpenOf
  <2> QED BY <1>2, <1>3, <1>4, <1>6, <2>2 DEF SameFile, OpenOf
<1>8. RowWork(t)'
  BY <1>4, <1>6 DEF RowWork
<1>9. task.id = t /\ pc \in {"send", "answer"} => SentWork'
  BY <1>6 DEF SentWork
<1>10. PICK T : T = {t}
  OBVIOUS
<1> QED BY <1>6, <1>7, <1>8, <1>9, <1>10, CallWork

(* A data file that is opened: it is released as its row is.               *)
LEMMA DataOpened ==
  ASSUME Live, NEW t \in DOMAIN rows, rows[t].status \in {0, 1}, OpenOf(ofs, -t) = {},
         UNCHANGED <<rows, pc, task, wake>>, \A u \in DOMAIN rows : u # t => SameFile(u),
         NEW o, OpenOf(ofs', -t) = {o}, ofs'[o].writeid = rows[t].int1,
         rows[t].status = 0 => ofs'[o].released
  PROVE  WorkKept'
<1>1. RowWork(t)'
  BY DEF RowWork
<1>2. ASSUME task.id = t, pc \in {"send", "answer"}, task.row.type = "creat" PROVE SentWork'
  <2>1. SentWork
    BY <1>2 DEF Live, WorkKept, Sending
  <2>2. get_file_writeid(t) = {rows[t].int1}
    BY DEF get_file_writeid
  <2>3. {ofs'[p].writeid : p \in OpenOf(ofs', -t)} = {rows[t].int1} /\ OpenOf(ofs', -t) # {}
    OBVIOUS
  <2>4. get_file_writeid(t)' = {rows[t].int1}
    BY <2>3 DEF get_file_writeid
  <2> QED BY <1>2, <2>1, <2>2, <2>4 DEF SentWork, AsSent
<1>3. PICK T : T = {t}
  OBVIOUS
<1> QED BY <1>1, <1>2, <1>3, CallWork

(* psync_fs_open of a pending file that nobody has open: released if its   *)
(* row is.                                                                 *)
LEMMA OpenDataWork ==
  ASSUME Live, NEW t \in DOMAIN rows, rows[t].status \in {0, 1}, OpenOf(ofs, -t) = {}, Room,
         UNCHANGED <<rows, pc, task, wake>>,
         NEW r \in BOOLEAN, r <=> rows[t].status # 1,
         ofs' = With(ofs, NewOpen, File(-t, rows[t].int1, TRUE, r))
  PROVE  WorkKept'
<1>1. MemoryTypes /\ \A u \in DOMAIN rows : u \in Nat
  BY OpenTyped DEF Live
<1>2. PICK f : f = File(-t, rows[t].int1, TRUE, r)
  OBVIOUS
<1>3. f.fileid = -t /\ f.writeid = rows[t].int1 /\ (rows[t].status = 0 => f.released)
  <2>1. f.fileid = -t /\ f.writeid = rows[t].int1
    BY <1>2 DEF File
  <2>2. f.released = r
    BY <1>2 DEF File
  <2>3. rows[t].status = 0 => r
    OBVIOUS
  <2> QED BY <2>1, <2>2, <2>3, Zenon
<1>4. PICK o : o = NewOpen
  OBVIOUS
<1>5. /\ DOMAIN ofs' = DOMAIN ofs \cup {o} /\ ofs'[o] = f
      /\ \A p \in DOMAIN ofs : ofs'[p] = ofs[p]
      /\ \A x : f.fileid # x => OpenOf(ofs', x) = OpenOf(ofs, x)
  BY <1>1, <1>2, <1>4, NewOpenFile, ZenonT(90)
<1>6. \A u \in DOMAIN rows : u # t => SameFile(u)
  <2> SUFFICES ASSUME NEW u \in DOMAIN rows, u # t PROVE SameFile(u)
    OBVIOUS
  <2>1. -u # -t
    BY <1>1
  <2>2. OpenOf(ofs', -u) = OpenOf(ofs, -u)
    BY <1>3, <1>5, <2>1
  <2>3. \A p \in OpenOf(ofs, -u) : ofs'[p] = ofs[p]
    BY <1>5 DEF OpenOf
  <2> QED BY <2>2, <2>3 DEF SameFile
<1>7. /\ ofs'[o].fileid = -t /\ ofs'[o].writeid = rows[t].int1 /\ o \in DOMAIN ofs'
      /\ rows[t].status = 0 => ofs'[o].released
  BY <1>3, <1>5, Zenon
<1>8. OpenOf(ofs', -t) = {o}
  <2>1. \A p \in DOMAIN ofs' : p # o => ofs'[p].fileid # -t
    BY <1>5 DEF OpenOf
  <2> QED BY <1>7, <2>1, ZenonT(90) DEF OpenOf
<1> QED BY <1>6, <1>7, <1>8, DataOpened

(* psync_fs_open of a pending file                                         *)
LEMMA OpenPendingWork ==
  ASSUME Live, NEW h \in Handles, NEW trunc, OpenPending(h, trunc), odd' = {}
  PROVE  WorkKept'
<1>1. UNCHANGED <<pc, task, wake>>
  BY DEF OpenPending, upload
<1>2. PICK cr \in creats :
        LET t == cr.id
            open == OpenOf(ofs, -t)
            released == rows[t].status # 1
        IN /\ t \in DOMAIN rows
           /\ \/ \E o \in open :
                   LET F == OpenAgain(o, released)
                       change == trunc /\ data[t] # 0
                   IN /\ ofs' = IF change THEN inc_writeid(F, o) ELSE F
                      /\ rows' = IF change THEN stop_upload(F, o) ELSE rows
                      /\ odd' = IF ofs[o].released /\ ~released THEN odd \cup {"crossed"} ELSE odd
              \/ /\ open = {} /\ Room
                 /\ ofs' = With(ofs, NewOpen, File(-t, rows[t].int1, TRUE, released))
                 /\ UNCHANGED rows
  BY DEF OpenPending
<1>3. PICK t : t = cr.id
  OBVIOUS
<1>4. PICK r \in BOOLEAN : r = (rows[t].status # 1) /\ (r <=> rows[t].status # 1)
  OBVIOUS
<1>5. t \in DOMAIN rows /\ rows[t].status \in {0, 1}
  <2>1. Entry(cr)
    BY Typed DEF Live
  <2> QED BY <1>3, <2>1, OpenTyped DEF Entry, Live
<1>6. CASE OpenOf(ofs, -t) = {} /\ Room /\ ofs' = With(ofs, NewOpen, File(-t, rows[t].int1, TRUE, r))
           /\ UNCHANGED rows
  BY <1>1, <1>4, <1>5, <1>6, OpenDataWork
<1>7. ASSUME NEW o \in OpenOf(ofs, -t),
             ofs' = IF trunc /\ data[t] # 0 THEN inc_writeid(OpenAgain(o, r), o) ELSE OpenAgain(o, r),
             rows' = IF trunc /\ data[t] # 0 THEN stop_upload(OpenAgain(o, r), o) ELSE rows,
             odd' = IF ofs[o].released /\ ~r THEN odd \cup {"crossed"} ELSE odd
      PROVE  WorkKept'
  <2>1. CASE trunc /\ data[t] # 0
    BY <1>1, <1>4, <1>5, <1>7, <2>1, TruncateWork
  <2>2. CASE ~(trunc /\ data[t] # 0)
    BY <1>1, <1>5, <1>7, <2>2, OpenAgainWork
  <2> QED BY <2>1, <2>2
<1> QED BY <1>2, <1>3, <1>4, <1>6, <1>7

(* psync_fs_flush: the row is ready, and the thread will be woken; the file*)
(* was released, or is so no more ("early").                               *)
LEMMA ReleaseRowWork ==
  ASSUME Live, NEW c \in calls, ReleaseRow(c), odd' = {}
  PROVE  WorkKept'
<1>1. PICK o : o = c.of
  OBVIOUS
<1>2. PICK t : t = -ofs[o].fileid
  OBVIOUS
<1>3. /\ UNCHANGED <<ofs, pc, task>> /\ o \in DOMAIN ofs /\ c.writeid \in Nat
      /\ rows \in [DOMAIN rows -> Row] /\ ofs[o].fileid \in Int
  BY <1>1, OpenTyped, Typed
     DEF ReleaseRow, memory, upload, Live, Known, Good, FilesInv, References, CallInv, MemoryTypes, FileCall
<1>4. CASE UNCHANGED <<rows, wake>>
  <2>1. KeptFlags(ofs')
    BY <1>3 DEF KeptFlags
  <2> QED BY <1>3, <1>4, <2>1, FlagsWork
<1>5. ASSUME t \in DOMAIN rows, rows' = [rows EXCEPT ![t].status = 0, ![t].int1 = c.writeid],
             wake' = TRUE, odd' = OddIf(Early(c), "early")
      PROVE  WorkKept'
  <2>1. /\ ofs[o].fileid = -t /\ OpenOf(ofs, -t) = {o} /\ -t < 0 /\ \A u \in DOMAIN rows : u \in Nat
    BY <1>2, <1>3, <1>5, OpenTyped, SMTT(30) DEF Live
  <2>2. ~Early(c)
    BY <1>5 DEF OddIf
  <2>3. /\ DOMAIN rows' = DOMAIN rows /\ \A u \in DOMAIN rows : u # t => rows'[u] = rows[u]
        /\ rows'[t].status = 0
    <3>1. SameTasks(rows') /\ (\A u \in DOMAIN rows : u # t => rows'[u] = rows[u]) /\ rows'[t].status = 0
      BY <1>3, <1>5, ReleasedRow
    <3> QED BY <3>1 DEF SameTasks
  <2>4. rows'[t].int1 = c.writeid
    <3>1. [rows EXCEPT ![t].status = 0, ![t].int1 = c.writeid][t].int1 = c.writeid
      BY <1>3, <1>5, IntSet
    <3> QED BY <1>5, <3>1
  <2>5. RowWork(t)'
    BY <1>1, <1>3, <2>1, <2>2, <2>3, <2>4 DEF RowWork, Early
  <2>6. \A u \in DOMAIN rows : u # t => SameFile(u)
    BY <1>3, <2>3 DEF SameFile
  <2>7. task.id = t => SentWork'
    BY <1>3, <1>5, <2>3 DEF SentWork
  <2>8. PICK T : T = {t}
    OBVIOUS
  <2> QED BY <1>3, <1>5, <2>3, <2>5, <2>6, <2>7, <2>8, CallWork
<1> QED BY <1>1, <1>2, <1>4, <1>5 DEF ReleaseRow

(* The row's write id follows that of its file, which an open file has.    *)
LEMMA RaiseWriteidWork ==
  ASSUME Live, NEW c \in calls, RaiseWriteid(c), odd' = {}
  PROVE  WorkKept'
<1>1. PICK o : o = c.of
  OBVIOUS
<1>2. PICK t : t = -ofs[o].fileid
  OBVIOUS
<1>3. /\ UNCHANGED <<ofs, pc, task, wake>> /\ o \in DOMAIN ofs /\ c.writeid \in Nat
      /\ rows \in [DOMAIN rows -> Row] /\ ofs[o].fileid \in Int
  BY <1>1, OpenTyped, Typed
     DEF RaiseWriteid, memory, upload, Live, Known, Good, FilesInv, References, CallInv, MemoryTypes, FileCall
<1>4. CASE UNCHANGED rows
  <2>1. KeptFlags(ofs')
    BY <1>3 DEF KeptFlags
  <2> QED BY <1>3, <1>4, <2>1, FlagsWork
<1>5. ASSUME t \in DOMAIN rows, rows' = [rows EXCEPT ![t].int1 = c.writeid],
             rows[t].int1 < c.writeid, odd' = OddIf(Early(c), "early")
      PROVE  WorkKept'
  <2>1. /\ ofs[o].fileid = -t /\ OpenOf(ofs, -t) = {o} /\ -t < 0 /\ \A u \in DOMAIN rows : u \in Nat
        /\ rows[t].int1 \in Nat
    BY <1>2, <1>3, <1>5, OpenTyped DEF Live
  <2>2. ~Early(c)
    BY <1>5 DEF OddIf
  <2>3. rows'[t].int1 = c.writeid /\ \A u \in DOMAIN rows : u # t => rows'[u] = rows[u]
    <3>1. /\ [rows EXCEPT ![t].int1 = c.writeid][t].int1 = c.writeid
          /\ \A u \in DOMAIN rows : u # t => [rows EXCEPT ![t].int1 = c.writeid][u] = rows[u]
      BY <1>3, <1>5, IntSet
    <3> QED BY <1>5, <3>1
  <2>4. DOMAIN rows' = DOMAIN rows /\ rows'[t].status = rows[t].status
    <3>1. SameTasks(rows') /\ \A u \in DOMAIN rows : rows'[u].status = rows[u].status
      BY <1>3, <1>5, WriteidRaised
    <3> QED BY <1>5, <3>1 DEF SameTasks
  <2>5. RowWork(t) /\ (t \in Pending' => t \in Pending)
    BY <1>3, <1>5, <2>4 DEF Live, WorkKept, Pending, Finishing
  <2>6. RowWork(t)'
    BY <1>1, <1>3, <2>1, <2>2, <2>3, <2>4, <2>5 DEF RowWork, Early
  <2>7. \A u \in DOMAIN rows : u # t => SameFile(u)
    BY <1>3, <2>3, <2>4 DEF SameFile
  <2>8. ASSUME task.id = t, pc \in {"send", "answer"}, task.row.type = "creat" PROVE SentWork'
    <3>1. SentWork /\ task.row.int1 \in Nat
      BY <2>8, Typed DEF Live, WorkKept, Sending, Row, Working
    <3>2. get_file_writeid(t)' = get_file_writeid(t)
      BY <1>3, <2>1 DEF get_file_writeid
    <3>3. rows[t].int1 >= task.row.int1 => rows'[t].int1 >= task.row.int1
      BY <1>3, <1>5, <2>1, <2>3, <3>1
    <3> QED BY <1>3, <2>4, <2>8, <3>1, <3>2, <3>3 DEF SentWork, AsSent
  <2>9. PICK T : T = {t}
    OBVIOUS
  <2> QED BY <1>3, <1>5, <2>4, <2>6, <2>7, <2>8, <2>9, CallWork
<1> QED BY <1>1, <1>2, <1>4, <1>5 DEF RaiseWriteid

(* The last reference to a pending file: nobody will flush it any more and *)
(* nobody has to; a removed file is cancelled and the thread woken.        *)
LEMMA LastCloseWork ==
  ASSUME Live, NEW c \in calls, c.step = "drop", NEW o, o = c.of, o \in DOMAIN ofs,
         ofs[o].refcnt = 1, UNCHANGED <<pc, task>>,
         NEW t, t = -ofs[o].fileid,
         ofs' = Restrict(ofs, DOMAIN ofs \ {o}),
         rows' = IF ofs[o].deleted /\ t \in DOMAIN rows /\ rows[t].status = 12
                 THEN SetStatus(t, 11) ELSE rows,
         wake' = (wake \/ (ofs[o].deleted /\ ofs[o].fileid < 0))
  PROVE  WorkKept'
<1>1. /\ ofs[o].fileid \in Int /\ rows \in [DOMAIN rows -> Row]
      /\ \A u \in DOMAIN rows : u \in Nat \ {0}
  BY OpenTyped, Typed DEF Live
<1>2. DOMAIN ofs' = DOMAIN ofs \ {o} /\ \A p \in DOMAIN ofs' : ofs'[p] = ofs[p]
  BY DEF Restrict
<1>3. \A u \in DOMAIN rows : u # t =>
        /\ OpenOf(ofs', -u) = OpenOf(ofs, -u)
        /\ \A p \in OpenOf(ofs, -u) : ofs'[p] = ofs[p]
  <2> SUFFICES ASSUME NEW u \in DOMAIN rows, u # t
               PROVE  /\ OpenOf(ofs', -u) = OpenOf(ofs, -u)
                      /\ \A p \in OpenOf(ofs, -u) : ofs'[p] = ofs[p]
    OBVIOUS
  <2>1. ofs[o].fileid # -u
    BY <1>1
  <2> QED BY <1>2, <2>1 DEF OpenOf
<1>4. CASE ~(ofs[o].fileid < 0)
  <2>1. t \notin DOMAIN rows
    BY <1>1, <1>4
  <2>2. rows' = rows
    BY <2>1
  <2>3. \A u \in DOMAIN rows : SameFile(u)
    BY <1>3, <2>1, <2>2 DEF SameFile
  <2>4. PICK T : T = {}
    OBVIOUS
  <2>5. wake => wake'
    OBVIOUS
  <2> QED BY <2>2, <2>3, <2>4, <2>5, CallWork
<1>5. CASE ofs[o].fileid < 0
  <2>1. /\ t \in DOMAIN rows /\ ofs[o].fileid = -t /\ OpenOf(ofs, -t) = {o}
        /\ rows[t].status \in {0, 11, 12} /\ rows[t].status # 11 /\ rows[t].int1 = ofs[o].writeid
    BY <1>1, <1>5, OpenTyped, LastReference, ZenonT(90) DEF Live, Known
  <2>2. OpenOf(ofs', -t) = {}
    BY <1>2, <2>1 DEF OpenOf
  <2>3. /\ DOMAIN rows' = DOMAIN rows
        /\ \A u \in DOMAIN rows : u # t => rows'[u] = rows[u]
        /\ \/ rows' = rows /\ ~(ofs[o].deleted /\ rows[t].status = 12)
           \/ rows[t].status = 12 /\ rows'[t].status = 11 /\ wake'
    <3>1. CASE ofs[o].deleted /\ rows[t].status = 12
      <4>1. rows' = SetStatus(t, 11)
        BY <2>1, <3>1
      <4>2. SameTasks(rows') /\ (\A u \in DOMAIN rows : u # t => rows'[u] = rows[u]) /\ rows'[t].status = 11
        BY <1>1, <2>1, <4>1, StatusSet
      <4> QED BY <1>5, <3>1, <4>2 DEF SameTasks
    <3>2. CASE ~(ofs[o].deleted /\ rows[t].status = 12)
      BY <3>2
    <3> QED BY <3>1, <3>2
  <2>4. \A u \in DOMAIN rows : u # t => SameFile(u)
    BY <1>3, <2>3 DEF SameFile
  <2>5. RowWork(t) /\ (t \in Pending' => t \in Pending)
    BY <2>1, <2>3 DEF Live, WorkKept, Pending, Finishing
  <2>6. RowWork(t)'
    <3>1. t \in Pending /\ rows[t].status = 12 => ofs[o].deleted
      BY <2>1, <2>5 DEF RowWork
    <3>2. t \in Pending' => rows'[t].status \notin {1, 12}
      BY <2>1, <2>3, <2>5, <3>1
    <3> QED BY <2>2, <3>2 DEF RowWork
  <2>7. rows'[t].status \in {0, 11} => wake' \/ rows[t].status \in {0, 11}
    BY <2>3
  <2>8. wake => wake'
    OBVIOUS
  <2>9. ASSUME task.id = t, pc \in {"send", "answer"}, task.row.type = "creat" PROVE SentWork'
    <3>1. SentWork
      BY <2>9 DEF Live, WorkKept, Sending
    <3>2. rows' = rows
      BY <2>3, <2>9, <3>1 DEF SentWork
    <3>3. get_file_writeid(t) = {rows[t].int1}
      <4>1. {ofs[p].writeid : p \in OpenOf(ofs, -t)} = {rows[t].int1} /\ OpenOf(ofs, -t) # {}
        BY <2>1
      <4> QED BY <4>1 DEF get_file_writeid
    <3>4. get_file_writeid(t)' = {rows[t].int1}
      BY <2>2, <3>2 DEF get_file_writeid
    <3> QED BY <2>8, <2>9, <3>1, <3>2, <3>3, <3>4 DEF SentWork, AsSent
  <2>10. PICK T : T = {t}
    OBVIOUS
  <2> QED BY <2>1, <2>3, <2>4, <2>6, <2>7, <2>8, <2>9, <2>10, CallWork, SMTT(30)
<1> QED BY <1>4, <1>5

(* psync_fs_dec_of_refcnt                                                  *)
LEMMA DecOfRefcntWork ==
  ASSUME Live, NEW c \in calls, psync_fs_dec_of_refcnt(c)
  PROVE  WorkKept'
<1>1. PICK o : o = c.of
  OBVIOUS
<1>2. PICK t : t = -ofs[o].fileid
  OBVIOUS
<1>3. UNCHANGED <<pc, task>> /\ c.step = "drop" /\ o \in DOMAIN ofs /\ MemoryTypes
  BY <1>1, OpenTyped
     DEF psync_fs_dec_of_refcnt, upload, Live, Known, Good, FilesInv, References, CallInv
<1>4. CASE ofs' = [ofs EXCEPT ![o].refcnt = @ - 1] /\ UNCHANGED <<rows, wake>>
  <2>1. KeptFlags(ofs')
    BY <1>3, <1>4, FlagsKept
  <2> QED BY <1>3, <1>4, <2>1, FlagsWork
<1>5. CASE /\ ofs[o].refcnt = 1 /\ ofs' = Restrict(ofs, DOMAIN ofs \ {o})
           /\ rows' = IF ofs[o].deleted /\ t \in DOMAIN rows /\ rows[t].status = 12
                      THEN SetStatus(t, 11) ELSE rows
           /\ wake' = (wake \/ (ofs[o].deleted /\ ofs[o].fileid < 0))
  BY <1>1, <1>2, <1>3, <1>5, LastCloseWork
<1> QED BY <1>1, <1>2, <1>4, <1>5 DEF psync_fs_dec_of_refcnt

(* A row about a file that is removed is added, and the thread is woken.   *)
LEMMA UnlinkAddedWork ==
  ASSUME Live, UNCHANGED <<pc, task>>, wake' = TRUE, KeptFlags(ofs'),
         NEW t, t = NewTask, NEW S, DOMAIN S = DOMAIN rows, NEW f, NEW r, NEW s \in {0, 11},
         rows' = With(S, t, Unlink(f, r, s)),
         NEW T, t \in T, pc \in {"send", "answer"} => task.id \notin T \ {t},
         \A u \in DOMAIN rows : u \notin T => S[u] = rows[u],
         \A u \in T \cap DOMAIN rows : RowWork(u)'
  PROVE  WorkKept'
<1>1. t \in Nat \ {0} /\ \A u \in DOMAIN rows : u < t /\ u \in Nat
  BY NewTaskFresh DEF Live, Known, Good, FilesInv, TableTypes
<1>2. /\ DOMAIN rows' = DOMAIN rows \cup {t} /\ \A u \in DOMAIN rows : rows'[u] = S[u]
      /\ rows'[t].status = s
  BY <1>1 DEF With, Unlink
<1>3. \A u \in DOMAIN rows : u \notin T => SameFile(u)
  BY <1>2, FlagsFile
<1>4. RowWork(t)'
  <2>1. \A p \in DOMAIN ofs : ofs[p].fileid # -t
    BY <1>1, OpenTyped DEF Live
  <2>2. OpenOf(ofs', -t) = {}
    BY <2>1 DEF KeptFlags, OpenOf
  <2>3. rows'[t].status \notin {1, 12}
    BY <1>2
  <2> QED BY <2>2, <2>3 DEF RowWork
<1>5. pc \in {"send", "answer"} => task.id \notin T
  BY <1>1, Typed DEF Live, Working
<1> QED BY <1>2, <1>3, <1>4, <1>5, CallWork

(* psync_fstask_unlink                                                     *)
LEMMA UnlinkServerWork ==
  ASSUME Live, UNCHANGED <<pc, task, ofs>>, wake' = TRUE,
         NEW x, rows' = With(rows, NewTask, Unlink(x, 0, 0))
  PROVE  WorkKept'
<1>1. PICK t : t = NewTask
  OBVIOUS
<1>2. t \in Nat \ {0} /\ \A u \in DOMAIN rows : u < t /\ u \in Nat
  BY <1>1, NewTaskFresh DEF Live, Known, Good, FilesInv, TableTypes
<1>3. KeptFlags(ofs') /\ t \notin DOMAIN rows
  BY <1>2 DEF KeptFlags
<1>4. PICK T : T = {t}
  OBVIOUS
<1> QED BY <1>1, <1>3, <1>4, UnlinkAddedWork

(* The pending file: its upload is cancelled now or at the last close, or  *)
(* it is under way and goes on.                                            *)
LEMMA UnlinkPendingWork ==
  ASSUME Live, UNCHANGED <<pc, task>>, wake' = TRUE,
         NEW d \in DOMAIN rows, rows[d].status \in {0, 1}, NEW r,
         rows' = With(stop_and_delete_file(d), NewTask, Unlink(-d, r, 11)),
         ofs' = mark_openfile_deleted(d)
  PROVE  WorkKept'
<1>1. PICK t : t = NewTask
  OBVIOUS
<1>2. t \in Nat \ {0} /\ \A u \in DOMAIN rows : u < t /\ u \in Nat
  BY <1>1, NewTaskFresh DEF Live, Known, Good, FilesInv, TableTypes
<1>3. /\ MemoryTypes /\ KeptFlags(ofs') /\ t \notin DOMAIN rows /\ rows \in [DOMAIN rows -> Row]
      /\ task.id # d => \A o \in OpenOf(ofs, -d) : ofs'[o].deleted
  BY <1>2, OpenTyped, Typed, DeletedFlags DEF Live
<1>4. OpenOf(ofs', -d) = OpenOf(ofs, -d)
  BY <1>3 DEF KeptFlags, OpenOf
<1>5. PICK S : S = stop_and_delete_file(d)
  OBVIOUS
<1>6. CASE task.id = d
  <2>1. S = rows
    BY <1>5, <1>6 DEF stop_and_delete_file
  <2>2. PICK T : T = {t}
    OBVIOUS
  <2> QED BY <1>1, <1>3, <1>5, <2>1, <2>2, UnlinkAddedWork
<1>7. CASE task.id # d
  <2>1. PICK s \in {11, 12} : s = IF OpenOf(ofs, -d) # {} THEN 12 ELSE 11
    OBVIOUS
  <2>2. S = SetStatus(d, s)
    BY <1>5, <1>7, <2>1 DEF stop_and_delete_file
  <2>3. /\ DOMAIN S = DOMAIN rows /\ \A u \in DOMAIN rows : u # d => S[u] = rows[u]
        /\ S[d].status = s
    <3>1. SameTasks(S) /\ (\A u \in DOMAIN rows : u # d => S[u] = rows[u]) /\ S[d].status = s
      BY <1>3, <2>2, StatusSet
    <3> QED BY <3>1 DEF SameTasks
  <2>4. rows'[d].status = s
    BY <1>1, <1>3, <1>5, <2>3 DEF With
  <2>5. RowWork(d)'
    BY <1>3, <1>4, <1>7, <2>1, <2>4 DEF RowWork
  <2>6. PICK T : T = {t, d}
    OBVIOUS
  <2>7. \A u \in T \cap DOMAIN rows : RowWork(u)'
    BY <1>3, <2>5, <2>6
  <2> QED BY <1>1, <1>3, <1>5, <1>7, <2>3, <2>6, <2>7, UnlinkAddedWork
<1> QED BY <1>6, <1>7

(* psync_fstask_unlink in all its cases.                                   *)
LEMMA UnlinkCallWork ==
  ASSUME Live, psync_fstask_unlink \/ UnlinkFails
  PROVE  WorkKept'
<1>1. CASE psync_fstask_unlink
  <2>1. UNCHANGED <<pc, task>> /\ wake' = TRUE
    BY <1>1 DEF psync_fstask_unlink, upload
  <2>2. ASSUME NEW f \in table, rows' = With(rows, NewTask, Unlink(f.id, 0, 0)), UNCHANGED ofs
        PROVE  WorkKept'
    BY <2>1, <2>2, UnlinkServerWork
  <2>3. ASSUME NEW cr \in creats, cr.id \in DOMAIN rows,
               rows' = With(stop_and_delete_file(cr.id), NewTask, Unlink(-cr.id, cr.rfileid, 11)),
               ofs' = mark_openfile_deleted(cr.id)
        PROVE  WorkKept'
    <3>1. rows[cr.id].status \in {0, 1}
      BY <2>3, Typed, OpenTyped DEF Entry, Live
    <3> QED BY <2>1, <2>3, <3>1, UnlinkPendingWork
  <2> QED BY <1>1, <2>2, <2>3 DEF psync_fstask_unlink
<1>2. CASE UnlinkFails
  <2>1. \A cr \in creats : cr.id \in DOMAIN rows
    BY Typed DEF Entry, Live
  <2> QED BY <1>2, <2>1 DEF UnlinkFails
<1> QED BY <1>1, <1>2

-----------------------------------------------------------------------------
(* The upload thread.  Its steps that leave rows and open files alone.     *)
LEMMA ThreadWork ==
  ASSUME Live, UNCHANGED ofs, Asleep', Sending', Pending' \subseteq Pending,
         \A u \in DOMAIN rows' : u \in DOMAIN rows /\ rows'[u].status = rows[u].status
                                 /\ rows'[u].int1 = rows[u].int1
  PROVE  WorkKept'
<1> SUFFICES ASSUME NEW u \in DOMAIN rows' PROVE RowWork(u)'
  BY DEF WorkKept
<1>1. RowWork(u) /\ SameFile(u)
  BY DEF Live, WorkKept, SameFile
<1> QED BY <1>1, RowStays

(* psync_fsupload_check_tasks: it waits only when no row is ready.         *)
LEMMA CheckTasksWork ==
  ASSUME Live, psync_fsupload_check_tasks
  PROVE  WorkKept'
<1>1. pc = "check" /\ UNCHANGED <<rows, ofs, wake>>
  BY DEF psync_fsupload_check_tasks, memory
<1>2. ASSUME NEW t \in DOMAIN rows, rows[t].status \in {0, 11},
             task' = [id |-> t, row |-> rows[t]],
             pc' = IF rows[t].status = 11 THEN "cancel" ELSE "send"
      PROVE  pc' \notin {"wait", "end", "cache", "finish"} /\ Sending'
  <2>1. rows[t].int1 \in Nat
    BY OpenTyped DEF Live
  <2>2. pc' = "send" => rows[t].status = 0
    BY <1>2
  <2> QED BY <1>1, <1>2, <2>1, <2>2 DEF Sending, SentWork
<1>3. ASSUME {t \in DOMAIN rows : Oldest(t) /\ rows[t].status \in {0, 11}} = {}, pc' = "wait"
      PROVE  NoFree'
  BY <1>1, <1>3 DEF NoFree, Oldest
<1>4. Asleep' /\ Sending' /\ Finishing' = {}
  BY <1>2, <1>3 DEF psync_fsupload_check_tasks, Asleep, Sending, Finishing
<1>5. Pending' \subseteq Pending
  BY <1>1, <1>4 DEF Pending, Finishing
<1> QED BY <1>1, <1>4, <1>5, ThreadWork

(* The thread is woken, clears its batch, loses the connection.            *)
LEMMA IdleWork ==
  ASSUME Live, Woken \/ EndOfBatch \/ Failed
  PROVE  WorkKept'
<1>1. UNCHANGED <<rows, ofs>>
  BY DEF Woken, EndOfBatch, Failed, memory
<1>2. Finishing = {} /\ Finishing' = {} /\ Sending'
  BY DEF Woken, EndOfBatch, Failed, Finishing, Sending
<1>3. Asleep'
  <2>1. CASE Woken
    BY <2>1 DEF Woken, Asleep
  <2>2. CASE EndOfBatch
    BY <1>1, <2>2 DEF EndOfBatch, Live, WorkKept, Asleep, NoFree, Oldest
  <2>3. CASE Failed
    BY <2>3 DEF Failed, Asleep
  <2> QED BY <2>1, <2>2, <2>3
<1> QED BY <1>1, <1>2, <1>3, ThreadWork DEF Pending

(* The thread sends the task: an upload goes out with the write id of its  *)
(* file, or the thread comes back to it.                                   *)
LEMMA SendWork ==
  ASSUME Live, SendUnlink \/ SendCreat, odd' = {}
  PROVE  WorkKept'
<1>1. UNCHANGED <<rows, ofs>> /\ pc = "send" /\ pc' \in {"answer", "end"}
  BY DEF SendUnlink, SendCreat, memory
<1>2. Finishing = {} /\ Finishing' = {}
  BY <1>1 DEF Finishing
<1>3. CASE pc' = "end"
  <2>1. wake'
    BY <1>3 DEF SendUnlink, SendCreat
  <2>2. Asleep' /\ Sending'
    BY <1>3, <2>1 DEF Asleep, Sending
  <2> QED BY <1>1, <1>2, <2>2, ThreadWork DEF Pending
<1>4. CASE pc' = "answer" /\ task.row.type = "creat"
  <2>1. /\ task.row.int1 \in get_file_writeid(task.id) /\ wake' = wake
        /\ task' = [id |-> task.id, row |-> task.row, content |-> data[task.id]]
    BY <1>1, <1>4 DEF SendUnlink, SendCreat
  <2>2. SentWork /\ task.id \in DOMAIN rows
    BY <1>1, <1>4, Typed DEF Live, WorkKept, Sending, Working
  <2>3. \A w \in get_file_writeid(task.id) : w = task.row.int1
    <3>1. CASE OpenOf(ofs, -task.id) = {}
      BY <2>1, <3>1 DEF get_file_writeid
    <3>2. CASE OpenOf(ofs, -task.id) # {}
      <4>1. PICK o \in DOMAIN ofs : ofs[o].fileid = -task.id
        BY <3>2 DEF OpenOf
      <4>2. OpenOf(ofs, -task.id) = {o}
        BY <2>2, <4>1, OpenTyped DEF Live
      <4>3. get_file_writeid(task.id) = {ofs[p].writeid : p \in OpenOf(ofs, -task.id)}
        BY <3>2 DEF get_file_writeid
      <4> QED BY <2>1, <4>2, <4>3
    <3> QED BY <3>1, <3>2
  <2>4. task'.id = task.id /\ task'.row = task.row
    BY <2>1
  <2>5. get_file_writeid(task.id)' = get_file_writeid(task.id)
    BY <1>1, <2>4 DEF get_file_writeid
  <2>6. AsSent' /\ Asleep'
    BY <1>4, <2>3, <2>4, <2>5 DEF AsSent, Asleep
  <2>7. Sending'
    BY <1>1, <1>4, <2>1, <2>2, <2>4, <2>6 DEF Sending, SentWork
  <2> QED BY <1>1, <1>2, <2>6, <2>7, ThreadWork DEF Pending
<1>5. CASE pc' = "answer" /\ task.row.type # "creat"
  <2>1. task' = task
    BY <1>5 DEF SendUnlink, SendCreat
  <2>2. Asleep' /\ Sending'
    BY <1>5, <2>1 DEF Asleep, Sending
  <2> QED BY <1>1, <1>2, <2>2, ThreadWork DEF Pending
<1> QED BY <1>1, <1>3, <1>4, <1>5

(* The server answers, its events come.                                    *)
LEMMA ServerWork ==
  ASSUME Live, uploadfile \/ deletefile \/ Diff
  PROVE  WorkKept'
<1>1. UNCHANGED <<rows, ofs, pc, task, wake>>
  BY DEF uploadfile, deletefile, Diff, memory, upload
<1>2. KeptFlags(ofs')
  BY <1>1 DEF KeptFlags
<1> QED BY <1>1, <1>2, FlagsWork

(* psync_process_task_creat, accepted: the file is one of the server's.    *)
LEMMA AcceptWork ==
  ASSUME Live, pc = "answer", answer # NoFile, task.row.type = "creat",
         UNCHANGED <<rows, task>>, pc' = "cache", ofs' = update_openfile(task.id)
  PROVE  WorkKept'
<1>1. PICK t : t = task.id
  OBVIOUS
<1>2. /\ t \in DOMAIN rows /\ MemoryTypes /\ \A u \in DOMAIN rows : u \in Nat \ {0}
      /\ \A o \in DOMAIN ofs : ofs[o].fileid \in Int
  BY <1>1, Typed, OpenTyped DEF Live, Working
<1>3. answer.id > 0 /\ answer.id \in Nat
  BY Typed DEF Live, Known, NameKnown, Thread, Holds, ServerFile
<1>4. /\ DOMAIN ofs' = DOMAIN ofs
      /\ \A p \in DOMAIN ofs : /\ ofs[p].fileid # -t => ofs'[p] = ofs[p]
                               /\ ofs[p].fileid = -t => ofs'[p].fileid = answer.id
  BY <1>1, <1>2, AcceptedIds
<1>5. Asleep' /\ Sending' /\ Finishing' = {t}
  BY <1>1 DEF Asleep, Sending, Finishing
<1>6. ASSUME NEW u \in DOMAIN rows, u # t PROVE RowWork(u)'
  <2>1. -u # -t /\ answer.id # -u
    <3>1. u \in Nat \ {0} /\ t \in Nat \ {0} /\ answer.id \in Nat
      BY <1>2, <1>3
    <3> QED BY <1>3, <1>6, <3>1
  <2>5. \A p \in DOMAIN ofs : ofs'[p].fileid = -u <=> ofs[p].fileid = -u
    <3> SUFFICES ASSUME NEW p \in DOMAIN ofs PROVE ofs'[p].fileid = -u <=> ofs[p].fileid = -u
      OBVIOUS
    <3>1. CASE ofs[p].fileid = -t
      BY <1>4, <2>1, <3>1
    <3>2. CASE ofs[p].fileid # -t
      BY <1>4, <3>2
    <3> QED BY <3>1, <3>2
  <2>2. OpenOf(ofs', -u) = OpenOf(ofs, -u)
    BY <1>4, <2>5 DEF OpenOf
  <2>3. \A p \in OpenOf(ofs, -u) : ofs'[p] = ofs[p]
    BY <1>4, <2>1 DEF OpenOf
  <2>4. RowWork(u) /\ SameFile(u) /\ u \in Pending
    BY <2>2, <2>3 DEF Live, WorkKept, SameFile, Pending, Finishing
  <2> QED BY <2>4, RowStays
<1>7. RowWork(t)'
  <2>1. \A p \in DOMAIN ofs' : ofs'[p].fileid # -t
    BY <1>2, <1>3, <1>4
  <2>2. OpenOf(ofs', -t) = {} /\ t \notin Pending'
    BY <1>5, <2>1 DEF OpenOf, Pending
  <2> QED BY <2>2 DEF RowWork
<1> QED BY <1>5, <1>6, <1>7 DEF WorkKept

(* A row that learns what the server made keeps its status and write id.   *)
LEMMA SfileFields ==
  ASSUME rows \in [DOMAIN rows -> Row], NEW t \in DOMAIN rows, NEW id \in Int,
         rows' = [rows EXCEPT ![t].sfile = id]
  PROVE  /\ DOMAIN rows' = DOMAIN rows
         /\ \A u \in DOMAIN rows : rows'[u].status = rows[u].status /\ rows'[u].int1 = rows[u].int1
<1>1. SameInts(rows')
  BY Zenon, SfileInts
<1>2. SameTasks(rows') /\ \A u \in DOMAIN rows : rows'[u].status = rows[u].status
  BY Zenon, SfileSet
<1> QED BY <1>1, <1>2 DEF SameInts, SameTasks

(* A rejected one: the file changed while it was sent, so its row is no    *)
(* more ready or the thread will be woken.                                 *)
LEMMA RejectWork ==
  ASSUME Live, pc = "answer", task.row.type = "creat", UNCHANGED <<ofs, wake>>, pc' = "end",
         ~SameWriteid(task.id, task.row.int1), answer # NoFile,
         rows' = IF OpenOf(ofs, -task.id) # {} THEN [rows EXCEPT ![task.id].sfile = answer.id] ELSE rows
  PROVE  WorkKept'
<1>1. PICK t : t = task.id
  OBVIOUS
<1>2. /\ t \in DOMAIN rows /\ Oldest(t) /\ rows \in [DOMAIN rows -> Row] /\ answer.id \in Int
      /\ \A u \in DOMAIN rows : u \in Nat
  BY <1>1, Typed DEF Live, Working, Known, NameKnown, Thread, Holds
<1>3. /\ DOMAIN rows' = DOMAIN rows
      /\ \A u \in DOMAIN rows : rows'[u].status = rows[u].status /\ rows'[u].int1 = rows[u].int1
  <2>1. CASE rows' = rows
    BY <2>1
  <2>2. CASE rows' = [rows EXCEPT ![t].sfile = answer.id]
    <3>1. PICK id \in Int : id = answer.id
      BY <1>2
    <3>2. rows' = [rows EXCEPT ![t].sfile = id] /\ rows \in [DOMAIN rows -> Row] /\ t \in DOMAIN rows
      BY <1>2, <2>2, <3>1
    <3> QED BY <3>2, SfileFields
  <2> QED BY Zenon, <1>1, <2>1, <2>2
<1>4. wake \/ rows[t].status = 1
  <2>1. SentWork
    BY DEF Live, WorkKept, Sending
  <2>2. ~AsSent
    <3>1. \E w : w \in get_file_writeid(t)
      <4>1. CASE OpenOf(ofs, -t) = {}
        <5>1. get_file_writeid(t) = {rows[t].int1}
          BY <4>1, Zenon DEF get_file_writeid
        <5> QED BY <5>1, Zenon
      <4>2. CASE OpenOf(ofs, -t) # {}
        <5>1. PICK o : o \in OpenOf(ofs, -t)
          BY <4>2
        <5>2. ofs[o].writeid \in {ofs[p].writeid : p \in OpenOf(ofs, -t)}
          BY <5>1, Zenon
        <5>3. get_file_writeid(t) = {ofs[p].writeid : p \in OpenOf(ofs, -t)}
          BY <4>2, Zenon DEF get_file_writeid
        <5> QED BY <5>2, <5>3, Zenon
      <4> QED BY <4>1, <4>2
    <3> QED BY <1>1, <3>1 DEF AsSent, SameWriteid
  <2> QED BY <1>1, <2>1, <2>2 DEF SentWork
<1>5. Asleep'
  <2> SUFFICES ASSUME ~wake' PROVE NoFree'
    BY DEF Asleep
  <2>1. \A u \in DOMAIN rows' : Oldest(u)' => u = t
    BY <1>2, <1>3 DEF Oldest
  <2>2. rows'[t].status = 1
    BY <1>2, <1>3, <1>4
  <2> QED BY <2>1, <2>2 DEF NoFree
<1>6. Sending' /\ Pending' \subseteq Pending
  BY <1>3 DEF Sending, Pending, Finishing
<1> QED BY <1>3, <1>5, <1>6, ThreadWork

(* The answer to a creat, accepted or rejected, and the copy to the page   *)
(* cache.                                                                  *)
LEMMA TaskCreatWork ==
  ASSUME Live, process_task_creat \/ CopyToPageCache
  PROVE  WorkKept'
<1>1. CASE process_task_creat
  <2>1. pc = "answer" /\ answer # NoFile /\ task.row.type = "creat" /\ UNCHANGED <<wake, task>>
    BY <1>1 DEF process_task_creat
  <2>2. CASE UNCHANGED rows /\ pc' = "cache" /\ ofs' = update_openfile(task.id)
    BY <2>1, <2>2, AcceptWork
  <2>3. CASE /\ ~SameWriteid(task.id, task.row.int1) /\ pc' = "end" /\ UNCHANGED ofs
             /\ rows' = IF OpenOf(ofs, -task.id) # {} THEN [rows EXCEPT ![task.id].sfile = answer.id]
                        ELSE rows
    BY <2>1, <2>3, RejectWork
  <2> QED BY <1>1, <2>2, <2>3, Zenon DEF process_task_creat
<1>2. CASE CopyToPageCache
  <2>1. /\ pc = "cache" /\ pc' = "finish" /\ UNCHANGED <<rows, ofs, task>>
    BY <1>2 DEF CopyToPageCache, memory
  <2>2. Asleep' /\ Sending' /\ Pending' = Pending
    BY <2>1 DEF Asleep, Sending, Pending, Finishing
  <2> QED BY <2>1, <2>2, ThreadWork
<1> QED BY <1>1, <1>2

(* The task is done: the thread is woken for what is left.                 *)
LEMMA RemovedWork ==
  ASSUME Live, UNCHANGED ofs, pc' = "end", NEW t \in DOMAIN rows, Finishing \subseteq {t},
         DOMAIN rows' = DOMAIN rows \ {t}, wake' = (wake \/ Wakes(t)),
         \A u \in DOMAIN rows \ {t} : rows'[u].status = rows[u].status /\ rows'[u].int1 = rows[u].int1
  PROVE  WorkKept'
<1>1. Asleep'
  BY DEF Asleep, NoFree, Wakes
<1>2. Sending' /\ Pending' \subseteq Pending
  BY DEF Sending, Pending, Finishing
<1> QED BY <1>1, <1>2, ThreadWork

(* The ways a task ends: done, cancelled, or a cancelled unlink that       *)
(* becomes one of the file on the server.                                  *)
LEMMA RemovedTaskWork ==
  ASSUME Live, FinishCreat \/ process_task_unlink \/ cancel_task_creat \/ cancel_task_unlink
  PROVE  WorkKept'
<1>1. PICK t : t = task.id
  OBVIOUS
<1>2. pc' = "end" /\ UNCHANGED ofs /\ pc \in Working
  BY DEF FinishCreat, process_task_unlink, cancel_task_creat, cancel_task_unlink, memory, Working
<1>3. /\ rows \in [DOMAIN rows -> Row] /\ t \in DOMAIN rows /\ t \in Nat \ {0} /\ answer.id \in Int
      /\ rows[t].type = task.row.type /\ rows[t].sfile \in Int
      /\ task.row.fileid \in Int /\ task.row.rfileid \in Int /\ Finishing \subseteq {t}
  BY <1>1, <1>2, Typed DEF Live, Known, Good, FilesInv, TableTypes, Row, Finishing
<1>4. ASSUME rows' = Remove(rows, t), wake' = (wake \/ Wakes(t)) PROVE WorkKept'
  <2>1. DOMAIN rows' = DOMAIN rows \ {t} /\ \A u \in DOMAIN rows \ {t} : rows'[u] = rows[u]
    BY <1>3, <1>4, Removed
  <2> QED BY <1>2, <1>3, <1>4, <2>1, RemovedWork
<1>5. ASSUME NEW id \in Int, rows' = Renumber(Remove(rows, t), -t, id), wake' = (wake \/ Wakes(t))
      PROVE  WorkKept'
  <2>1. /\ DOMAIN rows' = DOMAIN rows \ {t}
        /\ \A u \in DOMAIN rows \ {t} : rows'[u].status = rows[u].status
    <3>1. t \in Int /\ rows \in [DOMAIN rows -> Row]
      BY <1>3
    <3> QED BY Zenon, <1>5, <3>1, RemovedRenumbered
  <2>2. PICK R : R = Remove(rows, t)
    OBVIOUS
  <2>3. /\ DOMAIN R = DOMAIN rows \ {t} /\ R \in [DOMAIN rows \ {t} -> Row]
        /\ \A u \in DOMAIN rows \ {t} : R[u] = rows[u]
    BY <1>3, <2>2, Removed
  <2>4. \A u \in DOMAIN rows \ {t} : rows'[u].int1 = R[u].int1
    BY <1>5, <2>2, <2>3, RenumberedInts
  <2> QED BY <1>2, <1>3, <1>5, <2>1, <2>3, <2>4, RemovedWork
<1>6. ASSUME NEW id \in Int, task.row.type = "unlink", wake' = TRUE,
             rows' = [rows EXCEPT ![t].status = 0, ![t].fileid = id]
      PROVE  WorkKept'
  <2>1. /\ DOMAIN rows' = DOMAIN rows
        /\ \A u \in DOMAIN rows : u # t => rows'[u] = rows[u]
    BY Zenon, <1>3, <1>6, UnlinkSent
  <2>2. OpenOf(ofs, -t) = {}
    BY <1>3, <1>6, OpenTyped DEF Live, OpenOf
  <2>3. RowWork(t)'
    <3>1. rows'[t].status = 0
      BY <1>3, <1>6, ZenonT(60) DEF Row
    <3>2. OpenOf(ofs', -t) = {}
      BY <1>2, <2>2 DEF OpenOf
    <3> QED BY <3>1, <3>2 DEF RowWork
  <2>4. \A u \in DOMAIN rows : u # t => RowWork(u)'
    <3>1. Pending' \subseteq Pending \cup {t}
      BY <1>2, <1>3, <2>1 DEF Pending, Finishing
    <3> SUFFICES ASSUME NEW u \in DOMAIN rows, u # t PROVE RowWork(u)'
      OBVIOUS
    <3>2. RowWork(u) /\ SameFile(u) /\ (u \in Pending' => u \in Pending)
      BY <1>2, <2>1, <3>1 DEF Live, WorkKept, SameFile, OpenOf
    <3> QED BY <3>2, RowStays
  <2>5. Asleep' /\ Sending'
    BY <1>2, <1>6 DEF Asleep, Sending
  <2> QED BY <2>1, <2>3, <2>4, <2>5 DEF WorkKept
<1>7. CASE FinishCreat
  BY <1>1, <1>3, <1>5, <1>7 DEF FinishCreat
<1>8. CASE process_task_unlink
  BY <1>1, <1>4, <1>8 DEF process_task_unlink
<1>9. CASE cancel_task_creat
  BY <1>1, <1>3, <1>4, <1>5, <1>9 DEF cancel_task_creat, Cancelled
<1>10. CASE cancel_task_unlink
  <2>1. PICK id \in Int : id = IF task.row.fileid > 0 THEN task.row.fileid ELSE task.row.rfileid
    BY <1>3
  <2>2. \/ /\ task.row.type = "unlink" /\ wake' = TRUE
           /\ rows' = [rows EXCEPT ![t].status = 0, ![t].fileid = id]
        \/ rows' = Remove(rows, t) /\ wake' = (wake \/ Wakes(t))
    BY Zenon, <1>1, <1>10, <2>1 DEF cancel_task_unlink
  <2> QED BY Zenon, <1>4, <1>6, <2>2
<1> QED BY <1>7, <1>8, <1>9, <1>10

(* A restart: the rows are as if released, the thread looks at them first. *)
LEMMA RestartWork ==
  ASSUME Live, Restart
  PROVE  WorkKept'
<1>1. ofs' = <<>> /\ pc' = "check" /\ wake' = FALSE
  BY DEF Restart
<1>2. rows' = [t \in DOMAIN rows |-> [rows[t] EXCEPT !.status = InitStatus(@)]]
  BY DEF Restart
<1>3. Asleep' /\ Sending'
  BY <1>1 DEF Asleep, Sending
<1>4. ASSUME NEW u \in DOMAIN rows' PROVE RowWork(u)'
  <2>1. u \in DOMAIN rows /\ rows'[u].status = InitStatus(rows[u].status)
    BY <1>2, Typed, RestartFields DEF Live
  <2>2. rows[u].status \in {0, 1, 11, 12}
    BY <2>1, OpenTyped DEF Live
  <2>3. rows'[u].status \in {0, 11}
    BY <2>1, <2>2, SMTT(30) DEF InitStatus
  <2>4. OpenOf(ofs', -u) = {}
    BY <1>1 DEF OpenOf
  <2> QED BY <2>3, <2>4 DEF RowWork
<1> QED BY <1>3, <1>4 DEF WorkKept

-----------------------------------------------------------------------------
(* At the start the thread is about to look for rows, and there is none.   *)
LEMMA ArrivesInit == Init => ArrivesInv
<1> SUFFICES ASSUME Init PROVE WorkKept
  BY DEF ArrivesInv
<1>1. rows = <<>> /\ pc = "check"
  BY DEF Init
<1> QED BY <1>1 DEF WorkKept, Asleep, Sending

(* Every step of the drive keeps it, where no odd event happens.           *)
LEMMA ArrivesNext ==
  FilesInv /\ FilesInv' /\ TableInv /\ WritesInv /\ ShownInv /\ ArrivesInv /\ [Next]_vars
    => ArrivesInv'
<1> SUFFICES ASSUME FilesInv, FilesInv', TableInv, WritesInv, ShownInv, ArrivesInv, [Next]_vars, odd' = {}
             PROVE  WorkKept'
  BY DEF ArrivesInv
<1>1. Live
  BY OddKept DEF Live, Known, Good, WritesInv, ShownInv, ArrivesInv, Clean, FilesInv
<1>2. CASE User
  <2>1. ASSUME NEW h \in Handles, NEW trunc \in Trunc, Create(h, trunc) \/ OpenPending(h, trunc)
        PROVE  WorkKept'
    BY <1>1, <2>1, CreateWork, OpenPendingWork
  <2>2. ASSUME NEW h \in Handles, OpenServerFile(h) \/ Write(h) \/ WriteServerFile(h)
        PROVE  WorkKept'
    BY <1>1, <2>2, OpenServerFileWork, WriteWork, WriteServerFileWork
  <2>3. ASSUME NEW h \in Handles, NEW closing \in BOOLEAN, Flush(h, closing) PROVE WorkKept'
    BY <1>1, <2>3, FlushWork
  <2>4. CASE psync_fstask_unlink \/ UnlinkFails
    BY <1>1, <2>4, UnlinkCallWork
  <2> QED BY <1>2, <2>1, <2>2, <2>3, <2>4 DEF User
<1>3. CASE InCall
  <2>1. ASSUME NEW h \in Handles, psync_fs_reopen_file_for_writing(h) PROVE WorkKept'
    BY <1>1, <2>1, ReopenWork
  <2>2. ASSUME NEW c \in calls, ReleaseRow(c) \/ RaiseWriteid(c) \/ psync_fs_dec_of_refcnt(c)
        PROVE  WorkKept'
    BY <1>1, <2>2, ReleaseRowWork, RaiseWriteidWork, DecOfRefcntWork
  <2> QED BY <1>3, <2>1, <2>2 DEF InCall
<1>4. CASE Expire \/ psync_fs_write_timer
  BY <1>1, <1>4, TimerWork
<1>5. CASE Upload \/ Failed
  <2>1. CASE psync_fsupload_check_tasks
    BY <1>1, <2>1, CheckTasksWork
  <2>2. CASE Woken \/ EndOfBatch \/ Failed
    BY <1>1, <2>2, IdleWork
  <2>3. CASE SendUnlink \/ SendCreat
    BY <1>1, <2>3, SendWork
  <2>4. CASE process_task_creat \/ CopyToPageCache
    BY <1>1, <2>4, TaskCreatWork
  <2>5. CASE FinishCreat \/ process_task_unlink \/ cancel_task_creat \/ cancel_task_unlink
    BY <1>1, <2>5, RemovedTaskWork
  <2> QED BY <1>5, <2>1, <2>2, <2>3, <2>4, <2>5 DEF Upload
<1>6. CASE uploadfile \/ deletefile \/ Diff
  BY <1>1, <1>6, ServerWork
<1>7. CASE Restart
  BY <1>1, <1>7, RestartWork
<1>8. CASE UNCHANGED vars
  <2>1. UNCHANGED <<rows, ofs, wake, pc, task>>
    BY <1>8 DEF vars, memory, upload
  <2>2. KeptFlags(ofs')
    BY <2>1 DEF KeptFlags
  <2> QED BY <1>1, <2>1, <2>2, FlagsWork
<1> QED BY <1>2, <1>3, <1>4, <1>5, <1>6, <1>7, <1>8 DEF Next

(* While there are rows, one of them waits for no other.                   *)
LEMMA SomeOldest ==
  ASSUME DOMAIN rows \subseteq Nat \ {0}, IsFiniteSet(DOMAIN rows), DOMAIN rows # {}
  PROVE  \E t \in DOMAIN rows : Oldest(t)
<1> DEFINE D == DOMAIN rows
           Below(u) == {v \in D : v < u}
           T == {Below(u) : u \in D}
<1>1. T \subseteq FiniteSubsetsOf(D) /\ T # {}
  <2>1. FiniteSubsetsOf(D) = SUBSET D
    BY FS_FiniteSubsetsOfFinite
  <2>2. \A u \in D : Below(u) \in SUBSET D /\ Below(u) \in T
    OBVIOUS
  <2>3. T \subseteq SUBSET D
    BY <2>2
  <2> HIDE DEF T, Below
  <2> QED BY <2>1, <2>2, <2>3
<1>2. PICK A \in T : \A B \in T : ~(<<B, A>> \in StrictSubsetOrdering(D))
  <2> HIDE DEF T
  <2> QED BY <1>1, FS_StrictSubsetOrderingWellFounded, WFMin
<1>3. PICK u \in D : A = Below(u)
  OBVIOUS
<1>4. ASSUME NEW v \in D, v < u PROVE FALSE
  <2>1. Below(v) \subseteq A /\ v \in A /\ v \notin Below(v)
    BY <1>3, <1>4
  <2>2. Below(v) \in T
    OBVIOUS
  <2>3. A \in SUBSET D /\ Below(v) \in SUBSET D
    BY <1>3
  <2>4. <<Below(v), A>> \in StrictSubsetOrdering(D)
    BY <2>1, <2>3 DEF StrictSubsetOrdering
  <2> QED BY <1>2, <2>2, <2>4
<1>5. \A v \in D : u <= v
  BY <1>4
<1> QED BY <1>5 DEF Oldest

(* When nothing is open and the thread sleeps, the oldest row would have   *)
(* to be ready, so there is none; and then the name shows the server's.    *)
LEMMA NothingToDo ==
  ASSUME Live, AtRest
  PROVE  rows = <<>> /\ srv.content = want
<1>1. /\ pc = "wait" /\ ~wake /\ DOMAIN ofs = {} /\ NoFree
      /\ Pending = DOMAIN rows
  BY DEF AtRest, Live, WorkKept, Asleep, Pending, Finishing
<1>2. DOMAIN rows = {}
  <2> SUFFICES ASSUME DOMAIN rows # {} PROVE FALSE
    OBVIOUS
  <2>1. PICK t \in DOMAIN rows : Oldest(t)
    BY SomeOldest DEF Live, Known, Good, FilesInv, TableTypes
  <2>2. rows[t].status \in {1, 12}
    BY <1>1, <2>1, OpenTyped DEF NoFree, Live
  <2>3. OpenOf(ofs, -t) # {}
    BY <1>1, <2>1, <2>2 DEF Live, WorkKept, RowWork
  <2> QED BY <1>1, <2>3 DEF OpenOf
<1>3. rows = <<>>
  <2>1. rows = [t \in {} |-> rows[t]]
    BY <1>2, Typed DEF Live
  <2> QED BY <2>1
<1>4. creats = {} /\ unlinks = {}
  BY <1>1, <1>2 DEF Live, Known, NameKnown, Overlay, EntryLast
<1> QED BY <1>3, <1>4 DEF Live, Known, NameKnown, Shown

(* Nothing is left behind: when all files are closed and the upload thread *)
(* sleeps, no task waits and the server has what the user last made the    *)
(* name hold, where none of the odd events happened.                       *)
THEOREM NothingLeft == Spec => []Arrives
<1>1. FilesInv /\ TableInv /\ WritesInv /\ ShownInv /\ ArrivesInv => Arrives
  BY NothingToDo DEF Arrives, Live, Known, Good, WritesInv, ShownInv, ArrivesInv, Clean, FilesInv
<1>2. Init => FilesInv /\ WritesInv /\ ShownInv /\ ArrivesInv
  BY FilesInit, WritesInit, ShownInit, ArrivesInit
<1>3. FilesInv /\ TableInv /\ WritesInv /\ ShownInv /\ ArrivesInv /\ [Next]_vars
        => (FilesInv /\ WritesInv /\ ShownInv /\ ArrivesInv)'
  BY FilesNext, WritesNext, ShownNext, ArrivesNext
<1> QED BY <1>1, <1>2, <1>3, TableInvariant, PTL DEF Spec
=============================================================================
