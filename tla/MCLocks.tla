------------------------------ MODULE MCLocks ------------------------------
(* The readers-writer lock, the accounting of the database lock, which is  *)
(* built on it, and the folder tasks of the drive, whose every transaction *)
(* runs under that lock.  The models share no state, so a behaviour is one *)
(* of them, as `part' chooses.  Only the drive may come to rest, and a     *)
(* process that an assertion has ended.                                    *)
EXTENDS PLocks, TLC

CONSTANTS NoThread, MaxNested, MaxValue, ExecInTransaction,
          Names, BatchSize, MaxOps, MaxLost, MaxCrashes, MaxForeign, BusyRmdir

VARIABLES
  part,
  rd, wr, upgrader, at, frames, sqllockcnt, wrlocker, sqlrdlockcnt, rdlock,
  in_transaction, transaction_failed, tran_callbacks, tables, committed, value, tried,
  outcomes, leaked,
  rows, deps, folder, fold, wake, uploader, batch, sent, answers, wire, srv, nextid, events,
  ops, lost, crashes, foreign, want, misled, refused, badrelease

Sql == INSTANCE SqlLockProofs
ASSUME SqlConstants == Sql!SqlAssumption

Folders == INSTANCE FsTasksProofs WITH pc <- uploader, at <- sent
ASSUME FolderConstants == Folders!TasksAssumption

sqlVars ==
  <<rd, wr, upgrader, at, frames, sqllockcnt, wrlocker, sqlrdlockcnt, rdlock, in_transaction,
    transaction_failed, tran_callbacks, tables, committed, value, tried, outcomes, leaked>>
folderVars ==
  <<rows, deps, folder, fold, wake, uploader, batch, sent, answers, wire, srv, nextid, events,
    ops, lost, crashes, foreign, want, misled, refused, badrelease>>

LocksInit == part \in {"rwlock", "sql", "folders"} /\ Init /\ Sql!Init /\ Folders!Init
RWLockNext == part = "rwlock" /\ Next /\ UNCHANGED <<part, sqlVars, folderVars>>
SqlNext == part = "sql" /\ Sql!Next /\ UNCHANGED <<part, vars, folderVars>>
FoldersNext == part = "folders" /\ Folders!Next /\ UNCHANGED <<part, vars, sqlVars>>
Rest ==
  /\ part = "folders" \/ (part = "sql" /\ \E t \in Threads : Sql!Top(t) = "abort")
  /\ UNCHANGED <<part, vars, sqlVars, folderVars>>
LocksSpec ==
  LocksInit /\ [][RWLockNext \/ SqlNext \/ FoldersNext \/ Rest]_<<part, vars, sqlVars, folderVars>>

Symmetric == Permutations(Threads) \cup Permutations(Names)

(* The record of who holds the database lock agrees with the lock.         *)
Accounting == Sql!Accounting
(* Readers see the rows of one transaction, and so does the disk.          *)
ConsistentRows == Sql!ConsistentRows
(* The callbacks of a transaction learn its true outcome.                  *)
CallbacksTellTheTruth == Sql!CallbacksTellTheTruth

(* The rows of folder tasks, their ids and what they wait for make sense,  *)
RowsInv == Folders!RowsInv
(* the upload thread does not sleep over a task it could run, *)
NoLostWakeup == Folders!NoLostWakeup
(* a restart finds the overlay that was in memory, *)
RestartAgrees == Folders!RestartAgrees
(* the user sees the folders he made and no others, *)
ViewAgrees == Folders!ViewAgrees
(* and tasks about one name end in the order he gave them.                 *)
SameNameInOrder == Folders!SameNameInOrder
=============================================================================
