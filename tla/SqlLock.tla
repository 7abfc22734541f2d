------------------------------ MODULE SqlLock ------------------------------
(***************************************************************************)
(* The database layer of plibs.c: the lock psync_db_lock with the          *)
(* accounting kept around it in debug builds (the default build), and the  *)
(* transactions.  The lock itself is the one of PLocks: here a thread gets *)
(* it when the rules of plocks.c let it in, and the two counters of its    *)
(* psync_rwlock_lockcnt_t are rd[t] and wr[t].                             *)
(*                                                                         *)
(* Callers nest their calls: frames[t] is what t has taken and not yet     *)
(* given back, last first.  Taking the lock and recording it, and erasing  *)
(* the record and giving it back, are separate steps.                      *)
(*                                                                         *)
(* A transaction writes one new value to two rows.  Whoever may look at    *)
(* the tables must find the rows equal.                                    *)
(***************************************************************************)
EXTENDS Integers, Sequences

CONSTANTS Threads, NoThread,
          MaxNested,         \* bound on the locks one thread has nested
          MaxValue,         \* bound on the transactions begun and statements run alone
          ExecInTransaction \* whether transactions use psync_sql_statement

VARIABLES
  rd, wr,             \* the lock's per-thread counters
  upgrader,           \* the thread that waits in psync_rwlock_towrlock
  at,                 \* where a thread is inside a call, or "run"
  frames,             \* the calls a thread has to undo, last first
  sqllockcnt, wrlocker, sqlrdlockcnt, rdlock,  \* the accounting
  in_transaction, transaction_failed, tran_callbacks,
  tables, committed,  \* the rows as this process sees them, and on disk
  value,              \* the last value a transaction has written
  tried,              \* the rows the transaction has run its statement for
  outcomes,           \* the callbacks that have run: <<value, committed?>>
  leaked              \* the threads that kept the lock of a BEGIN that failed

lockVars == <<rd, wr, upgrader>>
recordVars == <<sqllockcnt, wrlocker, sqlrdlockcnt, rdlock>>
tranVars == <<in_transaction, transaction_failed, tran_callbacks, tables,
              committed, value, tried, outcomes, leaked>>
vars == <<lockVars, at, frames, recordVars, tranVars>>

SqlAssumption ==
  NoThread \notin Threads /\ MaxNested \in Nat \ {0} /\ MaxValue \in Nat /\ ExecInTransaction \in BOOLEAN

Rows == {"a", "b"}
Values == 0 .. MaxValue

TypeOK ==
  /\ rd \in [Threads -> 0 .. MaxNested] /\ wr \in [Threads -> 0 .. MaxNested + 1]
  /\ upgrader \in Threads \union {NoThread}
  /\ at \in [Threads -> {"run", "record", "upgraded", "leave"}]
  /\ frames \in [Threads -> Seq({"rd", "wr", "begin", "tr", "auto", "abort"})]
  /\ sqllockcnt \in 0 .. MaxNested + 1 /\ wrlocker \in Threads \union {NoThread}
  /\ sqlrdlockcnt \in [Threads -> 0 .. MaxNested] /\ rdlock \in [Threads -> BOOLEAN]
  /\ in_transaction \in BOOLEAN /\ transaction_failed \in BOOLEAN
  /\ tran_callbacks \subseteq Values
  /\ tables \in [Rows -> Values] /\ committed \in [Rows -> Values] /\ value \in Values
  /\ tried \subseteq Rows
  /\ outcomes \subseteq (Values \X BOOLEAN) /\ leaked \subseteq Threads

Init ==
  /\ rd = [t \in Threads |-> 0] /\ wr = [t \in Threads |-> 0] /\ upgrader = NoThread
  /\ at = [t \in Threads |-> "run"] /\ frames = [t \in Threads |-> <<>>]
  /\ sqllockcnt = 0 /\ wrlocker = NoThread
  /\ sqlrdlockcnt = [t \in Threads |-> 0] /\ rdlock = [t \in Threads |-> FALSE]
  /\ in_transaction = FALSE /\ transaction_failed = FALSE /\ tran_callbacks = {}
  /\ tables = [r \in Rows |-> 0] /\ committed = [r \in Rows |-> 0] /\ value = 0 /\ tried = {}
  /\ outcomes = {} /\ leaked = {}

-----------------------------------------------------------------------------
(* Who gets psync_db_lock.                                                 *)
Others(t) == Threads \ {t}
Reads(t) == rd[t] > 0 /\ upgrader # t
MayRead(t) == \A u \in Others(t) : wr[u] = 0
MayWrite(t) == upgrader = NoThread /\ \A u \in Others(t) : wr[u] = 0 /\ ~Reads(u)

Top(t) == IF frames[t] = <<>> THEN "none" ELSE Head(frames[t])
Idle(t) == at[t] = "run" /\ upgrader # t       \* not waiting, not between two steps
Ready(t) == Idle(t) /\ Top(t) \notin {"begin", "abort"}    \* between two calls
(* The thread has gone on after a failed BEGIN: there is no transaction.   *)
Unbegun(t) == \E i \in DOMAIN frames[t] : frames[t][i] \in {"auto", "abort"}
Push(t, f) == Len(frames[t]) < MaxNested /\ frames' = [frames EXCEPT ![t] = <<f>> \o @]
Pop(t) == frames' = [frames EXCEPT ![t] = Tail(@)]

(* psync_sql_do_lock and psync_sql_do_trylock.  A thread that only has a   *)
(* read lock would trip assert(!cnt[0]): callers upgrade instead.          *)
TakeWrite(t) ==
  /\ Ready(t) /\ rd[t] = 0
  /\ wr' = [wr EXCEPT ![t] = @ + 1]
  /\ \/ /\ wr[t] > 0
        /\ sqllockcnt' = sqllockcnt + 1
        /\ at' = IF sqllockcnt = 0 THEN [at EXCEPT ![t] = "record"] ELSE at
     \/ /\ wr[t] = 0 /\ MayWrite(t)
        /\ at' = [at EXCEPT ![t] = "record"]
        /\ UNCHANGED sqllockcnt
  /\ UNCHANGED <<rd, upgrader, wrlocker, sqlrdlockcnt, rdlock, tranVars>>

psync_sql_lock(t) == Push(t, "wr") /\ TakeWrite(t)

record_wrlock(t) ==
  /\ at[t] = "record"
  /\ sqllockcnt' = sqllockcnt + 1
  /\ wrlocker' = t
  /\ at' = [at EXCEPT ![t] = "run"]
  /\ UNCHANGED <<lockVars, frames, sqlrdlockcnt, rdlock, tranVars>>

(* psync_sql_do_rdlock.  By the lock's writer it only nests.               *)
psync_sql_rdlock(t) ==
  /\ Ready(t)
  /\ Push(t, "rd")
  /\ \/ rd[t] > 0 /\ rd' = [rd EXCEPT ![t] = @ + 1] /\ UNCHANGED wr
     \/ rd[t] = 0 /\ wr[t] > 0 /\ wr' = [wr EXCEPT ![t] = @ + 1] /\ UNCHANGED rd
     \/ rd[t] = 0 /\ wr[t] = 0 /\ MayRead(t) /\ rd' = [rd EXCEPT ![t] = 1] /\ UNCHANGED wr
  /\ sqlrdlockcnt' = [sqlrdlockcnt EXCEPT ![t] = @ + 1]
  /\ rdlock' = [rdlock EXCEPT ![t] = TRUE]
  /\ UNCHANGED <<upgrader, at, sqllockcnt, wrlocker, tranVars>>

M_LeaveBeforeRecord(t) ==
  /\ sqllockcnt' = sqllockcnt - 1
  /\ wr' = [wr EXCEPT ![t] = @ - 1]
  /\ UNCHANGED <<rd, upgrader, at, wrlocker, sqlrdlockcnt, rdlock>>

(* psync_sql_unlock: the record goes before the lock does.                 *)
Unlock(t) ==
  /\ sqllockcnt' = sqllockcnt - 1
  /\ IF sqllockcnt = 1
     THEN /\ wrlocker' = NoThread
          /\ at' = [at EXCEPT ![t] = "leave"]
          /\ UNCHANGED wr
     ELSE /\ wr' = [wr EXCEPT ![t] = @ - 1]
          /\ UNCHANGED <<at, wrlocker>>
  /\ UNCHANGED <<rd, upgrader, sqlrdlockcnt, rdlock>>

leave_wrlock(t) ==
  /\ at[t] = "leave"
  /\ wr' = [wr EXCEPT ![t] = @ - 1]
  /\ at' = [at EXCEPT ![t] = "run"]
  /\ UNCHANGED <<rd, upgrader, frames, recordVars, tranVars>>

psync_sql_unlock(t) ==
  /\ Ready(t) /\ Top(t) = "wr"
  /\ Pop(t) /\ Unlock(t)
  /\ UNCHANGED tranVars

(* psync_sql_rdunlock: a read lock that was upgraded is a write lock now.  *)
psync_sql_rdunlock(t) ==
  /\ Ready(t) /\ Top(t) = "rd"
  /\ Pop(t)
  /\ IF sqlrdlockcnt[t] = 0 THEN Unlock(t)
     ELSE /\ IF rd[t] > 0 THEN rd' = [rd EXCEPT ![t] = @ - 1] /\ UNCHANGED wr
                          ELSE wr' = [wr EXCEPT ![t] = @ - 1] /\ UNCHANGED rd
          /\ sqlrdlockcnt' = [sqlrdlockcnt EXCEPT ![t] = @ - 1]
          /\ rdlock' = [rdlock EXCEPT ![t] = sqlrdlockcnt[t] > 1]
          /\ UNCHANGED <<upgrader, at, sqllockcnt, wrlocker>>
  /\ UNCHANGED tranVars

(* psync_sql_tryupgradelock.  The caller has one read lock (its            *)
(* assert(sqllockcnt==1)).  When another thread is upgrading it gets -1,   *)
(* and when it is the writer 0: nothing changes then.                      *)
psync_sql_tryupgradelock(t) ==
  /\ Ready(t) /\ rd[t] = 1 /\ upgrader = NoThread
  /\ upgrader' = t
  /\ UNCHANGED <<rd, wr, at, frames, recordVars, tranVars>>

Upgraded(t) ==
  /\ upgrader = t /\ \A u \in Others(t) : ~Reads(u)
  /\ upgrader' = NoThread
  /\ wr' = [wr EXCEPT ![t] = rd[t]]
  /\ rd' = [rd EXCEPT ![t] = 0]
  /\ at' = [at EXCEPT ![t] = "upgraded"]
  /\ UNCHANGED <<frames, recordVars, tranVars>>

record_upgrade(t) ==
  /\ at[t] = "upgraded"
  /\ rdlock' = [rdlock EXCEPT ![t] = FALSE]
  /\ sqllockcnt' = sqlrdlockcnt[t]
  /\ sqlrdlockcnt' = [sqlrdlockcnt EXCEPT ![t] = 0]
  /\ wrlocker' = t
  /\ at' = [at EXCEPT ![t] = "run"]
  /\ UNCHANGED <<lockVars, frames, tranVars>>

-----------------------------------------------------------------------------
(* psync_sql_start_transaction: the lock, then BEGIN.  When BEGIN fails    *)
(* the call returns -1 with the lock held.                                 *)
psync_sql_start_transaction(t) ==
  /\ value < MaxValue
  /\ ~\E i \in DOMAIN frames[t] : frames[t][i] \in {"begin", "tr", "auto", "abort"}
  /\ Push(t, "begin") /\ TakeWrite(t)

Begin(t) ==
  /\ Idle(t) /\ Top(t) = "begin"
  /\ frames' = [frames EXCEPT ![t][1] = "tr"]
  /\ in_transaction' = TRUE /\ transaction_failed' = FALSE
  /\ tran_callbacks' = {} /\ value' = value + 1 /\ tried' = {}
  /\ UNCHANGED <<lockVars, recordVars, at, tables, committed, outcomes, leaked>>

(* BEGIN fails, to be prepared or to be run: only the latter is recorded.  *)
BeginError(t) ==
  /\ Idle(t) /\ Top(t) = "begin"
  /\ transaction_failed' \in {TRUE, transaction_failed}
  /\ UNCHANGED <<lockVars, recordVars, at, in_transaction, tran_callbacks, tables,
                 committed, outcomes>>

(* A caller that looks at the result (pupload.c:365) skips the transaction *)
(* and keeps the lock.                                                     *)
BeginFails(t) ==
  /\ t \notin leaked             \* bound: once per thread
  /\ BeginError(t)
  /\ leaked' = leaked \union {t}
  /\ Pop(t)
  /\ UNCHANGED <<value, tried>>

(* The others do not (pcontacts.c:70, pupload.c:650): they run their       *)
(* statements, each of which now commits by itself.                        *)
BeginIgnored(t) ==
  /\ BeginError(t)
  /\ frames' = [frames EXCEPT ![t][1] = "auto"]
  /\ value' = value + 1 /\ tried' = {}
  /\ UNCHANGED leaked

(* What they end with, or psync_sql_transation_add_callbacks, asserts      *)
(* in_transaction: the process aborts, and the lock is never given back.   *)
AssertionFails(t) ==
  /\ Ready(t) /\ Top(t) = "auto"
  /\ frames' = [frames EXCEPT ![t][1] = "abort"]
  /\ UNCHANGED <<lockVars, recordVars, at, tranVars>>

(* What is on disk after a statement: without BEGIN all of it.             *)
Durable(t) == IF Top(t) = "tr" THEN committed ELSE tables'

M_FailureNotRecorded(t, r) ==
  /\ Ready(t) /\ Top(t) \in {"tr", "auto"} /\ r \notin tried
  /\ tried' = tried \union {r}
  /\ tables' = [tables EXCEPT ![r] = value] \/ UNCHANGED tables
  /\ committed' = Durable(t)
  /\ UNCHANGED <<lockVars, recordVars, at, frames, in_transaction,
                 transaction_failed, tran_callbacks, value, outcomes, leaked>>

(* psync_sql_prep_statement and psync_sql_run_free of a row's update.      *)
psync_sql_run(t, r) ==
  /\ Ready(t) /\ Top(t) \in {"tr", "auto"} /\ r \notin tried
  /\ tried' = tried \union {r}
  /\ \/ tables' = [tables EXCEPT ![r] = value] /\ UNCHANGED transaction_failed
     \/ transaction_failed' = TRUE /\ UNCHANGED tables
  /\ committed' = Durable(t)
  /\ UNCHANGED <<lockVars, recordVars, at, frames, in_transaction,
                 tran_callbacks, value, outcomes, leaked>>

(* psync_sql_statement: sqlite3_exec under the lock; a failure is logged   *)
(* only.  Outside a transaction the statement commits by itself: here it   *)
(* writes both rows.                                                       *)
psync_sql_statement(t, r) ==
  /\ Ready(t) /\ rd[t] = 0 /\ (wr[t] > 0 \/ MayWrite(t))
  /\ IF Top(t) \in {"tr", "auto"}
     THEN /\ ExecInTransaction /\ r \notin tried
          /\ tried' = tried \union {r}
          /\ tables' \in {tables, [tables EXCEPT ![r] = value]}
          /\ committed' = Durable(t)
          /\ UNCHANGED value
     ELSE /\ ~in_transaction /\ ~Unbegun(t) /\ value < MaxValue
          /\ value' = value + 1
          /\ tables' \in {tables, [q \in Rows |-> value']}
          /\ committed' = tables'
          /\ UNCHANGED tried
  /\ UNCHANGED <<lockVars, recordVars, at, frames, in_transaction,
                 transaction_failed, tran_callbacks, outcomes, leaked>>

psync_sql_transation_add_callbacks(t) ==
  /\ Ready(t) /\ Top(t) = "tr"
  /\ tran_callbacks' = tran_callbacks \union {value}
  /\ UNCHANGED <<lockVars, recordVars, at, frames, in_transaction,
                 transaction_failed, tables, committed, value, tried, outcomes, leaked>>

(* The end of both psync_sql_commit_transaction and                        *)
(* psync_sql_rollback_transaction: the callbacks run under the lock.       *)
EndTransaction(t, success) ==
  /\ outcomes' = outcomes \union (tran_callbacks \X {success})
  /\ in_transaction' = FALSE
  /\ Pop(t) /\ Unlock(t)
  /\ UNCHANGED <<tran_callbacks, value, tried, leaked>>

psync_sql_rollback_transaction(t) ==
  /\ Ready(t) /\ Top(t) = "tr"
  /\ tables' = committed
  /\ EndTransaction(t, FALSE)
  /\ UNCHANGED <<transaction_failed, committed>>

M_CommitsAnyway(t) ==
  /\ Ready(t) /\ Top(t) = "tr" /\ tried = Rows
  /\ committed' = tables
  /\ EndTransaction(t, TRUE)
  /\ UNCHANGED <<transaction_failed, tables>>

(* The caller has run all its statements, whatever became of them.  COMMIT *)
(* may fail too: then the transaction is rolled back.                      *)
psync_sql_commit_transaction(t) ==
  /\ Ready(t) /\ Top(t) = "tr" /\ tried = Rows
  /\ \/ /\ ~transaction_failed
        /\ committed' = tables
        /\ EndTransaction(t, TRUE)
        /\ UNCHANGED <<transaction_failed, tables>>
     \/ /\ transaction_failed' = TRUE
        /\ tables' = committed
        /\ EndTransaction(t, FALSE)
        /\ UNCHANGED committed

-----------------------------------------------------------------------------
Next == \E t \in Threads :
  \/ psync_sql_lock(t) \/ record_wrlock(t) \/ psync_sql_unlock(t) \/ leave_wrlock(t)
  \/ psync_sql_rdlock(t) \/ psync_sql_rdunlock(t)
  \/ psync_sql_tryupgradelock(t) \/ Upgraded(t) \/ record_upgrade(t)
  \/ psync_sql_start_transaction(t) \/ Begin(t) \/ BeginFails(t)
  \/ BeginIgnored(t) \/ AssertionFails(t)
  \/ \E r \in Rows : psync_sql_run(t, r) \/ psync_sql_statement(t, r)
  \/ psync_sql_transation_add_callbacks(t)
  \/ psync_sql_commit_transaction(t) \/ psync_sql_rollback_transaction(t)

Spec == Init /\ [][Next]_vars

-----------------------------------------------------------------------------
(* The assertions of the accounting: nobody is recorded when a thread      *)
(* records its write lock (record_wrlock, psync_sql_do_lock), the writer   *)
(* that leaves is the recorded one (record_wrunlock), an unlock finds      *)
(* sqllockcnt positive, and a thread records no write lock over a read     *)
(* lock of its own.                                                        *)
AccountingAssertions ==
  \A t \in Threads :
    /\ at[t] = "record" => sqllockcnt = 0 /\ wrlocker = NoThread /\ ~rdlock[t]
    /\ at[t] = "upgraded" => wrlocker = NoThread /\ sqlrdlockcnt[t] = 1 /\ rdlock[t]
    /\ Idle(t) /\ Top(t) \in {"wr", "tr", "begin", "auto", "abort"} => sqllockcnt > 0 /\ wrlocker = t
    /\ Ready(t) /\ Top(t) = "rd" /\ sqlrdlockcnt[t] = 0 => sqllockcnt > 0 /\ wrlocker = t

(* The accounting agrees with the lock: the writer's nested locks are the  *)
(* sum of the two counts, and a thread without frames holds nothing.       *)
AccountingAgrees ==
  \A t \in Threads :
    /\ Idle(t) /\ wr[t] > 0 => wr[t] = sqllockcnt + sqlrdlockcnt[t]
    /\ rd[t] > 0 /\ at[t] = "run" => rd[t] = sqlrdlockcnt[t]
    /\ frames[t] = <<>> /\ at[t] = "run" /\ t \notin leaked => rd[t] = 0 /\ wr[t] = 0

Accounting == TypeOK /\ AccountingAssertions /\ AccountingAgrees

(* A thread that has a read lock, or the write lock outside a transaction, *)
(* sees the rows of one transaction: both old or both new; so does whoever *)
(* finds the disk after a crash.  Only a thread that has gone on after a   *)
(* failed BEGIN sees and writes them one by one, and then nobody else has  *)
(* the lock.                                                               *)
ConsistentRows ==
  /\ (\A t \in Threads : ~Unbegun(t)) => committed["a"] = committed["b"]
  /\ \A t \in Threads :
       rd[t] > 0 \/ (wr[t] > 0 /\ ~in_transaction /\ ~Unbegun(t))
         => tables["a"] = tables["b"]

(* What plibs.c:862 says of a transaction, "rolling back transaction as    *)
(* some statements failed", for its first statement: the process does not  *)
(* end on assert(in_transaction) with one of the rows on disk.             *)
NothingHalfDone ==
  \A t \in Threads : Top(t) = "abort" => committed["a"] = committed["b"]

(* A transaction's callbacks learn its true outcome: a commit callback     *)
(* runs only for values that reached the disk, a rollback callback only    *)
(* for those that did not, never both.                                     *)
CallbacksTellTheTruth ==
  [][\A v \in Values, ok \in BOOLEAN :
       <<v, ok>> \in outcomes' \ outcomes
         => /\ ok <=> committed' = [r \in Rows |-> v]
            /\ <<v, ~ok>> \notin outcomes']_vars
=============================================================================
