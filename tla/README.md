# TLA+ verification of the pCloud console client

The client keeps a local view of a pCloud account in step with the service: a
FUSE drive, folders synchronised both ways, and a database that survives
restarts. Its own logic is the C library `src/pCloudCC/lib/pclsync` (62,000
lines; paths below are relative to it), driven by the small C++ program in
`src/pCloudCC`. mbedtls, sqlite, the word list of `ppassworddict.h` and the
generated tables are third-party code or data and are left aside.

Everything runs in one process of many threads. They meet in three places: the
database, under one recursive readers-writer lock; the timer thread, which calls
back into every component; and queues of rows in database tables, which one
thread fills and another empties, with `*_wake` calls between them. The project
starts from these and works upwards.

## Inventory

### Foundations

| component | state | operations and who calls them | what is hard | what makes it correct |
|---|---|---|---|---|
| Readers-writer lock (`plocks.c`) | counters, two option bits, two condition variables, a pair of counters per thread | read, write, try, timed, starving, reserving and upgrading locks; unlock. Used by the database layer, thus by everything | recursion, upgrade, who is woken | exclusion, one reservation, agreement of counters, no lost wakeup |
| Database layer (`plibs.c`) | the lock, the accounting of the debug build (`sqllockcnt`, `wrlocker`, `sqlrdlockcnt`), the transaction flags and its callbacks | lock, rdlock, upgrade, statements, start/commit/rollback | lock and accounting change in separate steps; statements fail in the middle of a transaction | accounting never wrong, readers never see half a transaction, callbacks told the truth |
| Timers (`ptimer.c`) | a wheel of lists, the second, the timer thread's own list | register, stop, wait for the next second; the thread's loop | callbacks run without the mutex while others stop and register | never early but for two narrow cases, never forgotten, no call of a freed timer |
| Cache (`pcache.c`) | hash of elements, a timer each | add, get (take out), delete, clean | the timer thread frees what another thread is taking | one owner per value, values expire |
| Rate limiter (`prunratelimit.c`) | tree of callbacks, a timer each | run now or later | node visible before its timer exists and after it ends | one run per interval, no request lost |
| Balanced trees, interval trees (`ptree.c`, `pintervaltree.c`) | the tree | add, delete, replace, walk, safe walk; add, remove, cut | long sequences; boundaries that touch | order, balance, parent pointers; coverage |
| Lists, compression, checksums, platform, TLS | - | - | - | pure or I/O, not modelled |

### The drive

| component | state | operations and who calls them | what is hard | what makes it correct |
|---|---|---|---|---|
| Folder tasks (`pfstasks.c`, `pfsupload.c`, `pfsfolder.c`, `pdiff.c`) | rows of `fstask` and `fstaskdepend`, the overlay trees in memory, the table `folder`, the batch in flight | mkdir and rmdir from FUSE; the upload thread; events of the server; restart | ids that change, dependent tasks, answers and events on two connections, lost answers, restarts | the user sees what he made; tasks in order; all tasks end; restart shows the same |
| Files (`pfs.c`, `pfsupload.c`) | open files with a write id, rows of `fstask` with a status and the write id, local copies | create, write, flush, close, write timer; small and large uploads; unlink of a pending file | a write during an upload; unlink during an upload; three ways to release | what the server ends up with is the last content; nothing uploaded after an unlink |
| Renames (`pfstasks.c`) | pairs of from/to rows | rename of folders and files | dependencies between pairs | order, no cycle |
| Encrypted files (`pfscrypto.c`, `pcrypto.c`) | a redo log per file, a tree of authenticators over the sectors, the intervals of a modified file that are here, a thread that extends the file | sector writes, truncations, flush, replay, downloads, extension | a crash between any two writes; calls that interleave with a download; truncations while the extender works | reads see the last write; after a replay the file is that of one commit and authenticates; no sector is left that nobody wrote |
| Page cache (`ppagecache.c`) | pages in memory and in a file, waiters per page, tables | read, prefetch, flush, evict | waiters, eviction of what is in use, crash while flushing | a page has the content of its hash; no waiter forgotten |
| Static and fake files, attributes (`pfsstatic.c`, `pfsfake.c`, `pfsxattr.c`) | rows | - | nothing between steps | not modelled |

### Synchronised folders

| component | state | operations and who calls them | what is hard | what makes it correct |
|---|---|---|---|---|
| Events (`pdiff.c`) | `diffid`, the tables `file` and `folder`, the subscription socket | login, apply entries, notify | events against answers, restarts in the middle, account change | the tables are those of the server at `diffid` |
| Uploads, downloads (`pupload.c`, `pdownload.c`, `ptasks.c`) | the table `task`, lists of transfers in progress, the counter `filesuploading`, which the drive shares | queue, run, stop, retry | a file changes or its task is deleted while it is transferred | no task twice, none forgotten; a changed file is not taken for the transferred one; what has ended is on the server |
| Local scan, notifications (`plocalscan.c`, `plocalnotify.c`) | tables of local files, lists of differences | scan, wake, restart | renames appear as delete and create; a folder changes while it is read | tasks queued are the difference |
| Set of synced folders (`psyncer.c`, `pfolder.c`) | the table `syncfolder`, the tree of synced-down folders | add, delete, change type | removal while tasks run | no task of a removed sync |
| Status (`pstatus.c`, `pcallbacks.c`, `ppathstatus.c`) | a vector of states, the waiters, counters per folder | set, wait for, callbacks | a status changes between the test and the wait | no missed change; counters are sums |

### Account and connections

| component | state | what is hard | what makes it correct |
|---|---|---|---|
| Entry points (`psynclib.c`) | auth token, password, `psync_my_auth_mutex`, settings | login, logout and unlink take the same locks in different orders | no deadlock; nothing of the old account survives |
| Connections (`papi.c`, `pnetlibs.c`, `pasyncnet.c`) | a pool of sockets, a stream per request, a thread for asynchronous requests | a socket given back broken; streams that end early | answers go to their requests; sockets are not leaked |
| Crypto keys (`pcloudcrypto.c`, `pmemlock.c`) | private key, key caches, locked memory | stop against use | no key used after stop |
| Peer to peer, links, contacts, business, device monitor, overlay socket, console program | one table or one request each | nothing between steps | not modelled |

Every row is a component of `PROJECT.json`, and the lines at which things can
go wrong are its `hazards`; those without a property name the module of the plan
that will cover them.

## Modules

| module | models | kind |
|---|---|---|
| `PLocks` | `plocks.c` | component |
| `RWLock` | what `PLocks` promises | abstract specification |
| `SqlLock` | locks and transactions of `plibs.c` | component |
| `SqlLockProofs` | | proofs |
| `PTimer` | `ptimer.c`, the thread's loop step by step | component |
| `PTimerProofs` | | proofs |
| `TimerContract` | what the users of timers rely on | abstract specification |
| `PCache`, `PRateLimit` | `pcache.c`, `prunratelimit.c`, on top of `TimerContract` | components |
| `TimerUsersProofs` | the cache and the limiter; the results of `PTimerProofs` for the run's specification | proofs |
| `PTree`, `PIntervalTree` | `ptree.c`, `pintervaltree.c` | data structures |
| `PIntervalTreeProofs` | | proofs |
| `FsTasks` | `pfstasks.c`, `pfsupload.c`, parts of `pfsfolder.c` and `pdiff.c`, the server | composition |
| `FsTasksProofs` | | proofs |
| `LocksProofs` | the readers-writer lock; the results of `SqlLockProofs` and `FsTasksProofs` for the run's specification | proofs |
| `FsFiles` | `pfs.c`, with `pfstasks.c`, `pfsupload.c` for files, the server | composition |
| `FsFilesProofs` | | proofs |
| `CryptoLayout` | the layout of an encrypted file, `pfscrypto.c` | pure functions |
| `FsCrypto` | the journal of an open encrypted file, `pfscrypto.c` | component |
| `ExtendedFile`, `FsExtender` | the thread that extends an encrypted file, `pfscrypto.c`; `ExtendedFile` has its file and the properties about it | component |
| `FsExtenderProofs` | | proofs |
| `PUpload` | `pupload.c`, with `plocalscan.c` and `ptasks.c` for files, the server | composition |
| `MC*` | the instances TLC checks | |

Names follow the code: an action has the name of its function. Where a function
is several atomic steps (it gives up a mutex, or sleeps), the steps have names
of their own and `PROJECT.json` says which lines each stands for. Definitions
called `M_...` are deliberate mistakes next to the definition they would
replace; each shows that a property notices that mistake.

**PLocks.** One action per stretch of code between taking the mutex and giving
it up or sleeping. `pc[t]` is the call in which a thread sleeps, `woken` the
sleepers that were signalled; a signal on `wcond` may reach any sleeper of it,
and any sleeper may wake without a signal. The per-thread pair is `cnt0`,
`cnt1`, with -1 for `PSYNC_WR_RESERVED`.

**SqlLock.** Who gets the lock is decided by the rules of `plocks.c` on the
per-thread counters; the steps that record the writer are separate from those
that take the lock, as in the code. `frames[t]` are the calls a thread still has
to undo; threads nest them in every way up to the bound. A transaction writes
one value to two rows, and each statement, `BEGIN` and `COMMIT` may fail. When
`BEGIN` fails, `psync_sql_start_transaction` returns with the write lock held, and
its callers go on in one of two ways. The one that looks at the result
(`pupload.c:365`) skips the transaction and keeps the lock (`BeginFails`; `leaked` is a
history variable that has those threads). The others ignore it (`BeginIgnored`): the frame is
`auto`, each statement commits by itself (`Durable`), and the call that ends the
transaction, or adds a callback to it, finds `assert(in_transaction)` false
(`AssertionFails`, the frame `abort`), after which the thread does no more and nobody
gets the lock. A statement run by `psync_sql_statement` commits by itself outside a
transaction; inside one its failure is not recorded (`ExecInTransaction`).

**PTimer.** The clock is `psync_current_time`, set without the mutex
(`ReadClock`). The loop of `timer_prepare_timers` is followed second by second
(`NextSecond`) and level by level (`Rise`, `MoveDown`, `TakeDue`), so that each move
can be reasoned about; nobody else takes a step while the thread holds the mutex
(`Held`). Then come the broadcast (`Announce`), the calls, one by one and without the
mutex, and `Reinsert`. `place` is the level and slot of a timer, `level` the field
`level` to which it returns. The clock may jump by `MaxJump`, as after a slow
callback; it is assumed not to be set back. Sizes are constants: the code has three
levels (`TIMER_LEVELS`) of 64 slots. `hasty` is a history variable. It has the timers
that were registered for a time more than the span of their level after the last
second served, which takes a registration between the update of the clock and the
thread's mutex: their slot opens a lap early and they are called at once. An interval
as long as the longest, 64^3 seconds, is always one of these when it starts in that
moment: `NeverEarly` says that none is, and TLC violates it with `PTimerEarly.cfg`.

**PCache, PRateLimit.** The list of a bucket is a set with the order of its elements (`ahead`). The
timer thread is the one of `TimerContract`: a timer
is free, in the wheel, or running, and the thread puts back what was not
stopped. The free callback of a cached value and the callbacks of the limiter
are left abstract; what counts is who calls them and when.

**PTree, PIntervalTree.** The balanced tree is translated pointer by pointer,
with recursive operators for its loops, and is model-checked only. The interval
tree is the set of its intervals; where the search ends depends on the shape of
the tree underneath and is left open between the two places it can end.

**FsTasks.** Calls of FUSE and transactions are single steps, since they hold
the write lock throughout. `rows`, `deps` and `folder` are the tables, `fold` the
overlay, `batch`, `answers` and `pc` the upload thread, `wire` the requests in
flight. `folder` is written both by the processing of answers and by the events.
The server is external: it creates a folder if it does not exist, deletes an
empty one, and emits an event for each change. Errors are those the code
distinguishes: no such parent (2002), folder gone (2005) and not empty (2006).
History variables record what is needed to say the properties: `want`, the paths
the user made and did not remove; `refused`, rows whose last request the server
refused; `badrelease`, whether the debug check at a release has failed; and
`misled`. `misled` becomes true when the client acts on a folder that is already
deleted on the server, or learns of a folder from an answer after its deletion
event was applied. From then on the code is known to lose its agreement with the
server (it makes the folder in the root instead, or keeps a folder no event will
remove), so the properties that say `~misled` speak of the behaviours before.
The order of events that leads there needs a second device, or a call of the
user on a folder that a late event shows once more.

**FsFiles.** One name and whatever files bear it one after another; a row waits
for all older rows of its name, so the upload thread has one task at a time.
`ofs` are the `psync_openfile_t`, `fd` says which of them a handle of the user
has open; `rows`, `creats`, `unlinks`, `table` are the table `fstask`, the
overlay of the name and its rows in the table `file`; `data` the local data
files, `srv` the server. Contents are the numbers of the writes that made them.
The table is written by two: the answers, and the events the server emits for the
same changes, which come on another connection and are applied in their order
(`events`, `Diff`), however many answers were processed in between. A late event
brings an older content back, or a file that the server has no more, or takes away one
that an answer has put there; so `table` is a set of files, of which the query
by name may find any. And the answer of an upload does not
change the content of a file that has a row already (`INSERT OR IGNORE`,
`diff_create_file`): the user finds the older content until the event comes.
A step ends where the code drops `of->mutex` or the SQL lock: a flush is
`Flush`, which marks the file released, then `ReleaseRow`, which writes the row
with whatever file id the open file has by then, perhaps `RaiseWriteid`, then
`psync_fs_dec_of_refcnt`; the write timer is `Expire` (the callback starts, and can
no longer be stopped), `psync_fs_write_timer` and the same three steps in the
thread it starts; a write to a file of the server is `WriteServerFile`, then
`psync_fs_reopen_file_for_writing`; an accepted upload is `process_task_creat`,
`CopyToPageCache`, `FinishCreat`, with a commit in between. The set `odd` is a
history variable: it collects the events after which the code is known to lose
its agreement with the user or the server, and `ShowsWant` and `Arrives` speak of
the behaviours without them.

- `raced`: `open` with `O_TRUNC` of a closed file whose upload is under way.
- `late`: two handles write one file of the server. The first write raises the write
  id and waits for the SQL lock; the second makes the file new and is flushed; the
  first then changes the data while they are on their way under that write id.
- `crossed`: `open` of a file that a flush has released before it updated the row
  takes the file for not released; the next write does not stop the upload, and
  the failed task may wait until something else wakes the thread.
- `early`: a flush or the write timer released a file, and before it updates the row
  the file is uploaded and made new by the next write; it reads the file id again and
  releases the new row, although nobody has flushed the file (`pfs.c:1694`, `1788`). The
  following write then takes the file for not released, as after `crossed`.
- `revived`: a write through a handle of an unlinked file of the server creates
  the file again under its old name.
- `orphan`: the user unlinks a pending file whose server id the client does not
  know, because the answer was lost, or came when the file was closed, or the file
  was opened with `O_TRUNC`; the file stays on the server.
- `cut`: a restart between the two commits of an accepted upload.
- `stale`: an older event has brought back a file the server has no more, beside the
  server's file or before it came, and the user removes that one: `unlink` takes whatever id the
  query finds, and the server's file stays.
- `gone`: the data file of a task is no longer there when it is to be sent (after
  `cut`). The task is given up, its entry stays in the overlay, and since ids of
  deleted rows are given again, another row may come to bear the id the entry and its
  open file have. Until then `psync_fstask_unlink` of the entry fails
  (`UnlinkFails`).

Left out: requests the server refuses (`handle_upload_api_error`, error 2003 of an
unlink; a file that does not exist, 2009, is there), changes of this name by another device,
`deletedfileid` in the metadata of an upload (one to an existing name keeps the id), and
that a batch of events is one transaction: here each event is a step, so more is seen of
the table in between than in the code. A write through a handle that was opened while the
table had an older content counts as a new content as a whole, like every write.

**CryptoLayout, FsCrypto.** Sizes are in units of an authenticator, and a sector
is `HTS` of them, which is also how many authenticators a sector of the tree
holds: 128 in the code, 2 in the runs, so that five sectors already have a tree of
several levels. Cryptography is abstract: a unit of cipher text carries the sector,
the text and its place, an authenticator what it was made from, and nothing else
decodes. `datafile` is a sequence of such units, `indexfile` a set, `flog` the
finalized log. A write or truncation is one step up to the first time it gives up
`of->mutex` for a download (`pend` then has the call, and a flush by the write
timer may come between); finalizing a log is the steps rename, sync, replay and
removal (`pc`), and a crash may come at each, with any subset of the unsynced
writes of a replay on the disk (`Survivors`). `unsynced` has the units that a download
put into the data file since its last sync, for a download is not synced
(`pfscrypto.c:1446`): a crash loses none of them, all, or all but those that the
finalized log counts on without writing them itself (`Losses`). Names are durable in the order they
were given, as the code assumes of the file system, and a log that was damaged is
rejected by its hash. The log fills up (`MaxLog`) for new files only; that is a
bound. `damage` is a history variable: it says what a download did to the data
file that a download must not do, `over` when it overwrote committed units,
`longer` when it lengthened the file, whose length decides where committed sectors
are read (line 359); or that a crash lost what a committed log needs of a download,
`lost`. From then on no call goes on, and `ReadsLatest` and
`CommitsAreAtomic` speak of the behaviours without it.

**ExtendedFile, FsExtender.** Sizes are in chunks of `PSYNC_CRYPTO_EXTENDER_STEP`.
`ofile` is what matters of the open file: its size, which chunks are there, which
sectors the log has and how full it is. A caller that must wait is counted in `waiters`;
the extender signals them after each chunk, and frees itself when nobody waits. In
`loop`, `check` and `finish` the extender keeps the mutex; elsewhere it has dropped it
and any call may come. `holes` collects the chunks that were missing when a read came to
them, `aborted` an assertion that fails, after which the process is gone. `misled`
records that a killed extender was given a new target beyond what it had done: it runs
no more, and the file keeps the hole. Left out: the releases of the mutex inside a write
of a modified file (they are in `FsCrypto`), the pre-check of sectors (1688-1694).
`NoHoles` speaks of new files: in a modified one a chunk that is not here is on the
server.

**PUpload.** One synced folder that only uploads. The scan is two steps, since it reads
the disk and the table without a lock and writes its tasks later in one transaction
(`lists` is what it found). The upload thread (`at`, `cur`) takes tasks in the order of
their ids; an upload has an element in `up`, with the thread's step: look up the file,
hash it, ask whether the server has it, read and send, be saved, be answered, end. What
is hashed, what is sent and what the scan recorded may be three contents. `Going` is the
moment between the test of `filesuploading` and the sleep, during which
`current_uploads_mutex` is held. The server keeps a file under the name it was given
unless it has one that the client did not know (`ifhash`); then it gives the upload
another name, and the client renames its file. It may refuse an upload or a deletion:
for now, and the task is tried again, or for good, and `psync_handle_api_result`
(`pnetlibs.c:390`) makes that the end of the task, with nothing uploaded or deleted
(`uploadfile_refused`, `task_deletefile`). `drive_load` and `drive_store` are the
drive's `filesuploading++` and `--`, which take another mutex and so may lose an update
of the other side or be lost; the model tears only the drive's accesses. `change` raises
the modification time each time, so that a scan sees every change. Left out: files so
big that uploads are resumed, folders, renames by the user (the scan pairs a deletion
with a creation by inode and size), copies of equal files on the server, the wait for a
file to be older than a few seconds, quota and online status, and the bytes counted
besides the files. `odd` is a history variable, as in `FsFiles`:

- `reused`: a task was deleted by an id that belonged to another by then.
- `stale`: `check_file_if_exists` found the content in the table `file` or by its
  file id, but later events or another upload had changed the server's file.
- `conflict`: the server gave an upload another name; after a lost answer that
  happens to the client's own file.
- `orphan`: a row of `localfile` was deleted while the server had a file for it that
  the row did not know, or `delete_from_localfile` (1119) forgot it.
- `refused`: the server refused an upload or a deletion for good; the task is deleted
  as if it were done, and nothing tries again.
- `raced`: the drive's update of the counter was torn, or its wake came while the
  upload thread was about to sleep.

## Runs

| run | instance | checks |
|---|---|---|
| `locks_and_folders` | lock: 3 threads, nesting 2; database: 3 threads, nesting 4, 2 transactions or statements; drive folders: 2 names, 4 calls, batches of 2, 1 broken connection, 1 restart | `LockInv` (types, counters, reservation, exclusion), `AssertionsHold` (every `assert` of plocks.c), `WakeupInv` (no lost wakeup, no stranded reader), that the lock implements `RWLock`; `Accounting` (the assertions of plibs.c, and agreement with the lock), `ConsistentRows`, `CallbacksTellTheTruth`; `RowsInv`, `NoLostWakeup`, `RestartAgrees`, `ViewAgrees`, `SameNameInOrder` |
| `sql_exec_in_transaction` | 2 threads | violated: `ConsistentRows`, when a transaction uses `psync_sql_statement` |
| `timer_users` | cache: 3 values, 2 keys, 2 threads; limiter: 2 callbacks, 3 nodes, 2 threads, interval 3; wheel: 2 timers, 1 waiter, 3 levels of 2 slots, intervals 2 and 5, 9 seconds, jumps of 2 | `NothingFreedInUse`, `Expires`; `RateLimited`, `EveryRequestRuns`; `WheelInv`, `OnTime`, `NoMissedSecond`, that the wheel implements `TimerContract` (`ContractHolds`) |
| `structures` | drive files: 2 handles, 2 open files, 4 calls, 1 broken connection or restart, no `O_TRUNC`; trees: 12 nodes; intervals: offsets 0..9 | `OpenFilesOK`, `ChangedFailsUnlessRaced`, `ShowsWant`, `CatchesUp`, `Arrives`; `TreeOK`; `Canonical`, `Represents` |
| `uploads` | synced folder: 2 files, 4 names, 2 contents, 2 uploads, room for 1, 2 changes, 1 fault; drive folders: 1 name, 3 calls, 1 broken connection, 1 restart, 1 change by another device | `Uploaded`, `UploadsEnd`; `Settles` |
| `uploads_task_ids` | 1 file, 2 names, 3 changes, no fault | violated: `NoTasksInSync` |
| `fs_tasks_release` | 2 names, 4 calls, rmdir of folders that are not empty | violated: `ReleaseConsistent` |
| `fs_files_truncate` | 2 handles, 1 open file, 3 calls, with `O_TRUNC` | violated: `ChangedFails` |
| `fs_files_reopen` | 2 handles, 1 open file, 5 calls, no `O_TRUNC` | violated: `ChangedFails` |
| `fs_crypto` | journal: sectors of 2 units, remote files of 3, 6 and 9, 4 kinds of write, 3 sizes, 3 calls, log of 4, 1 crash; extender: a writer and a reader, 3 chunks, log of 2, 3 calls | `TypesOK`, `LayoutExact` (sizes 1 to 40), `ReadsLatest`, `CommitsAreAtomic`; `NoHoles`, `ReadsAreFilled`, `CallsReturn` |
| `fs_crypto_download` | a remote file of 9 units, 4 calls, no crash | violated: `DownloadsFillHoles` |
| `fs_extender_kill` | as in `fs_crypto`, 4 calls | violated: `FinalizeSeesTarget` |

`locks_and_folders`, `timer_users`, `structures`, `uploads` and `fs_crypto` hold two or
three independent specifications each; a variable set in the initial state (`part`,
`user`, `which`, `side`) chooses which of them a behaviour is about, and the others
stand still, and fairness asks nothing of them. They are not compositions: what
components share is inside the modules above that are.

**Bounds.** Three threads are the fewest in which a wakeup can reach a thread
other than the right one while a third holds or waits; nesting 2 distinguishes
the first entry from the others, and 4 lets a thread hold read locks under an
upgrade around a transaction. Three levels of two slots have the boundary of
each level and a wrap of each index within 9 seconds; an interval of 5 seconds starts
at the highest level and moves down twice. Three elements exceed `maxkeys` = 2. A
deletion that rebalances on two levels needs the smallest balanced tree of height
5, which has 12 nodes. Offsets up to 9 hold three separate intervals with a gap
on both sides of each. Four calls make and remove a folder twice, or a folder in a
folder; batches of two make the thread take a batch that is full as well as one
that is not. Counters of faults (`MaxLost`, `MaxCrashes`, `MaxForeign`, and
`MaxFaults` for both) are one each: their steps leave the state as it is but for what is
lost. Four calls on one
file create it, write, flush and remove it, or open, write and remove one that has
reached the server; closing a handle and the write timer are not counted. Two open
files are a removed one that is still open and its successor. `O_TRUNC` is left out
of `structures` for the number of states; the module has it (`Trunc`), and the same
invariants hold with it for four calls without faults and for three calls with two. Without it they hold for five calls without faults, the fewest that lead to
`late`: create, open again, flush, and a write through each handle.

In `fs_crypto`, remote files of 3, 6 and 9 units have trees of one, two and three
levels, the last with partial sectors at every level; the four writes are a part of
a sector, two parts, a whole sector and one past the end, and the sizes shrink below
a level and grow above it. Three calls are a write, one that comes during its
download, and one after the crash or the commit; the log of four is full after two.
Three chunks let the extender stop in the middle with a chunk done and one to do,
and three calls start it and move its target, kill it or flush while another thread
reads; four were checked as well. In `uploads`, two changes are two files or one file changed or deleted
while it is uploaded; with room for one upload the second waits; the one fault is
a broken connection before or after the server saved the file, a refusal, a restart, or an
upload of the drive. The names 3 and 4 are for conflicted copies:
with fewer a server that must find a name would not answer. Three changes of one
file without faults, and three changes with three
uploads and room for two (safety only), were checked as well and hold.

**Symmetry and views.** `Threads` and the folder names of `locks_and_folders` and
`Handles` of `structures` are symmetric; neither run has a liveness property.
`structures` uses a view that names a node of the tree by its place in the order,
for the code never compares node addresses, and forgets, once `odd` is not empty, what
no property speaks of then; and `timer_users` one that names a timer
of the wheel by its fields, since the liveness properties of that run speak of the
cache and the limiter only.

**Deadlock** is checked in `locks_and_folders`, where only the drive may come to
rest (the user has made all his calls), by a step that changes nothing. The other
instances stop because their bounds do: the clock ends, every value has been used,
the user has made all his calls.

**Fairness.** In `timer_users`, the timer thread's steps and the second half of a
call that a thread has begun: the thread loops for ever and no mutex of these
components is held across a blocking call. In `fs_crypto`, the extender thread and
the calls that wait for it go on, as the scheduler of the operating system sees to;
starting a call is not fair. In `uploads`, for the folders of the drive its upload
thread, the server and the thread that applies events; for the synced folder the
scan (it runs every few seconds, or when notified), the upload thread, each upload,
the events of the server, and an upload of the drive that has begun; a mutex is not
refused to a thread for ever. Neither the user, nor failures, nor restarts, nor other
devices are fair, and each is bounded, so these properties speak of what happens when
they stop. All fairness is weak. The locks
promise no fairness among writers (the code makes none), and their wakeups are
stated as invariants. So is what must eventually happen in `FsFiles`: `Arrives`
says that when the upload thread sleeps with nothing to wake it and all files are
closed, no row is left and the server has the last content.

## What the runs show

All properties of the passing runs hold. The seven violated ones are these.

- `psync_sql_statement` does not set `transaction_failed`, so a transaction that
  uses it (`pcontacts.c:71`, `pdiff.c:107`) commits although a statement failed.
- `psync_fstask_rmdir` on a folder that is still to be created and is not empty
  returns `ENOTEMPTY` with one taken from its parent's `taskscnt`; the parent's
  overlay is then freed with the user's entries in it.
- `psync_fs_open` with `O_TRUNC` of a pending file that nobody has open truncates
  its data file and leaves write id and status as they are. If the file is being
  uploaded, the answer for the old content is accepted as the file's, and the
  truncation is lost.
- `psync_fs_write` raises the write id before `psync_fs_reopen_file_for_writing` drops
  `of->mutex`, and not again when the file was made new meanwhile (`goto retry`). What
  the other handle wrote may be on its way to the server under that write id; its answer
  is accepted, and the write that came late is lost. The proof of
  `ChangedFailsUnlessRaced` led to this one: no call that is under way may be ahead of
  the data it will write.
- A modified encrypted file is truncated down and written past its old end. What the
  write must download is computed from the current size as if the file had only
  grown, so the downloaded authenticators overwrite committed sectors of the
  data file or lengthen it (`pfscrypto.c:1446`); the comment that this needs no sync because only
  empty positions are written (1454) is not true then.
- A truncation kills the extender but leaves its target, above the new size, until
  the thread has seen it. A log that is full meanwhile is finalized, and
  `assert(of->currentsize==of->extender->extendto)` (`pfscrypto.c:981`) ends the process.
- The table `task` gives the id of a deleted row again (`pdatabase.h:97` has no
  AUTOINCREMENT). A file that changes while it is uploaded has its task deleted and
  a new one inserted under the same id; the stopped upload, if it still succeeds,
  deletes the new task by that id. Nothing is left to upload, and the server has the
  old content until the file changes again.

Three more are not among the runs; each has a configuration, under which TLC finds the
property violated.

- `MCSqlLockBegin.cfg`, `NothingHalfDone`: all callers of `psync_sql_start_transaction` but one
  ignore that `BEGIN` failed (`plibs.c:830`). Their statements commit one by one, and the
  end of the transaction aborts the process on `assert(in_transaction)` (851) with one row
  on disk and not the other; `plibs.c:862` rolls a transaction back when a statement
  failed, but here there is none to roll back.
- `MCFsCryptoPowerLoss.cfg` (module `MCFsCryptoDownload`), `DownloadsNeedNoSync`: a sector is
  appended to a file of three sectors that is on the server. Its authenticators are
  downloaded and, says the comment at `pfscrypto.c:1454`, need no sync; the log that is
  committed next counts on them (`LOG_INT`) and is synced (849) before the data file is (864).
  After a power failure in between the replay gives neither the file before nor the one after.
- `PTimerEarly.cfg`, `NeverEarly`: a timer of 64^3 seconds, which the comment in `ptimer.c`
  allows ("Maximum timeout possible is TIMER_ARRAY_SIZE^TIMER_LEVELS seconds"), is put into
  the slot of the highest level that opens next, and is called at once, when it is
  registered after the clock was updated and before the timer thread has the mutex.

Some properties hold for a reason that is worth knowing. `NoLostWakeup` of
`FsTasks` excludes the rows in `refused`: after error 2002 the row is pointed at
the root, and the upload thread is not woken for it. `SameNameInOrder` excludes the
steps after which the client is `misled` for the same reason: in the root the row may
overtake an older one of its name. `Accounting` excludes threads that
kept the lock of a failed `BEGIN`, and `ConsistentRows` the time in which a thread goes on
after one: its rows reach the disk one at a time (`NothingHalfDone`). `ShowsWant` says less
of the table while events are on their way: the server has what the user made and the
name finds that file, but the content in its row, or another file beside it, may be an
older one; `CatchesUp` says that the events undo this. `CommitsAreAtomic`
excludes a crash that lost what the log needs. `Uploaded`, `ShowsWant` and `Arrives` speak of the
behaviours without the events in `odd`, `Settles` of those without `misled`, and each
of these events is a way in which the code is known to go wrong or to give up.

Reading and modelling `pfscrypto.c` showed more that no run checks: the assertion at
1680 (`of->extender->extendto<size`) fails for a truncation up after a kill; a failed
`fillzero` leaves sectors in the log beyond the file, which the assertion near 550
finds; reads of a modified file do not wait for the extender (1197-1234);
`read_modified_locked` (1233 on) uses an interval after the mutex was released;
1250 and 1263 call `psync_fs_unlock_ret` without returning; `do_finalize_log` (about
972) goes on although `process_log` failed with `EIO`.
`psync_fs_flush` (`pfs.c:1753`) reads the write id before a flush of the log that may
release the mutex.

## Proofs

The modules called `...Proofs` are checked by TLAPS. Each theorem is about every
value of the constants; the only hypotheses are the assumptions that the module of the
component states and the runs evaluate, but for the theorems that say otherwise
(`~ExecInTransaction`, `~BusyRmdir`).

*The lock* (`LocksProofs`), for every finite set of threads and every positive nesting
depth (`ThreadsFinite`, `MaxDepthPositive`). Mutual exclusion and the assertions are not
inductive: a step decides by the shared counters (`rcount`, `wcount`, `reserved`), the
property speaks of the threads. `LockInv` adds that the counters are the numbers of
threads in each role (`CountersAgree`), which calls a thread can be asleep in with which
counters (`ThreadShape`), that the flag has one owner (`ReservationOwned`) and that the
writer is alone (`WriterAlone`). The proof splits a step in two questions: `StepEffect`
shows for each action how the counters and the four sets of threads change, by one
thread at a time, so that `CountStep` (on cardinalities) gives `CountersAgree`;
`StepReservation` follows the owner of the flag. `LockInvariant` is the result;
`TypeCorrect` (hence no counter goes below zero), `Exclusion`, `Reservation` and
`Assertions` follow. `WakeupInv` is inductive together with `LockInv` and `PreferInv`
(`prefer_read` is up only while a thread sleeps in `starvewr`): the counters say who
sleeps (`SleepFacts`), and a step either leaves the lock taken for the sleepers of a
condition variable, or signals it, or a thread that was signalled is still on its way
(`Wakeups`). `Implementation` maps every step to one of `RWLock` or to a stutter; a
thread that is woken and sleeps again is a stutter.

*The database lock* (`SqlLockProofs`, `LocksProofs`), for any number of threads, any
nesting and any number of transactions (`SqlAssumption`). The inductive invariant
names the situations a thread can be in (free, reading, a writer not recorded yet,
upgraded and not recorded, the recorded writer, on its way out) and ties in each the
thread's locks and both records of them to the calls it has to undo; a failed `BEGIN`
leaves one lock more, or a call that has the lock but no transaction (`LockInv`). The
latter is the writer's, so nobody else reads meanwhile, and it never ends, for its end is
the assertion: so nothing has to be said of the rows after it. `TranInv` has the one transaction in its place among
those calls; `DataInv` says what of it is in the tables, on the disk and reported. From
it follow `RecordAgrees`, `WholeTransactions` and `CallbacksTruthful`. The last two have the
hypothesis `~ExecInTransaction`: no statement of a transaction is run by
`psync_sql_statement`. Without it they are false, as `sql_exec_in_transaction` shows.
`WholeTransactions` is about the disk, and the tables others see, as long as no thread is
between a failed `BEGIN` and the assertion.

*Folder tasks* (`FsTasksProofs`), for any names, any number of calls, broken connections,
restarts and changes by other devices, and any size of batch (`TasksAssumption`). The
hypothesis `~BusyRmdir` says that the user calls no rmdir on a folder that is not empty
and still to be created: then `taskscnt` is wrong, as `fs_tasks_release` shows, and the
folder is lost from the overlay. `RowsInv` and `NoLostWakeup` are not inductive. Why is a
request never sent with the id of a folder that has none yet? Because a row that names
-taskid waits for that mkdir (`Waits`) until it has ended, and a row in the batch waits
for nothing; a rmdir waits for the mkdir of what it removes, and where its own folder has
no id yet it may wait for it only through that mkdir. For that to hold of the next call,
the user must find no -taskid of a row that is gone: so each entry of the overlay is of a
row, in the folder its row names now or named when it was made, or it has an id of the
server and is in a folder of the server (`OwnMkdir`, `MkdirKnown`), -taskid is in one
place (`OnePlace`), and the count of a folder is the number of its entries, or the
release would free it too early (`FolderKnown`, `Busy`). `Straight` is what holds besides
as long as the client is not misled: tasks wait for older ones, for the id of a row that
is gone has not been given to one that an old entry still names. For the wakeups, the
thread in `send` has the ready rows in its batch, or will look again (`Looked`), and the
transaction that processes the answers keeps this for the rest of the batch (`Held`,
`Awake`, `Left`), after each of them.

The answers of a batch, the events of the server and the rows that are read again at a
restart are each one step, so a proof about the step is an induction over data. It is
done without the theorems of the library that take an operator: `UpTo` is induction on a
set of numbers, from the well-foundedness of the strict subsets of a finite set
(`Least`); with it a function that satisfies the equations of `Processed` exists
(`ProcessedExists`), so `Processed` does, and what holds before the first answer and
passes over each holds after all (`HeldAll`; `AppliedKnown` for the events). The batch is
given by ranks, and `RankReached` shows that each rank below the size is of one row
(`BatchReady`). The steps on rows, dependencies and overlay have lemmas without reference
to the state (`RowAdded`, `RowRenumbered`, `MkdirDone`, `RmdirDone`, `MkdirRefused`). The
results are `TasksKept` and, for the run's specification, `RequestsResolved` and
`UploadAwake`. The attempt to prove `SameNameInOrder` of a refused row showed that it did
not hold in that one step, and the property says so now.

*The wheel* (`PTimerProofs`), for every number of timers, waiters, levels and slots and
every interval. `WheelAssumption` has the facts about powers the proof uses, since `^`
means nothing to the provers; TLC evaluates them for the values of the runs. `OnTime` is
not inductive: nothing in it says where a timer lies. `WheelInv` says that a timer lies
in the slot that belongs to its time, at a level where that slot opens no later than
that time (`PlaceInv`, `Opens`) and, unless the timer is hasty, at most the level's span
after the last second served; and which levels the second being served has still to open
(`Pending`). The arithmetic is in lemmas about quotients: two times less than a lap
apart that fall into one slot are the same turn (`SameResidue`), and the turn of a level
is a multiple of those below it. `WheelInvariant`, `CalledOnTime`, `WaitersWoken` and
`ContractKept` (every step of the wheel is a step of `TimerContract`) are restated for
the run's specification as `SlotsFit`, `TimersOnTime`, `SecondsSeen` and
`WheelImplements`.

*Cache and rate limiter* (`TimerUsersProofs`), for every number of elements, nodes, keys,
callbacks and threads. That nothing is freed in use is an argument about ownership: an
element is the list's, or its finder's, or `cache_timer`'s from the moment the timer
thread calls it until it is freed and its timer stopped; an element that
`psync_cache_del` unlinked has no timer left. `ElementInv` and `NodeInv` say who owns
what at every step. For the intervals of the limiter, the seconds since the last run
and those the timer has left are together never less than the interval (`TimeInv`).
The results are `UserInvariant`, `InUseNotFreed` and `IntervalsKept`.

*Interval trees* (`PIntervalTreeProofs`), for every bound on offsets. `Canonical` is what
makes `Represents` inductive: `Consumed` looks only at intervals that start inside the
new one, which is enough only if the others neither overlap nor touch.
One lemma per operation (`AddCorrect`, `RemoveCorrect`, `CutEndCorrect`), with
`ConsumeIntervals` for the loop that swallows intervals.

*Drive files* (`FsFilesProofs`), for every finite set of handles (`HandlesFinite`) and
every bound on calls, open files, broken connections and restarts. `OpenFilesOK` has two
parts. The first counts references; what it leaves open is that two calls in progress
are never taken for one. Those of handles differ by their handle; those of the timer by
the write id at which they began, since the timer is set again only by a write, which
raises it (`CallInv`, `Same`). The second part says that a file not uploaded yet keeps
its row and its data file, which two pairs of locks protect: those who cancel an upload
and the thread that completes it. `RowsKept` says why: a row that is being
cancelled, or will be at the last close, has a younger unlink about it, so no entry of
the overlay leads to it; no two open files are the same new file; and the upload thread
works on the oldest row of the name, which is not in the overlay any more between the
two commits of an accepted upload (`Batch`). Each
kind of step has a lemma for the references (`FileOpened`, `FlushCalled`, `TimerCalled`,
`CallGoesOn`, `ReferenceDropped`) and one for the rows (`RowsMoved`, `CreatAdded`,
`UnlinkAdded`, `TaskEnds`). `FilesInvariant` is the result and `OpenFilesKept` follows.
The rows are spoken of in the behaviours without `gone`: after it the id of an open
file may be another row's.
`UploadsUnchanged` states `ChangedFailsUnlessRaced`, for which `WritesKnown` is added.
Nothing in the property says why equal write ids mean equal contents: that has to be
known at every moment between the request and its answer (`Content`, `Current`), and
at the end the id may be looked up in the row instead of the open file, for the file can
have been closed. So the row must never be ahead of the file, and when the last
handle is gone, either the row has the file's last write id or a flush or the timer is
still on its way to give it that one, whichever of its two updates it has reached
(`Covered`); with the last reference there is no such call any more (`LastReference`).
Its lemmas say what a step does to write ids (`FileWritten`, `FileAdded`, `IdsStay`,
`CallUpdates`, `ThreadStays`). The attempt to prove the step of
`psync_fs_reopen_file_for_writing` failed for the reason that is now the event `late` and the
run `fs_files_reopen`.

`NameShowsWant` states `ShowsWant`. What the user finds depends on rows that are gone one
after another while their file ids are replaced by those of the server, so the invariant
says for each row what there is of its file (`NameKnown`): an entry of the overlay is of
the youngest row (`EntryLast`), a creat without an entry has an unlink after it
(`CreatRow`, `UnlinkOf`), an unlink is about a file of the server or about an older row
(`UnlinkRow`). Where a row is left that may delete something, or the name is hidden, an
unlink leads to the file the server has: by its id, by the older row whose answer is
awaited or has come, or by the file that was modified (`Found`, `Leads`, `Awaited`). And
what the upload thread has in hand agrees with its row (`Thread`, `Holds`). It is the same
for all steps that leave the rows alike (`Alike`, `NameStays`); the others have a lemma
each (`...Name`). Where nothing is pending, the name must find the server's file, and this
is where the events come in: `Shown` says that the file's id is in the table as soon as
its answer was processed, and no event takes it away again, for no event on its way
deletes the file the server has (`NotDeleted`: its id is not given again).

`TableCatchesUp` states `CatchesUp`, of which `TableInv` is the inductive form; it needs nothing
of rows, overlay or open files. An answer is the server's present file when it is
processed, since the one upload thread has sent nothing since (`Asked`). So inserting it
is right whatever events are on their way, the file's own among them; that event, or a
later one of the id, is the last of its id, and after it the table has what the server
has (`EventAppended`, `EventTaken`). When no event is left the table is the server's file
and nothing else (`TableComplete`), which is the last part of `ShowsWant`.

`NothingLeft` states `Arrives`: no wakeup is lost. `WorkKept` says who is to go on. While
the upload thread is about to sleep, the oldest row is not ready or a wakeup is on its way
(`Asleep`). A creat that is being sent ends in an answer that is accepted, or the thread
has been woken, or its row waits for a flush again (`SentWork`): the answer is rejected
only after a write, and that write has stopped the upload. This holds because a row that
is ready with the write id of its open file was released there too, so the next write
sees it. A row that waits for a flush or for the last close has an open file that will
bring it, marked as deleted in the second case (`RowWork`). Then at rest the oldest row
is neither ready nor waiting, so there is none, and `ShowsWant` does the rest. The attempt
to prove the step of `ReleaseRow` found the event `early`.

*The extender* (`FsExtenderProofs`), for every size of file, chunk limit, log and number
of calls and callers (`ExtenderAssumption`). `NoHoles` is not inductive: while the
extender works the size is already the target and the chunks above its progress are
missing by design. `IInv` says where they may be missing: below `extendedto` every chunk
is there; until the extender is killed the size is its target; once it is killed the
size is at most `extendedto`. The lemmas follow the calls (`ReadFills`, `WriteFills`,
`FlushFills`, `TruncateFills`, with their types) and the steps of the thread
(`ExtenderFills`); the results are `ExtenderInvariant`, `ExtenderTypes`, `NoHolesLeft` and
`ReadsFilled`.

Model-checked only: `RestartAgrees`, `ViewAgrees` and `SameNameInOrder` of `FsTasks`. They
need that an id the server gives to a mkdir is not one that other rows have already,
which is a statement about all a user can have seen before the events came; the runs
check it on four calls. `TypesOK`, `LayoutExact`, `ReadsLatest` and `CommitsAreAtomic` of
`FsCrypto` (the levels of the tree, the entries of the log) and `Uploaded` of `PUpload`
(the writes of a commit): a step folds an operator over a sequence or a set. Those of
`FsCrypto` and `PUpload` could be proved after the fold is written as a recursive
function, as in `FsTasks`; `LayoutExact` could not. Out of the prover's reach
altogether: `Expires`, `EveryRequestRuns`, `CallsReturn`, `UploadsEnd` and `Settles`
(liveness); `TreeOK`, for the operators of `PTree` are recursive.

## Plan

In this order; each module states its assumptions on constants by name and keeps
recursion out of what is to be proved.

1. More of `FsFiles`: uploads of more than one step (`psync_sent_task_creat_upload_large`
   and `stop_current_upload`), files of the server changed in place
   (`PSYNC_FS_TASK_MODIFY`), and an abstract specification: a register whose last
   write reaches the server.
2. `FsRenames`: folder and file renames on top of the rows of `FsTasks`.
3. More of `PUpload`: folders and renames found by the scan, resumed uploads, and
   `pdownload.c` in a folder that is synced both ways.
4. `StatusWait` (`pstatus.c`) and `Account` (login, logout and unlink with the
   locks they take; deadlock).
5. `DiffApply`: events of files and folders, `diffid`, crash between batches.
6. `PageCache`, `AsyncNet`, `PathStatus`.

Theorems, in this order: `RestartAgrees`, `SameNameInOrder` and `ViewAgrees` of `FsTasks`,
with an invariant on the ids in rows and in the table; then, with their folds written as
functions, `Uploaded` of `PUpload` and the types and `CommitsAreAtomic` of `FsCrypto`; the
safety of the modules to come.

## Not modelled

The components marked `not_modelled` in `PROJECT.json` have their reason there:
third-party code (sqlite, mbedtls, `miniz.h`), tables of data (`ppassworddict.h`,
`pfsstatic.c`), the platform layer and adapters, which are system calls, and
components that make one request and write one table. Those of the plan are left
for later. The ciphers of encrypted files are abstract, and the arithmetic of sizes
is over unbounded integers: the code's are 64 bits wide and no size comes near.

## Checking

    tlc -workers 2 -config MCLocks.cfg MCLocks
    tlapm LocksProofs.tla

and likewise for the other runs of `PROJECT.json`; the longest takes about three
minutes.
