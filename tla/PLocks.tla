------------------------------- MODULE PLocks -------------------------------
(***************************************************************************)
(* The recursive, upgradable readers-writer lock of plocks.c.  Every       *)
(* database access of the client goes through one such lock                *)
(* (psync_db_lock), so the rest of the system rests on it.                 *)
(*                                                                         *)
(* A section of code between pthread_mutex_lock and either                 *)
(* pthread_mutex_unlock or pthread_cond_wait is one action.  The           *)
(* per-thread counters (pthread_getspecific) are read and written by their *)
(* own thread only, so updating them belongs to the same action.           *)
(* A thread that sleeps on a condition variable stays in the call it made  *)
(* (pc[t]); signal and broadcast move sleepers to woken, and a woken       *)
(* thread runs the rest of its loop when it gets the mutex back.           *)
(***************************************************************************)
EXTENDS Integers, FiniteSets

CONSTANTS Threads,    \* the threads of the process
          MaxDepth    \* bound on the recursion depth of one thread

ASSUME ThreadsFinite == IsFiniteSet(Threads)
ASSUME MaxDepthPositive == MaxDepth \in Nat \ {0}

VARIABLES
  rcount, rwait, wcount, wwait,  \* the counters of psync_rwlock_t
  prefer_read, reserved,         \* the two bits of opts
  cnt0, cnt1,                    \* the per-thread pair psync_rwlock_lockcnt_t
  pc,                            \* the call a thread sleeps in, or "run"
  woken                          \* sleepers that have been signalled

vars == <<rcount, rwait, wcount, wwait, prefer_read, reserved, cnt0, cnt1, pc, woken>>

\* PSYNC_WR_RESERVED, the all-ones value of cnt[1].
WR_RESERVED == -1

RdCalls == {"rdlock", "timedrdlock", "starvewr"}
WrCalls == {"wrlock", "timedwrlock", "rslock", "towrlock"}

TypeOK ==
  /\ rcount \in Nat /\ rwait \in Nat /\ wcount \in Nat /\ wwait \in Nat
  /\ prefer_read \in BOOLEAN /\ reserved \in BOOLEAN
  /\ cnt0 \in [Threads -> 0 .. MaxDepth]
  /\ cnt1 \in [Threads -> WR_RESERVED .. MaxDepth]
  /\ pc \in [Threads -> {"run"} \union RdCalls \union WrCalls]
  /\ woken \subseteq Threads

-----------------------------------------------------------------------------
(* What a thread holds, by its own counters.  A thread that sleeps in      *)
(* towrlock has given its share of rcount back.                            *)

HoldsRd(t) == cnt0[t] > 0 /\ pc[t] # "towrlock"
HoldsWr(t) == cnt1[t] > 0
HoldsReserve(t) == cnt1[t] = WR_RESERVED \/ pc[t] = "towrlock"

RdSleepers == {t \in Threads : pc[t] \in RdCalls}
WrSleepers == {t \in Threads : pc[t] \in WrCalls}

(* Definitions named M_... are deliberate mistakes: each stands for a      *)
(* plausible bug in the definition after it, and some property must catch  *)
(* it.                                                                     *)
M_WrIgnoresReserve == rcount > 0 \/ wcount > 0
M_RsIgnoresWriter == reserved

(* The conditions of the waiting loops.                                    *)
RdBlocked == wcount > 0 \/ (wwait > 0 /\ ~reserved)
StarveBlocked == wcount > 0
WrBlocked == rcount > 0 \/ wcount > 0 \/ reserved
RsBlocked == wcount > 0 \/ reserved

(* pthread_cond_broadcast on rcond and wcond leave this set of woken       *)
(* threads; pthread_cond_signal on wcond leaves one of these sets: one     *)
(* sleeper more, or the same threads when there is no sleeper to wake.     *)
BroadcastRd == woken \union RdSleepers
BroadcastWr == woken \union WrSleepers
SignalWr == IF WrSleepers \subseteq woken THEN {woken}
            ELSE {woken \union {t} : t \in WrSleepers \ woken}

-----------------------------------------------------------------------------
Init ==
  /\ rcount = 0 /\ rwait = 0 /\ wcount = 0 /\ wwait = 0
  /\ prefer_read = FALSE /\ reserved = FALSE
  /\ cnt0 = [t \in Threads |-> 0]
  /\ cnt1 = [t \in Threads |-> 0]
  /\ pc = [t \in Threads |-> "run"]
  /\ woken = {}

(* psync_rwlock_check_rdrecursive_in: the thread already holds the lock.   *)
RdRecursive(t) ==
  /\ pc[t] = "run"
  /\ \/ /\ cnt0[t] > 0 /\ cnt0[t] < MaxDepth
        /\ cnt0' = [cnt0 EXCEPT ![t] = @ + 1]
        /\ UNCHANGED cnt1
     \/ /\ cnt0[t] = 0 /\ cnt1[t] > 0 /\ cnt1[t] < MaxDepth
        /\ cnt1' = [cnt1 EXCEPT ![t] = @ + 1]
        /\ UNCHANGED cnt0
  /\ UNCHANGED <<rcount, rwait, wcount, wwait, prefer_read, reserved, pc, woken>>

(* psync_rwlock_check_wrrecursive_in; its assert(!cnt[0]) is the caller's  *)
(* obligation.                                                             *)
WrRecursive(t) ==
  /\ pc[t] = "run"
  /\ cnt0[t] = 0 /\ cnt1[t] > 0 /\ cnt1[t] < MaxDepth
  /\ cnt1' = [cnt1 EXCEPT ![t] = @ + 1]
  /\ UNCHANGED <<rcount, rwait, wcount, wwait, prefer_read, reserved, cnt0, pc, woken>>

(* A call that has to take the lock itself.                                *)
Fresh(t) == pc[t] = "run" /\ cnt0[t] = 0 /\ cnt1[t] = 0

(* The common ends of the lock calls: rcount++ (or wcount++), unlock the   *)
(* mutex, set_count(create_cnt(1, 0)) (or (0, 1)).                         *)
TakeRd(t) ==
  /\ rcount' = rcount + 1
  /\ cnt0' = [cnt0 EXCEPT ![t] = 1]
  /\ UNCHANGED <<wcount, reserved, cnt1>>
TakeWr(t) ==
  /\ wcount' = wcount + 1
  /\ cnt1' = [cnt1 EXCEPT ![t] = 1]
  /\ UNCHANGED <<rcount, reserved, cnt0>>

(* rwait++ (or wwait++) and pthread_cond_wait.                             *)
SleepRd(t, call) ==
  /\ rwait' = rwait + 1
  /\ pc' = [pc EXCEPT ![t] = call]
  /\ UNCHANGED <<rcount, wcount, wwait, reserved, cnt0, cnt1, woken>>
SleepWr(t, call) ==
  /\ wwait' = wwait + 1
  /\ pc' = [pc EXCEPT ![t] = call]
  /\ UNCHANGED <<rcount, rwait, wcount, cnt0, cnt1, woken, prefer_read>>

(* A woken thread that finds its condition still true sleeps again: the    *)
(* counter goes down and up, only the signal is consumed.                  *)
SleepAgain(t) ==
  /\ woken' = woken \ {t}
  /\ UNCHANGED <<rcount, rwait, wcount, wwait, prefer_read, reserved, cnt0, cnt1, pc>>

LeaveRd(t) ==
  /\ rwait' = rwait - 1
  /\ pc' = [pc EXCEPT ![t] = "run"]
LeaveWr(t) ==
  /\ wwait' = wwait - 1
  /\ pc' = [pc EXCEPT ![t] = "run"]

Woken(t, call) == pc[t] = call /\ t \in woken

-----------------------------------------------------------------------------
(* psync_rwlock_rdlock, psync_rwlock_tryrdlock and psync_rwlock_timedrdlock *)
(* enter alike; only the call that sleeps differs.  A tryrdlock that fails  *)
(* changes nothing.                                                         *)
EnterRd(t) ==
  /\ Fresh(t) /\ ~RdBlocked
  /\ TakeRd(t)
  /\ UNCHANGED <<rwait, wwait, prefer_read, pc, woken>>

psync_rwlock_rdlock(t) ==
  \/ RdRecursive(t)
  \/ EnterRd(t)
  \/ Fresh(t) /\ RdBlocked /\ SleepRd(t, "rdlock") /\ UNCHANGED prefer_read

psync_rwlock_tryrdlock(t) == RdRecursive(t) \/ EnterRd(t)

psync_rwlock_timedrdlock(t) ==
  \/ RdRecursive(t)
  \/ EnterRd(t)
  \/ Fresh(t) /\ RdBlocked /\ SleepRd(t, "timedrdlock") /\ UNCHANGED prefer_read

RdWakes(t) ==
  /\ Woken(t, "rdlock") \/ Woken(t, "timedrdlock")
  /\ \/ RdBlocked /\ SleepAgain(t)
     \/ /\ ~RdBlocked
        /\ TakeRd(t) /\ LeaveRd(t)
        /\ woken' = woken \ {t}
        /\ UNCHANGED <<wwait, prefer_read>>

timedrdlock_times_out(t) ==
  /\ pc[t] = "timedrdlock" /\ t \notin woken
  /\ LeaveRd(t)
  /\ UNCHANGED <<rcount, wcount, wwait, prefer_read, reserved, cnt0, cnt1, woken>>

psync_rwlock_rdlock_starvewr(t) ==
  \/ RdRecursive(t)
  \/ /\ Fresh(t) /\ ~StarveBlocked
     /\ TakeRd(t)
     /\ UNCHANGED <<rwait, wwait, prefer_read, pc, woken>>
  \/ /\ Fresh(t) /\ StarveBlocked
     /\ SleepRd(t, "starvewr")
     /\ prefer_read' = TRUE

(* On waking the flag is cleared, and set again if the loop goes on.       *)
StarveWakes(t) ==
  /\ Woken(t, "starvewr")
  /\ woken' = woken \ {t}
  /\ \/ /\ StarveBlocked
        /\ prefer_read' = TRUE
        /\ UNCHANGED <<rcount, rwait, wcount, wwait, reserved, cnt0, cnt1, pc>>
     \/ /\ ~StarveBlocked
        /\ prefer_read' = FALSE
        /\ TakeRd(t) /\ LeaveRd(t)
        /\ UNCHANGED wwait

-----------------------------------------------------------------------------
EnterWr(t) ==
  /\ Fresh(t) /\ ~WrBlocked
  /\ TakeWr(t)
  /\ UNCHANGED <<rwait, wwait, prefer_read, pc, woken>>

psync_rwlock_wrlock(t) ==
  \/ WrRecursive(t)
  \/ EnterWr(t)
  \/ Fresh(t) /\ WrBlocked /\ SleepWr(t, "wrlock") /\ UNCHANGED reserved

psync_rwlock_trywrlock(t) == WrRecursive(t) \/ EnterWr(t)

psync_rwlock_timedwrlock(t) ==
  \/ WrRecursive(t)
  \/ EnterWr(t)
  \/ Fresh(t) /\ WrBlocked /\ SleepWr(t, "timedwrlock") /\ UNCHANGED reserved

WrWakes(t) ==
  /\ Woken(t, "wrlock") \/ Woken(t, "timedwrlock")
  /\ \/ WrBlocked /\ SleepAgain(t)
     \/ /\ ~WrBlocked
        /\ TakeWr(t) /\ LeaveWr(t)
        /\ woken' = woken \ {t}
        /\ UNCHANGED <<rwait, prefer_read>>

(* The last writer to give up lets the readers it held back go on.         *)
timedwrlock_times_out(t) ==
  /\ pc[t] = "timedwrlock" /\ t \notin woken
  /\ LeaveWr(t)
  /\ IF wwait = 1 /\ wcount = 0 /\ rwait > 0 THEN woken' = BroadcastRd
     ELSE UNCHANGED woken
  /\ UNCHANGED <<rcount, rwait, wcount, prefer_read, reserved, cnt0, cnt1>>

-----------------------------------------------------------------------------
(* Taking the reserved lock: a read lock that only its holder may turn     *)
(* into a write lock.  Readers held back by waiting writers may go on.     *)
TakeReserved(t) ==
  /\ rcount' = rcount + 1
  /\ reserved' = TRUE
  /\ cnt0' = [cnt0 EXCEPT ![t] = 1]
  /\ cnt1' = [cnt1 EXCEPT ![t] = WR_RESERVED]
  /\ woken' = (IF rwait > 0 THEN BroadcastRd ELSE woken) \ {t}
  /\ UNCHANGED <<rwait, wcount, prefer_read>>

(* psync_rwlock_rslock.  assert(cnt[0]==0) is the caller's obligation; with *)
(* it the branch for a thread that has the reservation cannot be entered.   *)
psync_rwlock_rslock(t) ==
  /\ pc[t] = "run" /\ cnt0[t] = 0
  /\ \/ WrRecursive(t)
     \/ /\ Fresh(t) /\ ~RsBlocked
        /\ TakeReserved(t)
        /\ UNCHANGED <<wwait, pc>>
     \/ Fresh(t) /\ RsBlocked /\ SleepWr(t, "rslock") /\ UNCHANGED reserved

RsWakes(t) ==
  /\ Woken(t, "rslock")
  /\ \/ RsBlocked /\ SleepAgain(t)
     \/ ~RsBlocked /\ TakeReserved(t) /\ LeaveWr(t)

(* The end of psync_rwlock_towrlock, with the other readers gone.          *)
BecomeWriter(t) ==
  /\ wcount' = wcount + 1
  /\ reserved' = FALSE
  /\ cnt1' = [cnt1 EXCEPT ![t] = cnt0[t]]
  /\ cnt0' = [cnt0 EXCEPT ![t] = 0]
  /\ UNCHANGED <<rwait, prefer_read>>

(* psync_rwlock_towrlock by a reader.  A reader without the reservation    *)
(* gets -1, and keeps its read lock, when another thread has it; a thread  *)
(* that is the writer already gets 0.  Neither changes the state.          *)
psync_rwlock_towrlock(t) ==
  /\ pc[t] = "run" /\ cnt0[t] > 0
  /\ reserved => cnt1[t] = WR_RESERVED
  /\ \/ /\ rcount = 1
        /\ rcount' = 0
        /\ BecomeWriter(t)
        /\ UNCHANGED <<wwait, pc, woken>>
     \/ /\ rcount > 1
        /\ rcount' = rcount - 1
        /\ reserved' = TRUE
        /\ wwait' = wwait + 1
        /\ pc' = [pc EXCEPT ![t] = "towrlock"]
        /\ UNCHANGED <<rwait, wcount, prefer_read, cnt0, cnt1, woken>>

UpgradeWakes(t) ==
  /\ Woken(t, "towrlock")
  /\ \/ rcount > 0 /\ SleepAgain(t)
     \/ /\ rcount = 0
        /\ BecomeWriter(t) /\ LeaveWr(t)
        /\ woken' = woken \ {t}
        /\ UNCHANGED rcount

-----------------------------------------------------------------------------
(* psync_rwlock_check_recursive_out: not the outermost unlock.             *)
UnlockInner(t) ==
  /\ pc[t] = "run"
  /\ \/ /\ cnt0[t] > 1
        /\ cnt0' = [cnt0 EXCEPT ![t] = @ - 1]
        /\ UNCHANGED cnt1
     \/ /\ cnt0[t] = 0 /\ cnt1[t] > 1
        /\ cnt1' = [cnt1 EXCEPT ![t] = @ - 1]
        /\ UNCHANGED cnt0
  /\ UNCHANGED <<rcount, rwait, wcount, wwait, prefer_read, reserved, pc, woken>>

M_ReleaseRdSignalsOne(t) ==
  /\ rcount > 0
  /\ reserved' = (reserved /\ cnt1[t] # WR_RESERVED)
  /\ rcount' = rcount - 1
  /\ IF rcount = 1 /\ wwait > 0 THEN woken' \in SignalWr ELSE UNCHANGED woken
  /\ UNCHANGED wcount

(* The outermost unlock.  Which side is released is read off rcount: a      *)
(* reservation of this thread ends, and the last reader wakes one writer,   *)
(* or all of them if one is upgrading.                                      *)
ReleaseRd(t) ==
  /\ rcount > 0
  /\ reserved' = (reserved /\ cnt1[t] # WR_RESERVED)
  /\ rcount' = rcount - 1
  /\ IF rcount = 1 /\ wwait > 0
     THEN IF reserved' THEN woken' = BroadcastWr ELSE woken' \in SignalWr
     ELSE UNCHANGED woken
  /\ UNCHANGED wcount

(* The writer leaves: whom it wakes.                                       *)
WakeAfterWriter ==
  CASE reserved -> woken' = BroadcastWr
    [] ~reserved /\ prefer_read ->
         IF rwait > 0 THEN woken' = BroadcastRd
         ELSE IF wwait > 0 THEN woken' \in SignalWr ELSE UNCHANGED woken
    [] OTHER ->
         IF wwait > 0 THEN woken' \in SignalWr
         ELSE IF rwait > 0 THEN woken' = BroadcastRd ELSE UNCHANGED woken

ReleaseWr(t) ==
  /\ rcount = 0
  /\ wcount' = wcount - 1
  /\ IF wcount = 1 THEN WakeAfterWriter ELSE UNCHANGED woken
  /\ UNCHANGED <<rcount, reserved>>

M_UnlockKeepsReservedCount(t) ==
  /\ pc[t] = "run"
  /\ cnt0[t] = 1 \/ (cnt0[t] = 0 /\ cnt1[t] = 1)
  /\ cnt0' = [cnt0 EXCEPT ![t] = 0]
  /\ cnt1' = [cnt1 EXCEPT ![t] = IF cnt1[t] = WR_RESERVED THEN WR_RESERVED ELSE 0]
  /\ ReleaseRd(t) \/ ReleaseWr(t)
  /\ UNCHANGED <<rwait, wwait, prefer_read, pc>>

UnlockOuter(t) ==
  /\ pc[t] = "run"
  /\ cnt0[t] = 1 \/ (cnt0[t] = 0 /\ cnt1[t] = 1)
  /\ cnt0' = [cnt0 EXCEPT ![t] = 0]
  /\ cnt1' = [cnt1 EXCEPT ![t] = 0]
  /\ ReleaseRd(t) \/ ReleaseWr(t)
  /\ UNCHANGED <<rwait, wwait, prefer_read, pc>>

psync_rwlock_unlock(t) == UnlockInner(t) \/ UnlockOuter(t)

(* pthread_cond_wait may return without a signal (POSIX).                  *)
SpuriousWake(t) ==
  /\ pc[t] # "run" /\ t \notin woken
  /\ woken' = woken \union {t}
  /\ UNCHANGED <<rcount, rwait, wcount, wwait, prefer_read, reserved, cnt0, cnt1, pc>>

-----------------------------------------------------------------------------
Call(t) ==
  \/ psync_rwlock_rdlock(t)
  \/ psync_rwlock_tryrdlock(t)
  \/ psync_rwlock_timedrdlock(t)
  \/ psync_rwlock_rdlock_starvewr(t)
  \/ psync_rwlock_wrlock(t)
  \/ psync_rwlock_trywrlock(t)
  \/ psync_rwlock_timedwrlock(t)
  \/ psync_rwlock_rslock(t)
  \/ psync_rwlock_towrlock(t)

Wakes(t) ==
  RdWakes(t) \/ StarveWakes(t) \/ WrWakes(t) \/ RsWakes(t) \/ UpgradeWakes(t)

Next == \E t \in Threads :
  \/ Call(t) \/ Wakes(t) \/ psync_rwlock_unlock(t)
  \/ timedrdlock_times_out(t) \/ timedwrlock_times_out(t)
  \/ SpuriousWake(t)

Spec == Init /\ [][Next]_vars

-----------------------------------------------------------------------------
(* Properties.                                                             *)

(* While a thread holds the write lock no other thread writes or reads;    *)
(* a thread that sleeps in towrlock counts as a reader, so what it read    *)
(* under its read lock is still true when the upgrade is granted.          *)
MutualExclusion ==
  \A t, u \in Threads :
    t # u /\ HoldsWr(t) => ~HoldsWr(u) /\ cnt0[u] = 0

(* The reservation has one owner, and the flag of opts is up exactly while *)
(* there is one: a flag left up would shut out every writer, one left down *)
(* would let two readers upgrade and wait for each other.                  *)
ReservationOwned ==
  /\ reserved <=> \E t \in Threads : HoldsReserve(t)
  /\ \A t, u \in Threads : HoldsReserve(t) /\ HoldsReserve(u) => t = u

(* The shared counters count the threads: readers, writers and sleepers.   *)
CountersAgree ==
  /\ rcount = Cardinality({t \in Threads : HoldsRd(t)})
  /\ wcount = Cardinality({t \in Threads : HoldsWr(t)})
  /\ rwait = Cardinality(RdSleepers)
  /\ wwait = Cardinality(WrSleepers)

(* The assertions plocks.c makes under the mutex: in towrlock that there   *)
(* are readers and no writer, in unlock that readers and writers exclude   *)
(* each other, that a writer is counted, and that a reservation seen by a  *)
(* leaving writer has a waiter.                                            *)
AssertionsHold ==
  /\ \A t \in Threads : pc[t] = "run" /\ cnt0[t] > 0 => rcount > 0 /\ wcount = 0
  /\ \A t \in Threads : pc[t] = "towrlock" /\ rcount = 0 => wcount = 0
  /\ ~(rcount > 0 /\ wcount > 0)
  /\ \A t \in Threads : HoldsWr(t) => wcount > 0
  /\ wcount > 0 /\ reserved => wwait > 0

(* A reader is left asleep only while a writer is in or waits: the writer  *)
(* that gives up (timedwrlock) or takes a reservation wakes the readers it *)
(* held back.                                                              *)
NoStrandedReader ==
  \A t \in RdSleepers \ woken : wcount > 0 \/ wwait > 0

-----------------------------------------------------------------------------
(* The inductive invariant behind the properties above.                    *)

(* What the counters of one thread and the call it sleeps in say of each   *)
(* other.                                                                  *)
ThreadShape ==
  /\ woken \subseteq RdSleepers \union WrSleepers
  /\ \A t \in Threads :
       /\ pc[t] \notin {"run", "towrlock"} => cnt0[t] = 0 /\ cnt1[t] = 0
       /\ pc[t] = "towrlock" => cnt0[t] > 0
       /\ cnt0[t] > 0 => cnt1[t] \in {0, WR_RESERVED}
       /\ cnt1[t] = WR_RESERVED => cnt0[t] > 0

(* The writer is alone, by the counters.                                   *)
WriterAlone ==
  /\ wcount <= 1
  /\ wcount > 0 => rcount = 0 /\ ~reserved

LockInv ==
  TypeOK /\ CountersAgree /\ ThreadShape /\ ReservationOwned /\ WriterAlone

(* A woken thread that takes the lock as soon as it has the mutex, while   *)
(* nobody holds it.                                                        *)
CanGo(t) ==
  /\ t \in woken
  /\ \/ pc[t] \in {"rdlock", "timedrdlock"} /\ (wwait = 0 \/ reserved)
     \/ pc[t] = "starvewr"
     \/ pc[t] \in {"wrlock", "timedwrlock", "rslock"} /\ ~reserved
     \/ pc[t] = "towrlock"

(* When nobody holds the lock, the sleepers have a representative who is   *)
(* about to take it; prefer_read is up only while a starvewr reader sleeps. *)
WakeupInv ==
  /\ NoStrandedReader
  /\ prefer_read => \E t \in Threads : pc[t] = "starvewr"
  /\ rcount = 0 /\ wcount = 0 /\ RdSleepers \union WrSleepers # {}
       => \E t \in Threads : CanGo(t)

(* The lock implements the abstract one.                                   *)
modeOf == [t \in Threads |-> IF cnt1[t] > 0 THEN "write"
                             ELSE IF cnt0[t] > 0 THEN "read" ELSE "none"]
Abstract == INSTANCE RWLock WITH mode <- modeOf
ImplementsRWLock == Abstract!Spec
=============================================================================
