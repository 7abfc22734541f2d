---------------------------- MODULE LocksProofs ----------------------------
(***************************************************************************)
(* The readers-writer lock, proved for any finite set of threads and any   *)
(* recursion depth; and what SqlLockProofs and FsTasksProofs prove of the  *)
(* database lock and of the folder tasks, of the runs' own specification:  *)
(* a behaviour of LocksSpec is one of each of the models, perhaps one in   *)
(* which nothing ever happens.                                             *)
(***************************************************************************)
EXTENDS MCLocks, FiniteSetTheorems, TLAPS

Readers == {t \in Threads : HoldsRd(t)}
Writers == {t \in Threads : HoldsWr(t)}

(* Every action of thread t leaves the state of the other threads alone.   *)
OthersSame(t) ==
  \A u \in Threads \ {t} :
    cnt0'[u] = cnt0[u] /\ cnt1'[u] = cnt1[u] /\ pc'[u] = pc[u]

One(b) == IF b THEN 1 ELSE 0

(* Taking one thread in or out of a set of threads changes its cardinality *)
(* by one.                                                                 *)
LEMMA CardinalityStep ==
  ASSUME NEW S, NEW T, S \subseteq Threads, T \subseteq Threads, NEW t \in Threads,
         \A u \in Threads \ {t} : u \in S <=> u \in T
  PROVE  /\ Cardinality(S) \in Nat /\ Cardinality(T) \in Nat
         /\ Cardinality(T) = Cardinality(S) + One(t \in T) - One(t \in S)
<1>1. IsFiniteSet(S) /\ IsFiniteSet(T)
  BY ThreadsFinite, FS_Subset
<1>2. Cardinality(S) \in Nat /\ Cardinality(T) \in Nat
  BY <1>1, FS_CardinalityType
<1>3. CASE t \in S <=> t \in T
  <2>1. S = T
    BY <1>3
  <2> QED BY <2>1, <1>2, <1>3 DEF One
<1>4. CASE t \in S /\ t \notin T
  <2>1. T = S \ {t}
    BY <1>4
  <2> QED BY <2>1, <1>1, <1>2, <1>4, FS_RemoveElement DEF One
<1>5. CASE t \notin S /\ t \in T
  <2>1. T = S \union {t}
    BY <1>5
  <2> QED BY <2>1, <1>1, <1>2, <1>5, FS_AddElement DEF One
<1> QED BY <1>3, <1>4, <1>5

(* A set of threads is empty exactly when its cardinality is 0, and has at *)
(* most one element when it is at most 1.                                  *)
LEMMA CardinalityFacts ==
  ASSUME NEW S, S \subseteq Threads
  PROVE  /\ Cardinality(S) \in Nat
         /\ Cardinality(S) = 0 <=> S = {}
         /\ Cardinality(S) <= 1 => \A x, y \in S : x = y
<1>1. IsFiniteSet(S)
  BY ThreadsFinite, FS_Subset
<1>2. Cardinality(S) \in Nat /\ (Cardinality(S) = 0 <=> S = {})
  BY <1>1, FS_CardinalityType, FS_EmptySet
<1>3. ASSUME Cardinality(S) <= 1, NEW x \in S, NEW y \in S, x # y
      PROVE  FALSE
  <2>1. IsFiniteSet(S \ {x}) /\ Cardinality(S \ {x}) = Cardinality(S) - 1
    BY <1>1, FS_RemoveElement
  <2>2. Cardinality(S \ {x}) \in Nat
    BY <2>1, FS_CardinalityType
  <2>3. Cardinality(S \ {x}) = 0
    BY <2>1, <2>2, <1>2, <1>3
  <2>4. S \ {x} = {}
    BY <2>1, <2>3, FS_EmptySet
  <2> QED BY <2>4, <1>3
<1> QED BY <1>2, <1>3

(* The counters count: what a change at one thread makes of the four       *)
(* cardinalities.                                                          *)
LEMMA CountStep ==
  ASSUME NEW t \in Threads, OthersSame(t), CountersAgree
  PROVE  /\ Cardinality(Readers') = rcount + One(HoldsRd(t)') - One(HoldsRd(t))
         /\ Cardinality(Writers') = wcount + One(HoldsWr(t)') - One(HoldsWr(t))
         /\ Cardinality(RdSleepers') = rwait + One(pc'[t] \in RdCalls) - One(pc[t] \in RdCalls)
         /\ Cardinality(WrSleepers') = wwait + One(pc'[t] \in WrCalls) - One(pc[t] \in WrCalls)
<1>1. /\ \A u \in Threads \ {t} : u \in Readers <=> u \in Readers'
      /\ \A u \in Threads \ {t} : u \in Writers <=> u \in Writers'
      /\ \A u \in Threads \ {t} : u \in RdSleepers <=> u \in RdSleepers'
      /\ \A u \in Threads \ {t} : u \in WrSleepers <=> u \in WrSleepers'
  BY DEF OthersSame, Readers, Writers, RdSleepers, WrSleepers, HoldsRd, HoldsWr
<1>2. /\ Readers \subseteq Threads /\ Readers' \subseteq Threads
      /\ Writers \subseteq Threads /\ Writers' \subseteq Threads
      /\ RdSleepers \subseteq Threads /\ RdSleepers' \subseteq Threads
      /\ WrSleepers \subseteq Threads /\ WrSleepers' \subseteq Threads
  BY DEF Readers, Writers, RdSleepers, WrSleepers
<1>3. /\ Cardinality(Readers') = Cardinality(Readers) + One(t \in Readers') - One(t \in Readers)
      /\ Cardinality(Writers') = Cardinality(Writers) + One(t \in Writers') - One(t \in Writers)
      /\ Cardinality(RdSleepers') = Cardinality(RdSleepers) + One(t \in RdSleepers') - One(t \in RdSleepers)
      /\ Cardinality(WrSleepers') = Cardinality(WrSleepers) + One(t \in WrSleepers') - One(t \in WrSleepers)
  <2>1. Cardinality(Readers') = Cardinality(Readers) + One(t \in Readers') - One(t \in Readers)
    BY ONLY <1>1, <1>2, CardinalityStep, t \in Threads
  <2>2. Cardinality(Writers') = Cardinality(Writers) + One(t \in Writers') - One(t \in Writers)
    BY ONLY <1>1, <1>2, CardinalityStep, t \in Threads
  <2>3. Cardinality(RdSleepers') = Cardinality(RdSleepers) + One(t \in RdSleepers') - One(t \in RdSleepers)
    BY ONLY <1>1, <1>2, CardinalityStep, t \in Threads
  <2>4. Cardinality(WrSleepers') = Cardinality(WrSleepers) + One(t \in WrSleepers') - One(t \in WrSleepers)
    BY ONLY <1>1, <1>2, CardinalityStep, t \in Threads
  <2> QED BY <2>1, <2>2, <2>3, <2>4
<1>4. /\ t \in Readers <=> HoldsRd(t)
      /\ t \in Readers' <=> HoldsRd(t)'
      /\ t \in Writers <=> HoldsWr(t)
      /\ t \in Writers' <=> HoldsWr(t)'
      /\ t \in RdSleepers <=> pc[t] \in RdCalls
      /\ t \in RdSleepers' <=> pc'[t] \in RdCalls
      /\ t \in WrSleepers <=> pc[t] \in WrCalls
      /\ t \in WrSleepers' <=> pc'[t] \in WrCalls
  BY DEF Readers, Writers, RdSleepers, WrSleepers, HoldsRd, HoldsWr
<1>5. /\ rcount = Cardinality(Readers) /\ wcount = Cardinality(Writers)
      /\ rwait = Cardinality(RdSleepers) /\ wwait = Cardinality(WrSleepers)
  BY DEF CountersAgree, Readers, Writers
<1> QED BY <1>3, <1>4, <1>5 DEF One

(* What the counters tell a thread that looks at them under the mutex.     *)
LEMMA CounterMeaning ==
  ASSUME CountersAgree
  PROVE  /\ rcount = 0 <=> \A t \in Threads : ~HoldsRd(t)
         /\ wcount = 0 <=> \A t \in Threads : ~HoldsWr(t)
         /\ rwait = 0 <=> RdSleepers = {}
         /\ wwait = 0 <=> WrSleepers = {}
         /\ rcount <= 1 => \A t, u \in Threads : HoldsRd(t) /\ HoldsRd(u) => t = u
         /\ wcount <= 1 => \A t, u \in Threads : HoldsWr(t) /\ HoldsWr(u) => t = u
<1>1. /\ Readers \subseteq Threads /\ Writers \subseteq Threads
      /\ RdSleepers \subseteq Threads /\ WrSleepers \subseteq Threads
  BY DEF Readers, Writers, RdSleepers, WrSleepers
<1>2. /\ rcount = Cardinality(Readers) /\ wcount = Cardinality(Writers)
      /\ rwait = Cardinality(RdSleepers) /\ wwait = Cardinality(WrSleepers)
  BY DEF CountersAgree, Readers, Writers
<1>3. /\ rcount = 0 <=> Readers = {}
      /\ rcount <= 1 => \A x, y \in Readers : x = y
  BY <1>1, <1>2, CardinalityFacts
<1>4. /\ wcount = 0 <=> Writers = {}
      /\ wcount <= 1 => \A x, y \in Writers : x = y
  BY <1>1, <1>2, CardinalityFacts
<1>5. rwait = 0 <=> RdSleepers = {}
  BY <1>1, <1>2, CardinalityFacts
<1>6. wwait = 0 <=> WrSleepers = {}
  BY <1>1, <1>2, CardinalityFacts
<1> QED BY <1>3, <1>4, <1>5, <1>6 DEF Readers, Writers

-----------------------------------------------------------------------------
(* LockInv is inductive.  For each action: the types, the frame, and then  *)
(* the conjuncts of the invariant from the values at the acting thread.    *)

(* The counters after an action of t are those of CountStep.               *)
CountersStepOf(t) ==
  /\ rcount' = rcount + One(HoldsRd(t)') - One(HoldsRd(t))
  /\ wcount' = wcount + One(HoldsWr(t)') - One(HoldsWr(t))
  /\ rwait' = rwait + One(pc'[t] \in RdCalls) - One(pc[t] \in RdCalls)
  /\ wwait' = wwait + One(pc'[t] \in WrCalls) - One(pc[t] \in WrCalls)

(* When the counters change as one thread does, they agree with the        *)
(* threads after the step.                                                 *)
LEMMA CountersPreserved ==
  ASSUME NEW t \in Threads, OthersSame(t), CountersAgree, CountersStepOf(t)
  PROVE  CountersAgree'
<1>1. /\ Cardinality(Readers') = rcount' /\ Cardinality(Writers') = wcount'
      /\ Cardinality(RdSleepers') = rwait' /\ Cardinality(WrSleepers') = wwait'
  BY CountStep DEF CountersStepOf
<1> QED BY <1>1 DEF CountersAgree, Readers, Writers

(* What an action of t has to establish; the frame gives the rest.         *)
Effect(t) == TypeOK' /\ OthersSame(t) /\ CountersStepOf(t) /\ ThreadShape'

(* The lock is free at the start.                                          *)
LEMMA InitLock == Init => LockInv
<1> SUFFICES ASSUME Init PROVE LockInv
  OBVIOUS
<1>1. TypeOK
  <2>1. 0 \in 0 .. MaxDepth /\ 0 \in WR_RESERVED .. MaxDepth
    BY MaxDepthPositive DEF WR_RESERVED
  <2>2. rcount \in Nat /\ rwait \in Nat /\ wcount \in Nat /\ wwait \in Nat
    BY DEF Init
  <2>3. prefer_read \in BOOLEAN /\ reserved \in BOOLEAN /\ woken \subseteq Threads
    BY DEF Init
  <2>4. pc \in [Threads -> {"run"} \union RdCalls \union WrCalls]
    BY DEF Init
  <2>5. cnt0 \in [Threads -> 0 .. MaxDepth] /\ cnt1 \in [Threads -> WR_RESERVED .. MaxDepth]
    BY <2>1 DEF Init
  <2> QED BY <2>2, <2>3, <2>4, <2>5 DEF TypeOK
<1>2. /\ {t \in Threads : HoldsRd(t)} = {} /\ {t \in Threads : HoldsWr(t)} = {}
      /\ RdSleepers = {} /\ WrSleepers = {}
  BY DEF Init, HoldsRd, HoldsWr, RdSleepers, WrSleepers, RdCalls, WrCalls
<1>3. CountersAgree
  BY <1>2, FS_EmptySet DEF Init, CountersAgree
<1> QED BY <1>1, <1>3 DEF Init, LockInv, ThreadShape, ReservationOwned, WriterAlone,
           HoldsReserve, WR_RESERVED, RdCalls, WrCalls

(* Facts about a state of the invariant, in the form the steps use.        *)
LEMMA LockFacts ==
  ASSUME LockInv, NEW t \in Threads
  PROVE  /\ HoldsRd(t) => rcount > 0
         /\ HoldsWr(t) => wcount > 0
         /\ pc[t] \in RdCalls => rwait > 0
         /\ pc[t] \in WrCalls => wwait > 0
         /\ rcount = 0 => \A u \in Threads : ~HoldsRd(u)
         /\ rcount <= 1 /\ HoldsRd(t) => \A u \in Threads \ {t} : ~HoldsRd(u)
         /\ HoldsWr(t) => \A u \in Threads \ {t} : ~HoldsWr(u)
<1>1. /\ CountersAgree /\ wcount <= 1
      /\ rcount \in Nat /\ wcount \in Nat /\ rwait \in Nat /\ wwait \in Nat
  BY DEF LockInv, WriterAlone, TypeOK
<1> QED BY <1>1, CounterMeaning DEF RdSleepers, WrSleepers

(* What each call of plocks.c does to the counters and to the thread that  *)
(* makes it.                                                               *)
LEMMA StepEffect ==
  ASSUME LockInv, NEW t \in Threads,
         \/ Call(t) \/ Wakes(t) \/ psync_rwlock_unlock(t)
         \/ timedrdlock_times_out(t) \/ timedwrlock_times_out(t)
         \/ SpuriousWake(t)
  PROVE  Effect(t)
<1> USE MaxDepthPositive
<1> USE DEF LockInv, TypeOK, ThreadShape, Effect, OthersSame, CountersStepOf, One,
        HoldsRd, HoldsWr, WR_RESERVED, RdCalls, WrCalls, RdSleepers, WrSleepers
<1>0. /\ HoldsRd(t) => rcount > 0
      /\ HoldsWr(t) => wcount > 0
      /\ pc[t] \in RdCalls => rwait > 0
      /\ pc[t] \in WrCalls => wwait > 0
  BY LockFacts
<1>1. CASE RdRecursive(t)
  BY <1>1 DEF RdRecursive
<1>2. CASE WrRecursive(t)
  BY <1>2 DEF WrRecursive
<1>3. CASE EnterRd(t)
  BY <1>3 DEF EnterRd, TakeRd, Fresh
<1>4. ASSUME NEW call \in RdCalls, Fresh(t), SleepRd(t, call), prefer_read' \in BOOLEAN
      PROVE  Effect(t)
  BY <1>4 DEF SleepRd, Fresh
<1>5. CASE Fresh(t) /\ TakeRd(t) /\ UNCHANGED <<rwait, wwait, prefer_read, pc, woken>>
  BY <1>5 DEF TakeRd, Fresh
<1>6. CASE t \in woken /\ SleepAgain(t)
  BY <1>6 DEF SleepAgain
<1>7. CASE /\ pc[t] \in RdCalls /\ TakeRd(t) /\ LeaveRd(t) /\ woken' = woken \ {t}
           /\ prefer_read' \in BOOLEAN /\ UNCHANGED wwait
  BY <1>7, <1>0 DEF TakeRd, LeaveRd
<1>8. CASE StarveWakes(t)
  <2>1. CASE ~StarveBlocked
    BY <1>8, <2>1, <1>7 DEF StarveWakes, Woken
  <2>2. CASE StarveBlocked
    BY <1>8, <2>2 DEF StarveWakes, Woken
  <2> QED BY <2>1, <2>2
<1>9. CASE timedrdlock_times_out(t)
  BY <1>9, <1>0 DEF timedrdlock_times_out, LeaveRd
<1>10. CASE EnterWr(t)
  BY <1>10 DEF EnterWr, TakeWr, Fresh
<1>11. ASSUME NEW call \in {"wrlock", "timedwrlock", "rslock"}, Fresh(t), SleepWr(t, call),
              UNCHANGED reserved
       PROVE  Effect(t)
  BY <1>11 DEF SleepWr, Fresh
<1>12. CASE WrWakes(t)
  <2>1. CASE WrBlocked
    BY <1>12, <2>1, <1>6 DEF WrWakes, Woken
  <2>2. CASE ~WrBlocked
    BY <1>12, <2>2, <1>0 DEF WrWakes, Woken, TakeWr, LeaveWr
  <2> QED BY <2>1, <2>2
<1>13. CASE timedwrlock_times_out(t)
  <2>1. woken' \subseteq Threads /\ t \notin woken'
    BY <1>13 DEF timedwrlock_times_out, BroadcastRd
  <2>2. woken' \subseteq RdSleepers' \union WrSleepers'
    BY <1>13 DEF timedwrlock_times_out, BroadcastRd, LeaveWr
  <2> QED BY <1>13, <1>0, <2>1, <2>2 DEF timedwrlock_times_out, LeaveWr
<1>14. CASE psync_rwlock_rslock(t)
  <2>1. CASE Fresh(t) /\ TakeReserved(t) /\ UNCHANGED <<wwait, pc>>
    BY <2>1 DEF TakeReserved, Fresh, BroadcastRd
  <2> QED BY <1>14, <2>1, <1>2, <1>11 DEF psync_rwlock_rslock
<1>15. CASE RsWakes(t)
  <2>1. CASE RsBlocked
    BY <1>15, <2>1, <1>6 DEF RsWakes, Woken
  <2>2. CASE ~RsBlocked
    <3>1. /\ pc[t] = "rslock" /\ TakeReserved(t) /\ LeaveWr(t)
      BY <1>15, <2>2 DEF RsWakes, Woken
    <3>2. woken' \subseteq RdSleepers' \union WrSleepers'
      BY <3>1 DEF TakeReserved, LeaveWr, BroadcastRd
    <3>3. /\ rcount' = rcount + 1 /\ rwait' = rwait /\ wcount' = wcount /\ wwait' = wwait - 1
          /\ reserved' \in BOOLEAN /\ prefer_read' \in BOOLEAN /\ wwait > 0
      BY <3>1, <1>0 DEF TakeReserved, LeaveWr
    <3>4. /\ cnt0' = [cnt0 EXCEPT ![t] = 1] /\ cnt1' = [cnt1 EXCEPT ![t] = WR_RESERVED]
          /\ pc' = [pc EXCEPT ![t] = "run"]
      BY <3>1 DEF TakeReserved, LeaveWr
    <3> QED BY <3>1, <3>2, <3>3, <3>4
  <2> QED BY <2>1, <2>2
<1>16. CASE psync_rwlock_towrlock(t)
  <2>1. CASE rcount = 1
    <3>1. /\ pc[t] = "run" /\ cnt0[t] > 0 /\ rcount' = 0 /\ wcount' = wcount + 1
          /\ UNCHANGED <<rwait, wwait, prefer_read, pc, woken>> /\ reserved' = FALSE
          /\ cnt1' = [cnt1 EXCEPT ![t] = cnt0[t]] /\ cnt0' = [cnt0 EXCEPT ![t] = 0]
      BY <1>16, <2>1 DEF psync_rwlock_towrlock, BecomeWriter
    <3>2. /\ cnt0' \in [Threads -> 0 .. MaxDepth] /\ cnt1' \in [Threads -> WR_RESERVED .. MaxDepth]
          /\ cnt0'[t] = 0 /\ cnt1'[t] = cnt0[t] /\ cnt1[t] \in {0, WR_RESERVED}
      BY <3>1
    <3>3. OthersSame(t)
      BY <3>1
    <3>4. TypeOK'
      <4>1. rcount' \in Nat /\ rwait' \in Nat /\ wcount' \in Nat /\ wwait' \in Nat
        BY <3>1
      <4>2. prefer_read' \in BOOLEAN /\ reserved' \in BOOLEAN /\ woken' \subseteq Threads
        BY <3>1
      <4>3. pc' \in [Threads -> {"run"} \union RdCalls \union WrCalls]
        BY <3>1
      <4> QED BY <3>2, <4>1, <4>2, <4>3
    <3>5. CountersStepOf(t)
      BY <3>1, <3>2, <2>1
    <3>6. ThreadShape'
      BY <3>1, <3>2, <3>3
    <3> QED BY <3>3, <3>4, <3>5, <3>6
  <2>2. CASE rcount > 1
    <3>1. /\ pc[t] = "run" /\ cnt0[t] > 0 /\ rcount' = rcount - 1 /\ wwait' = wwait + 1
          /\ UNCHANGED <<rwait, wcount, prefer_read, cnt0, cnt1, woken>> /\ reserved' = TRUE
          /\ pc' = [pc EXCEPT ![t] = "towrlock"]
      BY <1>16, <2>2 DEF psync_rwlock_towrlock
    <3>2. OthersSame(t) /\ pc'[t] = "towrlock"
      BY <3>1
    <3>3. TypeOK'
      BY <3>1, <2>2
    <3>4. CountersStepOf(t)
      BY <3>1, <3>2, <2>2
    <3>5. ThreadShape'
      BY <3>1, <3>2
    <3> QED BY <3>2, <3>3, <3>4, <3>5
  <2> QED BY <1>16, <2>1, <2>2 DEF psync_rwlock_towrlock
<1>17. CASE UpgradeWakes(t)
  <2>1. CASE rcount > 0
    BY <1>17, <2>1, <1>6 DEF UpgradeWakes, Woken
  <2>2. CASE rcount = 0
    <3>1. /\ pc[t] = "towrlock" /\ cnt0[t] > 0 /\ rcount' = 0 /\ wcount' = wcount + 1
          /\ wwait' = wwait - 1 /\ wwait > 0 /\ woken' = woken \ {t}
          /\ UNCHANGED <<rwait, prefer_read>> /\ reserved' = FALSE
          /\ pc' = [pc EXCEPT ![t] = "run"]
          /\ cnt1' = [cnt1 EXCEPT ![t] = cnt0[t]] /\ cnt0' = [cnt0 EXCEPT ![t] = 0]
      BY <1>17, <2>2, <1>0 DEF UpgradeWakes, Woken, BecomeWriter, LeaveWr
    <3>2. /\ cnt0' \in [Threads -> 0 .. MaxDepth] /\ cnt1' \in [Threads -> WR_RESERVED .. MaxDepth]
          /\ cnt0'[t] = 0 /\ cnt1'[t] = cnt0[t] /\ cnt1[t] \in {0, WR_RESERVED} /\ pc'[t] = "run"
      BY <3>1
    <3>3. OthersSame(t)
      BY <3>1
    <3>4. TypeOK'
      <4>1. rcount' \in Nat /\ rwait' \in Nat /\ wcount' \in Nat /\ wwait' \in Nat
        BY <3>1
      <4>2. prefer_read' \in BOOLEAN /\ reserved' \in BOOLEAN /\ woken' \subseteq Threads
        BY <3>1
      <4>3. pc' \in [Threads -> {"run"} \union RdCalls \union WrCalls]
        BY <3>1
      <4> QED BY <3>2, <4>1, <4>2, <4>3
    <3>5. CountersStepOf(t)
      BY <3>1, <3>2, <2>2
    <3>6. ThreadShape'
      BY <3>1, <3>2, <3>3
    <3> QED BY <3>3, <3>4, <3>5, <3>6
  <2> QED BY <2>1, <2>2
<1>18. CASE UnlockInner(t)
  BY <1>18 DEF UnlockInner
<1>19. CASE UnlockOuter(t)
  <2>1. woken' \subseteq RdSleepers \union WrSleepers
    BY <1>19 DEF UnlockOuter, ReleaseRd, ReleaseWr, WakeAfterWriter, BroadcastRd, BroadcastWr, SignalWr
  <2>2. UNCHANGED <<RdSleepers, WrSleepers>>
    BY <1>19 DEF UnlockOuter
  <2>3. CASE cnt0[t] = 1
    <3>1. rcount > 0
      BY <1>19, <2>3, <1>0 DEF UnlockOuter
    <3>2. ReleaseRd(t)
      BY <1>19, <3>1 DEF UnlockOuter, ReleaseWr
    <3>3. rcount' = rcount - 1 /\ wcount' = wcount
      BY <3>2 DEF ReleaseRd
    <3>4. reserved' \in BOOLEAN
      BY <3>2, Zenon DEF ReleaseRd
    <3> QED BY <1>19, <2>1, <2>2, <2>3, <3>1, <3>3, <3>4, <1>0 DEF UnlockOuter
  <2>4. CASE cnt0[t] = 0 /\ cnt1[t] = 1
    <3>1. rcount = 0
      BY <2>4, <1>0 DEF WriterAlone
    <3> QED BY <1>19, <2>1, <2>2, <2>4, <3>1, <1>0 DEF UnlockOuter, ReleaseRd, ReleaseWr
  <2> QED BY <1>19, <2>3, <2>4 DEF UnlockOuter
<1>20. CASE SpuriousWake(t)
  BY <1>20 DEF SpuriousWake
<1>21. CASE RdWakes(t)
  BY <1>21, <1>6, <1>7 DEF RdWakes, Woken
<1>22. CASE psync_rwlock_rdlock_starvewr(t)
  BY <1>22, <1>1, <1>5, <1>4 DEF psync_rwlock_rdlock_starvewr
<1>23. CASE psync_rwlock_rdlock(t) \/ psync_rwlock_tryrdlock(t) \/ psync_rwlock_timedrdlock(t)
  BY <1>23, <1>1, <1>3, <1>4 DEF psync_rwlock_rdlock, psync_rwlock_tryrdlock, psync_rwlock_timedrdlock
<1>24. CASE psync_rwlock_wrlock(t) \/ psync_rwlock_trywrlock(t) \/ psync_rwlock_timedwrlock(t)
  BY <1>24, <1>2, <1>10, <1>11 DEF psync_rwlock_wrlock, psync_rwlock_trywrlock, psync_rwlock_timedwrlock
<1> QED BY <1>8, <1>9, <1>12, <1>13, <1>14, <1>15, <1>16, <1>17, <1>18, <1>19, <1>20, <1>21,
           <1>22, <1>23, <1>24 DEF Call, Wakes, psync_rwlock_unlock

-----------------------------------------------------------------------------
(* LockInv is inductive: the counters by CountersPreserved, the rest per   *)
(* action from what the acting thread knows of the others.                 *)
StepOf(t) ==
  \/ Call(t) \/ Wakes(t) \/ psync_rwlock_unlock(t)
  \/ timedrdlock_times_out(t) \/ timedwrlock_times_out(t)
  \/ SpuriousWake(t)

(* The flag keeps its one owner and the writer stays alone, whichever call *)
(* is made.                                                                *)
LEMMA StepReservation ==
  ASSUME LockInv, NEW t \in Threads, StepOf(t), Effect(t)
  PROVE  ReservationOwned' /\ WriterAlone'
<1> USE DEF LockInv, Effect, OthersSame
<1>0. /\ HoldsRd(t) => rcount > 0
      /\ HoldsWr(t) => wcount > 0
  BY LockFacts
<1>t. /\ rcount \in Nat /\ wcount \in Nat
      /\ cnt0 \in [Threads -> 0 .. MaxDepth]
      /\ cnt1 \in [Threads -> WR_RESERVED .. MaxDepth]
      /\ pc \in [Threads -> {"run"} \union RdCalls \union WrCalls]
  BY DEF TypeOK
(* An action that keeps the reservation flag and the acting thread's claim *)
(* on it keeps ReservationOwned.                                           *)
<1>a. ASSUME reserved' = reserved, HoldsReserve(t)' <=> HoldsReserve(t)
      PROVE  ReservationOwned'
  <2>1. \A u \in Threads : HoldsReserve(u)' <=> HoldsReserve(u)
    BY <1>a DEF HoldsReserve
  <2> QED BY <2>1, <1>a DEF ReservationOwned
<1>b. ASSUME reserved' = FALSE, ~HoldsReserve(t)', \A u \in Threads \ {t} : ~HoldsReserve(u)
      PROVE  ReservationOwned'
  <2>1. \A u \in Threads : ~HoldsReserve(u)'
    BY <1>b DEF HoldsReserve
  <2> QED BY <2>1, <1>b DEF ReservationOwned
<1>c. ASSUME reserved' = TRUE, HoldsReserve(t)', \A u \in Threads \ {t} : ~HoldsReserve(u)
      PROVE  ReservationOwned'
  <2>1. \A u \in Threads \ {t} : ~HoldsReserve(u)'
    BY <1>c DEF HoldsReserve
  <2> QED BY <2>1, <1>c DEF ReservationOwned
(* Actions that touch neither the writer count nor the reservation.        *)
<1>d. ASSUME UNCHANGED <<wcount, reserved>>, HoldsReserve(t)' <=> HoldsReserve(t),
             wcount = 0 \/ rcount' = rcount
      PROVE  ReservationOwned' /\ WriterAlone'
  <2>1. WriterAlone'
    BY <1>d DEF WriterAlone
  <2> QED BY <2>1, <1>d, <1>a
<1> USE DEF HoldsReserve, WR_RESERVED
<1>1. CASE RdRecursive(t) \/ WrRecursive(t) \/ UnlockInner(t)
  BY <1>1, <1>d, <1>t DEF RdRecursive, WrRecursive, UnlockInner, ThreadShape
<1>2. CASE t \in woken /\ SleepAgain(t)
  BY <1>2, <1>d DEF SleepAgain
<1>3. CASE SpuriousWake(t)
  BY <1>3, <1>d DEF SpuriousWake
<1>4. ASSUME TakeRd(t), wcount = 0, cnt1[t] = 0, pc[t] # "towrlock", pc'[t] # "towrlock"
      PROVE  ReservationOwned' /\ WriterAlone'
  BY <1>4, <1>d DEF TakeRd
<1>5. ASSUME NEW call \in RdCalls, Fresh(t), SleepRd(t, call)
      PROVE  ReservationOwned' /\ WriterAlone'
  BY <1>5, <1>d, <1>t DEF Fresh, SleepRd, RdCalls
<1>6. ASSUME NEW call \in WrCalls, call # "towrlock", Fresh(t), SleepWr(t, call), UNCHANGED reserved
      PROVE  ReservationOwned' /\ WriterAlone'
  BY <1>6, <1>d, <1>t DEF Fresh, SleepWr, WrCalls
<1>7. ASSUME TakeWr(t), ~WrBlocked, cnt1[t] = 0, pc[t] # "towrlock", pc'[t] # "towrlock"
      PROVE  ReservationOwned' /\ WriterAlone'
  <2>1. /\ rcount = 0 /\ wcount = 0 /\ reserved = FALSE /\ wcount' = 1 /\ rcount' = 0
        /\ reserved' = reserved /\ cnt1'[t] = 1
    BY <1>7, <1>t DEF WrBlocked, TakeWr, TypeOK
  <2>2. WriterAlone'
    BY <2>1 DEF WriterAlone
  <2>3. ReservationOwned'
    BY <2>1, <1>7, <1>a
  <2> QED BY <2>2, <2>3
<1>8. ASSUME TakeReserved(t), ~RsBlocked
      PROVE  ReservationOwned' /\ WriterAlone'
  <2>1. /\ wcount = 0 /\ reserved = FALSE /\ wcount' = 0 /\ reserved' = TRUE
        /\ cnt1'[t] = WR_RESERVED
    BY <1>8, <1>t DEF RsBlocked, TakeReserved, TypeOK
  <2>2. WriterAlone'
    BY <2>1 DEF WriterAlone
  <2>3. ReservationOwned'
    BY <2>1, <1>c DEF ReservationOwned
  <2> QED BY <2>2, <2>3
<1>9. CASE timedrdlock_times_out(t)
  BY <1>9, <1>d, <1>t DEF timedrdlock_times_out, LeaveRd
<1>10. CASE timedwrlock_times_out(t)
  BY <1>10, <1>d, <1>t DEF timedwrlock_times_out, LeaveWr
<1>11. CASE RdWakes(t)
  <2>1. CASE RdBlocked
    BY <1>11, <2>1, <1>2 DEF RdWakes, Woken
  <2>2. CASE ~RdBlocked
    BY <1>11, <2>2, <1>4, <1>t DEF RdWakes, Woken, RdBlocked, LeaveRd, ThreadShape
  <2> QED BY <2>1, <2>2
<1>12. CASE StarveWakes(t)
  <2>1. CASE StarveBlocked
    BY <1>12, <2>1, <1>d DEF StarveWakes
  <2>2. CASE ~StarveBlocked
    BY <1>12, <2>2, <1>4, <1>t DEF StarveWakes, Woken, StarveBlocked, LeaveRd, ThreadShape
  <2> QED BY <2>1, <2>2
<1>13. CASE WrWakes(t)
  <2>1. CASE WrBlocked
    BY <1>13, <2>1, <1>2 DEF WrWakes, Woken
  <2>2. CASE ~WrBlocked
    BY <1>13, <2>2, <1>7, <1>t DEF WrWakes, Woken, LeaveWr, ThreadShape
  <2> QED BY <2>1, <2>2
<1>14. CASE RsWakes(t)
  <2>1. CASE RsBlocked
    BY <1>14, <2>1, <1>2 DEF RsWakes, Woken
  <2>2. CASE ~RsBlocked
    BY <1>14, <2>2, <1>8 DEF RsWakes
  <2> QED BY <2>1, <2>2
<1>15. CASE EnterRd(t)
  BY <1>15, <1>4, <1>t DEF EnterRd, Fresh, RdBlocked
<1>16. CASE EnterWr(t)
  BY <1>16, <1>7 DEF EnterWr, Fresh
<1>17. CASE psync_rwlock_rdlock_starvewr(t)
  <2>1. CASE Fresh(t) /\ ~StarveBlocked /\ TakeRd(t) /\ UNCHANGED pc
    BY <2>1, <1>4, <1>t DEF Fresh, StarveBlocked
  <2> QED BY <1>17, <2>1, <1>1, <1>5 DEF psync_rwlock_rdlock_starvewr, RdCalls
<1>18. CASE psync_rwlock_rslock(t)
  BY <1>18, <1>1, <1>6, <1>8 DEF psync_rwlock_rslock, WrCalls
(* The reader that upgrades: no other thread may have the reservation.     *)
<1>19. CASE psync_rwlock_towrlock(t)
  <2>1. \A u \in Threads \ {t} : ~HoldsReserve(u)
    BY <1>19 DEF psync_rwlock_towrlock, ReservationOwned
  <2>2. wcount = 0
    BY <1>19, <1>0, <1>t DEF psync_rwlock_towrlock, WriterAlone, HoldsRd
  <2>3. CASE rcount = 1
    <3>1. /\ rcount' = 0 /\ wcount' = 1 /\ reserved' = FALSE /\ cnt1'[t] = cnt0[t] /\ pc'[t] = "run"
          /\ cnt0[t] > 0
      BY <1>19, <2>2, <2>3, <1>t DEF psync_rwlock_towrlock, BecomeWriter
    <3>2. ~HoldsReserve(t)'
      BY <3>1, <1>t
    <3>3. ReservationOwned'
      BY <3>1, <3>2, <2>1, <1>b
    <3> QED BY <3>1, <3>3 DEF WriterAlone
  <2>4. CASE rcount > 1
    <3>1. wcount' = 0 /\ reserved' = TRUE /\ pc'[t] = "towrlock"
      BY <1>19, <2>2, <2>4, <1>t DEF psync_rwlock_towrlock
    <3> QED BY <3>1, <2>1, <1>c DEF WriterAlone
  <2> QED BY <1>19, <2>3, <2>4 DEF psync_rwlock_towrlock
<1>20. CASE UpgradeWakes(t)
  <2>1. CASE rcount > 0
    BY <1>20, <2>1, <1>2 DEF UpgradeWakes, Woken
  <2>2. CASE rcount = 0
    <3>1. pc[t] = "towrlock" /\ reserved /\ \A u \in Threads \ {t} : ~HoldsReserve(u)
      BY <1>20 DEF UpgradeWakes, Woken, ReservationOwned
    <3>2. wcount = 0
      BY <3>1, <1>t DEF WriterAlone
    <3>3. /\ rcount' = 0 /\ wcount' = 1 /\ reserved' = FALSE /\ cnt1'[t] = cnt0[t] /\ pc'[t] = "run"
          /\ cnt0[t] > 0
      BY <1>20, <2>2, <3>1, <3>2, <1>t DEF UpgradeWakes, Woken, BecomeWriter, LeaveWr, ThreadShape
    <3>4. ~HoldsReserve(t)'
      BY <3>3, <1>t
    <3>5. ReservationOwned'
      BY <3>1, <3>3, <3>4, <1>b
    <3> QED BY <3>3, <3>5 DEF WriterAlone
  <2> QED BY <2>1, <2>2, <1>t
<1>21. CASE UnlockOuter(t)
  <2>0. pc[t] = "run" /\ pc'[t] = "run" /\ cnt1'[t] = 0
    BY <1>21, <1>t DEF UnlockOuter
  <2>1. CASE rcount > 0
    <3>1. ReleaseRd(t)
      BY <1>21, <2>1 DEF UnlockOuter, ReleaseWr
    <3>2. wcount = 0 /\ wcount' = 0
      BY <2>1, <3>1, <1>t DEF ReleaseRd, WriterAlone
    <3>3. CASE cnt1[t] = WR_RESERVED
      <4>1. reserved' = FALSE /\ \A u \in Threads \ {t} : ~HoldsReserve(u)
        BY <3>1, <3>3 DEF ReleaseRd, ReservationOwned
      <4>2. ~HoldsReserve(t)'
        BY <2>0
      <4>3. ReservationOwned'
        BY <4>1, <4>2, <1>b
      <4> QED BY <4>3, <3>2 DEF WriterAlone
    <3>4. CASE cnt1[t] # WR_RESERVED
      <4>1. reserved' = reserved
        BY <3>1, <3>4 DEF ReleaseRd, TypeOK
      <4> QED BY <4>1, <3>2, <3>4, <2>0, <1>a DEF WriterAlone
    <3> QED BY <3>3, <3>4
  <2>2. CASE rcount = 0
    <3>1. ReleaseWr(t) /\ cnt0[t] = 0 /\ cnt1[t] = 1
      BY <1>21, <2>2, <2>0, <1>0, <1>t DEF UnlockOuter, ReleaseRd, HoldsRd
    <3>2. rcount' = 0 /\ wcount' = wcount - 1 /\ reserved' = reserved /\ wcount > 0
      BY <3>1, <1>0, <2>2 DEF ReleaseWr, HoldsWr
    <3>3. WriterAlone'
      BY <3>2, <1>t DEF WriterAlone
    <3> QED BY <3>1, <3>2, <3>3, <2>0, <1>a
  <2> QED BY <2>1, <2>2, <1>t
<1>22. CASE psync_rwlock_rdlock(t) \/ psync_rwlock_tryrdlock(t) \/ psync_rwlock_timedrdlock(t)
  BY <1>22, <1>1, <1>15, <1>5 DEF psync_rwlock_rdlock, psync_rwlock_tryrdlock, psync_rwlock_timedrdlock, RdCalls
<1>23. CASE psync_rwlock_wrlock(t) \/ psync_rwlock_trywrlock(t) \/ psync_rwlock_timedwrlock(t)
  BY <1>23, <1>1, <1>16, <1>6 DEF psync_rwlock_wrlock, psync_rwlock_trywrlock, psync_rwlock_timedwrlock, WrCalls
<1> QED BY <1>1, <1>3, <1>9, <1>10, <1>11, <1>12, <1>13, <1>14, <1>17, <1>18, <1>19, <1>20, <1>21, <1>22, <1>23
        DEF StepOf, Call, Wakes, psync_rwlock_unlock

(* Every step keeps the invariant of the lock.                             *)
LEMMA LockInvStep == LockInv /\ [Next]_vars => LockInv'
<1> SUFFICES ASSUME LockInv, [Next]_vars PROVE LockInv'
  OBVIOUS
<1>1. CASE UNCHANGED vars
  BY <1>1 DEF vars, LockInv, TypeOK, CountersAgree, ThreadShape, ReservationOwned, WriterAlone,
     HoldsRd, HoldsWr, HoldsReserve, RdSleepers, WrSleepers
<1>2. ASSUME NEW t \in Threads, StepOf(t) PROVE LockInv'
  <2>1. Effect(t)
    BY <1>2, StepEffect DEF StepOf
  <2>2. ReservationOwned' /\ WriterAlone'
    BY <1>2, <2>1, StepReservation
  <2>3. CountersAgree'
    BY <2>1, CountersPreserved DEF Effect, LockInv
  <2> QED BY <2>1, <2>2, <2>3 DEF Effect, LockInv
<1> QED BY <1>1, <1>2 DEF Next, StepOf

(* The counters, the reservation and the shape of every thread's pair are  *)
(* as plocks.c needs them, after any sequence of calls, wakeups and        *)
(* timeouts.                                                               *)
THEOREM LockInvariant == Spec => []LockInv
BY InitLock, LockInvStep, PTL DEF Spec

(* The lock's variables keep their types; in particular no counter of      *)
(* psync_rwlock_t goes below 0.                                            *)
THEOREM TypeCorrect == Spec => []TypeOK
<1>1. LockInv => TypeOK
  BY DEF LockInv
<1> QED BY <1>1, LockInvariant, PTL

(* A writer is alone: no other thread holds the lock in any mode, nor      *)
(* waits in towrlock for its upgrade.                                      *)
THEOREM Exclusion == Spec => []MutualExclusion
<1>1. LockInv => MutualExclusion
  <2> SUFFICES ASSUME LockInv, NEW t \in Threads, NEW u \in Threads, t # u, HoldsWr(t)
               PROVE  ~HoldsWr(u) /\ cnt0[u] = 0
    BY DEF MutualExclusion
  <2>1. /\ wcount > 0 /\ \A v \in Threads \ {t} : ~HoldsWr(v)
    BY LockFacts
  <2>2. rcount = 0 /\ ~reserved
    BY <2>1 DEF LockInv, WriterAlone
  <2>3. pc[u] # "towrlock"
    BY <2>2 DEF LockInv, ReservationOwned, HoldsReserve
  <2>4. ~HoldsRd(u)
    BY <2>2, LockFacts
  <2>5. cnt0[u] = 0
    BY <2>3, <2>4 DEF HoldsRd, LockInv, TypeOK
  <2> QED BY <2>1, <2>5
<1> QED BY <1>1, LockInvariant, PTL

(* The reservation flag of opts is up exactly while one thread owns the    *)
(* reservation.                                                            *)
THEOREM Reservation == Spec => []ReservationOwned
<1>1. LockInv => ReservationOwned
  BY DEF LockInv
<1> QED BY <1>1, LockInvariant, PTL

(* The assertions plocks.c makes under its mutex never fail.               *)
THEOREM Assertions == Spec => []AssertionsHold
<1>1. LockInv => AssertionsHold
  <2> SUFFICES ASSUME LockInv PROVE AssertionsHold
    OBVIOUS
  <2>t. rcount \in Nat /\ wcount \in Nat /\ wwait \in Nat
    BY DEF LockInv, TypeOK
  <2>1. \A t \in Threads : pc[t] = "run" /\ cnt0[t] > 0 => rcount > 0 /\ wcount = 0
    BY LockFacts, <2>t DEF HoldsRd, LockInv, WriterAlone
  <2>2. \A t \in Threads : pc[t] = "towrlock" => wcount = 0
    BY <2>t DEF LockInv, WriterAlone, ReservationOwned, HoldsReserve
  <2>3. \A t \in Threads : HoldsWr(t) => wcount > 0
    BY LockFacts
  <2> QED BY <2>1, <2>2, <2>3, <2>t DEF AssertionsHold, LockInv, WriterAlone
<1> QED BY <1>1, LockInvariant, PTL

-----------------------------------------------------------------------------
(* No wakeup is lost.  WakeupInv is inductive with LockInv: the facts a    *)
(* step of t needs about the other sleepers come from the counters.        *)

(* Who sleeps, as the counters tell it; and when nobody holds the lock, a  *)
(* reservation is that of a thread that waits to upgrade.                  *)
LEMMA SleepFacts ==
  ASSUME LockInv
  PROVE  /\ rwait = 0 <=> RdSleepers = {}
         /\ wwait = 0 <=> WrSleepers = {}
         /\ rcount = 0 /\ reserved => \E t \in Threads : pc[t] = "towrlock"
         /\ rwait \in Nat /\ wwait \in Nat /\ rcount \in Nat /\ wcount \in Nat
<1>1. /\ CountersAgree /\ ReservationOwned /\ ThreadShape
      /\ rwait \in Nat /\ wwait \in Nat /\ rcount \in Nat /\ wcount \in Nat
      /\ cnt0 \in [Threads -> 0 .. MaxDepth]
  BY DEF LockInv, TypeOK
<1>2. ASSUME rcount = 0, reserved PROVE \E t \in Threads : pc[t] = "towrlock"
  <2>1. PICK t \in Threads : HoldsReserve(t)
    BY <1>1, <1>2 DEF ReservationOwned
  <2>2. ~HoldsRd(t)
    BY <1>1, <1>2, CounterMeaning
  <2> QED BY <1>1, <2>1, <2>2 DEF HoldsReserve, HoldsRd, ThreadShape
<1> QED BY <1>1, <1>2, CounterMeaning

(* prefer_read is raised by a starvewr reader that goes to sleep and       *)
(* cleared by every one that leaves.                                       *)
PreferInv == prefer_read => \E t \in Threads : pc[t] = "starvewr"

(* prefer_read is up only while a thread sleeps in starvewr.               *)
LEMMA PreferStep ==
  ASSUME LockInv, PreferInv, NEW t \in Threads, StepOf(t), Effect(t)
  PROVE  PreferInv'
<1>t. pc \in [Threads -> {"run"} \union RdCalls \union WrCalls]
  BY DEF LockInv, TypeOK
<1>1. ASSUME prefer_read' = prefer_read, pc[t] # "starvewr" \/ UNCHANGED pc
      PROVE  PreferInv'
  BY <1>1 DEF PreferInv, Effect, OthersSame
<1>2. CASE StarveWakes(t)
  BY <1>2 DEF StarveWakes, PreferInv, Woken
<1>3. CASE psync_rwlock_rdlock_starvewr(t)
  <2>1. CASE Fresh(t) /\ SleepRd(t, "starvewr")
    BY <2>1, <1>t DEF SleepRd, PreferInv
  <2>2. CASE RdRecursive(t) \/ (Fresh(t) /\ UNCHANGED <<prefer_read, pc>>)
    BY <2>2, <1>1 DEF RdRecursive
  <2> QED BY <1>3, <2>1, <2>2 DEF psync_rwlock_rdlock_starvewr
<1>4. CASE RdWakes(t) \/ WrWakes(t) \/ RsWakes(t) \/ UpgradeWakes(t)
  BY <1>4, <1>1 DEF RdWakes, WrWakes, RsWakes, UpgradeWakes, Woken, SleepAgain, TakeReserved, BecomeWriter
<1>5. CASE psync_rwlock_rdlock(t) \/ psync_rwlock_tryrdlock(t) \/ psync_rwlock_timedrdlock(t)
  BY <1>5, <1>1 DEF psync_rwlock_rdlock, psync_rwlock_tryrdlock, psync_rwlock_timedrdlock,
     RdRecursive, EnterRd, Fresh
<1>6. CASE psync_rwlock_wrlock(t) \/ psync_rwlock_trywrlock(t) \/ psync_rwlock_timedwrlock(t)
  BY <1>6, <1>1 DEF psync_rwlock_wrlock, psync_rwlock_trywrlock, psync_rwlock_timedwrlock,
     WrRecursive, EnterWr, SleepWr, Fresh
<1>7. CASE psync_rwlock_rslock(t) \/ psync_rwlock_towrlock(t)
  BY <1>7, <1>1 DEF psync_rwlock_rslock, psync_rwlock_towrlock, WrRecursive, TakeReserved, SleepWr,
     BecomeWriter
<1>8. CASE psync_rwlock_unlock(t) \/ timedrdlock_times_out(t) \/ timedwrlock_times_out(t) \/ SpuriousWake(t)
  BY <1>8, <1>1 DEF psync_rwlock_unlock, UnlockInner, UnlockOuter, timedrdlock_times_out,
     timedwrlock_times_out, SpuriousWake
<1> QED BY <1>2, <1>3, <1>4, <1>5, <1>6, <1>7, <1>8 DEF StepOf, Call, Wakes

(* A reader goes to sleep behind a writer that is in or waits; the last    *)
(* writer to leave, and the one that gives up, wake the readers.           *)
LEMMA StrandedStep ==
  ASSUME LockInv, LockInv', NoStrandedReader, NEW t \in Threads, StepOf(t), Effect(t)
  PROVE  NoStrandedReader'
<1>0. /\ wwait = 0 <=> WrSleepers = {}
      /\ rwait = 0 <=> RdSleepers = {}
      /\ rcount \in Nat /\ wcount \in Nat /\ rwait \in Nat /\ wwait \in Nat
      /\ rcount' \in Nat /\ wcount' \in Nat /\ rwait' \in Nat /\ wwait' \in Nat
  BY SleepFacts DEF LockInv, TypeOK
<1>t. pc \in [Threads -> {"run"} \union RdCalls \union WrCalls] /\ woken \subseteq RdSleepers \union WrSleepers
  BY DEF LockInv, TypeOK, ThreadShape
(* Nothing to show while a writer is in or waits.                          *)
<1>a. ASSUME wcount' > 0 \/ wwait' > 0 PROVE NoStrandedReader'
  BY <1>a DEF NoStrandedReader
(* No reader is put to sleep, and no counter that held one back goes down. *)
<1>b. ASSUME RdSleepers' \ woken' \subseteq RdSleepers \ woken,
             wcount > 0 => wcount' > 0 \/ wwait' > 0, wwait > 0 => wcount' > 0 \/ wwait' > 0
      PROVE  NoStrandedReader'
  BY <1>b DEF NoStrandedReader
<1>c. ASSUME RdSleepers' \subseteq woken' PROVE NoStrandedReader'
  BY <1>c DEF NoStrandedReader
<1>d. ASSUME UNCHANGED <<wcount, wwait, pc>>, woken \subseteq woken' PROVE NoStrandedReader'
  BY <1>d, <1>b DEF RdSleepers
<1>1. CASE RdRecursive(t) \/ WrRecursive(t) \/ EnterRd(t)
  BY <1>1, <1>d DEF RdRecursive, WrRecursive, EnterRd, TakeRd
<1>2. CASE EnterWr(t)
  BY <1>2, <1>0, <1>a DEF EnterWr, TakeWr
<1>3. ASSUME NEW call \in RdCalls, SleepRd(t, call), wcount > 0 \/ wwait > 0
      PROVE  NoStrandedReader'
  BY <1>3, <1>a DEF SleepRd
<1>4. ASSUME NEW call \in WrCalls, SleepWr(t, call) PROVE NoStrandedReader'
  BY <1>4, <1>0, <1>a DEF SleepWr
<1>5. CASE RdWakes(t)
  <2>1. CASE RdBlocked /\ SleepAgain(t)
    BY <2>1, <1>a DEF RdBlocked, SleepAgain
  <2>2. CASE TakeRd(t) /\ LeaveRd(t) /\ woken' = woken \ {t} /\ UNCHANGED wwait
    <3>1. RdSleepers' \ woken' \subseteq RdSleepers \ woken
      BY <2>2, <1>t DEF LeaveRd, RdSleepers, RdCalls
    <3> QED BY <2>2, <3>1, <1>b DEF TakeRd
  <2> QED BY <1>5, <2>1, <2>2 DEF RdWakes
<1>6. CASE StarveWakes(t)
  <2>1. CASE StarveBlocked /\ UNCHANGED wcount
    BY <2>1, <1>a DEF StarveBlocked
  <2>2. CASE TakeRd(t) /\ LeaveRd(t) /\ woken' = woken \ {t} /\ UNCHANGED wwait
    <3>1. RdSleepers' \ woken' \subseteq RdSleepers \ woken
      BY <2>2, <1>t DEF LeaveRd, RdSleepers, RdCalls
    <3> QED BY <2>2, <3>1, <1>b DEF TakeRd
  <2> QED BY <1>6, <2>1, <2>2 DEF StarveWakes
<1>7. CASE WrWakes(t) \/ RsWakes(t) \/ UpgradeWakes(t)
  <2>0. t \in WrSleepers /\ wwait > 0
    BY <1>7, <1>0 DEF WrWakes, RsWakes, UpgradeWakes, Woken, WrSleepers, WrCalls
  <2>1. CASE SleepAgain(t)
    BY <2>0, <2>1, <1>a DEF SleepAgain
  <2>2. CASE TakeWr(t) \/ BecomeWriter(t)
    BY <2>2, <1>0, <1>a DEF TakeWr, BecomeWriter
  <2>3. CASE TakeReserved(t) /\ LeaveWr(t)
    <3>1. RdSleepers' \subseteq RdSleepers /\ t \notin RdSleepers
      BY <2>0, <2>3, <1>t DEF RdSleepers, LeaveWr, RdCalls, WrSleepers, WrCalls
    <3>2. CASE rwait > 0
      BY <2>3, <3>1, <3>2, <1>c DEF TakeReserved, BroadcastRd
    <3>3. CASE rwait = 0
      BY <3>1, <3>3, <1>0, <1>c
    <3> QED BY <3>2, <3>3, <1>0
  <2> QED BY <1>7, <2>1, <2>2, <2>3 DEF WrWakes, RsWakes, UpgradeWakes
<1>8. CASE psync_rwlock_rslock(t)
  <2>1. CASE TakeReserved(t) /\ UNCHANGED <<wwait, pc>> /\ Fresh(t)
    <3>1. woken \subseteq woken'
      BY <2>1, <1>t DEF TakeReserved, BroadcastRd, Fresh, RdSleepers, WrSleepers, RdCalls, WrCalls
    <3> QED BY <2>1, <3>1, <1>d DEF TakeReserved
  <2> QED BY <1>8, <2>1, <1>1, <1>4 DEF psync_rwlock_rslock, WrCalls
<1>9. CASE psync_rwlock_towrlock(t)
  BY <1>9, <1>0, <1>a DEF psync_rwlock_towrlock, BecomeWriter
<1>10. CASE timedrdlock_times_out(t)
  <2>1. RdSleepers' \ woken' \subseteq RdSleepers \ woken
    BY <1>10, <1>t DEF timedrdlock_times_out, LeaveRd, RdSleepers, RdCalls
  <2> QED BY <1>10, <2>1, <1>b DEF timedrdlock_times_out
<1>11. CASE timedwrlock_times_out(t)
  <2>1. RdSleepers' \subseteq RdSleepers /\ wwait' = wwait - 1 /\ wcount' = wcount
    BY <1>11, <1>t DEF timedwrlock_times_out, LeaveWr, RdSleepers, RdCalls
  <2>2. CASE wwait = 1 /\ wcount = 0 /\ rwait > 0
    BY <1>11, <2>1, <2>2, <1>c DEF timedwrlock_times_out, BroadcastRd
  <2>3. CASE wwait = 1 /\ wcount = 0 /\ rwait = 0
    BY <2>1, <2>3, <1>0, <1>c
  <2>4. CASE wwait # 1 \/ wcount # 0
    BY <2>1, <2>4, <1>0, <1>a
  <2> QED BY <2>2, <2>3, <2>4, <1>0
<1>12. CASE UnlockInner(t) \/ SpuriousWake(t)
  BY <1>12, <1>d DEF UnlockInner, SpuriousWake
<1>13. CASE UnlockOuter(t)
  <2>0. UNCHANGED <<wwait, pc, RdSleepers>>
    BY <1>13 DEF UnlockOuter, RdSleepers
  <2>1. CASE ReleaseRd(t)
    BY <1>13, <2>0, <2>1, <1>d DEF ReleaseRd, BroadcastWr, SignalWr
  <2>2. CASE ReleaseWr(t)
    <3>1. CASE wwait > 0
      BY <2>0, <3>1, <1>a
    <3>2. CASE rwait = 0
      BY <2>0, <3>2, <1>0, <1>c
    <3>3. CASE wcount # 1 /\ wcount > 0
      BY <2>2, <3>3, <1>0, <1>a DEF ReleaseWr
    <3>4. CASE wwait = 0 /\ rwait > 0 /\ wcount = 1
      <4>1. ~reserved
        BY <3>4 DEF LockInv, WriterAlone
      <4>2. woken' = BroadcastRd
        BY <2>2, <3>4, <4>1 DEF ReleaseWr, WakeAfterWriter
      <4> QED BY <2>0, <4>2, <1>c DEF BroadcastRd
    <3>5. CASE wcount = 0
      BY <2>0, <2>2, <3>5, <1>0 DEF ReleaseWr
    <3> QED BY <3>1, <3>2, <3>3, <3>4, <3>5, <1>0
  <2> QED BY <1>13, <2>1, <2>2 DEF UnlockOuter
<1>14. CASE psync_rwlock_rdlock_starvewr(t)
  <2>1. CASE Fresh(t) /\ TakeRd(t) /\ UNCHANGED <<wwait, pc, woken>>
    BY <2>1, <1>d DEF TakeRd
  <2> QED BY <1>14, <2>1, <1>1, <1>3 DEF psync_rwlock_rdlock_starvewr, StarveBlocked, RdCalls
<1>15. CASE psync_rwlock_rdlock(t) \/ psync_rwlock_tryrdlock(t) \/ psync_rwlock_timedrdlock(t)
  BY <1>15, <1>1, <1>3 DEF psync_rwlock_rdlock, psync_rwlock_tryrdlock, psync_rwlock_timedrdlock, RdBlocked, RdCalls
<1>16. CASE psync_rwlock_wrlock(t) \/ psync_rwlock_trywrlock(t) \/ psync_rwlock_timedwrlock(t)
  BY <1>16, <1>1, <1>2, <1>4 DEF psync_rwlock_wrlock, psync_rwlock_trywrlock, psync_rwlock_timedwrlock, WrCalls
<1> QED BY <1>5, <1>6, <1>7, <1>8, <1>9, <1>10, <1>11, <1>12, <1>13, <1>14, <1>15, <1>16
        DEF StepOf, Call, Wakes, psync_rwlock_unlock

(* When the lock is free, one of the sleepers is woken and can take it.    *)
GoInv ==
  rcount = 0 /\ wcount = 0 /\ RdSleepers \union WrSleepers # {} => \E t \in Threads : CanGo(t)

(* Every step keeps it: who frees the lock wakes one of the sleepers.      *)
LEMMA GoStep ==
  ASSUME LockInv, LockInv', NoStrandedReader, PreferInv, GoInv,
         NEW t \in Threads, StepOf(t), Effect(t)
  PROVE  GoInv'
<1>0. /\ wwait = 0 <=> WrSleepers = {}
      /\ rwait = 0 <=> RdSleepers = {}
      /\ rcount = 0 /\ reserved => \E u \in Threads : pc[u] = "towrlock"
      /\ rcount \in Nat /\ wcount \in Nat /\ rwait \in Nat /\ wwait \in Nat
      /\ rcount' \in Nat /\ wcount' \in Nat /\ rwait' \in Nat /\ wwait' \in Nat
  BY SleepFacts DEF LockInv, TypeOK
<1>t. pc \in [Threads -> {"run"} \union RdCalls \union WrCalls] /\ woken \subseteq RdSleepers \union WrSleepers
  BY DEF LockInv, TypeOK, ThreadShape
<1>e. \A u \in Threads \ {t} : pc'[u] = pc[u]
  BY DEF Effect, OthersSame
(* Nothing to show when somebody has the lock after the step.              *)
<1>a. ASSUME rcount' > 0 \/ wcount' > 0 PROVE GoInv'
  BY <1>a DEF GoInv
(* The lock was free before, too, and nobody who could go is disturbed.    *)
<1>b. ASSUME rcount = 0, wcount = 0, RdSleepers \union WrSleepers # {}, ~CanGo(t), UNCHANGED reserved,
             wwait' <= wwait \/ reserved, \A u \in Threads \ {t} : u \in woken => u \in woken'
      PROVE  GoInv'
  <2>1. PICK u \in Threads : CanGo(u)
    BY <1>b DEF GoInv
  <2>2. u # t /\ u \in woken' /\ pc'[u] = pc[u]
    BY <2>1, <1>b, <1>e DEF CanGo
  <2>3. CanGo(u)'
    BY <2>1, <2>2, <1>b, <1>0 DEF CanGo
  <2> QED BY <2>3 DEF GoInv
(* Nothing changes but more are woken.                                     *)
<1>c. ASSUME UNCHANGED <<rcount, wcount, wwait, reserved, pc>>, woken \subseteq woken' PROVE GoInv'
  BY <1>c DEF GoInv, CanGo, RdSleepers, WrSleepers
<1>1. CASE RdRecursive(t) \/ WrRecursive(t) \/ UnlockInner(t) \/ SpuriousWake(t)
  BY <1>1, <1>c DEF RdRecursive, WrRecursive, UnlockInner, SpuriousWake
<1>2. CASE TakeRd(t) \/ TakeWr(t) \/ TakeReserved(t) \/ BecomeWriter(t)
  BY <1>2, <1>0, <1>a DEF TakeRd, TakeWr, TakeReserved, BecomeWriter
(* Who goes to sleep finds another that can go.                            *)
<1>3. ASSUME NEW call \in RdCalls, Fresh(t), SleepRd(t, call), wcount > 0 \/ wwait > 0
      PROVE  GoInv'
  <2>1. CASE rcount > 0 \/ wcount > 0
    BY <1>3, <2>1, <1>a DEF SleepRd
  <2>2. CASE rcount = 0 /\ wcount = 0
    <3>1. WrSleepers # {} /\ ~CanGo(t)
      BY <1>3, <2>2, <1>0, <1>t DEF Fresh, CanGo
    <3> QED BY <1>3, <2>2, <3>1, <1>0, <1>b DEF SleepRd
  <2> QED BY <2>1, <2>2, <1>0
<1>4. ASSUME NEW call \in WrCalls, Fresh(t), SleepWr(t, call), UNCHANGED reserved,
             rcount > 0 \/ wcount > 0 \/ reserved
      PROVE  GoInv'
  <2>1. CASE rcount > 0 \/ wcount > 0
    BY <1>4, <2>1, <1>a DEF SleepWr
  <2>2. CASE rcount = 0 /\ wcount = 0
    <3>1. WrSleepers # {} /\ ~CanGo(t)
      BY <1>4, <2>2, <1>0, <1>t DEF Fresh, CanGo, WrSleepers, WrCalls
    <3> QED BY <1>4, <2>2, <3>1, <1>0, <1>b DEF SleepWr
  <2> QED BY <2>1, <2>2, <1>0
(* Who goes to sleep again could not go.                                   *)
<1>5. ASSUME t \in woken, SleepAgain(t), ~CanGo(t) \/ rcount > 0 \/ wcount > 0 PROVE GoInv'
  <2>1. CASE rcount > 0 \/ wcount > 0
    BY <1>5, <2>1, <1>a DEF SleepAgain
  <2>2. CASE rcount = 0 /\ wcount = 0
    BY <1>5, <2>2, <1>0, <1>t, <1>b DEF SleepAgain
  <2> QED BY <2>1, <2>2, <1>0
<1>6. CASE RdWakes(t)
  <2>1. RdBlocked => ~CanGo(t) \/ wcount > 0
    BY <1>6 DEF RdWakes, Woken, RdBlocked, CanGo
  <2> QED BY <1>6, <2>1, <1>2, <1>5 DEF RdWakes, Woken
<1>7. CASE StarveWakes(t)
  <2>1. StarveBlocked /\ UNCHANGED <<rcount, wcount>> => GoInv'
    BY <1>a DEF StarveBlocked
  <2> QED BY <1>7, <2>1, <1>2 DEF StarveWakes
<1>8. CASE WrWakes(t)
  <2>1. WrBlocked => ~CanGo(t) \/ rcount > 0 \/ wcount > 0
    BY <1>8 DEF WrWakes, Woken, WrBlocked, CanGo
  <2> QED BY <1>8, <2>1, <1>2, <1>5 DEF WrWakes, Woken
<1>9. CASE RsWakes(t)
  <2>1. RsBlocked => ~CanGo(t) \/ wcount > 0
    BY <1>9 DEF RsWakes, Woken, RsBlocked, CanGo
  <2> QED BY <1>9, <2>1, <1>2, <1>5 DEF RsWakes, Woken
<1>10. CASE UpgradeWakes(t)
  BY <1>10, <1>2, <1>5 DEF UpgradeWakes, Woken
<1>11. CASE timedrdlock_times_out(t)
  <2>1. ~CanGo(t) /\ UNCHANGED <<reserved, wwait, woken, rcount, wcount>> /\ t \in RdSleepers
    BY <1>11 DEF timedrdlock_times_out, CanGo, RdSleepers, RdCalls
  <2> QED BY <2>1, <1>0, <1>a, <1>b
<1>12. CASE timedwrlock_times_out(t)
  <2>1. /\ ~CanGo(t) /\ UNCHANGED <<reserved, rcount, wcount>> /\ t \in WrSleepers
        /\ woken \subseteq woken' /\ wwait' = wwait - 1
    BY <1>12 DEF timedwrlock_times_out, CanGo, WrSleepers, WrCalls, LeaveWr, BroadcastRd
  <2> QED BY <2>1, <1>0, <1>a, <1>b
<1>13. CASE psync_rwlock_towrlock(t)
  BY <1>13, <1>0, <1>2, <1>a DEF psync_rwlock_towrlock
(* The thread that leaves the lock free.                                   *)
<1>14. CASE UnlockOuter(t)
  <2>0. UNCHANGED <<wwait, pc, RdSleepers, WrSleepers>>
    BY <1>14 DEF UnlockOuter, RdSleepers, WrSleepers
  <2>1. CASE rcount' > 0 \/ wcount' > 0
    BY <2>1, <1>a
  <2>2. SUFFICES ASSUME rcount' = 0, wcount' = 0, RdSleepers' \union WrSleepers' # {}
                 PROVE  \E u \in Threads : CanGo(u)'
    BY <2>1, <1>0 DEF GoInv
  (* A writer that is woken can go.                                        *)
  <2>3. ASSUME NEW u \in WrSleepers, u \in woken', ~reserved' \/ pc[u] = "towrlock"
        PROVE  \E v \in Threads : CanGo(v)'
    BY <2>3, <2>0 DEF CanGo, WrSleepers, WrCalls
  <2>4. ASSUME woken' \in SignalWr, wwait > 0, ~reserved' PROVE \E v \in Threads : CanGo(v)'
    <3>1. \E u \in WrSleepers : u \in woken'
      BY <2>4, <1>0 DEF SignalWr
    <3> QED BY <2>3, <2>4, <3>1
  (* With no writer waiting, every reader that is woken can go.            *)
  <2>5. ASSUME wwait = 0, RdSleepers \subseteq woken' PROVE \E v \in Threads : CanGo(v)'
    <3>1. PICK u \in RdSleepers : TRUE
      BY <2>0, <2>2, <2>5, <1>0
    <3>2. CanGo(u)'
      BY <2>0, <2>5, <3>1 DEF CanGo, RdSleepers, RdCalls
    <3> QED BY <3>2 DEF RdSleepers
  <2>6. CASE ReleaseRd(t)
    <3>1. rcount = 1 /\ wcount = 0
      BY <2>2, <2>6, <1>0 DEF ReleaseRd
    <3>2. CASE wwait = 0
      <4>1. RdSleepers \subseteq woken
        BY <3>1, <3>2 DEF NoStrandedReader
      <4> QED BY <2>5, <2>6, <3>2, <4>1 DEF ReleaseRd
    <3>3. CASE wwait > 0 /\ reserved'
      <4>1. PICK u \in Threads : HoldsReserve(u)'
        BY <3>3 DEF LockInv, ReservationOwned
      <4>2. pc[u] = "towrlock"
        <5>1. {v \in Threads : HoldsRd(v)'} = {}
          BY <2>2, CardinalityFacts DEF LockInv, CountersAgree
        <5> QED BY <2>0, <4>1, <5>1 DEF HoldsReserve, HoldsRd, LockInv, ThreadShape, TypeOK
      <4>3. u \in WrSleepers /\ u \in woken'
        BY <2>6, <3>1, <3>3, <4>2 DEF ReleaseRd, BroadcastWr, WrSleepers, WrCalls
      <4> QED BY <2>3, <4>2, <4>3
    <3>4. CASE wwait > 0 /\ ~reserved'
      BY <2>4, <2>6, <3>1, <3>4 DEF ReleaseRd
    <3> QED BY <3>2, <3>3, <3>4, <1>0
  <2>7. CASE ReleaseWr(t)
    <3>1. wcount = 1 /\ ~reserved /\ ~reserved'
      BY <2>2, <2>7, <1>0 DEF ReleaseWr, LockInv, WriterAlone
    <3>2. WakeAfterWriter
      BY <2>7, <3>1 DEF ReleaseWr
    <3>3. CASE prefer_read
      <4>1. PICK u \in Threads : pc[u] = "starvewr"
        BY <3>3 DEF PreferInv
      <4>2. u \in RdSleepers
        BY <4>1 DEF RdSleepers, RdCalls
      <4>3. woken' = BroadcastRd
        BY <3>1, <3>2, <3>3, <4>2, <1>0 DEF WakeAfterWriter
      <4>4. CanGo(u)'
        BY <2>0, <4>1, <4>2, <4>3 DEF CanGo, BroadcastRd
      <4> QED BY <4>4
    <3>4. CASE ~prefer_read
      <4>1. CASE wwait > 0
        BY <2>4, <3>1, <3>2, <3>4, <4>1 DEF WakeAfterWriter
      <4>2. CASE wwait = 0
        <5>1. RdSleepers \subseteq woken'
          BY <3>1, <3>2, <3>4, <4>2, <1>0 DEF WakeAfterWriter, BroadcastRd
        <5> QED BY <2>5, <4>2, <5>1
      <4> QED BY <4>1, <4>2, <1>0
    <3> QED BY <3>3, <3>4
  <2> QED BY <1>14, <2>6, <2>7 DEF UnlockOuter
<1>15. CASE EnterRd(t) \/ EnterWr(t)
  BY <1>15, <1>2 DEF EnterRd, EnterWr
<1>16. CASE psync_rwlock_rdlock_starvewr(t)
  BY <1>16, <1>1, <1>2, <1>3 DEF psync_rwlock_rdlock_starvewr, StarveBlocked, RdCalls
<1>17. CASE psync_rwlock_rslock(t)
  BY <1>17, <1>1, <1>2, <1>4 DEF psync_rwlock_rslock, RsBlocked, WrCalls
<1>18. CASE psync_rwlock_rdlock(t) \/ psync_rwlock_tryrdlock(t) \/ psync_rwlock_timedrdlock(t)
  BY <1>18, <1>1, <1>15, <1>3 DEF psync_rwlock_rdlock, psync_rwlock_tryrdlock, psync_rwlock_timedrdlock, RdBlocked, RdCalls
<1>19. CASE psync_rwlock_wrlock(t) \/ psync_rwlock_trywrlock(t) \/ psync_rwlock_timedwrlock(t)
  BY <1>19, <1>1, <1>15, <1>4 DEF psync_rwlock_wrlock, psync_rwlock_trywrlock, psync_rwlock_timedwrlock, WrBlocked, WrCalls
<1> QED BY <1>1, <1>6, <1>7, <1>8, <1>9, <1>10, <1>11, <1>12, <1>13, <1>14, <1>16, <1>17, <1>18, <1>19
        DEF StepOf, Call, Wakes, psync_rwlock_unlock

(* No wakeup is lost, whatever calls, timeouts and spurious wakeups        *)
(* interleave: a reader sleeps only behind a writer, and whenever the lock *)
(* is free with threads asleep, one of them has been woken and will get it.*)
THEOREM Wakeups == Spec => []WakeupInv
<1>1. Init => WakeupInv
  BY DEF Init, WakeupInv, NoStrandedReader, RdSleepers, WrSleepers, RdCalls, WrCalls
<1>2. LockInv /\ LockInv' /\ WakeupInv /\ [Next]_vars => WakeupInv'
  <2> SUFFICES ASSUME LockInv, LockInv', WakeupInv, [Next]_vars PROVE WakeupInv'
    OBVIOUS
  <2>1. CASE UNCHANGED vars
    BY <2>1 DEF vars, WakeupInv, NoStrandedReader, CanGo, RdSleepers, WrSleepers
  <2>2. ASSUME NEW t \in Threads, StepOf(t) PROVE WakeupInv'
    <3>1. Effect(t) /\ NoStrandedReader /\ PreferInv /\ GoInv
      BY <2>2, StepEffect DEF StepOf, WakeupInv, PreferInv, GoInv
    <3>2. NoStrandedReader' /\ PreferInv' /\ GoInv'
      BY <2>2, <3>1, StrandedStep, PreferStep, GoStep
    <3> QED BY <3>2 DEF WakeupInv, PreferInv, GoInv
  <2> QED BY <2>1, <2>2 DEF Next, StepOf
<1> QED BY <1>1, <1>2, LockInvariant, PTL DEF Spec

-----------------------------------------------------------------------------
(* The lock implements RWLock: exclusion says what a step may lead to, and *)
(* the one thing left to show is that a writer never becomes a reader.     *)
LEMMA WriterStaysOrLeaves ==
  ASSUME LockInv, NEW t \in Threads, StepOf(t), HoldsWr(t)
  PROVE  HoldsWr(t)' \/ cnt0'[t] = 0
<1>1. /\ pc[t] = "run" /\ cnt0[t] = 0 /\ cnt1[t] > 0
      /\ cnt0 \in [Threads -> 0 .. MaxDepth] /\ cnt1 \in [Threads -> WR_RESERVED .. MaxDepth]
      /\ pc \in [Threads -> {"run"} \union RdCalls \union WrCalls]
  BY DEF HoldsWr, LockInv, TypeOK, ThreadShape, WR_RESERVED
<1>2. ~Fresh(t) /\ \A call \in RdCalls \union WrCalls : ~Woken(t, call) /\ pc[t] # call
  BY <1>1 DEF Fresh, Woken, RdCalls, WrCalls
<1>3. CASE RdRecursive(t) \/ WrRecursive(t)
  BY <1>1, <1>3 DEF RdRecursive, WrRecursive, HoldsWr
<1>4. CASE psync_rwlock_unlock(t)
  BY <1>1, <1>4 DEF psync_rwlock_unlock, UnlockInner, UnlockOuter, HoldsWr
<1>5. CASE Call(t)
  <2>1. ~EnterRd(t) /\ ~EnterWr(t) /\ ~psync_rwlock_towrlock(t)
    BY <1>1, <1>2 DEF EnterRd, EnterWr, psync_rwlock_towrlock
  <2> QED BY <2>1, <1>2, <1>3, <1>5 DEF Call, psync_rwlock_rdlock, psync_rwlock_tryrdlock,
          psync_rwlock_timedrdlock, psync_rwlock_rdlock_starvewr, psync_rwlock_wrlock,
          psync_rwlock_trywrlock, psync_rwlock_timedwrlock, psync_rwlock_rslock
<1>6. ~Wakes(t) /\ ~timedrdlock_times_out(t) /\ ~timedwrlock_times_out(t) /\ ~SpuriousWake(t)
  BY <1>1, <1>2 DEF Wakes, RdWakes, StarveWakes, WrWakes, RsWakes, UpgradeWakes, RdCalls, WrCalls,
     timedrdlock_times_out, timedwrlock_times_out, SpuriousWake
<1> QED BY <1>4, <1>5, <1>6 DEF StepOf

(* The mode of a thread in RWLock, in terms of its counters.               *)
LEMMA ModeOf ==
  ASSUME TypeOK, NEW t \in Threads
  PROVE  /\ modeOf[t] \in {"none", "read", "write"}
         /\ modeOf[t] = "write" <=> HoldsWr(t)
         /\ modeOf[t] = "none" <=> ~HoldsWr(t) /\ cnt0[t] = 0
BY DEF modeOf, TypeOK, HoldsWr

(* Every step of the lock is a step of RWLock, or leaves the modes alone.  *)
LEMMA StepRefines ==
  ASSUME LockInv, LockInv', MutualExclusion', NEW t \in Threads, StepOf(t), Effect(t)
  PROVE  [Abstract!Next]_modeOf
<1>1. MutualExclusion' /\ TypeOK /\ TypeOK'
  BY DEF LockInv
<1>2. \A u \in Threads \ {t} : modeOf'[u] = modeOf[u]
  BY DEF Effect, OthersSame, modeOf
<1>3. /\ modeOf = [u \in Threads |-> modeOf[u]] /\ modeOf' = [u \in Threads |-> modeOf'[u]]
  BY DEF modeOf
<1>4. \A u \in Threads : /\ modeOf[u] \in {"none", "read", "write"}
                         /\ modeOf[u] = "write" <=> HoldsWr(u)
                         /\ modeOf[u] = "none" <=> ~HoldsWr(u) /\ cnt0[u] = 0
  BY <1>1, ModeOf
<1>5. \A u \in Threads : /\ modeOf'[u] \in {"none", "read", "write"}
                         /\ modeOf'[u] = "write" <=> HoldsWr(u)'
                         /\ modeOf'[u] = "none" <=> ~HoldsWr(u)' /\ cnt0'[u] = 0
  BY <1>1 DEF modeOf, TypeOK, HoldsWr
<1>6. modeOf' = [modeOf EXCEPT ![t] = modeOf'[t]]
  BY <1>2, <1>3
<1>7. CASE modeOf'[t] = modeOf[t]
  BY <1>3, <1>6, <1>7
<1>8. CASE modeOf'[t] = "none" /\ modeOf[t] # "none"
  <2>1. Abstract!Release(t)
    BY <1>6, <1>8 DEF Abstract!Release
  <2> QED BY <2>1 DEF Abstract!Next
<1>9. CASE modeOf'[t] = "write" /\ modeOf[t] # "write"
  <2>1. \A u \in Threads \ {t} : modeOf[u] = "none"
    BY <1>1, <1>2, <1>5, <1>9 DEF MutualExclusion
  <2>2. Abstract!StartWrite(t)
    BY <1>6, <1>9, <2>1 DEF Abstract!StartWrite, Abstract!Others
  <2> QED BY <2>2 DEF Abstract!Next
<1>10. CASE modeOf'[t] = "read" /\ modeOf[t] # "read"
  <2>1. cnt0'[t] # 0 /\ ~HoldsWr(t)'
    BY <1>5, <1>10
  <2>2. modeOf[t] = "none"
    BY <1>4, <1>10, <2>1, WriterStaysOrLeaves
  <2>3. \A u \in Threads \ {t} : modeOf[u] # "write"
    BY <1>1, <1>2, <1>5, <2>1 DEF MutualExclusion
  <2>4. Abstract!StartRead(t)
    BY <1>6, <1>10, <2>2, <2>3 DEF Abstract!StartRead, Abstract!Others
  <2> QED BY <2>4 DEF Abstract!Next
<1> QED BY <1>4, <1>5, <1>7, <1>8, <1>9, <1>10

(* plocks.c is a readers-writer lock whose readers may turn into writers   *)
(* with no other writer in between: what its users build on.               *)
THEOREM Implementation == Spec => ImplementsRWLock
<1>1. Init => Abstract!Init
  BY DEF Init, Abstract!Init, modeOf
<1>2. LockInv /\ LockInv' /\ MutualExclusion' /\ [Next]_vars => [Abstract!Next]_modeOf
  <2> SUFFICES ASSUME LockInv, LockInv', MutualExclusion', [Next]_vars PROVE [Abstract!Next]_modeOf
    OBVIOUS
  <2>1. CASE UNCHANGED vars
    BY <2>1 DEF vars, modeOf
  <2>2. ASSUME NEW t \in Threads, StepOf(t) PROVE [Abstract!Next]_modeOf
    BY <2>2, StepEffect, StepRefines DEF StepOf
  <2> QED BY <2>1, <2>2 DEF Next, StepOf
<1> QED BY <1>1, <1>2, LockInvariant, Exclusion, PTL DEF Spec, ImplementsRWLock, Abstract!Spec

-----------------------------------------------------------------------------
(* The models that the run composes.                                       *)

(* A behaviour of the run is one of the database lock.                     *)
LEMMA SqlBehaviour == LocksSpec => Sql!Spec
<1>1. LocksInit => Sql!Init BY DEF LocksInit
<1>2. [RWLockNext \/ SqlNext \/ FoldersNext \/ Rest]_<<part, vars, sqlVars, folderVars>>
        => [Sql!Next]_Sql!vars
  <2>1. UNCHANGED sqlVars => UNCHANGED Sql!vars
    BY DEF sqlVars, Sql!vars, Sql!lockVars, Sql!recordVars, Sql!tranVars
  <2> QED BY <2>1 DEF RWLockNext, SqlNext, FoldersNext, Rest
<1> QED BY <1>1, <1>2, PTL DEF LocksSpec, Sql!Spec

(* The record of who holds the database lock (plibs.c, psync_sql_do_lock   *)
(* and the operations on it) agrees with the lock and with the counts of   *)
(* the threads, and its assertions do not fail.                            *)
THEOREM RecordAgrees == LocksSpec => []Accounting
<1>1. Sql!Spec => []Sql!Accounting BY SqlConstants, Sql!AccountingHolds
<1> QED BY <1>1, SqlBehaviour, PTL DEF Accounting

(* When every statement tells its transaction that it failed, as those run *)
(* by psync_sql_run do, what a reader finds is the work of whole           *)
(* transactions, and so is what is on the disk as long as no thread has    *)
(* gone on after a BEGIN that failed (plibs.c:829).  The statements of     *)
(* such a thread are on disk one by one, until an assertion ends it; even  *)
(* then nobody else has the lock to see them.                              *)
THEOREM WholeTransactions ==
  ASSUME ~ExecInTransaction
  PROVE  LocksSpec => []ConsistentRows
<1>1. Sql!Spec => []Sql!ConsistentRows BY SqlConstants, Sql!RowsConsistent
<1> QED BY <1>1, SqlBehaviour, PTL DEF ConsistentRows

(* Under the same condition psync_sql_commit_transaction and rollback run  *)
(* the callbacks with the outcome the transaction had.                     *)
THEOREM CallbacksTruthful ==
  ASSUME ~ExecInTransaction
  PROVE  LocksSpec => CallbacksTellTheTruth
<1>1. Sql!Spec => Sql!CallbacksTellTheTruth BY SqlConstants, Sql!CallbacksTruthful
<1> QED BY <1>1, SqlBehaviour, PTL DEF CallbacksTellTheTruth

(* It is one of the folder tasks.                                          *)
LEMMA FolderBehaviour == LocksSpec => Folders!Init /\ [][Folders!Next]_Folders!vars
<1>1. LocksInit => Folders!Init BY DEF LocksInit
<1>2. [RWLockNext \/ SqlNext \/ FoldersNext \/ Rest]_<<part, vars, sqlVars, folderVars>>
        => [Folders!Next]_Folders!vars
  <2>1. UNCHANGED folderVars => UNCHANGED Folders!vars
    BY DEF folderVars, Folders!vars, Folders!clientVars, Folders!uploadVars, Folders!serverVars,
       Folders!bounds, Folders!history
  <2> QED BY <2>1 DEF RWLockNext, SqlNext, FoldersNext, Rest
<1> QED BY <1>1, <1>2, PTL DEF LocksSpec

(* The rows of fstask, what they wait for (fstaskdepend) and the overlay   *)
(* of psync_fstask_mkdir and rmdir agree, through every batch, failure,    *)
(* answer, event and restart; what psync_fsupload_check_tasks takes names  *)
(* folders of the server only, and a task waits for older tasks only.      *)
THEOREM RequestsResolved ==
  ASSUME ~BusyRmdir
  PROVE  LocksSpec => []RowsInv
<1>1. Folders!Init /\ [][Folders!Next]_Folders!vars => []Folders!RowsInv
  BY FolderConstants, Folders!RowsHold
<1> QED BY <1>1, FolderBehaviour, PTL DEF RowsInv

(* psync_fsupload_thread sleeps over no task that it could run, whatever   *)
(* woke or failed to wake it, unless the server refused that task.         *)
THEOREM UploadAwake ==
  ASSUME ~BusyRmdir
  PROVE  LocksSpec => []NoLostWakeup
<1>1. Folders!Init /\ [][Folders!Next]_Folders!vars => []Folders!NoLostWakeup
  BY FolderConstants, Folders!NoTaskAsleep
<1> QED BY <1>1, FolderBehaviour, PTL DEF NoLostWakeup
=============================================================================
