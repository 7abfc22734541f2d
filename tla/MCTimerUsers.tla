---------------------------- MODULE MCTimerUsers ----------------------------
(* The timers, and the two of their users whose own state the timer thread *)
(* changes: the cache and the rate limiter.  The users share nothing but   *)
(* the contract of the timers, which the wheel keeps; so a behaviour is    *)
(* one of the cache, of the limiter or of the wheel, as `user' chooses.    *)
EXTENDS PCache

CONSTANTS Calls, Nodes, minintervalsec
CONSTANTS Timers, Waiters, TIMER_ARRAY_SIZE, TIMER_LEVELS, Numsecs, MaxTime, MaxJump

VARIABLES user, tasks, node, scheduled, caller, rcallback, left, rstatus, rstop, rcalled,
          since, requested
VARIABLES psync_current_time, second, step, depth, timers, wcalled, wstatus, wstop, place, numsec,
          level, runat, hasty, ctime, announced

R == INSTANCE PRateLimit WITH callback <- rcallback, status <- rstatus,
                              stop_after_run <- rstop, called <- rcalled

W == INSTANCE PTimerProofs WITH called <- wcalled, status <- wstatus, stop_after_run <- wstop

ASSUME IntervalAssumption == R!LimiterAssumption
ASSUME WheelConstants == W!WheelAssumption

limiterVars == <<tasks, node, scheduled, caller, rcallback, left, rstatus, rstop, rcalled,
                 since, requested>>
wheelVars == <<psync_current_time, second, step, depth, timers, wcalled, wstatus, wstop, place,
               numsec, level, runat, hasty, ctime, announced>>

UserInit ==
  /\ Init /\ R!Init /\ W!WheelInit
  /\ \/ user = "cache"
     \/ user \in {"ratelimit", "wheel"} /\ key = [e \in Elements |-> CHOOSE k \in Keys : TRUE]

CacheNext == user = "cache" /\ Next /\ UNCHANGED <<user, limiterVars, wheelVars>>
LimiterNext == user = "ratelimit" /\ R!Next /\ UNCHANGED <<user, vars, wheelVars>>
WheelNext == user = "wheel" /\ W!WheelNext /\ UNCHANGED <<user, vars, limiterVars>>

(* The timer thread runs every second, and a caller goes on.  The part that *)
(* stands still is not asked to go on.                                     *)
Limits(A) == user = "ratelimit" /\ A
LimiterFairness ==
  /\ WF_limiterVars(Limits(R!Tick)) /\ WF_limiterVars(Limits(R!TimerRun))
  /\ WF_limiterVars(Limits(R!TimerFree)) /\ WF_limiterVars(Limits(R!PutBack))
  /\ \A n \in Nodes : WF_limiterVars(Limits(R!psync_run_ratelimited_timer(n)))
  /\ \A t \in Threads : /\ WF_limiterVars(Limits(R!FirstRun(t)))
                        /\ WF_limiterVars(Limits(R!RegisterTimer(t)))

UserSpec ==
  /\ UserInit /\ [][CacheNext \/ LimiterNext \/ WheelNext]_<<user, vars, limiterVars, wheelVars>>
  /\ Fairness /\ LimiterFairness

(* Timers are interchangeable: what matters is how many are alike; and the *)
(* fields of a free timer are what was there before.                       *)
Like(e) ==
  IF wstatus[e] = "free" THEN <<>>
  ELSE <<wstatus[e], e \in wcalled, e \in wstop, place[e], level[e], numsec[e], runat[e], e \in hasty>>
Alike == {<<Like(e), Cardinality({d \in Timers : Like(d) = Like(e)})>> : e \in Timers}
UserView == <<user, vars, limiterVars, psync_current_time, second, step, depth, Alike, ctime, announced>>

(* A callback is not run twice within its interval, whichever thread runs  *)
(* it and on whichever node.                                               *)
RateLimited == [][\A c \in Calls : R!Runs(c) => since[c] = minintervalsec]_limiterVars

(* No request is forgotten: the callback is run after it.                  *)
EveryRequestRuns == \A c \in Calls : c \in requested ~> c \notin requested

(* No callback of the rate limiter has two nodes, and no node is freed     *)
(* while it is in use; nor is an element of the cache freed twice, or      *)
(* after it was handed out, or while its timer may still call it.          *)
NothingFreedInUse == R!NodesInUse /\ SingleOwner /\ NoCallOnFreed

(* Timers are in the slots where their time is looked for, *)
WheelInv == W!WheelInv
(* none is called before its time, unless it is hasty, or forgotten; *)
OnTime == W!OnTime
(* a thread that waits for the next second is woken by it, *)
NoMissedSecond == W!NoMissedSecond
(* and registration, stop and callbacks keep the contract of a timer.      *)
ContractHolds == W!ContractHolds
=============================================================================
