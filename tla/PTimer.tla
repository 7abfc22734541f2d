------------------------------- MODULE PTimer -------------------------------
(***************************************************************************)
(* The timers of ptimer.c: a wheel of TIMER_LEVELS levels of               *)
(* TIMER_ARRAY_SIZE slots, served once a second by one thread, and the     *)
(* threads that wait for the next second.                                  *)
(*                                                                         *)
(* The timer thread reads the clock, then takes timer_mutex and moves the  *)
(* timers that are due to a list of its own, calls them without the mutex, *)
(* and takes the mutex again to put back those that were not stopped.      *)
(* Other threads register and stop timers in between.  The loop under the  *)
(* mutex is followed second by second and level by level, so that what     *)
(* holds of every move can be said; the others wait until it ends.         *)
(***************************************************************************)
EXTENDS Integers

CONSTANTS Timers,            \* timer structures that may be allocated
          Waiters,           \* threads that call psync_timer_wait_next_sec
          TIMER_ARRAY_SIZE, TIMER_LEVELS,
          Numsecs,           \* the intervals callers ask for
          MaxTime,           \* bound on the clock
          MaxJump            \* the most seconds between two looks at it

Turn(l) == TIMER_ARRAY_SIZE ^ l      \* the seconds of a slot of level l
Span(l) == Turn(l + 1)               \* and of all its slots
Slot(l, time) == (time \div Turn(l)) % TIMER_ARRAY_SIZE

Levels == 0 .. TIMER_LEVELS - 1
Slots == 0 .. TIMER_ARRAY_SIZE - 1

(* The intervals callers ask for are positive.  The facts about Turn hold  *)
(* of the powers of every natural number; `^' means nothing to the provers. *)
WheelAssumption ==
  /\ TIMER_ARRAY_SIZE \in Nat /\ TIMER_ARRAY_SIZE >= 2
  /\ TIMER_LEVELS \in Nat /\ TIMER_LEVELS >= 2
  /\ Numsecs \subseteq Nat \ {0}
  /\ MaxTime \in Nat /\ MaxJump \in Nat
  /\ Turn(0) = 1 /\ Turn(1) = TIMER_ARRAY_SIZE
  /\ \A l \in 0 .. TIMER_LEVELS : Turn(l) \in Nat \ {0}
  /\ \A l \in 0 .. TIMER_LEVELS : \A k \in 0 .. l : Turn(l) = Turn(k) * Turn(l - k)

VARIABLES
  psync_current_time,
  second,                    \* the last second served or, in the loop, the one being served
  step, depth,               \* where the timer thread is, and at which level
  timers, called,            \* its list, and the timers on it already called
  status,                    \* "free", "wheel" (linked), "running" (IS_RUNNING)
  stop_after_run,            \* the timers with PTIMER_STOP_AFTER_RUN
  place, numsec, level, runat, \* <<level, slot>> in timerlists; the fields
  hasty,                     \* timers that may be called too early, see OnTime
  ctime, announced           \* a waiter's second (or -1), those signalled

timerVars == <<status, stop_after_run, place, numsec, level, runat, hasty>>
threadVars == <<psync_current_time, second, step, depth, timers, called>>
wheelVars == <<threadVars, timerVars, ctime, announced>>

Linked == {t \in Timers : status[t] = "wheel"}

(* The steps at which the timer thread holds timer_mutex.                  *)
Held == step \in {"next", "up", "down"}

WheelTypes ==
  /\ psync_current_time \in 0 .. MaxTime /\ second \in 0 .. psync_current_time
  /\ step \in {"sleep", "prepare", "next", "up", "down", "process", "after"}
  /\ depth \in Levels
  /\ status \in [Timers -> {"free", "wheel", "running"}]
  /\ timers = {t \in Timers : status[t] = "running"}
  /\ called \subseteq timers /\ stop_after_run \subseteq timers
  /\ place \in [Timers -> Levels \X Slots] /\ level \in [Timers -> Levels]
  /\ numsec \in [Timers -> Nat] /\ runat \in [Timers -> Nat]
  /\ hasty \subseteq Timers /\ announced \subseteq Waiters
  /\ ctime \in [Waiters -> {-1} \union (0 .. psync_current_time)]
  /\ \A w \in announced : ctime[w] # -1

WheelInit ==
  /\ psync_current_time = 0 /\ second = 0
  /\ step = "sleep" /\ depth = 0 /\ timers = {} /\ called = {}
  /\ status = [t \in Timers |-> "free"] /\ stop_after_run = {}
  /\ place = [t \in Timers |-> <<0, 0>>]
  /\ numsec = [t \in Timers |-> 0] /\ level = [t \in Timers |-> 0]
  /\ runat = [t \in Timers |-> 0] /\ hasty = {}
  /\ ctime = [w \in Waiters |-> -1] /\ announced = {}

-----------------------------------------------------------------------------
(* psync_timer_register: the lowest level that spans the interval; longer  *)
(* intervals are cut to the span of the last level.                        *)
LevelFor(n, l) ==
  /\ \A k \in 0 .. l - 1 : n > Span(k)
  /\ l = TIMER_LEVELS - 1 \/ n <= Span(l)

psync_timer_register(t, n) ==
  /\ status[t] = "free" /\ ~Held
  /\ \E l \in Levels :
       LET secs == IF n <= Span(l) THEN n ELSE Span(l)
           at == psync_current_time + secs
       IN  /\ LevelFor(n, l)
           /\ status' = [status EXCEPT ![t] = "wheel"]
           /\ numsec' = [numsec EXCEPT ![t] = secs]
           /\ level' = [level EXCEPT ![t] = l]
           /\ runat' = [runat EXCEPT ![t] = at]
           /\ place' = [place EXCEPT ![t] = <<l, Slot(l, at)>>]
           /\ hasty' = IF at > second + Span(l) THEN hasty \union {t} ELSE hasty \ {t}
  /\ UNCHANGED <<threadVars, stop_after_run, ctime, announced>>

M_StopFreesAlways(t) ==
  /\ status[t] # "free" /\ ~Held /\ t \notin stop_after_run
  /\ status' = [status EXCEPT ![t] = "free"]
  /\ UNCHANGED <<threadVars, stop_after_run, place, numsec, level, runat, hasty, ctime, announced>>

(* psync_timer_stop: a timer on the thread's list is freed after its run   *)
(* (the call returns 1), any other at once (0).                            *)
psync_timer_stop(t) ==
  /\ status[t] # "free" /\ ~Held
  /\ IF status[t] = "running"
     THEN stop_after_run' = stop_after_run \union {t} /\ UNCHANGED status
     ELSE status' = [status EXCEPT ![t] = "free"] /\ UNCHANGED stop_after_run
  /\ UNCHANGED <<threadVars, place, numsec, level, runat, hasty, ctime, announced>>

-----------------------------------------------------------------------------
(* timer_thread: after its sleep it reads the clock without the mutex.     *)
ReadClock ==
  /\ step = "sleep"
  /\ \E now \in psync_current_time .. psync_current_time + MaxJump :
       now <= MaxTime /\ psync_current_time' = now
  /\ step' = "prepare"
  /\ UNCHANGED <<second, depth, timers, called, timerVars, ctime, announced>>

TakeMutex ==
  /\ step = "prepare"
  /\ step' = "next"
  /\ UNCHANGED <<psync_current_time, second, depth, timers, called, timerVars, ctime, announced>>

(* timer_prepare_timers, the next second: first the upper levels.          *)
NextSecond ==
  /\ step = "next" /\ second < psync_current_time
  /\ second' = second + 1
  /\ step' = "up" /\ depth' = 0
  /\ UNCHANGED <<psync_current_time, timers, called, timerVars, ctime, announced>>

(* timer_check_upper_levels is called for the level above when a turn of   *)
(* this one is over, and by itself before it moves its own timers.         *)
M_RiseOneLevel ==
  /\ step = "up"
  /\ IF Slot(depth, second) = 0 /\ depth = 0
     THEN depth' = depth + 1 /\ UNCHANGED step
     ELSE step' = "down" /\ UNCHANGED depth
  /\ UNCHANGED <<psync_current_time, second, timers, called, timerVars, ctime, announced>>

Rise ==
  /\ step = "up"
  /\ IF Slot(depth, second) = 0 /\ depth < TIMER_LEVELS - 1
     THEN depth' = depth + 1 /\ UNCHANGED step
     ELSE step' = "down" /\ UNCHANGED depth
  /\ UNCHANGED <<psync_current_time, second, timers, called, timerVars, ctime, announced>>

(* Its loop: the timers of the slot that opens go one level down, each to  *)
(* the slot its time says.                                                 *)
Opened(t) == t \in Linked /\ place[t] = <<depth, Slot(depth, second)>>

MoveDown ==
  /\ step = "down" /\ depth > 0
  /\ place' = [t \in Timers |-> IF Opened(t) THEN <<depth - 1, Slot(depth - 1, runat[t])>>
                                ELSE place[t]]
  /\ depth' = depth - 1
  /\ UNCHANGED <<psync_current_time, second, step, timers, called, status, stop_after_run, numsec,
                 level, runat, hasty, ctime, announced>>

(* The timers of the lowest level's slot are due.                          *)
TakeDue ==
  /\ step = "down" /\ depth = 0
  /\ LET due == {t \in Timers : Opened(t)}
     IN  /\ timers' = timers \union due
         /\ status' = [t \in Timers |-> IF t \in due THEN "running" ELSE status[t]]
  /\ step' = "next"
  /\ UNCHANGED <<psync_current_time, second, depth, called, stop_after_run, place, numsec, level,
                 runat, hasty, ctime, announced>>

(* All seconds are served: the waiters are woken and the mutex released.   *)
M_NoBroadcast ==
  /\ step = "next" /\ second = psync_current_time
  /\ step' = IF timers = {} THEN "after" ELSE "process"
  /\ UNCHANGED <<psync_current_time, second, depth, timers, called, timerVars, ctime, announced>>

Announce ==
  /\ step = "next" /\ second = psync_current_time
  /\ announced' = {w \in Waiters : ctime[w] # -1}
  /\ step' = IF timers = {} THEN "after" ELSE "process"
  /\ UNCHANGED <<psync_current_time, second, depth, timers, called, timerVars, ctime>>

-----------------------------------------------------------------------------
(* timer_process_timers: the calls, one by one, then the reinsertion.      *)
CallTimer(t) ==
  /\ step = "process" /\ t \in timers \ called
  /\ called' = called \union {t}
  /\ UNCHANGED <<psync_current_time, second, step, depth, timers, timerVars, ctime, announced>>

M_ReinsertAtLevel0 ==
  LET again == timers \ stop_after_run
      at(t) == psync_current_time + numsec[t]
  IN  /\ step = "process" /\ called = timers
      /\ status' = [t \in Timers |-> IF t \notin timers THEN status[t]
                                     ELSE IF t \in again THEN "wheel" ELSE "free"]
      /\ runat' = [t \in Timers |-> IF t \in again THEN at(t) ELSE runat[t]]
      /\ place' = [t \in Timers |-> IF t \in again THEN <<0, Slot(0, at(t))>> ELSE place[t]]
      /\ stop_after_run' = {} /\ timers' = {} /\ called' = {}
      /\ hasty' = hasty \ timers
      /\ step' = "after"
      /\ UNCHANGED <<psync_current_time, second, depth, numsec, level, ctime, announced>>

Reinsert ==
  LET again == timers \ stop_after_run
      at(t) == psync_current_time + numsec[t]
  IN  /\ step = "process" /\ called = timers
      /\ status' = [t \in Timers |-> IF t \notin timers THEN status[t]
                                     ELSE IF t \in again THEN "wheel" ELSE "free"]
      /\ runat' = [t \in Timers |-> IF t \in again THEN at(t) ELSE runat[t]]
      /\ place' = [t \in Timers |-> IF t \in again THEN <<level[t], Slot(level[t], at(t))>> ELSE place[t]]
      /\ stop_after_run' = {} /\ timers' = {} /\ called' = {}
      /\ hasty' = hasty \ timers
      /\ step' = "after"
      /\ UNCHANGED <<psync_current_time, second, depth, numsec, level, ctime, announced>>

(* The end of the loop.  A jump of 25 seconds is taken for a sleep of the  *)
(* machine; its handlers change no timer.                                  *)
NextRound ==
  /\ step = "after"
  /\ second' = psync_current_time
  /\ step' = "sleep"
  /\ UNCHANGED <<psync_current_time, depth, timers, called, timerVars, ctime, announced>>

-----------------------------------------------------------------------------
(* psync_timer_wait_next_sec.                                              *)
psync_timer_wait_next_sec(w) ==
  /\ ctime[w] = -1 /\ ~Held
  /\ ctime' = [ctime EXCEPT ![w] = psync_current_time]
  /\ UNCHANGED <<threadVars, timerVars, announced>>

WaiterWakes(w) ==
  /\ w \in announced /\ ~Held
  /\ announced' = announced \ {w}
  /\ ctime' = IF ctime[w] = psync_current_time THEN ctime ELSE [ctime EXCEPT ![w] = -1]
  /\ UNCHANGED <<threadVars, timerVars>>

(* psync_timer_wake signals one waiter, and takes no mutex; a wait may     *)
(* also end by itself.                                                     *)
psync_timer_wake(w) ==
  /\ ctime[w] # -1 /\ w \notin announced
  /\ announced' = announced \union {w}
  /\ UNCHANGED <<threadVars, timerVars, ctime>>

WheelNext ==
  \/ ReadClock \/ TakeMutex \/ NextSecond \/ Rise \/ MoveDown \/ TakeDue \/ Announce
  \/ Reinsert \/ NextRound
  \/ \E t \in Timers :
       \/ CallTimer(t) \/ psync_timer_stop(t)
       \/ \E n \in Numsecs : psync_timer_register(t, n)
  \/ \E w \in Waiters :
       psync_timer_wait_next_sec(w) \/ WaiterWakes(w) \/ psync_timer_wake(w)

WheelSpec == WheelInit /\ [][WheelNext]_wheelVars

-----------------------------------------------------------------------------
(* The wheel keeps the promise its users build on; to them the timers that *)
(* are due are taken all at once, when the mutex is released.              *)
Contract ==
  INSTANCE TimerContract
    WITH status <- [t \in Timers |-> IF Held /\ t \in timers THEN "wheel" ELSE status[t]]
ContractHolds == Contract!Spec

(* No timer is forgotten, through any number of moves down the levels:     *)
(* when a second has been served, no timer of that second or an earlier    *)
(* one is still in the wheel.  And none is called before its time, except  *)
(* one registered between the clock's update (timer_thread, without the    *)
(* mutex) and the service of that second, for a time beyond the span of    *)
(* its level seen from the last second served.                             *)
OnTime ==
  /\ \A t \in timers \ hasty : runat[t] <= psync_current_time
  /\ \A t \in Linked : ~Held => runat[t] > second

(* "Maximum timeout possible is TIMER_ARRAY_SIZE^TIMER_LEVELS seconds"     *)
(* (ptimer.c): any shorter timer is called when its time has come.         *)
NeverEarly == \A t \in timers : runat[t] <= psync_current_time

(* A thread waiting for the next second has been woken once that second    *)
(* is there, except in the moment before the broadcast.                    *)
NoMissedSecond ==
  \A w \in Waiters :
    ctime[w] # -1 /\ ctime[w] # psync_current_time =>
      w \in announced \/ step = "prepare" \/ Held

(* What OnTime rests on: a timer sits in the slot its time says, at a      *)
(* level where that slot opens by its time and not a lap before; each move *)
(* of the timer thread keeps that for the levels it has passed.            *)
Served == IF step \in {"up", "down"} THEN second - 1 ELSE second
Opens(l, time) == (time \div Turn(l)) * Turn(l)
Pending(l) == step = "up" \/ (step = "down" /\ l <= depth)

PlaceInv(t) ==
  LET l == place[t][1]
  IN  /\ place[t][2] = Slot(l, runat[t])
      /\ IF Pending(l) THEN Opens(l, runat[t]) >= second ELSE Opens(l, runat[t]) > second
      /\ t \notin hasty => runat[t] <= Served + Span(l)

IntervalInv(t) ==
  /\ numsec[t] \in 1 .. Span(level[t])
  /\ level[t] > 0 => numsec[t] > Turn(level[t])

ThreadInv ==
  /\ step \notin {"prepare", "next", "up", "down"} => second = psync_current_time
  /\ step \in {"up", "down"} /\ depth > 0 => second % Turn(depth) = 0
  /\ step # "process" => called = {}
  /\ ~Held => (timers = {} <=> step # "process")

WheelInv ==
  /\ WheelTypes /\ ThreadInv
  /\ \A t \in Timers : status[t] # "free" => IntervalInv(t)
  /\ \A t \in Linked : PlaceInv(t)
  /\ \A t \in timers \ hasty : runat[t] <= second
=============================================================================
