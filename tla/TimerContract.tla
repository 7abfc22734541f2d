---------------------------- MODULE TimerContract ----------------------------
(***************************************************************************)
(* What the users of ptimer.c may rely on, without the wheel and its time: *)
(* a registered timer is in the wheel until the timer thread takes it, is  *)
(* running until that thread puts it back, and is called once in between.  *)
(* A timer stopped while it is running is freed after its run.             *)
(***************************************************************************)
EXTENDS FiniteSets

CONSTANT Timers

VARIABLES status,            \* "free", "wheel" or "running"
          stop_after_run,    \* running timers that will not be put back
          called             \* running timers whose callback was called

vars == <<status, stop_after_run, called>>
InState(s) == {t \in Timers : status[t] = s}

Init ==
  /\ status = [t \in Timers |-> "free"]
  /\ stop_after_run = {} /\ called = {}

Register(t) ==
  /\ status[t] = "free"
  /\ status' = [status EXCEPT ![t] = "wheel"]
  /\ UNCHANGED <<stop_after_run, called>>

(* Stopping a set of timers, one after the other under the user's own lock. *)
Stop(S) ==
  /\ S \cap InState("free") = {}
  /\ status' = [t \in Timers |-> IF t \in S /\ status[t] = "wheel" THEN "free" ELSE status[t]]
  /\ stop_after_run' = stop_after_run \union (S \cap InState("running"))
  /\ UNCHANGED called

Fire(S) ==
  /\ InState("running") = {}
  /\ S \subseteq InState("wheel")
  /\ status' = [t \in Timers |-> IF t \in S THEN "running" ELSE status[t]]
  /\ UNCHANGED <<stop_after_run, called>>

Call(t) ==
  /\ status[t] = "running" /\ t \notin called
  /\ called' = called \union {t}
  /\ UNCHANGED <<status, stop_after_run>>

PutBack ==
  /\ called # {} /\ called = InState("running")
  /\ status' = [t \in Timers |-> IF t \in stop_after_run THEN "free"
                                 ELSE IF t \in called THEN "wheel" ELSE status[t]]
  /\ stop_after_run' = {} /\ called' = {}

Next ==
  \/ PutBack
  \/ \E t \in Timers : Register(t) \/ Call(t) \/ Stop({t})
  \/ \E S \in SUBSET Timers : Fire(S)

Spec == Init /\ [][Next]_vars
=============================================================================
