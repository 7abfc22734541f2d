------------------------------ MODULE PRateLimit ------------------------------
(***************************************************************************)
(* prunratelimit.c: a callback is run at once when it was not run lately,  *)
(* otherwise later, once, by a timer that lives as long as requests come.  *)
(* The node of a callback is found by other threads before its timer is    *)
(* registered, and a new node may be made while the old one is being freed. *)
(***************************************************************************)
EXTENDS Integers

CONSTANTS Calls, Threads,
          Nodes,             \* psync_rr_tree_node structures, each with its timer
          minintervalsec

VARIABLES
  tasks,                     \* the nodes of the tree
  node,                      \* node[n]: its callback, or "free"
  scheduled,                 \* the nodes with scheduled = 1
  caller,                    \* per thread: <<n, step>> after making node n, or <<>>
  callback,                  \* psync_run_ratelimited_timer: <<n, step>> or <<>>
  left,                      \* seconds until a timer is due
  status, stop_after_run, called,
  since,                     \* seconds since a callback was last run, up to the interval
  requested                  \* the callbacks asked for and not run since

vars == <<tasks, node, scheduled, caller, callback, left, status, stop_after_run, called,
          since, requested>>

T == INSTANCE TimerContract WITH Timers <- Nodes

Free == "free"
LimiterAssumption == Free \notin Calls /\ minintervalsec \in Nat
NodesOf(c) == {n \in tasks : node[n] = c}
Ran(c) ==
  /\ since' = [since EXCEPT ![c] = 0]
  /\ requested' = requested \ {c}

TypeOK ==
  /\ node \in [Nodes -> Calls \union {Free}]
  /\ scheduled \subseteq tasks /\ tasks \subseteq {n \in Nodes : node[n] # Free}
  /\ left \in [Nodes -> 0 .. minintervalsec]
  /\ since \in [Calls -> 0 .. minintervalsec] /\ requested \subseteq Calls
  /\ stop_after_run \subseteq T!InState("running")

Init ==
  /\ tasks = {} /\ node = [n \in Nodes |-> Free] /\ scheduled = {}
  /\ caller = [t \in Threads |-> <<>>] /\ callback = <<>>
  /\ left = [n \in Nodes |-> 0] /\ T!Init
  /\ since = [c \in Calls |-> minintervalsec] /\ requested = {}

-----------------------------------------------------------------------------
(* psync_run_ratelimited, under task_mutex: schedule on the node there is, *)
(* or make one.                                                            *)
M_FindNever(t, c) ==
  /\ caller[t] = <<>>
  /\ requested' = requested \union {c}
  /\ \E n \in Nodes :
       /\ node[n] = Free
       /\ node' = [node EXCEPT ![n] = c]
       /\ tasks' = tasks \union {n}
       /\ caller' = [caller EXCEPT ![t] = <<n, "run">>]
  /\ UNCHANGED <<scheduled, callback, left, status, stop_after_run, called, since>>

psync_run_ratelimited(t, c) ==
  /\ caller[t] = <<>>
  /\ requested' = requested \union {c}
  /\ \/ /\ NodesOf(c) # {}
        /\ scheduled' = scheduled \union NodesOf(c)
        /\ UNCHANGED <<tasks, node, caller>>
     \/ /\ NodesOf(c) = {}
        /\ \E n \in Nodes :
             /\ node[n] = Free
             /\ node' = [node EXCEPT ![n] = c]
             /\ tasks' = tasks \union {n}
             /\ caller' = [caller EXCEPT ![t] = <<n, "run">>]
        /\ UNCHANGED scheduled
  /\ UNCHANGED <<callback, left, status, stop_after_run, called, since>>

(* The first run, on this thread or a new one, before the timer exists.    *)
FirstRun(t) ==
  /\ caller[t] # <<>> /\ caller[t][2] = "run"
  /\ Ran(node[caller[t][1]])
  /\ caller' = [caller EXCEPT ![t] = <<caller[t][1], "register">>]
  /\ UNCHANGED <<tasks, node, scheduled, callback, left, status, stop_after_run, called>>

RegisterTimer(t) ==
  /\ caller[t] # <<>> /\ caller[t][2] = "register"
  /\ T!Register(caller[t][1])
  /\ left' = [left EXCEPT ![caller[t][1]] = minintervalsec]
  /\ caller' = [caller EXCEPT ![t] = <<>>]
  /\ UNCHANGED <<tasks, node, scheduled, callback, since, requested>>

-----------------------------------------------------------------------------
(* A second passes: the timer thread takes the timers that are due.        *)
Tick ==
  LET soon == {n \in T!InState("wheel") : left[n] <= 1}
  IN  /\ T!InState("running") = {}
      /\ T!Fire(soon)
      /\ left' = [n \in Nodes |-> IF left[n] = 0 THEN 0 ELSE left[n] - 1]
      /\ since' = [c \in Calls |-> IF since[c] = minintervalsec THEN since[c] ELSE since[c] + 1]
      /\ UNCHANGED <<tasks, node, scheduled, caller, callback, requested>>

(* psync_run_ratelimited_timer, under task_mutex, and what it does after.  *)
M_TimerLeavesNode(n) ==
  /\ callback = <<>> /\ T!Call(n)
  /\ IF n \in scheduled
     THEN callback' = <<n, "run">> /\ scheduled' = scheduled \ {n}
     ELSE callback' = <<n, "free">> /\ UNCHANGED scheduled
  /\ UNCHANGED <<tasks, node, caller, left, since, requested>>

psync_run_ratelimited_timer(n) ==
  /\ callback = <<>> /\ T!Call(n)
  /\ IF n \in scheduled
     THEN callback' = <<n, "run">> /\ scheduled' = scheduled \ {n} /\ UNCHANGED tasks
     ELSE callback' = <<n, "free">> /\ tasks' = tasks \ {n} /\ UNCHANGED scheduled
  /\ UNCHANGED <<node, caller, left, since, requested>>

TimerRun ==
  /\ callback # <<>> /\ callback[2] = "run"
  /\ Ran(node[callback[1]])
  /\ callback' = <<>>
  /\ UNCHANGED <<tasks, node, scheduled, caller, left, status, stop_after_run, called>>

TimerFree ==
  /\ callback # <<>> /\ callback[2] = "free"
  /\ T!Stop({callback[1]})
  /\ node' = [node EXCEPT ![callback[1]] = Free]
  /\ callback' = <<>>
  /\ UNCHANGED <<tasks, scheduled, caller, left, since, requested>>

PutBack ==
  /\ callback = <<>> /\ T!PutBack
  /\ left' = [n \in Nodes |-> IF n \in called \ stop_after_run THEN minintervalsec ELSE left[n]]
  /\ UNCHANGED <<tasks, node, scheduled, caller, callback, since, requested>>

Next ==
  \/ Tick \/ TimerRun \/ TimerFree \/ PutBack
  \/ \E n \in Nodes : psync_run_ratelimited_timer(n)
  \/ \E t \in Threads :
       FirstRun(t) \/ RegisterTimer(t) \/ \E c \in Calls : psync_run_ratelimited(t, c)

(* The timer thread runs every second and a caller goes on: MCTimerUsers   *)
(* states the fairness.                                                    *)
Spec == Init /\ [][Next]_vars

-----------------------------------------------------------------------------
(* A step that runs the callback, on whichever thread and node.            *)
Runs(c) ==
  \/ callback # <<>> /\ callback[2] = "run" /\ node[callback[1]] = c /\ callback' = <<>>
  \/ \E t \in Threads :
       /\ caller[t] # <<>> /\ caller[t][2] = "run" /\ node[caller[t][1]] = c
       /\ caller'[t] # caller[t]

(* A callback has one node, for two would allow two runs per interval; and *)
(* the node a caller is about to register a timer for, or whose timer may  *)
(* still be called, is not freed.                                          *)
NodesInUse ==
  /\ \A m, n \in tasks : node[m] = node[n] => m = n
  /\ \A t \in Threads : caller[t] # <<>> => caller[t][1] \in tasks
  /\ \A n \in Nodes :
       \/ status[n] = "wheel"
       \/ status[n] = "running" /\ n \notin called
       \/ callback # <<>> /\ callback[1] = n
       => node[n] # Free
=============================================================================
