-------------------------- MODULE TimerUsersProofs --------------------------
(***************************************************************************)
(* That nothing the cache or the rate limiter frees is still in use, and   *)
(* that no callback is run twice within its interval, for every number of  *)
(* elements, nodes, keys, callbacks and threads; and what PTimerProofs     *)
(* proves of the wheel, of the run's own specification.                    *)
(***************************************************************************)
EXTENDS MCTimerUsers, FiniteSetTheorems, TLAPS

-----------------------------------------------------------------------------
(* The cache.  What the properties leave open is why the timer thread and  *)
(* the others never take the same element: an element whose timer was      *)
(* called belongs to cache_timer until it is freed and its timer stopped,  *)
(* and an element that psync_cache_del unlinked has no timer any more.     *)
States == {"free", "wheel", "running"}
Values == {"none", "cached", "owned", "dying", "freed"}
Steps == {"unlink", "free", "stop"}

CacheTypes ==
  /\ list \subseteq Elements /\ key \in [Elements -> Keys] /\ frees \in [Elements -> Nat]
  /\ value \in [Elements -> Values] /\ status \in [Elements -> States]
  /\ deleting \in [Threads -> Elements \union {None}]
  /\ called \subseteq Elements /\ stop_after_run \subseteq Elements
  /\ callback \in {<<>>} \union (Elements \X Steps)

InHand(e) == callback # <<>> /\ callback[1] = e
ValueAt(s) ==
  IF s = "unlink" THEN "cached" ELSE IF s = "free" THEN "dying" ELSE "freed"

ElementInv(e) ==
  /\ e \in list <=> value[e] = "cached"
  /\ frees[e] = (IF value[e] = "freed" THEN 1 ELSE 0)
  /\ e \in list => status[e] # "free"
  /\ status[e] = "wheel" => e \in list
  /\ status[e] = "running" => e \in list \/ e \in called
  /\ e \in stop_after_run => status[e] = "running"
  /\ e \in called => /\ status[e] = "running"
                     /\ IF InHand(e) THEN value[e] = ValueAt(callback[2])
                        ELSE value[e] = "freed" /\ e \in stop_after_run

DeletingInv(t) ==
  deleting[t] # None =>
    /\ value[deleting[t]] = "dying" /\ status[deleting[t]] = "free"
    /\ \A u \in Threads : deleting[u] = deleting[t] => u = t

CacheInv ==
  /\ CacheTypes
  /\ \A e \in Elements : ElementInv(e)
  /\ callback # <<>> => callback[1] \in called
  /\ \A t \in Threads : DeletingInv(t)
  /\ \A k \in Keys : Cardinality(Cached(k)) <= maxkeys

-----------------------------------------------------------------------------
(* The rate limiter.  A node is in the tree from its making until its      *)
(* timer, called, finds nothing to do; its memory may then serve a new     *)
(* node, whose timer is registered when the old one is gone.  The seconds  *)
(* a timer has left make up for those its callback lacks.                  *)
LimiterTypes ==
  /\ node \in [Nodes -> Calls \union {R!Free}] /\ tasks \subseteq Nodes
  /\ \A n \in tasks : node[n] \in Calls
  /\ rstatus \in [Nodes -> States]
  /\ rcalled \subseteq Nodes /\ rstop \subseteq rcalled
  /\ left \in [Nodes -> 0 .. minintervalsec] /\ since \in [Calls -> 0 .. minintervalsec]
  /\ caller \in [Threads -> {<<>>} \union (Nodes \X {"run", "register"})]
  /\ rcallback \in {<<>>} \union (Nodes \X {"run", "free"})

RunBy(n) == rcallback # <<>> /\ rcallback[1] = n

NodeInv(n) ==
  /\ rstatus[n] = "wheel" => n \in tasks
  /\ rstatus[n] = "running" /\ n \notin rcalled => n \in tasks
  /\ n \in rcalled => rstatus[n] = "running"
  /\ n \in rcalled /\ n \notin rstop /\ ~RunBy(n) => n \in tasks
  /\ RunBy(n) => /\ n \in rcalled \ rstop /\ node[n] \in Calls
                 /\ rcallback[2] = "run" <=> n \in tasks

CallerInv(t) ==
  caller[t] # <<>> =>
    /\ caller[t][1] \in tasks
    /\ rstatus[caller[t][1]] = "free" \/ caller[t][1] \in rstop
    /\ \A u \in Threads : caller[u] # <<>> /\ caller[u][1] = caller[t][1] => u = t

TimeInv ==
  /\ \A c \in Calls : R!NodesOf(c) = {} => since[c] = minintervalsec
  /\ \A n \in Nodes : rstatus[n] = "wheel" => since[node[n]] + left[n] >= minintervalsec
  /\ \A n \in Nodes : rstatus[n] = "running" /\ n \notin rcalled => since[node[n]] = minintervalsec
  /\ rcallback # <<>> /\ rcallback[2] = "run" => since[node[rcallback[1]]] = minintervalsec
  /\ \A t \in Threads : caller[t] # <<>> /\ caller[t][2] = "run" =>
                          since[node[caller[t][1]]] = minintervalsec

LimiterInv ==
  /\ LimiterTypes
  /\ \A m, n \in tasks : node[m] = node[n] => m = n
  /\ \A n \in Nodes : NodeInv(n)
  /\ \A t \in Threads : CallerInv(t)
  /\ TimeInv

-----------------------------------------------------------------------------
(* The rate limiter starts with its invariant.                             *)
LEMMA LimiterStarts == R!LimiterAssumption /\ R!Init => LimiterInv
<1> SUFFICES ASSUME R!LimiterAssumption, R!Init PROVE LimiterInv OBVIOUS
<1> USE DEF R!LimiterAssumption, R!Init, R!T!Init
<1>1. LimiterTypes BY DEF LimiterTypes, States
<1>2. \A m, n \in tasks : node[m] = node[n] => m = n OBVIOUS
<1>3. \A n \in Nodes : NodeInv(n) BY DEF NodeInv, RunBy
<1>4. \A t \in Threads : CallerInv(t) BY DEF CallerInv
<1>5. TimeInv BY DEF TimeInv
<1> QED BY <1>1, <1>2, <1>3, <1>4, <1>5 DEF LimiterInv

(* A request: it marks the node of its callback, or makes one.             *)
LEMMA Request ==
  ASSUME R!LimiterAssumption, LimiterInv, NEW t \in Threads, NEW c \in Calls,
         R!psync_run_ratelimited(t, c)
  PROVE  LimiterInv'
<1> USE DEF LimiterInv
<1>1. CASE R!NodesOf(c) # {}
  <2>1. UNCHANGED <<tasks, node, caller, rcallback, left, rstatus, rstop, rcalled, since>>
    BY <1>1 DEF R!psync_run_ratelimited
  <2> QED BY <2>1 DEF LimiterTypes, NodeInv, RunBy, CallerInv, TimeInv, R!NodesOf
<1>2. CASE R!NodesOf(c) = {}
  <2>1. UNCHANGED <<rcallback, left, rstatus, rstop, rcalled, since>> /\ caller[t] = <<>>
    BY DEF R!psync_run_ratelimited
  <2>2. PICK n \in Nodes :
          /\ node[n] = R!Free /\ node' = [node EXCEPT ![n] = c]
          /\ tasks' = tasks \union {n} /\ caller' = [caller EXCEPT ![t] = <<n, "run">>]
    BY <1>2 DEF R!psync_run_ratelimited
  <2>3. n \notin tasks /\ c # R!Free
    BY <2>2 DEF LimiterTypes, R!LimiterAssumption
  <2>4. \A m \in Nodes \ {n} : node'[m] = node[m] /\ (m \in tasks' <=> m \in tasks)
    BY <2>2 DEF LimiterTypes
  <2>5. node'[n] = c /\ n \in tasks' BY <2>2 DEF LimiterTypes
  <2>6. rstatus[n] = "free" \/ n \in rstop
    BY <2>2, <2>3 DEF LimiterTypes, NodeInv, States, R!LimiterAssumption
  <2>7. ~RunBy(n) BY <2>2 DEF NodeInv, R!LimiterAssumption
  <2>8. caller' \in [Threads -> {<<>>} \union (Nodes \X {"run", "register"})]
    BY <2>2 DEF LimiterTypes
  <2>9. caller'[t] = <<n, "run">> /\ \A u \in Threads \ {t} : caller'[u] = caller[u]
    BY <2>2 DEF LimiterTypes
  <2>10. LimiterTypes' BY <2>1, <2>2, <2>4, <2>5, <2>8 DEF LimiterTypes
  <2>11. (\A m, q \in tasks : node[m] = node[q] => m = q)'
    <3>1. \A m \in tasks : node[m] # c BY <1>2 DEF R!NodesOf
    <3> QED BY <2>2, <2>4, <2>5, <3>1 DEF LimiterTypes
  <2>12. (\A m \in Nodes : NodeInv(m))'
    BY <2>1, <2>2, <2>4, <2>5, <2>7 DEF NodeInv, RunBy, LimiterTypes
  <2>13. (\A u \in Threads : CallerInv(u))'
    <3>1. \A u \in Threads : caller[u] # <<>> => caller[u][1] # n
      BY <2>3 DEF CallerInv
    <3>2. caller'[t][1] = n BY <2>9
    <3>3. CallerInv(t)' BY <2>1, <2>5, <2>6, <2>9, <3>1, <3>2 DEF CallerInv
    <3>4. ASSUME NEW u \in Threads \ {t} PROVE CallerInv(u)'
      BY <2>1, <2>2, <2>9, <3>1, <3>2 DEF CallerInv
    <3> QED BY <3>3, <3>4
  <2>14. TimeInv'
    <3>1. since[c] = minintervalsec BY <1>2 DEF TimeInv
    <3>2. (\A d \in Calls : R!NodesOf(d) = {} => since[d] = minintervalsec)'
      <4> SUFFICES ASSUME NEW d \in Calls, R!NodesOf(d)' = {} PROVE since[d] = minintervalsec
        BY <2>1
      <4>1. CASE d = c BY <3>1, <4>1
      <4>2. CASE d # c
        <5>1. R!NodesOf(d) = {} BY <2>2, <2>3, <2>4, <4>2 DEF R!NodesOf, LimiterTypes
        <5> QED BY <5>1 DEF TimeInv
      <4> QED BY <4>1, <4>2
    <3>3. rstatus[n] # "wheel" /\ (rstatus[n] = "running" => n \in rcalled)
      BY <2>3 DEF NodeInv
    <3>4. (\A m \in Nodes : rstatus[m] = "wheel" => since[node[m]] + left[m] >= minintervalsec)'
      BY <2>1, <2>4, <3>3 DEF TimeInv
    <3>5. (\A m \in Nodes : rstatus[m] = "running" /\ m \notin rcalled => since[node[m]] = minintervalsec)'
      BY <2>1, <2>4, <3>3 DEF TimeInv
    <3>6. (rcallback # <<>> /\ rcallback[2] = "run" => since[node[rcallback[1]]] = minintervalsec)'
      <4>1. rcallback # <<>> => rcallback[1] \in Nodes \ {n} BY <2>7 DEF RunBy, LimiterTypes
      <4> QED BY <2>1, <2>4, <4>1 DEF TimeInv
    <3>7. (\A u \in Threads : caller[u] # <<>> /\ caller[u][2] = "run" =>
                                since[node[caller[u][1]]] = minintervalsec)'
      <4>1. caller'[t][1] = n BY <2>9
      <4>2. since'[node'[caller'[t][1]]] = minintervalsec BY <2>1, <2>5, <3>1, <4>1
      <4>3. \A u \in Threads \ {t} : caller[u] # <<>> => caller[u][1] \in Nodes \ {n}
        BY <2>3 DEF CallerInv, LimiterTypes
      <4> QED BY <2>1, <2>4, <2>9, <4>2, <4>3 DEF TimeInv
    <3> QED BY <3>2, <3>4, <3>5, <3>6, <3>7 DEF TimeInv
  <2> QED BY <2>10, <2>11, <2>12, <2>13, <2>14
<1> QED BY <1>1, <1>2

(* The first run resets the seconds of its callback, whose node is the     *)
(* caller's: no timer is about to run it.                                  *)
LEMMA First ==
  ASSUME R!LimiterAssumption, LimiterInv, NEW t \in Threads, R!FirstRun(t)
  PROVE  LimiterInv'
<1> USE DEF LimiterInv
<1> DEFINE n == caller[t][1]
<1>1. /\ UNCHANGED <<tasks, node, rcallback, left, rstatus, rstop, rcalled>>
      /\ since' = [since EXCEPT ![node[n]] = 0]
      /\ caller[t] # <<>> /\ caller' = [caller EXCEPT ![t] = <<n, "register">>]
  BY DEF R!FirstRun, R!Ran
<1>2. n \in tasks /\ n \in Nodes /\ node[n] \in Calls
  BY <1>1 DEF CallerInv, LimiterTypes
<1>3. \A m \in tasks : node[m] = node[n] => m = n BY <1>2
<1>4. \A c \in Calls : since'[c] = IF c = node[n] THEN 0 ELSE since[c]
  BY <1>1 DEF LimiterTypes
<1>5. /\ caller'[t] = <<n, "register">> /\ \A u \in Threads \ {t} : caller'[u] = caller[u]
  BY <1>1 DEF LimiterTypes
<1>6. LimiterTypes'
  <2>1. caller' \in [Threads -> {<<>>} \union (Nodes \X {"run", "register"})]
    BY <1>1, <1>2 DEF LimiterTypes
  <2>2. since' \in [Calls -> 0 .. minintervalsec]
    <3>1. 0 \in 0 .. minintervalsec BY DEF R!LimiterAssumption
    <3> HIDE DEF n
    <3> QED BY <1>1, <3>1 DEF LimiterTypes
  <2> QED BY <1>1, <2>1, <2>2 DEF LimiterTypes
<1>7. (\A p, q \in tasks : node[p] = node[q] => p = q)' BY <1>1
<1>8. (\A m \in Nodes : NodeInv(m))' BY <1>1 DEF NodeInv, RunBy
<1>9. \A u \in Threads : caller'[u] # <<>> => caller[u] # <<>> /\ caller'[u][1] = caller[u][1]
  BY <1>1, <1>5
<1>10. (\A u \in Threads : CallerInv(u))'
  <2> SUFFICES ASSUME NEW u \in Threads PROVE CallerInv(u)' OBVIOUS
  <2> QED BY <1>1, <1>9 DEF CallerInv
<1>11. TimeInv'
  <2>1. (\A c \in Calls : R!NodesOf(c) = {} => since[c] = minintervalsec)'
    <3> SUFFICES ASSUME NEW c \in Calls, R!NodesOf(c)' = {} PROVE since'[c] = minintervalsec
      BY <1>1
    <3>1. R!NodesOf(c) = {} BY <1>1 DEF R!NodesOf
    <3>2. c # node[n] BY <1>2, <3>1 DEF R!NodesOf
    <3> QED BY <1>4, <3>1, <3>2 DEF TimeInv
  <2>2. \A m \in tasks \ {n} : since'[node[m]] = since[node[m]]
    BY <1>3, <1>4 DEF LimiterTypes
  <2>3. rstatus[n] # "wheel" /\ (rstatus[n] = "running" => n \in rcalled)
    BY <1>1, <1>2 DEF CallerInv, NodeInv, LimiterTypes
  <2>4. \A m \in Nodes : rstatus[m] = "wheel" => since'[node[m]] = since[node[m]]
    BY <2>2, <2>3 DEF NodeInv
  <2>5. \A m \in Nodes : rstatus[m] = "running" /\ m \notin rcalled => since'[node[m]] = since[node[m]]
    BY <2>2, <2>3 DEF NodeInv
  <2>6. (rcallback # <<>> /\ rcallback[2] = "run" => since[node[rcallback[1]]] = minintervalsec)'
    <3> SUFFICES ASSUME rcallback # <<>>, rcallback[2] = "run"
                 PROVE  since'[node[rcallback[1]]] = minintervalsec
      BY <1>1
    <3>1. rcallback[1] \in Nodes /\ RunBy(rcallback[1]) BY DEF LimiterTypes, RunBy
    <3>2. rcallback[1] \in tasks /\ rcallback[1] \in rcalled \ rstop BY <3>1 DEF NodeInv
    <3>3. rcallback[1] # n BY <1>1, <3>2 DEF CallerInv, NodeInv, LimiterTypes
    <3> QED BY <2>2, <3>2, <3>3 DEF TimeInv
  <2>7. (\A u \in Threads : caller[u] # <<>> /\ caller[u][2] = "run" =>
                              since[node[caller[u][1]]] = minintervalsec)'
    <3> SUFFICES ASSUME NEW u \in Threads, caller'[u] # <<>>, caller'[u][2] = "run"
                 PROVE  since'[node[caller'[u][1]]] = minintervalsec
      BY <1>1
    <3>1. u # t /\ caller'[u] = caller[u] BY <1>5
    <3>2. caller[u][1] \in tasks \ {n} BY <1>1, <3>1 DEF CallerInv
    <3> QED BY <2>2, <3>1, <3>2 DEF TimeInv
  <2> QED BY <1>1, <2>1, <2>4, <2>5, <2>6, <2>7 DEF TimeInv
<1> QED BY <1>6, <1>7, <1>8, <1>10, <1>11

(* The timer of the new node.                                              *)
LEMMA Registered ==
  ASSUME R!LimiterAssumption, LimiterInv, NEW t \in Threads, R!RegisterTimer(t)
  PROVE  LimiterInv'
<1> USE DEF LimiterInv
<1> DEFINE n == caller[t][1]
<1>1. /\ UNCHANGED <<tasks, node, rcallback, since, rstop, rcalled>>
      /\ caller[t] # <<>> /\ caller' = [caller EXCEPT ![t] = <<>>]
      /\ rstatus[n] = "free" /\ rstatus' = [rstatus EXCEPT ![n] = "wheel"]
      /\ left' = [left EXCEPT ![n] = minintervalsec]
  BY DEF R!RegisterTimer, R!T!Register
<1>2. n \in tasks /\ n \in Nodes /\ node[n] \in Calls BY <1>1 DEF CallerInv, LimiterTypes
<1>3. n \notin rcalled /\ ~RunBy(n) BY <1>1, <1>2 DEF NodeInv
<1>4. /\ rstatus'[n] = "wheel" /\ left'[n] = minintervalsec
      /\ \A m \in Nodes \ {n} : rstatus'[m] = rstatus[m] /\ left'[m] = left[m]
  BY <1>1, <1>2 DEF LimiterTypes
<1>5. caller'[t] = <<>> /\ \A u \in Threads \ {t} : caller'[u] = caller[u]
  BY <1>1 DEF LimiterTypes
<1>6. LimiterTypes'
  BY <1>1, <1>2 DEF LimiterTypes, States, R!LimiterAssumption
<1>7. (\A p, q \in tasks : node[p] = node[q] => p = q)' BY <1>1
<1>8. (\A m \in Nodes : NodeInv(m))' BY <1>1, <1>2, <1>3, <1>4 DEF NodeInv, RunBy
<1>9. (\A u \in Threads : CallerInv(u))'
  <2> SUFFICES ASSUME NEW u \in Threads, caller'[u] # <<>> PROVE CallerInv(u)' BY DEF CallerInv
  <2>1. u # t /\ caller'[u] = caller[u] BY <1>5
  <2>2. caller[u][1] \in Nodes \ {n} BY <1>1, <2>1 DEF CallerInv, LimiterTypes
  <2> QED BY <1>1, <1>4, <1>5, <2>1, <2>2 DEF CallerInv
<1>10. TimeInv'
  <2>1. since'[node'[n]] + left'[n] >= minintervalsec
    BY <1>1, <1>2, <1>4 DEF LimiterTypes, R!LimiterAssumption
  <2>2. (\A m \in Nodes : rstatus[m] = "wheel" => since[node[m]] + left[m] >= minintervalsec)'
    BY <1>1, <1>4, <2>1 DEF TimeInv
  <2>3. (\A m \in Nodes : rstatus[m] = "running" /\ m \notin rcalled => since[node[m]] = minintervalsec)'
    BY <1>1, <1>4 DEF TimeInv
  <2> QED BY <1>1, <1>5, <2>2, <2>3 DEF TimeInv, R!NodesOf
<1> QED BY <1>6, <1>7, <1>8, <1>9, <1>10

(* A second: every timer in the wheel and every callback is one nearer.    *)
LEMMA Second ==
  ASSUME R!LimiterAssumption, LimiterInv, R!Tick
  PROVE  LimiterInv'
<1> USE DEF LimiterInv
<1> DEFINE soon == {n \in R!T!InState("wheel") : left[n] <= 1}
<1>1. /\ R!T!InState("running") = {}
      /\ rstatus' = [n \in Nodes |-> IF n \in soon THEN "running" ELSE rstatus[n]]
      /\ left' = [n \in Nodes |-> IF left[n] = 0 THEN 0 ELSE left[n] - 1]
      /\ since' = [c \in Calls |-> IF since[c] = minintervalsec THEN since[c] ELSE since[c] + 1]
      /\ UNCHANGED <<tasks, node, caller, rcallback, rstop, rcalled>>
  BY DEF R!Tick, R!T!Fire
<1>2. minintervalsec \in Nat BY DEF R!LimiterAssumption
<1>3. \A n \in Nodes : rstatus[n] # "running" BY <1>1 DEF R!T!InState
<1>4. rcalled = {} /\ rstop = {} BY <1>3 DEF NodeInv, LimiterTypes
<1>5. \A n \in Nodes : IF rstatus[n] = "wheel" /\ left[n] <= 1 THEN rstatus'[n] = "running"
                       ELSE rstatus'[n] = rstatus[n]
  BY <1>1 DEF R!T!InState
<1>6. \A c \in Calls : since[c] \in 0 .. minintervalsec BY DEF LimiterTypes
<1>7. \A n \in Nodes : left[n] \in 0 .. minintervalsec BY DEF LimiterTypes
<1>8. LimiterTypes'
  <2>1. rstatus' \in [Nodes -> States] BY <1>1 DEF LimiterTypes, States
  <2>2. left' \in [Nodes -> 0 .. minintervalsec] BY <1>1, <1>2, <1>7
  <2>3. since' \in [Calls -> 0 .. minintervalsec] BY <1>1, <1>2, <1>6
  <2> QED BY <1>1, <2>1, <2>2, <2>3 DEF LimiterTypes
<1>9. (\A p, q \in tasks : node[p] = node[q] => p = q)' BY <1>1
<1>10. (\A n \in Nodes : NodeInv(n))' BY <1>1, <1>4, <1>5 DEF NodeInv, RunBy
<1>11. (\A u \in Threads : CallerInv(u))'
  <2> SUFFICES ASSUME NEW u \in Threads, caller[u] # <<>> PROVE CallerInv(u)'
    BY <1>1 DEF CallerInv
  <2>1. caller[u][1] \in Nodes /\ rstatus[caller[u][1]] = "free"
    BY <1>4 DEF CallerInv, LimiterTypes
  <2> QED BY <1>1, <1>5, <2>1 DEF CallerInv
<1>12. TimeInv'
  <2>1. \A c \in Calls : /\ since[c] = minintervalsec => since'[c] = minintervalsec
                         /\ since[c] # minintervalsec => since'[c] = since[c] + 1
    BY <1>1
  <2>2. ASSUME NEW n \in Nodes, rstatus[n] = "wheel"
        PROVE  /\ node[n] \in Calls /\ since[node[n]] + left[n] >= minintervalsec
    BY <2>2 DEF NodeInv, LimiterTypes, TimeInv
  <2>3. (\A c \in Calls : R!NodesOf(c) = {} => since[c] = minintervalsec)'
    BY <1>1, <2>1 DEF R!NodesOf, TimeInv
  <2>4. (\A n \in Nodes : rstatus[n] = "wheel" => since[node[n]] + left[n] >= minintervalsec)'
    <3> SUFFICES ASSUME NEW n \in Nodes, rstatus'[n] = "wheel"
                 PROVE  since'[node[n]] + left'[n] >= minintervalsec
      BY <1>1
    <3>1. rstatus[n] = "wheel" /\ left[n] > 1 /\ left'[n] = left[n] - 1
      BY <1>1, <1>5, <1>7
    <3>2. node[n] \in Calls /\ since[node[n]] + left[n] >= minintervalsec BY <2>2, <3>1
    <3> QED BY <1>2, <1>6, <1>7, <2>1, <3>1, <3>2
  <2>5. (\A n \in Nodes : rstatus[n] = "running" /\ n \notin rcalled => since[node[n]] = minintervalsec)'
    <3> SUFFICES ASSUME NEW n \in Nodes, rstatus'[n] = "running"
                 PROVE  since'[node[n]] = minintervalsec
      BY <1>1
    <3>1. rstatus[n] = "wheel" /\ left[n] <= 1 BY <1>3, <1>5
    <3>2. node[n] \in Calls /\ since[node[n]] + left[n] >= minintervalsec BY <2>2, <3>1
    <3> QED BY <1>2, <1>6, <1>7, <2>1, <3>1, <3>2
  <2>6. rcallback = <<>>
    BY <1>4 DEF NodeInv, RunBy, LimiterTypes
  <2>7. (\A u \in Threads : caller[u] # <<>> /\ caller[u][2] = "run" =>
                              since[node[caller[u][1]]] = minintervalsec)'
    BY <1>1, <2>1 DEF TimeInv, CallerInv, LimiterTypes
  <2> QED BY <1>1, <2>3, <2>4, <2>5, <2>6, <2>7 DEF TimeInv
<1> QED BY <1>8, <1>9, <1>10, <1>11, <1>12

(* A timer is called: its node stays if there is something to do, and      *)
(* leaves the tree otherwise, its callback as late as any.                 *)
LEMMA Called ==
  ASSUME R!LimiterAssumption, LimiterInv, NEW n \in Nodes, R!psync_run_ratelimited_timer(n)
  PROVE  LimiterInv'
<1> USE DEF LimiterInv
<1>1. /\ UNCHANGED <<node, caller, left, since, rstatus, rstop>>
      /\ rcallback = <<>> /\ rstatus[n] = "running" /\ n \notin rcalled
      /\ rcalled' = rcalled \union {n}
      /\ \/ rcallback' = <<n, "run">> /\ tasks' = tasks
         \/ rcallback' = <<n, "free">> /\ tasks' = tasks \ {n}
  BY DEF R!psync_run_ratelimited_timer, R!T!Call
<1>2. n \in tasks /\ node[n] \in Calls BY <1>1 DEF NodeInv, LimiterTypes
<1>3. n \notin rstop /\ \A t \in Threads : caller[t] # <<>> => caller[t][1] # n
  BY <1>1 DEF CallerInv, LimiterTypes
<1>4. since[node[n]] = minintervalsec BY <1>1 DEF TimeInv
<1>5. rcallback' # <<>> /\ rcallback'[1] = n /\ (rcallback'[2] = "run" <=> n \in tasks')
  BY <1>1, <1>2
<1>6. \A m \in Nodes \ {n} : m \in tasks' <=> m \in tasks BY <1>1
<1>7. LimiterTypes' BY <1>1 DEF LimiterTypes
<1>8. (\A p, q \in tasks : node[p] = node[q] => p = q)' BY <1>1
<1>9. (\A m \in Nodes : NodeInv(m))'
  <2>1. NodeInv(n)' BY <1>1, <1>2, <1>3, <1>5 DEF NodeInv, RunBy
  <2>2. ASSUME NEW m \in Nodes \ {n} PROVE NodeInv(m)'
    BY <1>1, <1>5, <1>6 DEF NodeInv, RunBy
  <2> QED BY <2>1, <2>2
<1>10. (\A u \in Threads : CallerInv(u))'
  <2> SUFFICES ASSUME NEW u \in Threads PROVE CallerInv(u)' OBVIOUS
  <2> QED BY <1>1, <1>3, <1>6 DEF CallerInv, LimiterTypes
<1>11. TimeInv'
  <2>1. (\A c \in Calls : R!NodesOf(c) = {} => since[c] = minintervalsec)'
    <3> SUFFICES ASSUME NEW c \in Calls, R!NodesOf(c)' = {} PROVE since[c] = minintervalsec
      BY <1>1
    <3>1. CASE c = node[n] BY <1>4, <3>1
    <3>2. CASE c # node[n]
      <4>1. R!NodesOf(c) = {} BY <1>1, <1>6, <3>2 DEF R!NodesOf, LimiterTypes
      <4> QED BY <4>1 DEF TimeInv
    <3> QED BY <3>1, <3>2
  <2> QED BY <1>1, <1>4, <1>5, <2>1 DEF TimeInv
<1> QED BY <1>7, <1>8, <1>9, <1>10, <1>11

(* The timer runs its callback: the seconds start again, with the timer    *)
(* still running, so that none passes before it is put back for all of     *)
(* them.                                                                   *)
LEMMA RunAgain ==
  ASSUME R!LimiterAssumption, LimiterInv, R!TimerRun
  PROVE  LimiterInv'
<1> USE DEF LimiterInv
<1> DEFINE n == rcallback[1]
<1>1. /\ UNCHANGED <<tasks, node, caller, left, rstatus, rstop, rcalled>>
      /\ rcallback # <<>> /\ rcallback[2] = "run" /\ rcallback' = <<>>
      /\ since' = [since EXCEPT ![node[n]] = 0]
  BY DEF R!TimerRun, R!Ran
<1>2. n \in Nodes /\ RunBy(n) BY <1>1 DEF LimiterTypes, RunBy
<1>3. /\ n \in tasks /\ n \in rcalled \ rstop /\ rstatus[n] = "running" /\ node[n] \in Calls
  BY <1>1, <1>2 DEF NodeInv
<1>4. \A c \in Calls : since'[c] = IF c = node[n] THEN 0 ELSE since[c]
  BY <1>1 DEF LimiterTypes
<1>5. \A m \in tasks \ {n} : since'[node[m]] = since[node[m]]
  BY <1>3, <1>4 DEF LimiterTypes
<1>6. LimiterTypes'
  <2>1. 0 \in 0 .. minintervalsec BY DEF R!LimiterAssumption
  <2>2. since' \in [Calls -> 0 .. minintervalsec]
    <3> HIDE DEF n
    <3> QED BY <1>1, <2>1 DEF LimiterTypes
  <2> QED BY <1>1, <2>2 DEF LimiterTypes
<1>7. (\A p, q \in tasks : node[p] = node[q] => p = q)' BY <1>1
<1>8. (\A m \in Nodes : NodeInv(m))' BY <1>1, <1>3 DEF NodeInv, RunBy
<1>9. (\A u \in Threads : CallerInv(u))'
  <2> SUFFICES ASSUME NEW u \in Threads PROVE CallerInv(u)' OBVIOUS
  <2> QED BY <1>1 DEF CallerInv
<1>10. TimeInv'
  <2>1. (\A c \in Calls : R!NodesOf(c) = {} => since[c] = minintervalsec)'
    <3> SUFFICES ASSUME NEW c \in Calls, R!NodesOf(c)' = {} PROVE since'[c] = minintervalsec
      BY <1>1
    <3>1. R!NodesOf(c) = {} BY <1>1 DEF R!NodesOf
    <3>2. c # node[n] BY <1>3, <3>1 DEF R!NodesOf
    <3> QED BY <1>4, <3>1, <3>2 DEF TimeInv
  <2>2. \A m \in Nodes : rstatus[m] = "wheel" => since'[node[m]] = since[node[m]]
    BY <1>3, <1>5 DEF NodeInv
  <2>3. \A m \in Nodes : rstatus[m] = "running" /\ m \notin rcalled => since'[node[m]] = since[node[m]]
    BY <1>3, <1>5 DEF NodeInv
  <2>4. (\A u \in Threads : caller[u] # <<>> /\ caller[u][2] = "run" =>
                              since[node[caller[u][1]]] = minintervalsec)'
    <3> SUFFICES ASSUME NEW u \in Threads, caller[u] # <<>>, caller[u][2] = "run"
                 PROVE  since'[node[caller[u][1]]] = minintervalsec
      BY <1>1
    <3>1. caller[u][1] \in tasks \ {n} BY <1>3 DEF CallerInv
    <3> QED BY <1>5, <3>1 DEF TimeInv
  <2> QED BY <1>1, <2>1, <2>2, <2>3, <2>4 DEF TimeInv
<1> QED BY <1>6, <1>7, <1>8, <1>9, <1>10

(* The node that left the tree is freed, its timer told not to come back.  *)
LEMMA FreeNode ==
  ASSUME R!LimiterAssumption, LimiterInv, R!TimerFree
  PROVE  LimiterInv'
<1> USE DEF LimiterInv
<1> DEFINE n == rcallback[1]
<1>1. /\ UNCHANGED <<tasks, caller, left, since, rcalled>>
      /\ rcallback # <<>> /\ rcallback[2] = "free" /\ rcallback' = <<>>
      /\ node' = [node EXCEPT ![n] = R!Free]
  BY DEF R!TimerFree, R!T!Stop
<1>2. n \in Nodes /\ RunBy(n) BY <1>1 DEF LimiterTypes, RunBy
<1>3. /\ n \notin tasks /\ n \in rcalled \ rstop /\ rstatus[n] = "running"
  BY <1>1, <1>2 DEF NodeInv
<1>4. rstop' = rstop \union {n}
  BY <1>2, <1>3 DEF R!TimerFree, R!T!Stop, R!T!InState
<1>5. rstatus' = rstatus
  <2>1. rstatus' = [m \in Nodes |-> IF m \in {n} /\ rstatus[m] = "wheel" THEN "free" ELSE rstatus[m]]
    BY DEF R!TimerFree, R!T!Stop
  <2> QED BY <1>3, <2>1 DEF LimiterTypes
<1>6. \A m \in Nodes \ {n} : node'[m] = node[m] BY <1>1 DEF LimiterTypes
<1>7. \A m \in tasks : node'[m] = node[m] BY <1>3, <1>6 DEF LimiterTypes
<1>8. LimiterTypes' BY <1>1, <1>2, <1>3, <1>4, <1>5, <1>7 DEF LimiterTypes
<1>9. (\A p, q \in tasks : node[p] = node[q] => p = q)' BY <1>1, <1>7
<1>10. (\A m \in Nodes : NodeInv(m))' BY <1>1, <1>3, <1>4, <1>5 DEF NodeInv, RunBy
<1>11. (\A u \in Threads : CallerInv(u))'
  <2> SUFFICES ASSUME NEW u \in Threads PROVE CallerInv(u)' OBVIOUS
  <2> QED BY <1>1, <1>4, <1>5 DEF CallerInv
<1>12. TimeInv'
  <2>1. (\A c \in Calls : R!NodesOf(c) = {} => since[c] = minintervalsec)'
    BY <1>1, <1>7 DEF R!NodesOf, TimeInv
  <2>2. \A m \in Nodes : rstatus[m] = "wheel" => node'[m] = node[m] BY <1>3, <1>6
  <2>3. \A m \in Nodes : rstatus[m] = "running" /\ m \notin rcalled => node'[m] = node[m]
    BY <1>3, <1>6
  <2>4. \A u \in Threads : caller[u] # <<>> => node'[caller[u][1]] = node[caller[u][1]]
    BY <1>7 DEF CallerInv
  <2> QED BY <1>1, <1>5, <2>1, <2>2, <2>3, <2>4 DEF TimeInv
<1> QED BY <1>8, <1>9, <1>10, <1>11, <1>12

(* The timers that ran go back into the wheel for a whole interval, or are *)
(* freed.                                                                  *)
LEMMA BackInWheel ==
  ASSUME R!LimiterAssumption, LimiterInv, R!PutBack
  PROVE  LimiterInv'
<1> USE DEF LimiterInv
<1>1. /\ UNCHANGED <<tasks, node, caller, since, rcallback>> /\ rcallback = <<>>
      /\ rcalled = R!T!InState("running") /\ rcalled' = {} /\ rstop' = {}
      /\ rstatus' = [n \in Nodes |-> IF n \in rstop THEN "free"
                                     ELSE IF n \in rcalled THEN "wheel" ELSE rstatus[n]]
      /\ left' = [n \in Nodes |-> IF n \in rcalled \ rstop THEN minintervalsec ELSE left[n]]
  BY DEF R!PutBack, R!T!PutBack
<1>2. \A n \in Nodes : n \in rcalled <=> rstatus[n] = "running" BY <1>1 DEF R!T!InState
<1>3. ASSUME NEW n \in Nodes
      PROVE  /\ n \in rstop => rstatus'[n] = "free"
             /\ n \in rcalled \ rstop => rstatus'[n] = "wheel" /\ left'[n] = minintervalsec
             /\ n \notin rcalled => rstatus'[n] = rstatus[n] /\ left'[n] = left[n]
             /\ rstatus'[n] # "running"
  BY <1>1, <1>2 DEF LimiterTypes
<1>4. LimiterTypes'
  <2>1. rstatus' \in [Nodes -> States] BY <1>1 DEF LimiterTypes, States
  <2>2. left' \in [Nodes -> 0 .. minintervalsec] BY <1>1 DEF LimiterTypes, R!LimiterAssumption
  <2> QED BY <1>1, <2>1, <2>2 DEF LimiterTypes
<1>5. (\A p, q \in tasks : node[p] = node[q] => p = q)' BY <1>1
<1>6. \A n \in rcalled \ rstop : n \in tasks
  BY <1>1 DEF NodeInv, RunBy, LimiterTypes
<1>7. (\A n \in Nodes : NodeInv(n))'
  <2> SUFFICES ASSUME NEW n \in Nodes PROVE NodeInv(n)' OBVIOUS
  <2> QED BY <1>1, <1>3, <1>6 DEF NodeInv, RunBy, LimiterTypes
<1>8. (\A u \in Threads : CallerInv(u))'
  <2> SUFFICES ASSUME NEW u \in Threads, caller[u] # <<>> PROVE CallerInv(u)'
    BY <1>1 DEF CallerInv
  <2>1. caller[u][1] \in Nodes BY DEF LimiterTypes
  <2>2. rstatus'[caller[u][1]] = "free" BY <1>2, <1>3, <2>1 DEF CallerInv, NodeInv
  <2> QED BY <1>1, <2>2 DEF CallerInv
<1>9. TimeInv'
  <2>1. (\A n \in Nodes : rstatus[n] = "wheel" => since[node[n]] + left[n] >= minintervalsec)'
    <3> SUFFICES ASSUME NEW n \in Nodes, rstatus'[n] = "wheel"
                 PROVE  since[node[n]] + left'[n] >= minintervalsec
      BY <1>1
    <3>1. CASE n \in rcalled
      <4>1. n \in tasks /\ left'[n] = minintervalsec BY <1>3, <1>6, <3>1
      <4>2. since[node[n]] \in 0 .. minintervalsec BY <4>1 DEF LimiterTypes
      <4> QED BY <4>1, <4>2 DEF R!LimiterAssumption
    <3>2. CASE n \notin rcalled BY <1>3, <3>2 DEF TimeInv
    <3> QED BY <3>1, <3>2
  <2>2. (\A n \in Nodes : rstatus[n] = "running" /\ n \notin rcalled => since[node[n]] = minintervalsec)'
    BY <1>3
  <2> QED BY <1>1, <2>1, <2>2 DEF TimeInv, R!NodesOf
<1> QED BY <1>4, <1>5, <1>7, <1>8, <1>9

(* Every step of the limiter keeps its invariant.                          *)
LEMMA LimiterStep ==
  ASSUME R!LimiterAssumption, LimiterInv, R!Next
  PROVE  LimiterInv'
<1>1. CASE R!Tick BY <1>1, Second
<1>2. CASE R!TimerRun BY <1>2, RunAgain
<1>3. CASE R!TimerFree BY <1>3, FreeNode
<1>4. CASE R!PutBack BY <1>4, BackInWheel
<1>5. ASSUME NEW n \in Nodes, R!psync_run_ratelimited_timer(n) PROVE LimiterInv'
  BY <1>5, Called
<1>6. ASSUME NEW t \in Threads, R!FirstRun(t) PROVE LimiterInv' BY <1>6, First
<1>7. ASSUME NEW t \in Threads, R!RegisterTimer(t) PROVE LimiterInv' BY <1>7, Registered
<1>8. ASSUME NEW t \in Threads, NEW c \in Calls, R!psync_run_ratelimited(t, c) PROVE LimiterInv'
  BY <1>8, Request
<1> QED BY <1>1, <1>2, <1>3, <1>4, <1>5, <1>6, <1>7, <1>8 DEF R!Next

(* It does not depend on anything else.                                    *)
LEMMA LimiterIdle == LimiterInv /\ UNCHANGED limiterVars => LimiterInv'
<1> SUFFICES ASSUME LimiterInv, UNCHANGED limiterVars PROVE LimiterInv' OBVIOUS
<1> USE DEF limiterVars, LimiterInv
<1>1. LimiterTypes' BY DEF LimiterTypes
<1>2. (\A n \in Nodes : NodeInv(n))' BY DEF NodeInv, RunBy
<1>3. (\A t \in Threads : CallerInv(t))' BY DEF CallerInv
<1>4. TimeInv' BY DEF TimeInv, R!NodesOf
<1> QED BY <1>1, <1>2, <1>3, <1>4

(* The tree never holds two nodes of a callback, nor one that is free.     *)
LEMMA NodesInUseHolds ==
  ASSUME R!LimiterAssumption, LimiterInv
  PROVE  R!NodesInUse
<1> USE DEF LimiterInv
<1>1. \A m, n \in tasks : node[m] = node[n] => m = n OBVIOUS
<1>2. \A t \in Threads : caller[t] # <<>> => caller[t][1] \in tasks BY DEF CallerInv
<1>3. ASSUME NEW n \in Nodes,
             \/ rstatus[n] = "wheel"
             \/ rstatus[n] = "running" /\ n \notin rcalled
             \/ rcallback # <<>> /\ rcallback[1] = n
      PROVE  node[n] # R!Free
  <2>1. node[n] \in Calls BY <1>3 DEF NodeInv, RunBy, LimiterTypes
  <2> QED BY <2>1 DEF R!LimiterAssumption
<1> QED BY <1>1, <1>2, <1>3 DEF R!NodesInUse

-----------------------------------------------------------------------------
(* What adding to the bucket and taking from it does to the number of      *)
(* values of a key.                                                        *)
LEMMA CachedFinite ==
  ASSUME CacheAssumption, CacheInv, NEW k
  PROVE  IsFiniteSet(Cached(k)) /\ Cardinality(Cached(k)) \in Nat
<1>1. Cached(k) \subseteq Elements BY DEF CacheInv, CacheTypes, Cached
<1>2. IsFiniteSet(Cached(k)) BY <1>1, FS_Subset DEF CacheAssumption
<1> QED BY <1>2, FS_CardinalityType

(* When elements leave the list, no key has more than it may.              *)
LEMMA FewerCached ==
  ASSUME CacheAssumption, CacheInv, list' \subseteq list, key' = key, NEW k \in Keys
  PROVE  (Cardinality(Cached(k)) <= maxkeys)'
<1>1. Cached(k)' \subseteq Cached(k) BY DEF Cached
<1>2. IsFiniteSet(Cached(k)) /\ Cardinality(Cached(k)) \in Nat BY CachedFinite
<1>3. /\ IsFiniteSet(Cached(k)') /\ Cardinality(Cached(k)') <= Cardinality(Cached(k))
  BY <1>1, <1>2, FS_Subset
<1>4. Cardinality(Cached(k)') \in Nat BY <1>3, FS_CardinalityType
<1> QED BY <1>2, <1>3, <1>4 DEF CacheInv, CacheAssumption

(* The cache is empty at the start.                                        *)
LEMMA CacheStarts == CacheAssumption /\ Init => CacheInv
<1> SUFFICES ASSUME CacheAssumption, Init PROVE CacheInv OBVIOUS
<1> USE DEF Init, T!Init
<1>1. CacheTypes BY DEF CacheTypes, Values, States
<1>2. \A e \in Elements : ElementInv(e) BY DEF ElementInv
<1>3. \A t \in Threads : DeletingInv(t) BY DEF DeletingInv
<1>4. ASSUME NEW k \in Keys PROVE Cardinality(Cached(k)) <= maxkeys
  <2>1. Cached(k) = {} BY DEF Cached
  <2> QED BY <2>1, FS_EmptySet DEF CacheAssumption
<1> QED BY <1>1, <1>2, <1>3, <1>4 DEF CacheInv

(* A value is added, or freed at once.                                     *)
LEMMA Added ==
  ASSUME CacheAssumption, CacheInv, NEW e \in Elements, psync_cache_add(e)
  PROVE  CacheInv'
<1> USE DEF CacheInv
<1>1. value[e] = "none" /\ UNCHANGED <<key, deleting, callback>> /\ e \notin list
  BY DEF psync_cache_add, ElementInv
<1>2. e \notin called /\ ~InHand(e) /\ (\A t \in Threads : deleting[t] # None => deleting[t] # e)
  BY <1>1 DEF ElementInv, ValueAt, DeletingInv, InHand, CacheTypes, Steps
<1>3. CASE Free({e}) /\ UNCHANGED <<list, timerVars>>
  <2>1. /\ value'[e] = "freed" /\ frees'[e] = frees[e] + 1
        /\ \A d \in Elements \ {e} : value'[d] = value[d] /\ frees'[d] = frees[d]
    BY <1>3 DEF Free
  <2>2. CacheTypes' BY <1>1, <1>3 DEF CacheTypes, Free, Values, timerVars
  <2>3. ElementInv(e)' BY <1>1, <1>2, <1>3, <2>1 DEF ElementInv, timerVars, InHand
  <2>4. ASSUME NEW d \in Elements \ {e} PROVE ElementInv(d)'
    BY <1>1, <1>3, <2>1 DEF ElementInv, timerVars, InHand
  <2>5. ASSUME NEW t \in Threads PROVE DeletingInv(t)'
    BY <1>1, <1>2, <1>3, <2>1 DEF DeletingInv, timerVars, CacheTypes
  <2>6. (\A k \in Keys : Cardinality(Cached(k)) <= maxkeys)' BY <1>1, <1>3 DEF Cached
  <2>7. (callback # <<>> => callback[1] \in called)' BY <1>1, <1>3 DEF timerVars
  <2> QED BY <2>2, <2>3, <2>4, <2>5, <2>6, <2>7
<1>4. CASE /\ Cardinality(Cached(key[e])) < maxkeys
           /\ value' = [value EXCEPT ![e] = "cached"] /\ AddHead(e) /\ T!Register(e)
           /\ UNCHANGED frees
  <2> USE DEF AddHead, T!Register
  <2>1. /\ value'[e] = "cached" /\ status'[e] = "wheel"
        /\ \A d \in Elements \ {e} : value'[d] = value[d] /\ status'[d] = status[d]
    BY <1>4 DEF CacheTypes
  <2>2. CacheTypes' BY <1>1, <1>4 DEF CacheTypes, Values, States
  <2>3. ElementInv(e)' BY <1>1, <1>2, <1>4, <2>1 DEF ElementInv, InHand
  <2>4. ASSUME NEW d \in Elements \ {e} PROVE ElementInv(d)'
    BY <1>1, <1>4, <2>1 DEF ElementInv, InHand
  <2>5. ASSUME NEW t \in Threads PROVE DeletingInv(t)'
    BY <1>1, <1>2, <1>4, <2>1 DEF DeletingInv, CacheTypes
  <2>6. ASSUME NEW k \in Keys PROVE (Cardinality(Cached(k)) <= maxkeys)'
    <3>1. IsFiniteSet(Cached(k)) /\ Cardinality(Cached(k)) \in Nat BY CachedFinite
    <3>2. CASE k = key[e]
      <4>1. Cached(k)' = Cached(k) \union {e} /\ e \notin Cached(k)
        BY <1>1, <1>4, <3>2 DEF Cached
      <4>2. Cardinality(Cached(k)') = Cardinality(Cached(k)) + 1
        BY <3>1, <4>1, FS_AddElement
      <4> QED BY <1>4, <3>1, <3>2, <4>2 DEF CacheAssumption
    <3>3. CASE k # key[e]
      <4>1. Cached(k)' = Cached(k) BY <1>1, <1>4, <3>3 DEF Cached
      <4> QED BY <4>1
    <3> QED BY <3>2, <3>3
  <2>7. (callback # <<>> => callback[1] \in called)' BY <1>1, <1>4
  <2> QED BY <2>2, <2>3, <2>4, <2>5, <2>6, <2>7
<1> QED BY <1>3, <1>4 DEF psync_cache_add

(* What get and del find: an element of the bucket that the timer thread   *)
(* does not have, so its timer is in the wheel and stops at once; those    *)
(* passed over are running.                                                *)
LEMMA Taken ==
  ASSUME CacheInv, NEW k, NEW e, Take(k, e)
  PROVE  /\ e \in list /\ status[e] = "wheel" /\ e \in Elements
         /\ list' = list \ {e} /\ UNCHANGED called
         /\ status' = [status EXCEPT ![e] = "free"]
         /\ \A d \in stop_after_run' : d \in stop_after_run \/ (d \in Elements /\ status[d] = "running")
         /\ stop_after_run \subseteq stop_after_run'
<1> USE DEF CacheInv
<1>1. e \in Cached(k) /\ ~(status[e] = "running") BY DEF Take, Running
<1>2. e \in list /\ e \in Elements BY <1>1 DEF Cached, CacheTypes
<1>3. status[e] = "wheel" BY <1>1, <1>2 DEF ElementInv, CacheTypes, States
<1>4. PICK S : S \subseteq Running(Cached(k)) /\ T!Stop({e} \union S) /\ Unlink({e})
  BY DEF Take
<1>5. \A d \in S : d \in Elements /\ status[d] = "running"
  BY <1>4 DEF Running, Cached, CacheTypes
<1>6. status' = [d \in Elements |-> IF d \in {e} \union S /\ status[d] = "wheel" THEN "free" ELSE status[d]]
  BY <1>4 DEF T!Stop
<1>7. \A d \in Elements : status'[d] = IF d = e THEN "free" ELSE status[d]
  BY <1>3, <1>5, <1>6
<1>8. status' = [status EXCEPT ![e] = "free"] BY <1>2, <1>6, <1>7 DEF CacheTypes
<1>9. stop_after_run' = stop_after_run \union (({e} \union S) \cap T!InState("running"))
  BY <1>4 DEF T!Stop
<1> QED BY <1>2, <1>3, <1>4, <1>8, <1>9 DEF Unlink, T!Stop, T!InState

(* An element taken out of the list is its finder's alone.                 *)
LEMMA TakenOut ==
  ASSUME CacheAssumption, CacheInv, NEW k, NEW e, Take(k, e), NEW v \in {"owned", "dying"},
         value' = [value EXCEPT ![e] = v], UNCHANGED <<key, frees, callback>>,
         \/ UNCHANGED deleting
         \/ \E t \in Threads : /\ v = "dying" /\ deleting[t] = None
                               /\ deleting' = [deleting EXCEPT ![t] = e]
  PROVE  CacheInv'
<1>1. /\ e \in list /\ status[e] = "wheel" /\ e \in Elements
      /\ list' = list \ {e} /\ UNCHANGED called
      /\ status' = [status EXCEPT ![e] = "free"]
      /\ \A d \in stop_after_run' : d \in stop_after_run \/ (d \in Elements /\ status[d] = "running")
      /\ stop_after_run \subseteq stop_after_run'
  BY Taken
<1> USE DEF CacheInv
<1>2. /\ value'[e] = v /\ status'[e] = "free"
      /\ \A d \in Elements \ {e} : value'[d] = value[d] /\ status'[d] = status[d]
  BY <1>1 DEF CacheTypes
<1>3. e \notin called /\ ~InHand(e) BY <1>1 DEF ElementInv, InHand
<1>4. CacheTypes'
  <2>1. deleting' \in [Threads -> Elements \union {None}] BY <1>1 DEF CacheTypes
  <2>2. value' \in [Elements -> Values] BY DEF CacheTypes, Values
  <2>3. status' \in [Elements -> States] BY <1>1 DEF CacheTypes, States
  <2>4. stop_after_run' \subseteq Elements BY <1>1 DEF CacheTypes
  <2> QED BY <1>1, <2>1, <2>2, <2>3, <2>4 DEF CacheTypes
<1>5. ElementInv(e)'
  <2>1. e \notin stop_after_run' BY <1>1 DEF ElementInv
  <2> QED BY <1>1, <1>2, <1>3, <2>1 DEF ElementInv, InHand
<1>6. ASSUME NEW d \in Elements \ {e} PROVE ElementInv(d)'
  BY <1>1, <1>2 DEF ElementInv, InHand, ValueAt
<1>7. \A t \in Threads : deleting[t] # None => deleting[t] # e /\ deleting[t] \in Elements
  BY <1>1 DEF DeletingInv, CacheTypes
<1>8. (\A t \in Threads : DeletingInv(t))'
  <2>1. CASE UNCHANGED deleting BY <1>2, <1>7, <2>1 DEF DeletingInv
  <2>2. CASE \E t \in Threads : /\ v = "dying" /\ deleting[t] = None
                                /\ deleting' = [deleting EXCEPT ![t] = e]
    <3>1. PICK t \in Threads : /\ v = "dying" /\ deleting[t] = None
                               /\ deleting' = [deleting EXCEPT ![t] = e]
      BY <2>2
    <3>2. deleting'[t] = e /\ \A u \in Threads \ {t} : deleting'[u] = deleting[u]
      BY <3>1 DEF CacheTypes
    <3>3. DeletingInv(t)' BY <1>2, <1>7, <3>1, <3>2 DEF DeletingInv
    <3>4. ASSUME NEW u \in Threads \ {t} PROVE DeletingInv(u)'
      BY <1>2, <1>7, <3>2 DEF DeletingInv
    <3> QED BY <3>3, <3>4
  <2> QED BY <2>1, <2>2
<1>9. (callback # <<>> => callback[1] \in called)' BY <1>1
<1>10. (\A j \in Keys : Cardinality(Cached(j)) <= maxkeys)' BY <1>1, FewerCached
<1> QED BY <1>4, <1>5, <1>6, <1>8, <1>9, <1>10

(* Every element of the key is in the hands of the timer thread.           *)
LEMMA PassedOver ==
  ASSUME CacheAssumption, CacheInv, NEW k, PassOver(k),
         UNCHANGED <<key, frees, deleting, callback>>
  PROVE  CacheInv'
<1> USE DEF CacheInv
<1>1. /\ UNCHANGED <<list, value, called>> /\ \A d \in Cached(k) : status[d] = "running"
      /\ status' = [d \in Elements |-> IF d \in Cached(k) /\ status[d] = "wheel" THEN "free" ELSE status[d]]
      /\ stop_after_run' = stop_after_run \union (Cached(k) \cap T!InState("running"))
  BY DEF PassOver, T!Stop, Running
<1>2. status' = status BY <1>1 DEF CacheTypes
<1>3. \A d \in stop_after_run' : d \in stop_after_run \/ (d \in Elements /\ status[d] = "running")
  BY <1>1 DEF T!InState
<1>4. CacheTypes' BY <1>1, <1>2, <1>3 DEF CacheTypes
<1>5. (\A d \in Elements : ElementInv(d))'
  BY <1>1, <1>2, <1>3 DEF ElementInv, InHand, ValueAt
<1>6. (\A t \in Threads : DeletingInv(t))' BY <1>1, <1>2 DEF DeletingInv
<1>7. (callback # <<>> => callback[1] \in called)' BY <1>1
<1>8. (\A j \in Keys : Cardinality(Cached(j)) <= maxkeys)' BY <1>1, FewerCached
<1> QED BY <1>4, <1>5, <1>6, <1>7, <1>8

(* psync_cache_get takes an element out for its caller,                    *)
LEMMA Got ==
  ASSUME CacheAssumption, CacheInv, NEW t \in Threads, NEW k \in Keys, psync_cache_get(t, k)
  PROVE  CacheInv'
<1>1. ASSUME NEW e \in Elements, Take(k, e), value' = [value EXCEPT ![e] = "owned"] PROVE CacheInv'
  <2>1. UNCHANGED <<key, frees, callback>> /\ UNCHANGED deleting BY DEF psync_cache_get
  <2> QED BY <1>1, <2>1, TakenOut
<1>2. CASE PassOver(k)
  <2>1. UNCHANGED <<key, frees, deleting, callback>> BY DEF psync_cache_get
  <2> QED BY <1>2, <2>1, PassedOver
<1> QED BY <1>1, <1>2 DEF psync_cache_get

(* psync_cache_del unlinks one and frees it in a second step.              *)
LEMMA Unlinked ==
  ASSUME CacheAssumption, CacheInv, NEW t \in Threads, NEW k \in Keys, DelUnlink(t, k)
  PROVE  CacheInv'
<1>1. UNCHANGED <<key, frees, callback>> /\ deleting[t] = None BY DEF DelUnlink
<1>2. ASSUME NEW e \in Elements, Take(k, e), value' = [value EXCEPT ![e] = "dying"],
             deleting' = [deleting EXCEPT ![t] = e]
      PROVE  CacheInv'
  BY <1>1, <1>2, TakenOut
<1>3. CASE PassOver(k) /\ UNCHANGED deleting
  <2>1. UNCHANGED <<key, frees, deleting, callback>> BY <1>1, <1>3
  <2> QED BY <1>3, <2>1, PassedOver
<1> QED BY <1>2, <1>3 DEF DelUnlink

(* psync_cache_del frees what it unlinked, which nobody else reaches.      *)
LEMMA Deleted ==
  ASSUME CacheAssumption, CacheInv, NEW t \in Threads, DelFree(t)
  PROVE  CacheInv'
<1> USE DEF CacheInv
<1>0. PICK e : e = deleting[t] OBVIOUS
<1> USE <1>0
<1>1. /\ e # None /\ Free({e}) /\ deleting' = [deleting EXCEPT ![t] = None]
      /\ UNCHANGED <<list, key, callback, status, stop_after_run, called>>
  BY DEF DelFree, timerVars
<1>2. /\ e \in Elements /\ value[e] = "dying" /\ status[e] = "free"
  BY <1>1 DEF DeletingInv, CacheTypes
<1>3. /\ value'[e] = "freed" /\ frees'[e] = frees[e] + 1 /\ value' \in [Elements -> Values]
      /\ frees' \in [Elements -> Nat]
      /\ \A d \in Elements \ {e} : value'[d] = value[d] /\ frees'[d] = frees[d]
  BY <1>1, <1>2 DEF Free, CacheTypes, Values
<1>4. deleting'[t] = None /\ \A u \in Threads \ {t} : deleting'[u] = deleting[u]
  BY <1>1 DEF CacheTypes
<1>5. CacheTypes'
  <2>1. deleting' \in [Threads -> Elements \union {None}] BY <1>1 DEF CacheTypes
  <2> QED BY <1>1, <1>3, <2>1 DEF CacheTypes
<1>6. ElementInv(e)'
  <2>1. /\ e \notin list /\ e \notin called /\ e \notin stop_after_run /\ frees[e] = 0
    BY <1>2 DEF ElementInv
  <2>2. /\ e \notin list' /\ e \notin called' /\ e \notin stop_after_run' /\ status'[e] = "free"
        /\ value'[e] = "freed" /\ frees'[e] = 1
    BY <1>1, <1>2, <1>3, <2>1
  <2> QED BY <2>2 DEF ElementInv
<1>7. (\A d \in Elements : ElementInv(d))'
  <2>1. ASSUME NEW d \in Elements \ {e} PROVE ElementInv(d)'
    BY <1>1, <1>3 DEF ElementInv, InHand, ValueAt
  <2> QED BY <1>6, <2>1
<1>8. ASSUME NEW u \in Threads, deleting'[u] # None PROVE DeletingInv(u)'
  <2>1. u # t /\ deleting'[u] = deleting[u] BY <1>4, <1>8
  <2>2. deleting[u] # e /\ deleting[u] \in Elements BY <1>1, <1>8, <2>1 DEF DeletingInv, CacheTypes
  <2> QED BY <1>1, <1>3, <1>4, <1>8, <2>1, <2>2 DEF DeletingInv
<1>9. (\A u \in Threads : DeletingInv(u))' BY <1>8 DEF DeletingInv
<1>10. (callback # <<>> => callback[1] \in called)' BY <1>1
<1>11. (\A k \in Keys : Cardinality(Cached(k)) <= maxkeys)' BY <1>1, FewerCached
<1> QED BY <1>5, <1>7, <1>9, <1>10, <1>11

(* Cleaning frees what the timer thread does not have.                     *)
LEMMA Cleaned ==
  ASSUME CacheAssumption, CacheInv, NEW K \in SUBSET Keys, psync_cache_clean(K)
  PROVE  CacheInv'
<1> USE DEF CacheInv
<1> DEFINE all == UNION {Cached(k) : k \in K}
           idle == all \ Running(all)
<1>1. /\ Unlink(idle) /\ Free(idle) /\ T!Stop(all) /\ UNCHANGED <<key, deleting, callback>>
  BY DEF psync_cache_clean
<1>2. \A d \in all : d \in list /\ d \in Elements BY DEF Cached, CacheTypes
<1>3. \A d \in idle : d \in list /\ d \in Elements /\ status[d] = "wheel"
  BY <1>2 DEF Running, ElementInv, CacheTypes, States
<1>4. \A d \in all \ idle : status[d] = "running" BY DEF Running
<1> HIDE DEF all, idle
<1>5. list' = list \ idle /\ UNCHANGED called BY <1>1 DEF Unlink, T!Stop
<1>6. status' = [d \in Elements |-> IF d \in all /\ status[d] = "wheel" THEN "free" ELSE status[d]]
  BY <1>1 DEF T!Stop
<1>7. \A d \in idle : d \in all BY DEF idle
<1>8. ASSUME NEW d \in Elements
      PROVE  status'[d] = IF d \in idle THEN "free" ELSE status[d]
  BY <1>3, <1>4, <1>6, <1>7
<1>9. ASSUME NEW d \in Elements
      PROVE  IF d \in idle THEN value'[d] = "freed" /\ frees'[d] = frees[d] + 1
             ELSE value'[d] = value[d] /\ frees'[d] = frees[d]
  BY <1>1 DEF Free
<1>10. \A d \in stop_after_run' : d \in stop_after_run \/ (d \in Elements /\ status[d] = "running")
  BY <1>1 DEF T!Stop, T!InState
<1>11. stop_after_run \subseteq stop_after_run' BY <1>1 DEF T!Stop
<1>12. CacheTypes'
  <2>1. value' \in [Elements -> Values] /\ frees' \in [Elements -> Nat]
    BY <1>1 DEF Free, CacheTypes, Values
  <2>2. status' \in [Elements -> States] BY <1>6 DEF CacheTypes, States
  <2> QED BY <1>1, <1>5, <1>10, <2>1, <2>2 DEF CacheTypes
<1>13. ASSUME NEW d \in Elements PROVE ElementInv(d)'
  <2>1. CASE d \in idle
    <3>1. d \notin called /\ d \notin stop_after_run' /\ value[d] = "cached"
      BY <1>3, <1>10, <2>1 DEF ElementInv
    <3>2. d \notin list' /\ status'[d] = "free" /\ value'[d] = "freed" /\ frees'[d] = frees[d] + 1
      BY <1>5, <1>8, <1>9, <2>1
    <3> QED BY <1>5, <3>1, <3>2 DEF ElementInv
  <2>2. CASE d \notin idle
    <3>1. /\ (d \in list' <=> d \in list) /\ status'[d] = status[d]
          /\ value'[d] = value[d] /\ frees'[d] = frees[d]
      BY <1>5, <1>8, <1>9, <2>2
    <3> QED BY <1>1, <1>5, <1>10, <1>11, <3>1 DEF ElementInv, InHand, ValueAt
  <2> QED BY <2>1, <2>2
<1>14. ASSUME NEW u \in Threads PROVE DeletingInv(u)'
  <2>1. deleting[u] # None => deleting[u] \in Elements /\ deleting[u] \notin idle
    BY <1>3 DEF DeletingInv, CacheTypes
  <2> QED BY <1>1, <1>8, <1>9, <2>1 DEF DeletingInv
<1>15. (callback # <<>> => callback[1] \in called)' BY <1>1, <1>5
<1>16. (\A k \in Keys : Cardinality(Cached(k)) <= maxkeys)' BY <1>1, <1>5, FewerCached
<1> QED BY <1>12, <1>13, <1>14, <1>15, <1>16

-----------------------------------------------------------------------------
(* The timer thread takes timers, calls one, and puts them back.           *)
LEMMA Fired ==
  ASSUME CacheAssumption, CacheInv, Fire
  PROVE  CacheInv'
<1> USE DEF CacheInv
<1>1. PICK S \in SUBSET Elements :
        /\ S \subseteq T!InState("wheel")
        /\ status' = [d \in Elements |-> IF d \in S THEN "running" ELSE status[d]]
        /\ UNCHANGED <<list, key, value, frees, deleting, callback, stop_after_run, called>>
  BY DEF Fire, T!Fire
<1>2. callback = <<>> /\ T!InState("running") = {} BY DEF Fire, T!Fire
<1>3. \A d \in Elements : \/ status'[d] = status[d]
                          \/ status[d] = "wheel" /\ status'[d] = "running"
  BY <1>1 DEF T!InState
<1>4. \A d \in Elements : status[d] # "running" /\ d \notin called /\ d \notin stop_after_run
  BY <1>2 DEF T!InState, ElementInv
<1>5. CacheTypes' BY <1>1 DEF CacheTypes, States
<1>6. ASSUME NEW d \in Elements PROVE ElementInv(d)'
  BY <1>1, <1>3, <1>4 DEF ElementInv, InHand
<1>7. ASSUME NEW u \in Threads PROVE DeletingInv(u)'
  <2>1. deleting[u] # None => deleting[u] \in Elements BY DEF CacheTypes
  <2> QED BY <1>1, <1>3, <2>1 DEF DeletingInv
<1>8. (\A k \in Keys : Cardinality(Cached(k)) <= maxkeys)' BY <1>1, FewerCached
<1> QED BY <1>1, <1>2, <1>5, <1>6, <1>7, <1>8

(* The timer thread calls the timer of an element.                         *)
LEMMA TimerCalled ==
  ASSUME CacheAssumption, CacheInv, NEW e \in Elements, CallTimer(e)
  PROVE  CacheInv'
<1> USE DEF CacheInv
<1>1. /\ callback = <<>> /\ status[e] = "running" /\ e \notin called /\ called' = called \union {e}
      /\ callback' = <<e, "unlink">>
      /\ UNCHANGED <<list, key, value, frees, deleting, status, stop_after_run>>
  BY DEF CallTimer, T!Call
<1>2. callback' # <<>> /\ callback'[1] = e /\ callback'[2] = "unlink" BY <1>1
<1>3. CacheTypes' BY <1>1 DEF CacheTypes, Steps
<1>4. ASSUME NEW d \in Elements PROVE ElementInv(d)'
  BY <1>1, <1>2 DEF ElementInv, InHand, ValueAt
<1>5. (\A u \in Threads : DeletingInv(u))' BY <1>1 DEF DeletingInv
<1>6. (\A k \in Keys : Cardinality(Cached(k)) <= maxkeys)' BY <1>1, FewerCached
<1> QED BY <1>1, <1>2, <1>3, <1>4, <1>5, <1>6

(* cache_timer unlinks the element,                                        *)
LEMMA TimerUnlinked ==
  ASSUME CacheAssumption, CacheInv, CacheTimerUnlink
  PROVE  CacheInv'
<1> USE DEF CacheInv
<1>0. PICK e : e = callback[1] OBVIOUS
<1> USE <1>0
<1>1. /\ callback # <<>> /\ callback[2] = "unlink" /\ callback' = <<e, "free">>
      /\ list' = list \ {e} /\ value' = [value EXCEPT ![e] = "dying"]
      /\ UNCHANGED <<key, frees, deleting, status, stop_after_run, called>>
  BY DEF CacheTimerUnlink, Unlink, timerVars
<1>2. /\ e \in Elements /\ e \in called /\ InHand(e) BY <1>1 DEF CacheTypes, InHand
<1>3. value[e] = "cached" /\ status[e] = "running" BY <1>1, <1>2 DEF ElementInv, ValueAt
<1>4. callback' # <<>> /\ callback'[1] = e /\ callback'[2] = "free" BY <1>1
<1>5. value'[e] = "dying" /\ \A d \in Elements \ {e} : value'[d] = value[d]
  BY <1>1, <1>2 DEF CacheTypes
<1>6. CacheTypes' BY <1>1, <1>2 DEF CacheTypes, Steps, Values
<1>7. ElementInv(e)' BY <1>1, <1>2, <1>3, <1>4, <1>5 DEF ElementInv, InHand, ValueAt
<1>8. ASSUME NEW d \in Elements \ {e} PROVE ElementInv(d)'
  BY <1>1, <1>4, <1>5 DEF ElementInv, InHand, ValueAt
<1>9. ASSUME NEW u \in Threads PROVE DeletingInv(u)'
  <2>1. deleting[u] # None => deleting[u] \in Elements \ {e} BY <1>3 DEF DeletingInv, CacheTypes
  <2> QED BY <1>1, <1>5, <2>1 DEF DeletingInv
<1>10. (\A k \in Keys : Cardinality(Cached(k)) <= maxkeys)' BY <1>1, FewerCached
<1> QED BY <1>1, <1>2, <1>4, <1>6, <1>7, <1>8, <1>9, <1>10

(* frees it                                                                *)
LEMMA TimerFreed ==
  ASSUME CacheAssumption, CacheInv, CacheTimerFree
  PROVE  CacheInv'
<1> USE DEF CacheInv
<1>0. PICK e : e = callback[1] OBVIOUS
<1> USE <1>0
<1>1. /\ callback # <<>> /\ callback[2] = "free" /\ callback' = <<e, "stop">> /\ Free({e})
      /\ UNCHANGED <<list, key, deleting, status, stop_after_run, called>>
  BY DEF CacheTimerFree, timerVars
<1>2. /\ e \in Elements /\ e \in called /\ InHand(e) BY <1>1 DEF CacheTypes, InHand
<1>3. value[e] = "dying" /\ status[e] = "running" BY <1>1, <1>2 DEF ElementInv, ValueAt
<1>4. callback' # <<>> /\ callback'[1] = e /\ callback'[2] = "stop" BY <1>1
<1>5. /\ value'[e] = "freed" /\ frees'[e] = frees[e] + 1 /\ value' \in [Elements -> Values]
      /\ frees' \in [Elements -> Nat]
      /\ \A d \in Elements \ {e} : value'[d] = value[d] /\ frees'[d] = frees[d]
  BY <1>1, <1>2 DEF Free, CacheTypes, Values
<1>6. CacheTypes' BY <1>1, <1>2, <1>5 DEF CacheTypes, Steps
<1>7. ElementInv(e)' BY <1>1, <1>2, <1>3, <1>4, <1>5 DEF ElementInv, InHand, ValueAt
<1>8. ASSUME NEW d \in Elements \ {e} PROVE ElementInv(d)'
  BY <1>1, <1>4, <1>5 DEF ElementInv, InHand, ValueAt
<1>9. ASSUME NEW u \in Threads PROVE DeletingInv(u)'
  <2>1. deleting[u] # None => deleting[u] \in Elements \ {e} BY <1>3 DEF DeletingInv, CacheTypes
  <2> QED BY <1>1, <1>5, <2>1 DEF DeletingInv
<1>10. (\A k \in Keys : Cardinality(Cached(k)) <= maxkeys)' BY <1>1, FewerCached
<1> QED BY <1>1, <1>2, <1>4, <1>6, <1>7, <1>8, <1>9, <1>10

(* and stops its timer.                                                    *)
LEMMA TimerStopped ==
  ASSUME CacheAssumption, CacheInv, CacheTimerStop
  PROVE  CacheInv'
<1> USE DEF CacheInv
<1>0. PICK e : e = callback[1] OBVIOUS
<1> USE <1>0
<1>1. /\ callback # <<>> /\ callback[2] = "stop" /\ callback' = <<>> /\ T!Stop({e})
      /\ UNCHANGED <<list, key, value, frees, deleting, called>>
  BY DEF CacheTimerStop, T!Stop
<1>2. /\ e \in Elements /\ e \in called /\ InHand(e) BY <1>1 DEF CacheTypes, InHand
<1>3. value[e] = "freed" /\ status[e] = "running" BY <1>1, <1>2 DEF ElementInv, ValueAt
<1>4. status' = status
  <2>1. status' = [d \in Elements |-> IF d \in {e} /\ status[d] = "wheel" THEN "free" ELSE status[d]]
    BY <1>1 DEF T!Stop
  <2> QED BY <1>3, <2>1 DEF CacheTypes
<1>5. stop_after_run' = stop_after_run \union {e}
  BY <1>1, <1>2, <1>3 DEF T!Stop, T!InState
<1>6. CacheTypes' BY <1>1, <1>2, <1>4, <1>5 DEF CacheTypes
<1>7. ASSUME NEW d \in Elements PROVE ElementInv(d)'
  BY <1>1, <1>2, <1>3, <1>4, <1>5 DEF ElementInv, InHand
<1>8. (\A u \in Threads : DeletingInv(u))' BY <1>1, <1>4 DEF DeletingInv
<1>9. (\A k \in Keys : Cardinality(Cached(k)) <= maxkeys)' BY <1>1, FewerCached
<1> QED BY <1>1, <1>6, <1>7, <1>8, <1>9

(* The timer thread puts back what was not stopped.                        *)
LEMMA PutBackAll ==
  ASSUME CacheAssumption, CacheInv, PutBack
  PROVE  CacheInv'
<1> USE DEF CacheInv
<1>1. /\ callback = <<>> /\ called = T!InState("running") /\ called' = {} /\ stop_after_run' = {}
      /\ status' = [d \in Elements |-> IF d \in stop_after_run THEN "free"
                                       ELSE IF d \in called THEN "wheel" ELSE status[d]]
      /\ UNCHANGED <<list, key, value, frees, deleting, callback>>
  BY DEF PutBack, T!PutBack
<1>2. \A d \in Elements : d \in called => /\ value[d] = "freed" /\ d \in stop_after_run
                                          /\ status[d] = "running"
  BY <1>1 DEF ElementInv, InHand
<1>3. \A d \in Elements : d \in stop_after_run => d \in called
  BY <1>1 DEF ElementInv, T!InState
<1>4. \A d \in Elements : status'[d] = IF d \in called THEN "free" ELSE status[d]
  BY <1>1, <1>2, <1>3
<1>5. CacheTypes' BY <1>1 DEF CacheTypes, States
<1>6. ASSUME NEW d \in Elements PROVE ElementInv(d)'
  BY <1>1, <1>2, <1>4 DEF ElementInv, T!InState
<1>7. ASSUME NEW u \in Threads PROVE DeletingInv(u)'
  <2>1. deleting[u] # None => deleting[u] \in Elements BY DEF CacheTypes
  <2> QED BY <1>1, <1>4, <2>1 DEF DeletingInv
<1>8. (\A k \in Keys : Cardinality(Cached(k)) <= maxkeys)' BY <1>1, FewerCached
<1> QED BY <1>1, <1>5, <1>6, <1>7, <1>8

(* Every step of the cache keeps its invariant.                            *)
LEMMA CacheStep ==
  ASSUME CacheAssumption, CacheInv, Next
  PROVE  CacheInv'
<1>1. CASE TimerThread
  BY <1>1, Fired, TimerUnlinked, TimerFreed, TimerStopped, PutBackAll, TimerCalled DEF TimerThread
<1>2. ASSUME NEW e \in Elements, psync_cache_add(e) PROVE CacheInv' BY <1>2, Added
<1>3. ASSUME NEW t \in Threads, DelFree(t) PROVE CacheInv' BY <1>3, Deleted
<1>4. ASSUME NEW t \in Threads, NEW k \in Keys, psync_cache_get(t, k) PROVE CacheInv' BY <1>4, Got
<1>5. ASSUME NEW t \in Threads, NEW k \in Keys, DelUnlink(t, k) PROVE CacheInv' BY <1>5, Unlinked
<1>6. ASSUME NEW K \in SUBSET Keys, psync_cache_clean(K) PROVE CacheInv' BY <1>6, Cleaned
<1> QED BY <1>1, <1>2, <1>3, <1>4, <1>5, <1>6 DEF Next

(* It does not depend on anything else.                                    *)
LEMMA CacheIdle == CacheInv /\ UNCHANGED vars => CacheInv'
<1> SUFFICES ASSUME CacheInv, UNCHANGED vars PROVE CacheInv' OBVIOUS
<1> USE DEF vars, timerVars, CacheInv
<1>1. CacheTypes' BY DEF CacheTypes
<1>2. (\A e \in Elements : ElementInv(e))' BY DEF ElementInv, InHand, ValueAt
<1>3. (\A t \in Threads : DeletingInv(t))' BY DEF DeletingInv
<1>4. (\A k \in Keys : Cardinality(Cached(k)) <= maxkeys)' BY DEF Cached
<1> QED BY <1>1, <1>2, <1>3, <1>4

-----------------------------------------------------------------------------
(* The inductive invariant of the two users of the timers: who holds each  *)
(* element and each node at every step of the threads and of the timer.    *)
THEOREM UserInvariant == UserSpec => [](CacheInv /\ LimiterInv)
<1>1. UserInit => CacheInv /\ LimiterInv
  BY CacheStarts, LimiterStarts, CacheAssumption, IntervalAssumption DEF UserInit
<1>2. ASSUME CacheInv, LimiterInv, [CacheNext \/ LimiterNext \/ WheelNext]_<<user, vars, limiterVars, wheelVars>>
      PROVE  CacheInv' /\ LimiterInv'
  <2>1. CASE CacheNext
    BY <1>2, <2>1, CacheStep, LimiterIdle, CacheAssumption DEF CacheNext
  <2>2. CASE LimiterNext
    BY <1>2, <2>2, LimiterStep, CacheIdle, IntervalAssumption DEF LimiterNext
  <2>3. CASE WheelNext \/ UNCHANGED <<user, vars, limiterVars>>
    BY <1>2, <2>3, LimiterIdle, CacheIdle DEF WheelNext
  <2> QED BY <1>2, <2>1, <2>2, <2>3
<1> QED BY <1>1, <1>2, PTL DEF UserSpec

(* Nothing is freed that somebody else has: no value twice or after it was *)
(* handed out (pcache.c, get and del against cache_timer), no element      *)
(* whose timer may be called, no node of prunratelimit.c that a caller     *)
(* registers a timer for.                                                  *)
THEOREM InUseNotFreed == UserSpec => []NothingFreedInUse
<1>1. ASSUME CacheInv, LimiterInv PROVE NothingFreedInUse
  <2>1. R!NodesInUse BY <1>1, NodesInUseHolds, IntervalAssumption
  <2>2. SingleOwner BY <1>1 DEF CacheInv, ElementInv, SingleOwner
  <2>3. NoCallOnFreed BY <1>1 DEF CacheInv, ElementInv, NoCallOnFreed
  <2> QED BY <2>1, <2>2, <2>3 DEF NothingFreedInUse
<1> QED BY <1>1, UserInvariant, PTL

(* No callback is run twice within its interval, on whichever thread and   *)
(* node (prunratelimit.c).                                                 *)
THEOREM IntervalsKept == UserSpec => RateLimited
<1>1. ASSUME LimiterInv, NEW c \in Calls, R!Runs(c) PROVE since[c] = minintervalsec
  BY <1>1 DEF LimiterInv, TimeInv, R!Runs
<1>2. LimiterInv => [\A c \in Calls : R!Runs(c) => since[c] = minintervalsec]_limiterVars
  BY <1>1
<1> QED BY <1>2, UserInvariant, PTL DEF RateLimited

-----------------------------------------------------------------------------
(* The wheel: a behaviour of UserSpec is one of the wheel, perhaps one in  *)
(* which nothing ever happens.                                             *)
LEMMA WheelBehaviour == UserSpec => W!WheelSpec
<1>1. UserInit => W!WheelInit BY DEF UserInit
<1>2. [CacheNext \/ LimiterNext \/ WheelNext]_<<user, vars, limiterVars, wheelVars>>
        => [W!WheelNext]_W!wheelVars
  <2>1. UNCHANGED wheelVars => UNCHANGED W!wheelVars
    BY DEF wheelVars, W!wheelVars, W!threadVars, W!timerVars
  <2> QED BY <2>1 DEF CacheNext, LimiterNext, WheelNext
<1> QED BY <1>1, <1>2, PTL DEF UserSpec, W!WheelSpec

(* A timer is in the slot its time says, at a level where that slot opens  *)
(* by its time and not a lap before (timer_check_upper_levels), and one    *)
(* that psync_timer_stop freed is on no list.                              *)
THEOREM SlotsFit == UserSpec => []WheelInv
<1>1. W!WheelSpec => []W!WheelInv BY WheelConstants, W!WheelInvariant
<1> QED BY <1>1, WheelBehaviour, PTL DEF WheelInv

(* timer_prepare_timers forgets no timer, and calls none before its time   *)
(* but those registered between the clock's update and the service of that *)
(* second for a time beyond their level's span.                            *)
THEOREM TimersOnTime == UserSpec => []OnTime
<1>1. W!WheelSpec => []W!OnTime BY WheelConstants, W!CalledOnTime
<1> QED BY <1>1, WheelBehaviour, PTL DEF OnTime

(* psync_timer_wait_next_sec misses no announcement.                       *)
THEOREM SecondsSeen == UserSpec => []NoMissedSecond
<1>1. W!WheelSpec => []W!NoMissedSecond BY WheelConstants, W!WaitersWoken
<1> QED BY <1>1, WheelBehaviour, PTL DEF NoMissedSecond

(* The wheel implements the contract of the timers that the cache and the  *)
(* rate limiter build on.                                                  *)
THEOREM WheelImplements == UserSpec => ContractHolds
<1>1. W!WheelSpec => W!ContractHolds BY WheelConstants, W!ContractKept
<1> QED BY <1>1, WheelBehaviour, PTL DEF ContractHolds
=============================================================================
