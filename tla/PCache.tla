------------------------------- MODULE PCache -------------------------------
(***************************************************************************)
(* The cache of pcache.c.  Values are cached under a key for a time; a     *)
(* thread that gets a value takes it out and owns it.  A timer per element *)
(* frees the value if nobody does.  What matters is the ownership: the     *)
(* timer thread is already running the callback of an element when another *)
(* thread finds it in the list.                                            *)
(*                                                                         *)
(* One hash bucket is modelled: its mutex is held over the whole of get,   *)
(* add and clean, so these are single steps.  del and the timer free the   *)
(* value after they gave up the mutex.                                     *)
(***************************************************************************)
EXTENDS Naturals, FiniteSets

CONSTANTS Elements,          \* hash_element structures, each with its value and timer
          Keys, Threads,
          maxkeys            \* the last argument of psync_cache_add

ASSUME CacheAssumption == IsFiniteSet(Elements) /\ maxkeys \in Nat \ {0}

VARIABLES
  list, ahead,               \* the bucket, and <<d, e>> for each d in front of e in it
  key,                       \* the key of each element
  value,                     \* "none", "cached", "owned", "dying" or "freed"
  frees,                     \* how often each value's free callback ran
  deleting,                  \* per thread: the element psync_cache_del unlinked
  callback,                  \* cache_timer in progress: <<element, step>> or <<>>
  status, stop_after_run, called

timerVars == <<status, stop_after_run, called>>
vars == <<list, ahead, key, value, frees, deleting, callback, timerVars>>

T == INSTANCE TimerContract WITH Timers <- Elements

None == "none"
Cached(k) == {e \in list : key[e] = k}
Running(S) == {e \in S : status[e] = "running"}
Free(S) ==
  /\ value' = [e \in Elements |-> IF e \in S THEN "freed" ELSE value[e]]
  /\ frees' = [e \in Elements |-> IF e \in S THEN frees[e] + 1 ELSE frees[e]]
AddHead(e) == list' = list \union {e} /\ ahead' = ahead \union ({e} \X list)
Unlink(S) == list' = list \ S /\ ahead' = {p \in ahead : p[1] \notin S /\ p[2] \notin S}

TypeOK ==
  /\ list \subseteq Elements /\ ahead \subseteq list \X list
  /\ key \in [Elements -> Keys] /\ frees \in [Elements -> Nat]
  /\ value \in [Elements -> {"none", "cached", "owned", "dying", "freed"}]
  /\ deleting \in [Threads -> Elements \union {None}]
  /\ called \subseteq T!InState("running") /\ stop_after_run \subseteq T!InState("running")

Init ==
  /\ list = {} /\ ahead = {} /\ key \in [Elements -> Keys]
  /\ value = [e \in Elements |-> "none"] /\ frees = [e \in Elements |-> 0]
  /\ deleting = [t \in Threads |-> None] /\ callback = <<>>
  /\ T!Init

-----------------------------------------------------------------------------
(* psync_cache_add: with maxkeys values of the key in the list already, the *)
(* new one is freed at once.  The timer is registered under the mutex.      *)
M_AddNoTimer(e) ==
  /\ value[e] = "none" /\ Cardinality(Cached(key[e])) < maxkeys
  /\ value' = [value EXCEPT ![e] = "cached"]
  /\ AddHead(e)
  /\ UNCHANGED <<timerVars, key, frees, deleting, callback>>

psync_cache_add(e) ==
  /\ value[e] = "none"
  /\ \/ /\ Cardinality(Cached(key[e])) >= maxkeys
        /\ Free({e})
        /\ UNCHANGED <<list, ahead, timerVars>>
     \/ /\ Cardinality(Cached(key[e])) < maxkeys
        /\ value' = [value EXCEPT ![e] = "cached"]
        /\ AddHead(e)
        /\ T!Register(e)
        /\ UNCHANGED frees
  /\ UNCHANGED <<key, deleting, callback>>

(* The loop of get and del: elements of the key whose timer is running are *)
(* passed over (their timer is told not to repeat), the first other one is *)
(* unlinked.                                                               *)
M_TakeAny(k, e) ==
  /\ e \in Cached(k)
  /\ Unlink({e}) /\ T!Stop({e})

Take(k, e) ==
  LET before == {d \in list : <<d, e>> \in ahead}
  IN  /\ e \in Cached(k) \ Running(Cached(k))
      /\ Cached(k) \cap before \subseteq Running(Cached(k))
      /\ Unlink({e}) /\ T!Stop({e} \union (Cached(k) \cap before))

(* No element of the key is left that the timer thread does not have.      *)
PassOver(k) ==
  /\ Cached(k) # {} /\ Cached(k) = Running(Cached(k))
  /\ T!Stop(Cached(k))
  /\ UNCHANGED <<list, ahead, value>>

psync_cache_get(t, k) ==
  /\ deleting[t] = None
  /\ \/ \E e \in Elements : Take(k, e) /\ value' = [value EXCEPT ![e] = "owned"]
     \/ PassOver(k)
  /\ UNCHANGED <<key, frees, deleting, callback>>

(* psync_cache_del: unlink one element under the mutex, free it without,   *)
(* and start again until none is left.                                     *)
DelUnlink(t, k) ==
  /\ deleting[t] = None
  /\ \/ \E e \in Elements :
          /\ Take(k, e)
          /\ value' = [value EXCEPT ![e] = "dying"]
          /\ deleting' = [deleting EXCEPT ![t] = e]
     \/ PassOver(k) /\ UNCHANGED deleting
  /\ UNCHANGED <<key, frees, callback>>

DelFree(t) ==
  /\ deleting[t] # None
  /\ Free({deleting[t]})
  /\ deleting' = [deleting EXCEPT ![t] = None]
  /\ UNCHANGED <<list, ahead, key, callback, timerVars>>

(* psync_cache_clean_all, psync_cache_clean_starting_with_one_of: free     *)
(* everything under the keys K whose timer is not running.                 *)
psync_cache_clean(K) ==
  LET all == UNION {Cached(k) : k \in K}
      idle == all \ Running(all)
  IN  /\ all # {}
      /\ Unlink(idle) /\ Free(idle) /\ T!Stop(all)
      /\ UNCHANGED <<key, deleting, callback>>

-----------------------------------------------------------------------------
(* The timer thread and cache_timer: unlink under the mutex, free, stop.   *)
Fire ==
  /\ callback = <<>>
  /\ \E S \in SUBSET Elements \ {{}} : T!Fire(S)
  /\ UNCHANGED <<list, ahead, key, value, frees, deleting, callback>>

CallTimer(e) ==
  /\ callback = <<>>
  /\ T!Call(e)
  /\ callback' = <<e, "unlink">>
  /\ UNCHANGED <<list, ahead, key, value, frees, deleting>>

CacheTimerUnlink ==
  /\ callback # <<>> /\ callback[2] = "unlink"
  /\ Unlink({callback[1]})
  /\ value' = [value EXCEPT ![callback[1]] = "dying"]
  /\ callback' = <<callback[1], "free">>
  /\ UNCHANGED <<key, frees, deleting, timerVars>>

CacheTimerFree ==
  /\ callback # <<>> /\ callback[2] = "free"
  /\ Free({callback[1]})
  /\ callback' = <<callback[1], "stop">>
  /\ UNCHANGED <<list, ahead, key, deleting, timerVars>>

CacheTimerStop ==
  /\ callback # <<>> /\ callback[2] = "stop"
  /\ T!Stop({callback[1]})
  /\ callback' = <<>>
  /\ UNCHANGED <<list, ahead, key, value, frees, deleting>>

PutBack ==
  /\ callback = <<>>
  /\ T!PutBack
  /\ UNCHANGED <<list, ahead, key, value, frees, deleting, callback>>

TimerThread ==
  \/ Fire \/ CacheTimerUnlink \/ CacheTimerFree \/ CacheTimerStop \/ PutBack
  \/ \E e \in Elements : CallTimer(e)

Next ==
  \/ TimerThread
  \/ \E e \in Elements : psync_cache_add(e)
  \/ \E t \in Threads : DelFree(t) \/ \E k \in Keys : psync_cache_get(t, k) \/ DelUnlink(t, k)
  \/ \E K \in SUBSET Keys : psync_cache_clean(K)

(* The wheel comes round to every timer (PTimer), and the timer thread     *)
(* runs.                                                                   *)
Fairness ==
  /\ \A e \in Elements : WF_vars((callback = <<>> /\ \E S \in SUBSET Elements : e \in S /\ T!Fire(S))
                                 /\ UNCHANGED <<list, ahead, key, value, frees, deleting, callback>>)
  /\ \A e \in Elements : WF_vars(CallTimer(e))
  /\ WF_vars(CacheTimerUnlink) /\ WF_vars(CacheTimerFree) /\ WF_vars(CacheTimerStop)
  /\ WF_vars(PutBack)
  /\ \A t \in Threads : WF_vars(DelFree(t))

Spec == Init /\ [][Next]_vars /\ Fairness

-----------------------------------------------------------------------------
(* Every value has one owner: it is in the list exactly while it is        *)
(* cached, it is freed at most once, and never after it was handed out; no *)
(* key keeps more than maxkeys of them.                                    *)
SingleOwner ==
  /\ \A e \in Elements :
       /\ e \in list <=> value[e] = "cached"
       /\ frees[e] = (IF value[e] = "freed" THEN 1 ELSE 0)
  /\ \A k \in Keys : Cardinality(Cached(k)) <= maxkeys

(* An element of the list has a live timer, for get, del and clean stop it *)
(* without asking; and the timer of an element that is gone is never       *)
(* called again: it would use a freed hash_element.                        *)
NoCallOnFreed ==
  \A e \in Elements :
    /\ e \in list => status[e] # "free"
    /\ status[e] = "wheel" => value[e] = "cached"
    /\ status[e] = "running" /\ e \notin called => value[e] = "cached"

(* A value that is put into the cache does not stay there.                 *)
Expires == \A e \in Elements : value[e] = "cached" ~> value[e] \in {"owned", "freed"}
=============================================================================
