------------------------------- MODULE RWLock -------------------------------
(***************************************************************************)
(* What plocks.c promises its users: a readers-writer lock a reader can    *)
(* turn into a write lock without letting another writer in between.       *)
(* mode[t] is what thread t may do with the data the lock protects.        *)
(***************************************************************************)
CONSTANT Threads

VARIABLE mode

Init == mode = [t \in Threads |-> "none"]

Others(t) == Threads \ {t}

(* A thread may start to read while nobody writes.                         *)
StartRead(t) ==
  /\ mode[t] = "none"
  /\ \A u \in Others(t) : mode[u] # "write"
  /\ mode' = [mode EXCEPT ![t] = "read"]

(* A thread may start to write, from nothing or from a read lock, when     *)
(* nobody else reads or writes.                                            *)
StartWrite(t) ==
  /\ mode[t] # "write"
  /\ \A u \in Others(t) : mode[u] = "none"
  /\ mode' = [mode EXCEPT ![t] = "write"]

Release(t) ==
  /\ mode[t] # "none"
  /\ mode' = [mode EXCEPT ![t] = "none"]

Next == \E t \in Threads : StartRead(t) \/ StartWrite(t) \/ Release(t)

Spec == Init /\ [][Next]_mode
=============================================================================
