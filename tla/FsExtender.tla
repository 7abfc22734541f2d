----------------------------- MODULE FsExtender -----------------------------
(***************************************************************************)
(* The extender of an open encrypted file (pfscrypto.c): a truncation that  *)
(* makes the file much longer sets its size at once and leaves the zeros to *)
(* a thread. Reads and writes wait until the thread has come far enough,    *)
(* flushes until it is done; later truncations move its target or kill it.  *)
(*                                                                         *)
(* Sizes are in chunks of PSYNC_CRYPTO_EXTENDER_STEP. Every action runs     *)
(* with of->mutex held; in "loop", "check" and "finish" the extender keeps  *)
(* it. The kernel gives a file one write or truncation at a time.           *)
(***************************************************************************)
EXTENDS ExtendedFile, FiniteSets

CONSTANTS
    Callers,       \* the threads that call on the file
    Writer,        \* the one that writes and truncates it
    MaxSize,
    Over,          \* PSYNC_CRYPTO_RUN_EXTEND_IN_THREAD_OVER
    MaxLogged,     \* PSYNC_CRYPTO_MAX_LOG_SIZE
    MaxCalls

ExtenderAssumption ==
    /\ Writer \in Callers
    /\ MaxSize \in Nat /\ Over \in Nat \ {0} /\ MaxLogged \in Nat \ {0} /\ MaxCalls \in Nat

VARIABLES
    extender,   \* of->extender, while thread is not "none"
    waiters,    \* the callers counted in extender->waiters
    awake,      \* those of them that were signalled
    at, call,   \* what each caller does
    ncalls

callVars == <<at, call, waiters, awake>>
vars == <<isnew, ofile, extender, thread, callVars, aborted, misled, holes, ncalls>>

Flush == [op |-> "flush", off |-> 0, end |-> 0]
Truncates == [op : {"truncate"}, off : {0}, end : 0..MaxSize]
Accesses == {c \in [op : {"read", "write"}, off : 0..MaxSize, end : 0..MaxSize] : c.off < c.end}
Calls == {Flush} \cup Truncates \cup Accesses

Larger(a, b) == IF a < b THEN b ELSE a
Smaller(a, b) == IF a < b THEN a ELSE b

Locked == thread \in {"loop", "check", "finish"}

----------------------------------------------------------------------------
(* The chunks from..to-1 are written, to the log, and the file is at least  *)
(* that long.                                                               *)
Written(o, from, to) ==
    [currentsize  |-> Larger(o.currentsize, to),
     filled       |-> o.filled \cup Chunks(from, to),
     sectorsinlog |-> o.sectorsinlog \cup Chunks(from, to),
     logoffset    |-> Smaller(o.logoffset + to - from, MaxLogged)]

(* A write past the end first writes zeros up to it. *)
WithGap(o, from, to) == Written(o, Smaller(from, o.currentsize), to)

LogFull(o) == o.logoffset = MaxLogged

(* psync_fs_crypto_finalize_log, or the assertion in its way; the second is *)
(* about the groups of authenticators, which are a chunk.                   *)
FinalizeAssert(o) ==
    IF Active /\ o.currentsize # extender.extendto THEN "finalize"
    ELSE IF o.sectorsinlog \subseteq Chunks(0, IF Active THEN extender.extendedto ELSE o.currentsize)
    THEN "no" ELSE "auth"

Finalized(o) == [o EXCEPT !.sectorsinlog = {}, !.logoffset = 0]

finalize_log(o) ==
    /\ aborted' = FinalizeAssert(o)
    /\ ofile' = IF aborted' = "no" THEN Finalized(o) ELSE o

(* The rest of the file goes; the last chunk left is written again. *)
Truncated(o, n) ==
    [currentsize  |-> n,
     filled       |-> o.filled \cap Chunks(0, n),
     sectorsinlog |-> (o.sectorsinlog \cap Chunks(0, n)) \cup Chunks(n-1, n),
     logoffset    |-> Smaller(o.logoffset + 1, MaxLogged)]

Emptied == [currentsize |-> 0, filled |-> {}, sectorsinlog |-> {}, logoffset |-> 0]

NewExtender(from, to) ==
    [extendto |-> to, extendedto |-> from, error |-> FALSE, ready |-> FALSE, kill |-> FALSE,
     finalizelog |-> TRUE]

----------------------------------------------------------------------------
(* The calls, once they need not wait. *)
Return(p) == at' = [at EXCEPT ![p] = "idle"] /\ UNCHANGED call
Poll(p) == at' = [at EXCEPT ![p] = IF extender.error THEN "fail" ELSE "poll"] /\ UNCHANGED call

(* A new file only: a modified one reads what is not there yet remotely. *)
read(p) ==
    LET c == call[p]
    IN /\ holes' = IF isnew /\ ~(Active /\ extender.error)
                   THEN holes \cup (Chunks(c.off, Smaller(c.end, ofile.currentsize)) \ ofile.filled) ELSE holes
       /\ Return(p)
       /\ UNCHANGED <<ofile, extender, thread, aborted, misled>>

write(p) ==
    LET c == call[p]
        o == WithGap(ofile, c.off, c.end)
    IN /\ Return(p)
       /\ UNCHANGED <<extender, thread, misled, holes>>
       /\ IF Active /\ extender.error
          THEN UNCHANGED <<ofile, aborted>>
          ELSE IF LogFull(o) /\ (Active => extender.finalizelog) THEN finalize_log(o)
          ELSE ofile' = o /\ UNCHANGED aborted

(* psync_fs_crypto_flush_file *)
flush(p) ==
    /\ IF Active THEN Poll(p) /\ UNCHANGED <<ofile, aborted>>
       ELSE Return(p) /\ finalize_log(ofile)
    /\ UNCHANGED <<extender, thread, misled, holes>>

run_extender(p, n) ==
    /\ extender' = NewExtender(ofile.currentsize, n)
    /\ thread' = "start"
    /\ ofile' = [ofile EXCEPT !.currentsize = n]
    /\ Return(p)
    /\ UNCHANGED <<aborted, misled, holes>>

(* The target of the extender moves, up or down. *)
retarget(p, n) ==
    /\ extender' = [extender EXCEPT !.extendto = n]
    /\ ofile' = [ofile EXCEPT !.currentsize = n]
    /\ misled' = (misled \/ (extender.kill /\ extender.extendedto < n))
    /\ Return(p)
    /\ UNCHANGED <<thread, aborted, holes>>

ftruncate_up(p, n) ==
    \/ /\ Active /\ extender.ready
       /\ Poll(p)
       /\ UNCHANGED <<ofile, extender, thread, aborted, misled, holes>>
    \/ /\ Active /\ ~extender.ready /\ extender.extendto < n
       /\ retarget(p, n)
    \/ /\ Active /\ ~extender.ready /\ ~(extender.extendto < n)
       /\ aborted' = "extendto"
       /\ Return(p)
       /\ UNCHANGED <<ofile, extender, thread, misled, holes>>
    \/ /\ ~Active /\ n - ofile.currentsize >= Over
       /\ run_extender(p, n)
    \/ /\ ~Active /\ n - ofile.currentsize < Over
       /\ ofile' = Written(ofile, ofile.currentsize, n)
       /\ Return(p)
       /\ UNCHANGED <<extender, thread, aborted, misled, holes>>

ftruncate_to_zero(p) ==
    /\ ofile' = Emptied
    /\ extender' = IF Active THEN [extender EXCEPT !.kill = TRUE] ELSE extender
    /\ Return(p)
    /\ UNCHANGED <<thread, aborted, misled, holes>>

(* A last chunk that is not there: nothing to read in the data file, or     *)
(* nothing that decodes.                                                     *)
ftruncate_down(p, n) ==
    IF Active /\ extender.error
    THEN Return(p) /\ UNCHANGED <<ofile, extender, thread, aborted, misled, holes>>
    ELSE IF Active /\ ~extender.ready /\ extender.extendedto <= n THEN retarget(p, n)
    ELSE /\ extender' = IF Active /\ ~extender.ready THEN [extender EXCEPT !.kill = TRUE] ELSE extender
         /\ IF isnew /\ n-1 \notin ofile.filled
            THEN aborted' \in {"tail", "no"} /\ UNCHANGED ofile
            ELSE ofile' = Truncated(ofile, n) /\ UNCHANGED aborted
         /\ Return(p)
         /\ UNCHANGED <<thread, misled, holes>>

ftruncate(p, n) ==
    \/ /\ n = ofile.currentsize
       /\ Return(p)
       /\ UNCHANGED <<ofile, extender, thread, aborted, misled, holes>>
    \/ n > ofile.currentsize /\ ftruncate_up(p, n)
    \/ n = 0 /\ ofile.currentsize > 0 /\ ftruncate_to_zero(p)
    \/ n > 0 /\ n < ofile.currentsize /\ ftruncate_down(p, n)

Do(p) ==
    \/ call[p].op = "read" /\ read(p)
    \/ call[p].op = "write" /\ write(p)
    \/ call[p].op = "flush" /\ flush(p)
    \/ call[p].op = "truncate" /\ ftruncate(p, call[p].end)

----------------------------------------------------------------------------
(* A call comes in. *)
begin(p, c) ==
    /\ Running
    /\ at[p] = "idle" /\ ncalls < MaxCalls
    /\ c.op \in {"write", "truncate"} <=> p = Writer
    /\ at' = [at EXCEPT ![p] = "begin"]
    /\ call' = [call EXCEPT ![p] = c]
    /\ ncalls' = ncalls + 1
    /\ UNCHANGED <<isnew, ofile, extender, thread, waiters, awake, aborted, misled, holes>>

(* Waits for the start of the access only. *)
M_MustWait(c) ==
    /\ Active /\ ~extender.ready
    /\ \/ c.op = "flush"
       \/ c.op = "write" /\ extender.extendedto < c.end
       \/ c.op = "read" /\ isnew /\ extender.extendedto < c.off

(* psync_fs_crypto_wait_extender_after_locked, wait_no_extender_locked *)
MustWait(c) ==
    /\ Active /\ ~extender.ready
    /\ \/ c.op = "flush"
       \/ c.op = "write" /\ extender.extendedto < c.end
       \/ c.op = "read" /\ isnew /\ extender.extendedto < c.end

(* From the start of the call, or woken up: the conditions are tested again. *)
proceed(p) ==
    /\ Running /\ ~Locked
    /\ at[p] = "begin" \/ (at[p] = "waiting" /\ p \in awake)
    /\ awake' = awake \ {p}
    /\ IF MustWait(call[p])
       THEN /\ waiters' = waiters \cup {p}
            /\ at' = [at EXCEPT ![p] = "waiting"]
            /\ UNCHANGED <<ofile, extender, thread, call, aborted, misled, holes>>
       ELSE waiters' = waiters \ {p} /\ Do(p)
    /\ UNCHANGED <<isnew, ncalls>>

(* The end of wait_no_extender_locked: looks every millisecond whether the  *)
(* extender is gone, and then returns its error or goes on.                  *)
extender_gone(p) ==
    /\ Running /\ ~Active
    /\ \/ at[p] = "poll" /\ Do(p)
       \/ at[p] = "fail" /\ Return(p) /\ UNCHANGED <<ofile, extender, thread, aborted, misled, holes>>
    /\ UNCHANGED <<isnew, waiters, awake, ncalls>>

----------------------------------------------------------------------------
(* The thread. *)
extender_starts ==
    /\ Running /\ thread = "start"
    /\ thread' = "loop"
    /\ UNCHANGED <<isnew, ofile, extender, callVars, aborted, misled, holes, ncalls>>

extender_stops ==
    /\ Running /\ thread = "loop"
    /\ extender.kill \/ extender.extendedto >= extender.extendto
    /\ thread' = "finish"
    /\ UNCHANGED <<isnew, ofile, extender, callVars, aborted, misled, holes, ncalls>>

Extending == /\ Running
             /\ \/ /\ thread = "loop"
                   /\ ~extender.kill /\ extender.extendedto < extender.extendto
                \/ thread = "filling"

fillzero ==
    /\ Extending
    /\ ofile' = WithGap(ofile, extender.extendedto, extender.extendedto + 1)
    /\ extender' = [extender EXCEPT !.extendedto = @ + 1, !.finalizelog = TRUE]
    /\ thread' = "filled"
    /\ UNCHANGED <<isnew, callVars, aborted, misled, holes, ncalls>>

(* Leaves the size at the target. *)
M_fillzero_fails ==
    /\ Extending
    /\ extender' = [extender EXCEPT !.error = TRUE, !.finalizelog = TRUE]
    /\ thread' = "finish"
    /\ UNCHANGED <<isnew, ofile, callVars, aborted, misled, holes, ncalls>>

(* Part of a chunk may be in the log already. *)
fillzero_fails ==
    /\ Extending
    /\ \E part \in {{}, {extender.extendedto}} :
          ofile' = [ofile EXCEPT !.currentsize = extender.extendedto, !.sectorsinlog = @ \cup part]
    /\ extender' = [extender EXCEPT !.error = TRUE, !.finalizelog = TRUE]
    /\ thread' = "finish"
    /\ UNCHANGED <<isnew, callVars, aborted, misled, holes, ncalls>>

(* The zeros of a modified file may need authenticators from the server:    *)
(* the mutex is free in the middle of a chunk.                               *)
fillzero_downloads ==
    /\ Extending /\ thread = "loop" /\ ~isnew
    /\ extender' = [extender EXCEPT !.finalizelog = FALSE]
    /\ thread' = "filling"
    /\ UNCHANGED <<isnew, ofile, callVars, aborted, misled, holes, ncalls>>

extender_wakes ==
    /\ Running /\ thread = "filled"
    /\ awake' = waiters
    /\ thread' = IF waiters = {} THEN "check" ELSE "yield"
    /\ UNCHANGED <<isnew, ofile, extender, at, call, waiters, aborted, misled, holes, ncalls>>

extender_yielded ==
    /\ Running /\ thread = "yield"
    /\ thread' = "check"
    /\ UNCHANGED <<isnew, ofile, extender, callVars, aborted, misled, holes, ncalls>>

extender_checks_log ==
    /\ Running /\ thread = "check"
    /\ \/ /\ ~LogFull(ofile)
          /\ thread' = "loop"
          /\ UNCHANGED <<ofile, extender, aborted>>
       \/ /\ LogFull(ofile)
          /\ finalize_log(ofile)
          /\ thread' = "loop"
          /\ UNCHANGED <<extender>>
       \/ /\ LogFull(ofile) /\ FinalizeAssert(ofile) = "no"
          /\ ofile' = [ofile EXCEPT !.currentsize = extender.extendedto]
          /\ extender' = [extender EXCEPT !.error = TRUE]
          /\ thread' = "finish"
          /\ UNCHANGED aborted
    /\ UNCHANGED <<isnew, callVars, misled, holes, ncalls>>

(* Does not say that it is ready. *)
M_extender_not_ready ==
    /\ Running /\ thread = "finish"
    /\ awake' = waiters
    /\ thread' = IF waiters = {} THEN "none" ELSE "drain"
    /\ UNCHANGED <<isnew, ofile, extender, at, call, waiters, aborted, misled, holes, ncalls>>

extender_finishes ==
    /\ Running /\ thread = "finish"
    /\ extender' = [extender EXCEPT !.ready = TRUE]
    /\ awake' = waiters
    /\ thread' = IF waiters = {} THEN "none" ELSE "drain"
    /\ UNCHANGED <<isnew, ofile, at, call, waiters, aborted, misled, holes, ncalls>>

extender_drains ==
    /\ Running /\ thread = "drain"
    /\ awake' = waiters
    /\ thread' = IF waiters = {} THEN "none" ELSE "drain"
    /\ UNCHANGED <<isnew, ofile, extender, at, call, waiters, aborted, misled, holes, ncalls>>

Extender ==
    \/ extender_starts \/ extender_stops
    \/ fillzero \/ fillzero_fails \/ fillzero_downloads
    \/ extender_wakes \/ extender_yielded \/ extender_checks_log
    \/ extender_finishes \/ extender_drains

----------------------------------------------------------------------------
Init ==
    /\ \/ isnew = TRUE /\ ofile = Emptied
       \/ isnew = FALSE /\ ofile = [Emptied EXCEPT !.currentsize = 1, !.filled = {0}]
    /\ extender = NewExtender(0, 0) /\ thread = "none"
    /\ waiters = {} /\ awake = {}
    /\ at = [p \in Callers |-> "idle"] /\ call = [p \in Callers |-> Flush]
    /\ aborted = "no" /\ misled = FALSE /\ holes = {} /\ ncalls = 0

Next ==
    \/ \E p \in Callers : (\E c \in Calls : begin(p, c)) \/ proceed(p) \/ extender_gone(p)
    \/ Extender

(* The threads run, and a call that came in goes on. *)
Fairness ==
    /\ WF_vars(Extender)
    /\ \A p \in Callers : WF_vars(proceed(p)) /\ WF_vars(extender_gone(p))

Spec == Init /\ [][Next]_vars /\ Fairness

----------------------------------------------------------------------------
TypeOK ==
    /\ isnew \in BOOLEAN
    /\ ofile \in [currentsize : Nat, filled : SUBSET Nat, sectorsinlog : SUBSET Nat, logoffset : 0..MaxLogged]
    /\ extender \in [extendto : Nat, extendedto : Nat, error : BOOLEAN, ready : BOOLEAN,
                     kill : BOOLEAN, finalizelog : BOOLEAN]
    /\ thread \in {"none", "start", "loop", "filling", "filled", "yield", "check", "finish", "drain"}
    /\ awake \subseteq waiters /\ waiters = {p \in Callers : at[p] = "waiting"}
    /\ waiters # {} => Active
    /\ at \in [Callers -> {"idle", "begin", "waiting", "poll", "fail"}]
    /\ call \in [Callers -> Calls]
    /\ aborted \in {"no", "finalize", "auth", "extendto", "tail"}
    /\ misled \in BOOLEAN /\ holes \subseteq Nat /\ ncalls \in Nat

(* Every call returns. *)
CallsReturn == \A p \in Callers : at[p] # "idle" ~> (at[p] = "idle" \/ ~Running)

(* assert(of->currentsize==of->extender->extendto), in finalize_log *)
FinalizeSeesTarget == aborted # "finalize"
=============================================================================
