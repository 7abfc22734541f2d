-------------------------- MODULE FsExtenderProofs --------------------------
(***************************************************************************)
(* The extender leaves no hole in a new file, whatever the sizes, the      *)
(* bounds and the number of callers.                                        *)
(***************************************************************************)
EXTENDS FsExtender, TLAPS

(* What keeps the file whole while the extender works: up to where it has   *)
(* come every chunk is there, and until it is killed the size is its target. *)
Working == {"start", "loop", "filled", "yield", "check"}

Whole == Chunks(0, ofile.currentsize) \subseteq ofile.filled

ChunksFilled ==
    /\ thread # "filling"
    /\ thread \in {"none", "finish", "drain"} => Whole
    /\ thread = "drain" => extender.ready
    /\ thread \in Working =>
          /\ ~extender.error /\ ~extender.ready
          /\ extender.extendedto <= extender.extendto
          /\ extender.kill => ofile.currentsize <= extender.extendedto
          /\ ~extender.kill => ofile.currentsize = extender.extendto
          /\ \A i \in Nat : (i < ofile.currentsize /\ i < extender.extendedto) => i \in ofile.filled

FilledInv == (isnew /\ Running /\ ~misled) => ChunksFilled

IInv == TypeOK /\ FilledInv /\ ReadsAreFilled

File == [currentsize : Nat, filled : SUBSET Nat, sectorsinlog : SUBSET Nat, logoffset : 0..MaxLogged]
ExtenderRecord == [extendto : Nat, extendedto : Nat, error : BOOLEAN, ready : BOOLEAN,
                   kill : BOOLEAN, finalizelog : BOOLEAN]
Threads == {"none", "start", "loop", "filling", "filled", "yield", "check", "finish", "drain"}
Asserts == {"no", "finalize", "auth", "extendto", "tail"}

-----------------------------------------------------------------------------
(* What the writes do to the file.                                          *)

(* A write, with the zeros up to it, makes the file reach to its end and    *)
(* leaves it whole if it was.                                               *)
LEMMA WithGapCorrect ==
  ASSUME ExtenderAssumption, NEW o \in File, NEW from \in Nat, NEW to \in Nat, from <= to
  PROVE  /\ WithGap(o, from, to) \in File
         /\ WithGap(o, from, to).currentsize = Larger(o.currentsize, to)
         /\ o.filled \subseteq WithGap(o, from, to).filled
         /\ \A i \in Nat : (from <= i /\ i < to) => i \in WithGap(o, from, to).filled
         /\ Chunks(0, o.currentsize) \subseteq o.filled
              => Chunks(0, WithGap(o, from, to).currentsize) \subseteq WithGap(o, from, to).filled
<1> DEFINE start == Smaller(from, o.currentsize)
           w == WithGap(o, from, to)
<1>1. start \in Nat /\ start <= from /\ start <= o.currentsize /\ (start = from \/ start = o.currentsize)
  BY DEF Smaller, File
<1>2. Chunks(start, to) \subseteq Nat
  BY <1>1 DEF Chunks
<1>3. Larger(o.currentsize, to) \in Nat
  BY DEF Larger, File
<1>4. Smaller(o.logoffset + to - start, MaxLogged) \in 0..MaxLogged
  BY <1>1 DEF Smaller, File, ExtenderAssumption
<1> HIDE DEF start
<1>5. w = [currentsize |-> Larger(o.currentsize, to),
           filled |-> o.filled \cup Chunks(start, to),
           sectorsinlog |-> o.sectorsinlog \cup Chunks(start, to),
           logoffset |-> Smaller(o.logoffset + to - start, MaxLogged)]
  BY DEF WithGap, Written, start
<1>6. w \in File
  BY <1>2, <1>3, <1>4, <1>5 DEF File
<1>7. ASSUME Chunks(0, o.currentsize) \subseteq o.filled, NEW i \in Chunks(0, w.currentsize)
      PROVE  i \in w.filled
  <2>1. i \in Nat /\ (i < o.currentsize \/ i < to)
    BY <1>3, <1>5, <1>7 DEF Chunks, Larger, File
  <2>2. CASE i < o.currentsize
    BY <2>1, <2>2, <1>5, <1>7 DEF Chunks, File
  <2>3. CASE i < to /\ ~(i < o.currentsize)
    <3>1. i \in Chunks(start, to)
      BY <2>1, <2>3, <1>1 DEF Chunks, File
    <3> QED  BY <3>1, <1>5
  <2> QED  BY <2>1, <2>2, <2>3
<1>8. ASSUME NEW i \in Nat, from <= i, i < to PROVE i \in w.filled
  BY <1>1, <1>5, <1>8 DEF Chunks
<1> QED  BY <1>5, <1>6, <1>7, <1>8

(* Extending the file at its end is such a write. *)
LEMMA WrittenIsWithGap ==
  ASSUME NEW o \in File, NEW to \in Nat
  PROVE  Written(o, o.currentsize, to) = WithGap(o, o.currentsize, to)
BY DEF WithGap, Smaller, File

(* A truncation leaves whole what is left of the file. *)
LEMMA TruncatedCorrect ==
  ASSUME ExtenderAssumption, NEW o \in File, NEW n \in Nat, n > 0
  PROVE  /\ Truncated(o, n) \in File
         /\ Truncated(o, n).currentsize = n
         /\ \A i \in Nat : (i < n /\ i \in o.filled) => i \in Truncated(o, n).filled
<1>1. Chunks(n-1, n) \subseteq Nat
  BY DEF Chunks
<1>2. Smaller(o.logoffset + 1, MaxLogged) \in 0..MaxLogged
  BY DEF Smaller, File, ExtenderAssumption
<1>3. Truncated(o, n) \in File
  BY <1>1, <1>2 DEF Truncated, File
<1> QED  BY <1>3 DEF Truncated, Chunks, File

(* Finalizing the log changes neither the size nor the chunks. *)
LEMMA FinalizeKeeps ==
  ASSUME ExtenderAssumption, NEW o \in File, finalize_log(o)
  PROVE  /\ ofile' \in File
         /\ ofile'.currentsize = o.currentsize /\ ofile'.filled = o.filled
         /\ aborted' \in Asserts
<1>1. Finalized(o) \in File /\ Finalized(o).currentsize = o.currentsize /\ Finalized(o).filled = o.filled
  <2>1. 0 \in 0..MaxLogged /\ {} \in SUBSET Nat
    BY DEF ExtenderAssumption
  <2> QED  BY <2>1 DEF Finalized, File
<1>2. ofile' = Finalized(o) \/ ofile' = o
  BY DEF finalize_log
<1>3. aborted' \in Asserts
  BY DEF finalize_log, FinalizeAssert, Asserts
<1> QED  BY <1>1, <1>2, <1>3

(* The ranges of calls.                                                    *)
LEMMA CallShape ==
  ASSUME ExtenderAssumption, NEW c \in Calls
  PROVE  /\ c.off \in Nat /\ c.end \in Nat
         /\ c.op \in {"read", "write"} => c.off < c.end
BY DEF ExtenderAssumption, Calls, Flush, Truncates, Accesses

-----------------------------------------------------------------------------
(* What a call does once it need not wait. *)

(* What a call leaves of the other callers, and the types it keeps. *)
CallTypes(p) ==
    /\ ofile' \in File /\ extender' \in ExtenderRecord
    /\ thread' = thread \/ (thread = "none" /\ thread' = "start")
    /\ aborted' \in Asserts /\ misled' \in BOOLEAN /\ holes' \in SUBSET Nat
    /\ call' = call
    /\ \E x \in {"idle", "poll", "fail"} : at' = [at EXCEPT ![p] = x]

(* A call that returns or waits is of the same kind as before.             *)
LEMMA ReturnsOrPolls ==
  ASSUME NEW p, Return(p) \/ Poll(p)
  PROVE  call' = call /\ \E x \in {"idle", "poll", "fail"} : at' = [at EXCEPT ![p] = x]
<1>1. CASE Return(p)
  BY <1>1 DEF Return
<1>2. CASE Poll(p)
  <2>1. CASE extender.error
    BY <1>2, <2>1 DEF Poll
  <2>2. CASE ~extender.error
    BY <1>2, <2>2 DEF Poll
  <2> QED  BY <2>1, <2>2
<1> QED  BY <1>1, <1>2

(* A read keeps the types,                                                 *)
LEMMA ReadTypes ==
  ASSUME ExtenderAssumption, TypeOK, NEW p \in Callers, read(p)
  PROVE  CallTypes(p)
<1>1. Chunks(call[p].off, Smaller(call[p].end, ofile.currentsize)) \subseteq Nat
  <2>1. call[p].off \in Nat
    BY CallShape DEF TypeOK
  <2> QED  BY <2>1 DEF Chunks
<1>2. holes' \in SUBSET Nat
  BY <1>1 DEF read, TypeOK
<1>3. ofile \in File /\ extender \in ExtenderRecord /\ aborted \in Asserts /\ misled \in BOOLEAN
  BY DEF TypeOK, File, ExtenderRecord, Asserts
<1> QED  BY <1>2, <1>3, ReturnsOrPolls DEF read, CallTypes

(* and so do a write,                                                      *)
LEMMA WriteTypes ==
  ASSUME ExtenderAssumption, TypeOK, NEW p \in Callers, call[p].op = "write", write(p)
  PROVE  CallTypes(p)
<1> DEFINE o == WithGap(ofile, call[p].off, call[p].end)
<1>1. ofile \in File /\ extender \in ExtenderRecord /\ aborted \in Asserts /\ misled \in BOOLEAN /\ holes \in SUBSET Nat
  BY DEF TypeOK, File, ExtenderRecord, Asserts
<1>2. call[p].off \in Nat /\ call[p].end \in Nat /\ call[p].off <= call[p].end
  BY CallShape DEF TypeOK
<1>3. o \in File
  BY <1>1, <1>2, WithGapCorrect
<1>4. ofile' \in File /\ aborted' \in Asserts
  <2>1. CASE finalize_log(o)
    BY <2>1, <1>3, FinalizeKeeps
  <2>2. CASE ofile' = o /\ aborted' = aborted
    BY <2>2, <1>1, <1>3
  <2>3. CASE ofile' = ofile /\ aborted' = aborted
    BY <2>3, <1>1
  <2> QED  BY <2>1, <2>2, <2>3 DEF write
<1> QED  BY <1>1, <1>4, ReturnsOrPolls DEF write, CallTypes

(* a flush,                                                                *)
LEMMA FlushTypes ==
  ASSUME ExtenderAssumption, TypeOK, NEW p \in Callers, flush(p)
  PROVE  CallTypes(p)
<1>1. ofile \in File /\ extender \in ExtenderRecord /\ aborted \in Asserts /\ misled \in BOOLEAN /\ holes \in SUBSET Nat
  BY DEF TypeOK, File, ExtenderRecord, Asserts
<1>2. ofile' \in File /\ aborted' \in Asserts
  BY <1>1, FinalizeKeeps DEF flush
<1> QED  BY <1>1, <1>2, ReturnsOrPolls DEF flush, CallTypes

(* a truncation,                                                           *)
LEMMA TruncateTypes ==
  ASSUME ExtenderAssumption, TypeOK, NEW p \in Callers, NEW n \in Nat, ftruncate(p, n)
  PROVE  CallTypes(p)
<1>1. ofile \in File /\ extender \in ExtenderRecord /\ aborted \in Asserts /\ misled \in BOOLEAN /\ holes \in SUBSET Nat
  BY DEF TypeOK, File, ExtenderRecord, Asserts
<1>2. CASE n = ofile.currentsize /\ Return(p) /\ UNCHANGED <<ofile, extender, thread, aborted, misled, holes>>
  BY <1>1, <1>2, ReturnsOrPolls DEF CallTypes
<1>3. ASSUME retarget(p, n) PROVE CallTypes(p)
  <2>1. [extender EXCEPT !.extendto = n] \in ExtenderRecord /\ [ofile EXCEPT !.currentsize = n] \in File
    BY <1>1 DEF ExtenderRecord, File
  <2> QED  BY <1>1, <1>3, <2>1, ReturnsOrPolls DEF retarget, CallTypes
<1>4. CASE n > ofile.currentsize /\ ftruncate_up(p, n)
  <2>1. CASE Poll(p) /\ UNCHANGED <<ofile, extender, thread, aborted, misled, holes>>
    BY <1>1, <2>1, ReturnsOrPolls DEF CallTypes
  <2>2. CASE /\ aborted' = "extendto" /\ Return(p)
             /\ UNCHANGED <<ofile, extender, thread, misled, holes>>
    BY <1>1, <2>2, ReturnsOrPolls DEF CallTypes, Asserts
  <2>3. CASE ~Active /\ run_extender(p, n)
    <3>1. NewExtender(ofile.currentsize, n) \in ExtenderRecord /\ [ofile EXCEPT !.currentsize = n] \in File
      BY <1>1 DEF ExtenderRecord, File, NewExtender
    <3> QED  BY <1>1, <2>3, <3>1, ReturnsOrPolls DEF run_extender, CallTypes, Active
  <2>4. CASE /\ ofile' = Written(ofile, ofile.currentsize, n) /\ Return(p)
             /\ UNCHANGED <<extender, thread, aborted, misled, holes>>
    <3>1. ofile.currentsize \in Nat
      BY <1>1 DEF File
    <3>2. ofile' \in File
      <4>1. ofile.currentsize <= n
        BY <1>4, <3>1
      <4> QED  BY <1>1, <2>4, <3>1, <4>1, WrittenIsWithGap, WithGapCorrect
    <3> QED  BY <1>1, <2>4, <3>2, ReturnsOrPolls DEF CallTypes
  <2> QED  BY <1>3, <1>4, <2>1, <2>2, <2>3, <2>4 DEF ftruncate_up
<1>5. CASE ftruncate_to_zero(p)
  <2>1. Emptied \in File
    BY DEF Emptied, File, ExtenderAssumption
  <2>2. extender' \in ExtenderRecord
    BY <1>1, <1>5 DEF ftruncate_to_zero, ExtenderRecord
  <2> QED  BY <1>1, <1>5, <2>1, <2>2, ReturnsOrPolls DEF ftruncate_to_zero, CallTypes
<1>6. CASE n > 0 /\ ftruncate_down(p, n)
  <2>1. Truncated(ofile, n) \in File
    BY <1>1, <1>6, TruncatedCorrect
  <2>2. CASE Return(p) /\ UNCHANGED <<ofile, extender, thread, aborted, misled, holes>>
    BY <1>1, <2>2, ReturnsOrPolls DEF CallTypes
  <2>3. CASE /\ extender' = IF Active /\ ~extender.ready THEN [extender EXCEPT !.kill = TRUE] ELSE extender
             /\ IF isnew /\ n-1 \notin ofile.filled
                THEN aborted' \in {"tail", "no"} /\ UNCHANGED ofile
                ELSE ofile' = Truncated(ofile, n) /\ UNCHANGED aborted
             /\ Return(p)
             /\ UNCHANGED <<thread, misled, holes>>
    <3>1. extender' \in ExtenderRecord
      BY <1>1, <2>3 DEF ExtenderRecord
    <3>2. ofile' \in File /\ aborted' \in Asserts
      BY <1>1, <2>1, <2>3 DEF Asserts
    <3> QED  BY <1>1, <2>3, <3>1, <3>2, ReturnsOrPolls DEF CallTypes
  <2> QED  BY <1>3, <1>6, <2>2, <2>3 DEF ftruncate_down
<1> QED  BY <1>2, <1>4, <1>5, <1>6 DEF ftruncate

(* every call,                                                             *)
LEMMA DoTypes ==
  ASSUME ExtenderAssumption, TypeOK, NEW p \in Callers, Do(p)
  PROVE  CallTypes(p)
<1>1. call[p].end \in Nat
  BY CallShape DEF TypeOK
<1> QED  BY <1>1, ReadTypes, WriteTypes, FlushTypes, TruncateTypes DEF Do

-----------------------------------------------------------------------------
(* The types, and who waits for the extender. *)

(* the initial state                                                       *)
LEMMA InitTypes == ASSUME ExtenderAssumption, Init PROVE TypeOK
<1>1. ofile \in [currentsize : Nat, filled : SUBSET Nat, sectorsinlog : SUBSET Nat, logoffset : 0..MaxLogged]
  <2>1. 0 \in 0..MaxLogged /\ {0} \in SUBSET Nat
    BY DEF ExtenderAssumption
  <2>2. Emptied \in File /\ [Emptied EXCEPT !.currentsize = 1, !.filled = {0}] \in File
    BY <2>1 DEF Emptied, File
  <2> QED  BY <2>2 DEF Init, File
<1>2. extender \in [extendto : Nat, extendedto : Nat, error : BOOLEAN, ready : BOOLEAN,
                    kill : BOOLEAN, finalizelog : BOOLEAN]
  BY DEF Init, NewExtender
<1>3. Flush \in Calls
  BY DEF Calls
<1>4. waiters = {p \in Callers : at[p] = "waiting"}
  BY DEF Init
<1> QED  BY <1>1, <1>2, <1>3, <1>4 DEF Init, TypeOK

(* and every step.                                                         *)
LEMMA TypeStep == ASSUME ExtenderAssumption, TypeOK, Next PROVE TypeOK'
<1> USE DEF TypeOK
<1>1. ASSUME NEW p \in Callers, NEW c \in Calls, begin(p, c) PROVE TypeOK'
  <2>1. at' \in [Callers -> {"idle", "begin", "waiting", "poll", "fail"}] /\ call' \in [Callers -> Calls]
    BY <1>1 DEF begin
  <2>2. waiters' = {q \in Callers : at'[q] = "waiting"}
    BY <1>1 DEF begin
  <2>3. ncalls' \in Nat
    BY <1>1 DEF begin
  <2> QED  BY <1>1, <2>1, <2>2, <2>3 DEF begin, Active
<1>2. ASSUME NEW p \in Callers, CallTypes(p), isnew' = isnew, ncalls' = ncalls,
             waiters' = waiters \ {p}, awake' \subseteq waiters'
      PROVE  TypeOK'
  <2>1. PICK x \in {"idle", "poll", "fail"} : at' = [at EXCEPT ![p] = x]
    BY <1>2 DEF CallTypes
  <2>2. at' \in [Callers -> {"idle", "begin", "waiting", "poll", "fail"}]
    BY <2>1
  <2>3. waiters' = {q \in Callers : at'[q] = "waiting"}
    BY <1>2, <2>1
  <2>4. waiters' # {} => thread' # "none"
    BY <1>2 DEF CallTypes, Active
  <2> QED  BY <1>2, <2>2, <2>3, <2>4 DEF CallTypes, File, ExtenderRecord, Asserts, Active
<1>3. ASSUME NEW p \in Callers, proceed(p) PROVE TypeOK'
  <2>1. CASE MustWait(call[p])
    <3>1. at' \in [Callers -> {"idle", "begin", "waiting", "poll", "fail"}]
      BY <1>3, <2>1 DEF proceed
    <3>2. waiters' = {q \in Callers : at'[q] = "waiting"}
      BY <1>3, <2>1 DEF proceed
    <3> QED  BY <1>3, <2>1, <3>1, <3>2, ZenonT(90) DEF proceed, MustWait, Active
  <2>2. CASE ~MustWait(call[p])
    <3>1. waiters' = waiters \ {p} /\ awake' = awake \ {p} /\ Do(p) /\ isnew' = isnew /\ ncalls' = ncalls
      BY <1>3, <2>2 DEF proceed
    <3> QED  BY <3>1, <1>2, DoTypes
  <2> QED  BY <2>1, <2>2
<1>4. ASSUME NEW p \in Callers, extender_gone(p) PROVE TypeOK'
  <2>1. p \notin waiters /\ waiters' = waiters /\ awake' = awake /\ isnew' = isnew /\ ncalls' = ncalls
    BY <1>4 DEF extender_gone
  <2>2. CASE Do(p)
    BY <2>1, <2>2, <1>2, DoTypes
  <2>3. CASE Return(p) /\ UNCHANGED <<ofile, extender, thread, aborted, misled, holes>>
    <3>1. CallTypes(p)
      BY <2>3, ReturnsOrPolls DEF CallTypes, File, ExtenderRecord, Asserts
    <3> QED  BY <2>1, <3>1, <1>2
  <2> QED  BY <1>4, <2>2, <2>3 DEF extender_gone
<1>5. ASSUME UNCHANGED <<isnew, at, call, waiters, misled, holes, ncalls>>,
             awake' = awake \/ awake' = waiters,
             ofile' \in File, extender' \in ExtenderRecord, aborted' \in Asserts,
             thread' \in Threads, thread' = "none" => waiters = {}
      PROVE  TypeOK'
  BY <1>5 DEF File, ExtenderRecord, Asserts, Threads, Active
<1>6. ofile \in File /\ extender \in ExtenderRecord /\ aborted \in Asserts /\ thread \in Threads
  BY DEF File, ExtenderRecord, Asserts, Threads
<1>7. ASSUME Extender PROVE TypeOK'
  <2>1. CASE extender_starts \/ extender_stops
    BY <2>1, <1>5, <1>6 DEF extender_starts, extender_stops, callVars, Threads
  <2>2. CASE fillzero
    <3>1. extender.extendedto \in Nat /\ extender.extendedto + 1 \in Nat
          /\ extender.extendedto <= extender.extendedto + 1
      BY <1>6 DEF ExtenderRecord
    <3>2. [extender EXCEPT !.extendedto = @ + 1, !.finalizelog = TRUE] \in ExtenderRecord
      <4> DEFINE e == extender.extendedto + 1
      <4>1. e \in Nat
        BY <3>1
      <4> HIDE DEF e
      <4>2. [extender EXCEPT !.extendedto = e, !.finalizelog = TRUE] \in ExtenderRecord
        BY <4>1, <1>6 DEF ExtenderRecord
      <4> QED  BY <4>2 DEF e
    <3>3. extender' \in ExtenderRecord
      BY <2>2, <3>2 DEF fillzero
    <3>4. ofile' \in File
      BY <1>6, <2>2, <3>1, WithGapCorrect DEF fillzero
    <3> QED  BY <2>2, <3>3, <3>4, <1>5, <1>6 DEF fillzero, callVars, Threads
  <2>3. CASE fillzero_fails
    <3>1. PICK part \in {{}, {extender.extendedto}} :
            ofile' = [ofile EXCEPT !.currentsize = extender.extendedto, !.sectorsinlog = @ \cup part]
      BY <2>3 DEF fillzero_fails
    <3>2. ofile' \in File
      BY <3>1 DEF File
    <3>3. extender' \in ExtenderRecord
      BY <2>3, <1>6 DEF fillzero_fails, ExtenderRecord
    <3> QED  BY <2>3, <3>2, <3>3, <1>5, <1>6 DEF fillzero_fails, callVars, Threads
  <2>4. CASE fillzero_downloads
    <3>1. extender' \in ExtenderRecord
      BY <2>4, <1>6 DEF fillzero_downloads, ExtenderRecord
    <3> QED  BY <2>4, <3>1, <1>5, <1>6 DEF fillzero_downloads, callVars, Threads
  <2>5. CASE extender_wakes \/ extender_yielded
    BY <2>5, <1>5, <1>6 DEF extender_wakes, extender_yielded, callVars, Threads
  <2>6. CASE extender_checks_log
    <3>1. ASSUME finalize_log(ofile) PROVE ofile' \in File /\ aborted' \in Asserts
      BY <3>1, <1>6, FinalizeKeeps
    <3>2. [ofile EXCEPT !.currentsize = extender.extendedto] \in File /\ [extender EXCEPT !.error = TRUE] \in ExtenderRecord
      BY <1>6 DEF File, ExtenderRecord
    <3>3. ofile' \in File /\ extender' \in ExtenderRecord /\ aborted' \in Asserts /\ thread' \in {"loop", "finish"}
      BY <2>6, <3>1, <3>2, <1>6 DEF extender_checks_log
    <3> QED  BY <2>6, <3>3, <1>5 DEF extender_checks_log, callVars, Threads
  <2>7. CASE extender_finishes
    <3>1. extender' \in ExtenderRecord
      BY <2>7, <1>6 DEF extender_finishes, ExtenderRecord
    <3> QED  BY <2>7, <3>1, <1>5, <1>6 DEF extender_finishes, Threads
  <2>8. CASE extender_drains
    BY <2>8, <1>5, <1>6 DEF extender_drains, Threads
  <2> QED  BY <1>7, <2>1, <2>2, <2>3, <2>4, <2>5, <2>6, <2>7, <2>8 DEF Extender
<1> QED  BY <1>1, <1>3, <1>4, <1>7 DEF Next

-----------------------------------------------------------------------------
(* The chunks of a new file. *)

(* A read changes no chunk and finds none missing.                         *)
LEMMA ReadFills ==
  ASSUME ExtenderAssumption, TypeOK, isnew, ChunksFilled, ~Locked, NEW p \in Callers,
         call[p].op = "read", ~MustWait(call[p]), read(p)
  PROVE  ChunksFilled' /\ holes' = holes
<1>1. UNCHANGED <<ofile, extender, thread>>
  BY DEF read
<1>2. ChunksFilled'
  BY <1>1 DEF ChunksFilled, Whole, Working, Chunks
<1>3. ASSUME NEW i \in Chunks(call[p].off, Smaller(call[p].end, ofile.currentsize)),
             ~(Active /\ extender.error)
      PROVE  i \in ofile.filled
  <2>1. /\ call[p].off \in Nat /\ call[p].end \in Nat
        /\ ofile.currentsize \in Nat /\ extender.extendedto \in Nat
    BY CallShape DEF TypeOK
  <2>2. i \in Nat /\ i < call[p].end /\ i < ofile.currentsize
    BY <1>3, <2>1 DEF Chunks, Smaller
  <2>3. CASE thread \in {"none", "finish", "drain"}
    BY <2>1, <2>2, <2>3 DEF ChunksFilled, Whole, Chunks
  <2>4. CASE thread \in Working
    <3>1. call[p].end <= extender.extendedto
      BY <2>1, <2>4 DEF ChunksFilled, Working, MustWait, Active
    <3> QED  BY <2>1, <2>2, <2>4, <3>1 DEF ChunksFilled
  <2> QED  BY <2>3, <2>4 DEF ChunksFilled, Working, TypeOK
<1>4. holes' = holes
  BY <1>3 DEF read
<1> QED  BY <1>2, <1>4

(* A write fills what it writes.                                           *)
LEMMA WriteFills ==
  ASSUME ExtenderAssumption, TypeOK, ChunksFilled, ~Locked, NEW p \in Callers,
         call[p].op = "write", ~MustWait(call[p]), write(p)
  PROVE  ChunksFilled'
<1> DEFINE c == call[p]
           o == WithGap(ofile, c.off, c.end)
<1>1. /\ c.off \in Nat /\ c.end \in Nat /\ c.off <= c.end /\ ofile \in File
      /\ ofile.currentsize \in Nat /\ extender.extendedto \in Nat /\ extender.extendto \in Nat
  BY CallShape DEF TypeOK, File
<1>2. UNCHANGED <<extender, thread>>
  BY DEF write
<1>3. CASE UNCHANGED ofile
  BY <1>2, <1>3 DEF ChunksFilled, Whole, Working, Chunks
<1>4. CASE ofile'.currentsize = o.currentsize /\ ofile'.filled = o.filled
  <2>1. /\ o.currentsize = Larger(ofile.currentsize, c.end)
        /\ ofile.filled \subseteq o.filled
        /\ Whole => Chunks(0, o.currentsize) \subseteq o.filled
    BY <1>1, WithGapCorrect DEF Whole
  <2>2. CASE thread \in {"none", "drain"}
    BY <1>2, <1>4, <2>1, <2>2 DEF ChunksFilled, Whole, Working
  <2>3. CASE thread \in Working
    <3>1. c.end <= extender.extendedto
      BY <1>1, <2>3 DEF ChunksFilled, Working, MustWait, Active
    <3>2. CASE ~extender.kill
      <4>1. o.currentsize = ofile.currentsize
        BY <1>1, <2>1, <2>3, <3>1, <3>2 DEF ChunksFilled, Larger
      <4> QED  BY <1>2, <1>4, <2>1, <2>3, <3>2, <4>1 DEF ChunksFilled, Working
    <3>3. CASE extender.kill
      <4>1. Whole
        BY <1>1, <2>3, <3>3 DEF ChunksFilled, Whole, Chunks
      <4>2. o.currentsize \in Nat /\ o.currentsize <= extender.extendedto
        BY <1>1, <2>1, <2>3, <3>1, <3>3 DEF ChunksFilled, Larger
      <4>3. \A i \in Nat : i < o.currentsize => i \in o.filled
        BY <2>1, <4>1, <4>2 DEF Chunks
      <4> QED  BY <1>2, <1>4, <2>3, <3>3, <4>2, <4>3 DEF ChunksFilled, Working
    <3> QED  BY <3>2, <3>3 DEF TypeOK
  <2> QED  BY <2>2, <2>3 DEF ChunksFilled, Working, TypeOK, Locked
<1>5. o \in File
  BY <1>1, WithGapCorrect
<1> QED  BY <1>3, <1>4, <1>5, FinalizeKeeps DEF write

(* A flush moves the log into the file.                                    *)
LEMMA FlushFills ==
  ASSUME ExtenderAssumption, TypeOK, ChunksFilled, NEW p \in Callers, flush(p)
  PROVE  ChunksFilled'
<1>1. ofile \in File
  BY DEF TypeOK, File
<1>2. UNCHANGED <<extender, thread>>
  BY DEF flush
<1>3. ofile'.currentsize = ofile.currentsize /\ ofile'.filled = ofile.filled
  BY <1>1, FinalizeKeeps DEF flush
<1> QED  BY <1>2, <1>3 DEF ChunksFilled, Whole, Working, Chunks

(* A truncation cuts the file, or starts, moves or kills the extender.     *)
LEMMA TruncateFills ==
  ASSUME ExtenderAssumption, TypeOK, isnew, ChunksFilled, ~Locked, NEW p \in Callers, NEW n \in Nat,
         ftruncate(p, n), ~misled', Running'
  PROVE  ChunksFilled'
<1>1. /\ ofile \in File /\ ofile.currentsize \in Nat
      /\ extender \in ExtenderRecord /\ extender.extendedto \in Nat /\ extender.extendto \in Nat
  BY DEF TypeOK, File, ExtenderRecord
<1>2. CASE UNCHANGED <<ofile, extender, thread>>
  BY <1>2 DEF ChunksFilled, Whole, Working, Chunks
<1>3. ASSUME thread \in Working, ~extender.kill, extender.extendedto <= n, retarget(p, n)
      PROVE  ChunksFilled'
  <2>1. /\ extender' = [extender EXCEPT !.extendto = n] /\ ofile' = [ofile EXCEPT !.currentsize = n]
        /\ thread' = thread
    BY <1>3 DEF retarget
  <2>2. /\ ofile'.currentsize = n /\ ofile'.filled = ofile.filled
        /\ extender'.extendto = n /\ extender'.extendedto = extender.extendedto
        /\ extender'.error = extender.error /\ extender'.ready = extender.ready
        /\ extender'.kill = extender.kill
    BY <1>1, <2>1 DEF File, ExtenderRecord
  <2> QED  BY <1>1, <1>3, <2>1, <2>2 DEF ChunksFilled, Working
<1>4. ASSUME thread \notin Working PROVE thread \in {"none", "drain"} /\ Whole
  BY <1>4 DEF ChunksFilled, Working, TypeOK, Locked
<1>5. CASE n > ofile.currentsize /\ ftruncate_up(p, n)
  <2>1. CASE Active /\ extender.ready /\ Poll(p) /\ UNCHANGED <<ofile, extender, thread>>
    BY <1>2, <2>1
  <2>2. CASE Active /\ ~extender.ready /\ extender.extendto < n /\ retarget(p, n)
    <3>1. thread \in Working
      BY <1>4, <2>2 DEF ChunksFilled, Active
    <3>2. extender.extendedto < n
      BY <1>1, <2>2, <3>1 DEF ChunksFilled
    <3>3. ~extender.kill
      BY <2>2, <3>2 DEF retarget
    <3> QED  BY <1>1, <1>3, <2>2, <3>1, <3>2, <3>3
  <2>3. CASE aborted' = "extendto"
    BY <2>3 DEF Running
  <2>4. CASE ~Active /\ run_extender(p, n)
    <3>1. Whole
      BY <2>4 DEF Active, ChunksFilled
    <3>2. /\ thread' = "start" /\ extender' = NewExtender(ofile.currentsize, n)
          /\ ofile' = [ofile EXCEPT !.currentsize = n]
      BY <2>4 DEF run_extender
    <3>3. ofile'.currentsize = n /\ ofile'.filled = ofile.filled
      BY <1>1, <3>2 DEF File
    <3>4. /\ extender'.extendto = n /\ extender'.extendedto = ofile.currentsize
          /\ ~extender'.error /\ ~extender'.ready /\ ~extender'.kill
      BY <3>2 DEF NewExtender
    <3>5. \A i \in Nat : i < ofile.currentsize => i \in ofile.filled
      BY <1>1, <3>1 DEF Whole, Chunks
    <3> QED  BY <1>1, <1>5, <3>2, <3>3, <3>4, <3>5 DEF ChunksFilled, Working
  <2>5. CASE /\ ~Active /\ ofile' = Written(ofile, ofile.currentsize, n)
             /\ UNCHANGED <<extender, thread>>
    <3>1. Whole /\ thread' = "none"
      BY <2>5 DEF Active, ChunksFilled
    <3>2. ofile' = WithGap(ofile, ofile.currentsize, n)
      BY <1>1, <2>5, WrittenIsWithGap
    <3>3. Chunks(0, ofile'.currentsize) \subseteq ofile'.filled
      <4>1. ofile.currentsize <= n
        BY <1>1, <1>5
      <4>2. Chunks(0, WithGap(ofile, ofile.currentsize, n).currentsize)
              \subseteq WithGap(ofile, ofile.currentsize, n).filled
        BY <1>1, <3>1, <4>1, WithGapCorrect DEF Whole
      <4> QED  BY <3>2, <4>2
    <3> QED  BY <3>1, <3>3 DEF ChunksFilled, Whole, Working
  <2> QED  BY <1>5, <2>1, <2>2, <2>3, <2>4, <2>5 DEF ftruncate_up
<1>6. CASE ftruncate_to_zero(p)
  <2>1. thread' = thread /\ ofile'.currentsize = 0
    BY <1>6 DEF ftruncate_to_zero, Emptied
  <2>2. /\ extender'.extendto = extender.extendto /\ extender'.extendedto = extender.extendedto
        /\ extender'.error = extender.error /\ extender'.ready = extender.ready
        /\ Active => extender'.kill
    BY <1>1, <1>6 DEF ftruncate_to_zero, ExtenderRecord
  <2>3. Whole'
    BY <2>1 DEF Whole, Chunks
  <2>4. CASE thread \in Working
    BY <1>1, <2>1, <2>2, <2>4 DEF ChunksFilled, Working, Active
  <2>5. CASE thread \notin Working
    BY <2>1, <2>2, <2>3, <2>5 DEF ChunksFilled
  <2> QED  BY <2>4, <2>5
<1>7. CASE n > 0 /\ n < ofile.currentsize /\ ftruncate_down(p, n)
  <2>1. CASE UNCHANGED <<ofile, extender, thread>>
    BY <1>2, <2>1
  <2>2. CASE Active /\ ~extender.ready /\ extender.extendedto <= n /\ retarget(p, n)
    <3>1. thread \in Working
      BY <1>4, <2>2 DEF ChunksFilled, Active
    <3>2. ~extender.kill
      BY <1>1, <1>7, <2>2, <3>1 DEF ChunksFilled
    <3> QED  BY <1>3, <2>2, <3>1, <3>2
  <2>3. CASE /\ ~(Active /\ ~extender.ready /\ extender.extendedto <= n)
             /\ extender' = IF Active /\ ~extender.ready THEN [extender EXCEPT !.kill = TRUE] ELSE extender
             /\ IF isnew /\ n-1 \notin ofile.filled
                THEN aborted' \in {"tail", "no"} /\ UNCHANGED ofile
                ELSE ofile' = Truncated(ofile, n) /\ UNCHANGED aborted
             /\ UNCHANGED thread
    <3>1. \A i \in Nat : i < n => i \in ofile.filled
      <4>1. CASE thread \in Working
        BY <1>1, <1>7, <2>3, <4>1 DEF ChunksFilled, Working, Active
      <4>2. CASE thread \notin Working
        BY <1>1, <1>4, <1>7, <4>2 DEF Whole, Chunks
      <4> QED  BY <4>1, <4>2
    <3>2. ofile' = Truncated(ofile, n)
      BY <1>7, <2>3, <3>1
    <3>3. ofile'.currentsize = n /\ \A i \in Nat : i < n => i \in ofile'.filled
      BY <1>1, <1>7, <3>1, <3>2, TruncatedCorrect
    <3>4. /\ extender'.extendto = extender.extendto /\ extender'.extendedto = extender.extendedto
          /\ extender'.error = extender.error /\ extender'.ready = extender.ready
          /\ (Active /\ ~extender.ready) => extender'.kill
      BY <1>1, <2>3 DEF ExtenderRecord
    <3>5. CASE thread \in Working
      <4>1. extender'.kill /\ n <= extender.extendedto
        BY <1>1, <2>3, <3>4, <3>5 DEF ChunksFilled, Working, Active
      <4> QED  BY <1>1, <2>3, <3>3, <3>4, <3>5, <4>1 DEF ChunksFilled, Working
    <3>6. CASE thread \notin Working
      <4>1. Whole'
        BY <3>3 DEF Whole, Chunks
      <4> QED  BY <2>3, <3>4, <3>6, <4>1 DEF ChunksFilled
    <3> QED  BY <3>5, <3>6
  <2> QED  BY <1>7, <2>1, <2>2, <2>3 DEF ftruncate_down
<1> QED  BY <1>2, <1>5, <1>6, <1>7 DEF ftruncate

(* Whatever the call, every chunk that should be there is.                 *)
LEMMA DoFills ==
  ASSUME ExtenderAssumption, TypeOK, isnew, ChunksFilled, ~Locked, NEW p \in Callers,
         ~MustWait(call[p]), Do(p), ~misled', Running'
  PROVE  ChunksFilled' /\ holes' = holes
<1>1. CASE call[p].op = "read" /\ read(p)
  BY <1>1, ReadFills
<1>2. CASE call[p].op = "write" /\ write(p)
  BY <1>2, WriteFills DEF write
<1>3. CASE flush(p)
  BY <1>3, FlushFills DEF flush
<1>4. CASE ftruncate(p, call[p].end)
  <2>1. call[p].end \in Nat
    BY CallShape DEF TypeOK
  <2>2. holes' = holes
    BY <1>4 DEF ftruncate, ftruncate_up, ftruncate_to_zero, ftruncate_down, retarget, run_extender
  <2> QED  BY <1>4, <2>1, <2>2, TruncateFills
<1> QED  BY <1>1, <1>2, <1>3, <1>4 DEF Do

(* The steps of the extender thread fill one chunk after another.          *)
LEMMA ExtenderFills ==
  ASSUME ExtenderAssumption, TypeOK, isnew, ChunksFilled, Extender
  PROVE  ChunksFilled'
<1>1. /\ ofile \in File /\ ofile.currentsize \in Nat
      /\ extender \in ExtenderRecord /\ extender.extendedto \in Nat /\ extender.extendto \in Nat
  BY DEF TypeOK, File, ExtenderRecord
<1>2. CASE extender_starts \/ extender_wakes \/ extender_yielded
  BY <1>2 DEF extender_starts, extender_wakes, extender_yielded, ChunksFilled, Working, Whole
<1>3. CASE extender_stops
  <2>1. Whole
    BY <1>1, <1>3 DEF extender_stops, ChunksFilled, Working, Whole, Chunks
  <2> QED  BY <1>3, <2>1 DEF extender_stops, ChunksFilled, Working, Whole
<1>4. CASE fillzero
  <2> DEFINE e == extender.extendedto
  <2>1. thread = "loop" /\ ~extender.kill /\ e < extender.extendto /\ ofile.currentsize = extender.extendto
    BY <1>4 DEF fillzero, Extending, ChunksFilled, Working
  <2>2. ofile' = WithGap(ofile, e, e + 1) /\ thread' = "filled"
        /\ extender' = [extender EXCEPT !.extendedto = @ + 1, !.finalizelog = TRUE]
    BY <1>4 DEF fillzero
  <2>3. /\ ofile'.currentsize = Larger(ofile.currentsize, e + 1)
        /\ ofile.filled \subseteq ofile'.filled /\ e \in ofile'.filled
    <3>1. e + 1 \in Nat /\ e <= e + 1 /\ e <= e /\ e < e + 1
      BY <1>1
    <3> QED  BY <1>1, <2>2, <3>1, WithGapCorrect
  <2>4. ofile'.currentsize = ofile.currentsize
    BY <1>1, <2>1, <2>3 DEF Larger
  <2>5. /\ extender'.extendedto = e + 1 /\ extender'.extendto = extender.extendto
        /\ extender'.error = extender.error /\ extender'.ready = extender.ready
        /\ extender'.kill = extender.kill
    BY <1>1, <2>2 DEF ExtenderRecord
  <2>6. \A i \in Nat : (i < ofile.currentsize /\ i < e + 1) => i \in ofile'.filled
    BY <1>1, <2>1, <2>3 DEF ChunksFilled, Working
  <2> QED  BY <1>1, <2>1, <2>2, <2>4, <2>5, <2>6 DEF ChunksFilled, Working
<1>5. CASE fillzero_fails
  <2>1. thread = "loop" /\ ~extender.kill /\ extender.extendedto < ofile.currentsize
    BY <1>5 DEF fillzero_fails, Extending, ChunksFilled, Working
  <2>2. ofile'.currentsize = extender.extendedto /\ ofile'.filled = ofile.filled
    BY <1>1, <1>5 DEF fillzero_fails, File
  <2>3. Whole'
    BY <1>1, <2>1, <2>2 DEF ChunksFilled, Working, Whole, Chunks
  <2> QED  BY <1>5, <2>3 DEF fillzero_fails, ChunksFilled, Working
<1>6. CASE extender_checks_log
  <2>1. thread = "check"
    BY <1>6 DEF extender_checks_log
  <2>2. CASE UNCHANGED <<ofile, extender>> /\ thread' = "loop"
    BY <2>1, <2>2 DEF ChunksFilled, Working, Whole
  <2>3. CASE finalize_log(ofile) /\ thread' = "loop" /\ UNCHANGED <<extender>>
    <3>1. ofile'.currentsize = ofile.currentsize /\ ofile'.filled = ofile.filled
      BY <1>1, <2>3, FinalizeKeeps
    <3> QED  BY <2>1, <2>3, <3>1 DEF ChunksFilled, Working
  <2>4. CASE /\ FinalizeAssert(ofile) = "no"
             /\ ofile' = [ofile EXCEPT !.currentsize = extender.extendedto]
             /\ thread' = "finish"
    <3>1. ofile.currentsize = extender.extendto
      BY <2>1, <2>4 DEF FinalizeAssert, Active
    <3>2. extender.extendedto <= ofile.currentsize
      BY <1>1, <2>1, <3>1 DEF ChunksFilled, Working
    <3>3. ofile'.currentsize = extender.extendedto /\ ofile'.filled = ofile.filled
      BY <1>1, <2>4 DEF File
    <3>4. Whole'
      BY <1>1, <2>1, <3>2, <3>3 DEF ChunksFilled, Working, Whole, Chunks
    <3> QED  BY <2>4, <3>4 DEF ChunksFilled, Working
  <2> QED  BY <1>6, <2>2, <2>3, <2>4 DEF extender_checks_log
<1>7. CASE extender_finishes
  <2>1. Whole' /\ extender'.ready
    BY <1>1, <1>7 DEF extender_finishes, ChunksFilled, Whole, ExtenderRecord, Chunks
  <2> QED  BY <1>7, <2>1 DEF extender_finishes, ChunksFilled, Working
<1>8. CASE extender_drains
  BY <1>8 DEF extender_drains, ChunksFilled, Whole, Working, Chunks
<1>9. CASE fillzero_downloads
  BY <1>9 DEF fillzero_downloads
<1> QED  BY <1>2, <1>3, <1>4, <1>5, <1>6, <1>7, <1>8, <1>9 DEF Extender

-----------------------------------------------------------------------------
(* The inductive invariant: the types, the file's chunks and the reads.      *)

(* The inductive invariant holds at the start                              *)
LEMMA InitIInv == ASSUME ExtenderAssumption, Init PROVE IInv
<1>1. FilledInv
  BY DEF Init, FilledInv, ChunksFilled, Whole, Working, Chunks, Emptied
<1>2. ReadsAreFilled
  BY DEF Init, ReadsAreFilled
<1> QED  BY <1>1, <1>2, InitTypes DEF IInv

(* and after every step.                                                   *)
LEMMA IInvStep == ASSUME ExtenderAssumption, IInv, [Next]_vars PROVE IInv'
<1>1. CASE UNCHANGED vars
  BY <1>1 DEF vars, callVars, IInv, TypeOK, FilledInv, ChunksFilled, Whole, Working, Running, Chunks,
              ReadsAreFilled, Active
<1>2. ASSUME NEW p \in Callers, NEW c \in Calls, begin(p, c) PROVE FilledInv' /\ ReadsAreFilled'
  BY <1>2 DEF begin, IInv, FilledInv, ChunksFilled, Whole, Working, Running, Chunks, ReadsAreFilled
<1>3. ASSUME NEW p \in Callers, ~Locked, Running, ~MustWait(call[p]), Do(p), isnew' = isnew
      PROVE  FilledInv' /\ ReadsAreFilled'
  <2>1. ~misled' => ~misled
    BY <1>3 DEF Do, read, write, flush, ftruncate, ftruncate_up, ftruncate_to_zero, ftruncate_down,
                retarget, run_extender
  <2>2. ASSUME isnew, Running', ~misled' PROVE ChunksFilled' /\ holes' = holes
    BY <1>3, <2>1, <2>2, DoFills DEF IInv, FilledInv
  <2>3. CASE isnew /\ Running'
    BY <1>3, <2>1, <2>2, <2>3 DEF IInv, FilledInv, ReadsAreFilled
  <2>4. CASE ~(isnew /\ Running')
    <3>1. holes' = holes
      BY <1>3, <2>4 DEF Do, read, write, flush, ftruncate, ftruncate_up, ftruncate_to_zero,
                        ftruncate_down, retarget, run_extender, Running
    <3>2. FilledInv'
      BY <1>3, <2>4 DEF FilledInv
    <3> QED  BY <2>1, <3>1, <3>2 DEF IInv, ReadsAreFilled
  <2> QED  BY <2>3, <2>4
<1>4. ASSUME NEW p \in Callers, proceed(p) PROVE FilledInv' /\ ReadsAreFilled'
  <2>1. CASE MustWait(call[p])
    BY <1>4, <2>1 DEF proceed, IInv, FilledInv, ChunksFilled, Whole, Working, Running, Chunks, ReadsAreFilled
  <2>2. CASE ~MustWait(call[p])
    BY <1>3, <1>4, <2>2 DEF proceed
  <2> QED  BY <2>1, <2>2
<1>5. ASSUME NEW p \in Callers, extender_gone(p) PROVE FilledInv' /\ ReadsAreFilled'
  <2>1. ~Locked /\ Running /\ ~MustWait(call[p]) /\ isnew' = isnew
    BY <1>5 DEF extender_gone, Locked, Active, MustWait
  <2>2. CASE Do(p)
    BY <1>3, <2>1, <2>2
  <2>3. CASE UNCHANGED <<ofile, extender, thread, aborted, misled, holes>>
    BY <2>1, <2>3 DEF IInv, FilledInv, ChunksFilled, Whole, Working, Running, Chunks, ReadsAreFilled
  <2> QED  BY <1>5, <2>2, <2>3 DEF extender_gone
<1>6. ASSUME Extender PROVE FilledInv' /\ ReadsAreFilled'
  <2>1. Running /\ isnew' = isnew /\ misled' = misled /\ holes' = holes
    BY <1>6 DEF Extender, extender_starts, extender_stops, fillzero, fillzero_fails, fillzero_downloads,
                extender_wakes, extender_yielded, extender_checks_log, extender_finishes,
                extender_drains, Extending
  <2>2. ASSUME isnew, ~misled PROVE ChunksFilled'
    BY <1>6, <2>1, <2>2, ExtenderFills DEF IInv, FilledInv
  <2> QED  BY <2>1, <2>2 DEF IInv, FilledInv, ReadsAreFilled
<1>7. ASSUME Next PROVE FilledInv' /\ ReadsAreFilled'
  BY <1>2, <1>4, <1>5, <1>6, <1>7 DEF Next
<1> QED  BY <1>1, <1>7, TypeStep DEF IInv

(* IInv holds in every state of the extender and its callers.                *)
THEOREM ExtenderInvariant == ASSUME ExtenderAssumption PROVE Spec => []IInv
<1>1. Init => IInv
  BY InitIInv
<1>2. IInv /\ [Next]_vars => IInv'
  BY IInvStep
<1> QED  BY <1>1, <1>2, PTL DEF Spec

(* The extender's record, the file and the callers keep their types; who    *)
(* waits is counted, and has an extender to wait for: the thread frees it    *)
(* only when nobody is left (psync_fs_extender_thread).                      *)
THEOREM ExtenderTypes == ASSUME ExtenderAssumption PROVE Spec => []TypeOK
<1>1. IInv => TypeOK
  BY DEF IInv
<1> QED  BY <1>1, ExtenderInvariant, PTL

(* When the extender has gone every chunk below the size has been written,  *)
(* however often its target moved, whether it was killed or failed           *)
(* (psync_fs_extender_thread, psync_fs_crypto_ftruncate).                     *)
THEOREM NoHolesLeft == ASSUME ExtenderAssumption PROVE Spec => []NoHoles
<1>1. IInv => NoHoles
  BY DEF IInv, FilledInv, ChunksFilled, NoHoles, Active, Whole
<1> QED  BY <1>1, ExtenderInvariant, PTL

(* A read never comes to a chunk that is not there: it waited until the      *)
(* extender had passed it (psync_fs_crypto_read_newfile_locked).             *)
THEOREM ReadsFilled == ASSUME ExtenderAssumption PROVE Spec => []ReadsAreFilled
<1>1. IInv => ReadsAreFilled
  BY DEF IInv
<1> QED  BY <1>1, ExtenderInvariant, PTL
=============================================================================
