--------------------------- MODULE SqlLockProofs ---------------------------
(***************************************************************************)
(* The accounting of the database lock agrees with the lock, readers see   *)
(* whole transactions and callbacks learn the truth, for any number of     *)
(* threads, nested calls and transactions.                                 *)
(***************************************************************************)
EXTENDS SqlLock, FiniteSetTheorems, TLAPS

Frames == {"rd", "wr", "begin", "tr", "auto", "abort"}
Trans == {"begin", "tr", "auto", "abort"}

(* The read locks among the calls s to undo, by their height in the pile.  *)
ReadFrames(s) == {k \in 1 .. Len(s) : s[Len(s) + 1 - k] = "rd"}
Reading(s) == Cardinality(ReadFrames(s))

Leaks(t) == IF t \in leaked THEN 1 ELSE 0
Upper(s) == s[1]
Bottom(s) == s[Len(s)]
AllRead(s) == \A i \in 1 .. Len(s) : s[i] = "rd"

(* The shapes of the variables; the bounds of TypeOK follow from the rest.  *)
Shapes ==
  /\ rd \in [Threads -> Int] /\ wr \in [Threads -> Int]
  /\ upgrader \in Threads \union {NoThread}
  /\ at \in [Threads -> {"run", "record", "upgraded", "leave"}]
  /\ frames \in [Threads -> Seq(Frames)]
  /\ sqllockcnt \in Int /\ wrlocker \in Threads \union {NoThread}
  /\ sqlrdlockcnt \in [Threads -> Nat] /\ rdlock \in [Threads -> BOOLEAN]
  /\ leaked \subseteq Threads

(* The situations a thread can be in.  It has nothing;                     *)
Free(t) ==
  /\ at[t] = "run" /\ upgrader # t /\ Len(frames[t]) = 0 /\ t \notin leaked
  /\ rd[t] = 0 /\ wr[t] = 0 /\ sqlrdlockcnt[t] = 0

(* it reads;                                                               *)
Reader(t) ==
  /\ at[t] = "run" /\ Len(frames[t]) > 0 /\ AllRead(frames[t]) /\ t \notin leaked
  /\ rd[t] = Len(frames[t]) /\ wr[t] = 0 /\ sqlrdlockcnt[t] = Len(frames[t])
  /\ upgrader = t => Len(frames[t]) = 1

(* it has become the writer, by a write lock or by an upgrade, and is not  *)
(* recorded yet;                                                           *)
Recording(t) ==
  /\ at[t] = "record" /\ upgrader # t /\ t \notin leaked
  /\ Len(frames[t]) = 1 /\ Upper(frames[t]) \in {"wr", "begin"}
  /\ rd[t] = 0 /\ wr[t] = 1 /\ sqlrdlockcnt[t] = 0

Upgrade(t) ==
  /\ at[t] = "upgraded" /\ upgrader # t /\ t \notin leaked
  /\ Len(frames[t]) = 1 /\ Upper(frames[t]) = "rd"
  /\ rd[t] = 0 /\ wr[t] = 1 /\ sqlrdlockcnt[t] = 1

(* it is the recorded writer: its locks are its frames and a leaked one.   *)
(* Only frames that read are counted as read locks; the first of them was  *)
(* upgraded if nothing else makes the thread the writer;                   *)
Writer(t) ==
  /\ at[t] = "run" /\ upgrader # t /\ wrlocker = t
  /\ rd[t] = 0 /\ wr[t] > 0 /\ wr[t] = Len(frames[t]) + Leaks(t)
  /\ wr[t] = sqllockcnt + sqlrdlockcnt[t]
  /\ sqlrdlockcnt[t] <= Reading(frames[t])
  /\ (t \notin leaked /\ Bottom(frames[t]) = "rd")
        => sqlrdlockcnt[t] < Reading(frames[t])

(* or it is not recorded any more and still has the lock.                  *)
Leaving(t) ==
  /\ at[t] = "leave" /\ upgrader # t /\ Len(frames[t]) = 0 /\ t \notin leaked
  /\ rd[t] = 0 /\ wr[t] = 1 /\ sqlrdlockcnt[t] = 0

Situated(t) ==
  Free(t) \/ Reader(t) \/ Recording(t) \/ Upgrade(t) \/ Writer(t) \/ Leaving(t)

Bounded(t) ==
  /\ Len(frames[t]) <= MaxNested
  /\ rdlock[t] <=> sqlrdlockcnt[t] > 0

OneWriter ==
  \A t, u \in Threads : t # u /\ wr[t] > 0 => wr[u] = 0 /\ rd[u] = 0

WriterRecorded ==
  IF wrlocker = NoThread THEN sqllockcnt = 0 ELSE Writer(wrlocker)

LockInv ==
  /\ \A t \in Threads : Situated(t) /\ Bounded(t)
  /\ OneWriter /\ WriterRecorded

(* A thread has at most one transaction begun, on top of the pile while    *)
(* BEGIN has not run, and there is one exactly when in_transaction says so. *)
(* A BEGIN that failed and was ignored counts as one begun.                *)
HasTr(s) == \E i \in 1 .. Len(s) : s[i] = "tr"
HasBegin(s) == \E i \in 1 .. Len(s) : s[i] = "begin"
OneTran(s) ==
  \A i, j \in 1 .. Len(s) : s[i] \in Trans /\ s[j] \in Trans => i = j
HasAuto(s) == \E i \in 1 .. Len(s) : s[i] \in {"auto", "abort"}

TranInv ==
  /\ \A t \in Threads :
       /\ OneTran(frames[t])
       /\ HasBegin(frames[t]) => Upper(frames[t]) = "begin" /\ value < MaxValue
  /\ in_transaction <=> \E t \in Threads : HasTr(frames[t])

(* What is in the tables while a transaction runs and when none does.      *)
DataInv ==
  /\ (\A t \in Threads : ~HasAuto(frames[t])) => committed["a"] = committed["b"]
  /\ ~in_transaction =>
       /\ tables = committed /\ committed["a"] <= value
       /\ \A o \in outcomes : o[1] <= value
  /\ in_transaction =>
       /\ committed["a"] < value /\ tran_callbacks \subseteq {value}
       /\ \A o \in outcomes : o[1] < value
       /\ \A r \in Rows : IF r \in tried THEN tables[r] = value \/ transaction_failed
                                         ELSE tables[r] = committed[r]

TranShapes ==
  /\ in_transaction \in BOOLEAN /\ transaction_failed \in BOOLEAN
  /\ tran_callbacks \subseteq Values
  /\ tables \in [Rows -> Values] /\ committed \in [Rows -> Values] /\ value \in Values
  /\ tried \subseteq Rows /\ outcomes \subseteq (Values \X BOOLEAN)

(* The inductive invariant.  What it says of the data needs transactions   *)
(* whose statements all go through psync_sql_run.                          *)
Data == ExecInTransaction \/ DataInv
IInv == Shapes /\ LockInv /\ TranShapes /\ TranInv /\ Data

-----------------------------------------------------------------------------
(* Piles of calls.                                                         *)
One(b) == IF b THEN 1 ELSE 0
Onto(f, s) == <<f>> \o s
Above(p, s) == \A i \in 2 .. Len(p) : p[i] = s[i - 1]

(* What is to know of a pile p that is s with the call f on top.           *)
Piled(p, f, s) ==
  /\ p \in Seq(Frames) /\ Len(p) = Len(s) + 1 /\ Upper(p) = f /\ Above(p, s)
  /\ Len(s) = 0 => Bottom(p) = f
  /\ Len(s) > 0 => Bottom(p) = Bottom(s)
  /\ AllRead(p) <=> f = "rd" /\ AllRead(s)
  /\ Reading(p) = Reading(s) + One(f = "rd")

(* The read locks in a pile are as many as its calls only if all are reads. *)
LEMMA ReadingFacts ==
  ASSUME NEW s \in Seq(Frames)
  PROVE  /\ IsFiniteSet(ReadFrames(s))
         /\ Reading(s) \in Nat /\ Reading(s) <= Len(s)
         /\ Reading(s) = Len(s) <=> AllRead(s)
         /\ Len(s) > 0 /\ Bottom(s) = "rd" => Reading(s) > 0
         /\ AllRead(s) /\ Len(s) > 0 => Upper(s) = "rd" /\ Bottom(s) = "rd"
<1>1. Len(s) \in Nat /\ IsFiniteSet(1 .. Len(s)) /\ Cardinality(1 .. Len(s)) = Len(s)
  <2>1. Len(s) \in Nat
    OBVIOUS
  <2>2. /\ IsFiniteSet(1 .. Len(s))
        /\ Cardinality(1 .. Len(s)) = IF 1 > Len(s) THEN 0 ELSE Len(s) - 1 + 1
    BY <2>1, FS_Interval, SMTT(30)
  <2> QED BY <2>1, <2>2
<1>2. /\ IsFiniteSet(ReadFrames(s)) /\ Cardinality(ReadFrames(s)) <= Len(s)
      /\ Cardinality(ReadFrames(s)) = Len(s) => ReadFrames(s) = 1 .. Len(s)
  BY <1>1, FS_Subset DEF ReadFrames
<1>3. Reading(s) \in Nat
  BY <1>2, FS_CardinalityType DEF Reading
<1>4. ASSUME ReadFrames(s) = 1 .. Len(s), NEW i \in 1 .. Len(s)
      PROVE  s[i] = "rd"
  <2>1. Len(s) + 1 - i \in 1 .. Len(s)
    BY <1>1
  <2>2. s[Len(s) + 1 - (Len(s) + 1 - i)] = "rd"
    BY <2>1, <1>4 DEF ReadFrames
  <2>3. Len(s) + 1 - (Len(s) + 1 - i) = i
    BY <1>1
  <2> QED BY <2>2, <2>3
<1>5. ASSUME AllRead(s)
      PROVE  ReadFrames(s) = 1 .. Len(s)
  <2>1. \A k \in 1 .. Len(s) : Len(s) + 1 - k \in 1 .. Len(s)
    BY <1>1
  <2> QED BY <2>1, <1>5 DEF AllRead, ReadFrames
<1>6. ASSUME Len(s) > 0, Bottom(s) = "rd"
      PROVE  Reading(s) # 0
  <2>1. 1 \in 1 .. Len(s) /\ Len(s) + 1 - 1 = Len(s)
    BY <1>1, <1>6
  <2>2. 1 \in ReadFrames(s)
    BY <2>1, <1>6 DEF ReadFrames, Bottom
  <2> QED BY <2>2, <1>2, FS_EmptySet DEF Reading
<1>7. AllRead(s) /\ Len(s) > 0 => Upper(s) = "rd" /\ Bottom(s) = "rd"
  BY <1>1 DEF AllRead, Upper, Bottom
<1> QED BY <1>1, <1>2, <1>3, <1>4, <1>5, <1>6, <1>7 DEF Reading, AllRead

(* One more call on the pile,                                              *)
LEMMA Pushed ==
  ASSUME NEW s \in Seq(Frames), NEW f \in Frames, NEW p, p = Onto(f, s)
  PROVE  Piled(p, f, s)
<1>1. p \in Seq(Frames) /\ Len(s) \in Nat /\ Len(p) = Len(s) + 1 /\ p[1] = f
  BY DEF Onto
<1>2. \A i \in 2 .. Len(p) : p[i] = s[i - 1]
  <2>1. \A i \in 2 .. Len(s) + 1 : (<<f>> \o s)[i] = s[i - 1]
    OBVIOUS
  <2> QED BY <2>1, <1>1 DEF Onto
<1>4. (Len(s) = 0 => Bottom(p) = f) /\ (Len(s) > 0 => Bottom(p) = Bottom(s))
  BY <1>1, <1>2 DEF Bottom
<1>5. AllRead(p) <=> f = "rd" /\ AllRead(s)
  <2>1. ASSUME AllRead(p), NEW i \in 1 .. Len(s)
        PROVE  s[i] = "rd"
    <3>1. i + 1 \in 2 .. Len(p) /\ i + 1 \in 1 .. Len(p) /\ (i + 1) - 1 = i
      BY <1>1
    <3> QED BY <3>1, <2>1, <1>2 DEF AllRead
  <2>2. AllRead(p) => f = "rd"
    BY <1>1 DEF AllRead
  <2>3. ASSUME f = "rd", AllRead(s), NEW i \in 1 .. Len(p)
        PROVE  p[i] = "rd"
    BY <2>3, <1>1, <1>2 DEF AllRead
  <2> QED BY <2>1, <2>2, <2>3 DEF AllRead
<1>6. Reading(p) = Reading(s) + One(f = "rd")
  <2>1. ASSUME NEW k \in 1 .. Len(s)
        PROVE  p[Len(p) + 1 - k] = s[Len(s) + 1 - k]
    <3>1. Len(p) + 1 - k \in 2 .. Len(p) /\ Len(p) + 1 - k - 1 = Len(s) + 1 - k
      BY <1>1
    <3> QED BY <3>1, <1>2
  <2>2. p[Len(p) + 1 - Len(p)] = f
    BY <1>1
  <2>3. ReadFrames(p) = IF f = "rd" THEN ReadFrames(s) \union {Len(p)} ELSE ReadFrames(s)
    BY <2>1, <2>2, <1>1, SMTT(30) DEF ReadFrames
  <2>4. Len(p) \notin ReadFrames(s)
    BY <1>1 DEF ReadFrames
  <2>5. IsFiniteSet(ReadFrames(s)) /\ Reading(s) \in Nat
    BY ReadingFacts
  <2>6. Cardinality(ReadFrames(s) \union {Len(p)}) = Cardinality(ReadFrames(s)) + 1
    BY <2>4, <2>5, FS_AddElement
  <2> QED BY <2>3, <2>5, <2>6 DEF Reading, One
<1> QED BY <1>1, <1>2, <1>4, <1>5, <1>6 DEF Above, Upper, Piled

(* one less,                                                               *)
LEMMA Popped ==
  ASSUME NEW s \in Seq(Frames), Len(s) > 0, NEW q, q = Tail(s)
  PROVE  q \in Seq(Frames) /\ Upper(s) \in Frames /\ Piled(s, Upper(s), q)
<1>1. Upper(s) \in Frames /\ q \in Seq(Frames) /\ s = Onto(Upper(s), q)
  BY DEF Upper, Onto
<1> QED BY <1>1, Pushed

(* If only the call on top of a pile is no read, the one at the bottom is. *)
LEMMA ReadsBelow ==
  ASSUME NEW s \in Seq(Frames), Len(s) > 1, Upper(s) # "rd", Reading(s) = Len(s) - 1
  PROVE  Bottom(s) = "rd"
<1>1. Len(s) > 0
  OBVIOUS
<1>2. PICK q \in Seq(Frames) : Piled(s, Upper(s), q)
  BY <1>1, Popped
<1>3. Len(q) \in Nat /\ Len(q) = Len(s) - 1 /\ Reading(q) = Reading(s) /\ Bottom(q) = Bottom(s)
  <2>1. Len(q) \in Nat /\ Reading(q) \in Nat
    BY <1>2, ReadingFacts
  <2>2. Len(s) = Len(q) + 1 /\ (Len(q) > 0 => Bottom(s) = Bottom(q)) /\ Reading(s) = Reading(q) + 0
    BY <1>2 DEF Piled, One
  <2> QED BY <2>1, <2>2
<1>4. AllRead(q)
  BY <1>2, <1>3, ReadingFacts
<1> QED BY <1>2, <1>3, <1>4, ReadingFacts

(* and a BEGIN that succeeded or failed, or the assertion that ends it.    *)
LEMMA Begun ==
  ASSUME NEW s \in Seq(Frames), Len(s) > 0, Upper(s) \in {"begin", "auto"},
         NEW g \in {"tr", "auto", "abort"}, NEW b, b = [s EXCEPT ![1] = g]
  PROVE  /\ b \in Seq(Frames) /\ Len(b) = Len(s) /\ Upper(b) = g
         /\ \A i \in 2 .. Len(s) : b[i] = s[i]
         /\ Reading(b) = Reading(s)
         /\ Len(s) = 1 => Bottom(b) = g
         /\ Len(s) > 1 => Bottom(b) = Bottom(s)
<1>1. b \in Seq(Frames) /\ Len(b) = Len(s) /\ Len(s) \in Nat /\ Len(s) > 0 /\ b[1] = g
  BY DEF Frames
<1>2. \A i \in 2 .. Len(s) : b[i] = s[i]
  OBVIOUS
<1>3. \A i \in 1 .. Len(s) : b[i] = "rd" <=> s[i] = "rd"
  BY <1>1, <1>2 DEF Upper
<1>4. \A k \in 1 .. Len(s) : Len(s) + 1 - k \in 1 .. Len(s)
  BY <1>1
<1>5. ReadFrames(b) = ReadFrames(s)
  BY <1>1, <1>3, <1>4 DEF ReadFrames
<1>6. (Len(s) = 1 => Bottom(b) = g) /\ (Len(s) > 1 => Bottom(b) = Bottom(s))
  BY <1>1, <1>2 DEF Bottom
<1> QED BY <1>1, <1>2, <1>5, <1>6 DEF Reading, Upper

-----------------------------------------------------------------------------
(* The steps of the lock.                                                  *)
OthersSame(t) ==
  \A u \in Threads \ {t} :
    /\ at'[u] = at[u] /\ frames'[u] = frames[u] /\ rd'[u] = rd[u] /\ wr'[u] = wr[u]
    /\ sqlrdlockcnt'[u] = sqlrdlockcnt[u] /\ rdlock'[u] = rdlock[u]
    /\ upgrader' = u <=> upgrader = u
    /\ u \in leaked' <=> u \in leaked

RecordSame == sqllockcnt' = sqllockcnt /\ wrlocker' = wrlocker

(* What the provers need of a stack of calls: its length, its top and its  *)
(* bottom.                                                                 *)
LEMMA FrameFacts ==
  ASSUME Shapes, NEW t \in Threads
  PROVE  /\ frames[t] \in Seq(Frames) /\ Len(frames[t]) \in Nat
         /\ Reading(frames[t]) \in Nat /\ Reading(frames[t]) <= Len(frames[t])
         /\ Reading(frames[t]) = Len(frames[t]) <=> AllRead(frames[t])
         /\ Len(frames[t]) > 0 /\ Bottom(frames[t]) = "rd" => Reading(frames[t]) > 0
         /\ Len(frames[t]) = 0 => Top(t) = "none"
         /\ Len(frames[t]) > 0 => Top(t) = Upper(frames[t]) /\ Upper(frames[t]) \in Frames
         /\ AllRead(frames[t]) /\ Len(frames[t]) > 0
              => Upper(frames[t]) = "rd" /\ Bottom(frames[t]) = "rd"
         /\ Len(frames[t]) = 1 => Bottom(frames[t]) = Upper(frames[t])
         /\ rd[t] \in Int /\ wr[t] \in Int /\ sqlrdlockcnt[t] \in Nat /\ sqllockcnt \in Int
<1>1. frames[t] \in Seq(Frames)
  BY DEF Shapes
<1>2. Len(frames[t]) \in Nat
  BY <1>1
<1>3. /\ Len(frames[t]) = 0 => frames[t] = <<>>
      /\ Len(frames[t]) > 0 => frames[t] # <<>> /\ frames[t][1] \in Frames /\ Head(frames[t]) = frames[t][1]
  BY <1>1
<1>4. rd[t] \in Int /\ wr[t] \in Int /\ sqlrdlockcnt[t] \in Nat /\ sqllockcnt \in Int
  BY DEF Shapes
<1> QED BY <1>1, <1>2, <1>3, <1>4, ReadingFacts DEF Top, Upper, Bottom

(* A thread that does nothing stays as it is, and so does a writer whose   *)
(* record nobody changes: only the writer does.                            *)
LEMMA OthersKeep ==
  ASSUME SqlAssumption, Shapes, LockInv, NEW t \in Threads, OthersSame(t),
         RecordSame \/ wr[t] > 0, NEW u \in Threads \ {t}
  PROVE  Situated(u)' /\ Bounded(u)' /\ (RecordSame /\ Writer(u) => Writer(u)')
<1>1. Situated(u) /\ Bounded(u) /\ (wr[t] > 0 => wr[u] = 0)
  BY DEF LockInv, OneWriter
<1>2. Bounded(u)'
  BY <1>1 DEF Bounded, OthersSame
<1>3. Leaks(u)' = Leaks(u)
  BY DEF Leaks, OthersSame
<1>4. RecordSame /\ Writer(u) => Writer(u)'
  BY <1>3 DEF RecordSame, Writer, OthersSame
<1>5. Writer(u) => RecordSame
  BY <1>1, FrameFacts DEF Writer
<1>6. Free(u) => Free(u)'
  BY DEF Free, OthersSame
<1>7. Reader(u) => Reader(u)'
  BY DEF Reader, OthersSame
<1>8. (Recording(u) => Recording(u)') /\ (Upgrade(u) => Upgrade(u)')
  BY DEF Recording, Upgrade, OthersSame
<1>9. Leaving(u) => Leaving(u)'
  BY DEF Leaving, OthersSame
<1> QED BY <1>1, <1>2, <1>4, <1>5, <1>6, <1>7, <1>8, <1>9 DEF Situated

(* So a step of t keeps the invariant if it leaves t in one of the         *)
(* situations, gets it no lock that another thread excludes, and leaves    *)
(* the record right.                                                       *)
LEMMA LockStep ==
  ASSUME SqlAssumption, Shapes, LockInv, NEW t \in Threads, OthersSame(t),
         Situated(t)', Bounded(t)',
         rd'[t] \in Int, wr'[t] \in Int,
         \A u \in Threads \ {t} : /\ wr'[t] > 0 => wr[u] = 0 /\ rd[u] = 0
                                  /\ rd'[t] > 0 => wr[u] = 0,
         \/ RecordSame /\ (wrlocker = t => Writer(t)')
         \/ wr[t] > 0 /\ WriterRecorded'
  PROVE  LockInv'
<1>1. \A u \in Threads \ {t} : Situated(u)' /\ Bounded(u)' /\ (RecordSame /\ Writer(u) => Writer(u)')
  BY OthersKeep
<1>2. rd'[t] >= 0 /\ wr'[t] >= 0
  <2>1. Len(frames'[t]) \in Nat \/ rd'[t] = 0
    BY DEF Situated, Free, Reader, Recording, Upgrade, Writer, Leaving
  <2> QED BY <2>1 DEF Situated, Free, Reader, Recording, Upgrade, Writer, Leaving
<1>3. OneWriter'
  <2> SUFFICES ASSUME NEW x \in Threads, NEW y \in Threads, x # y, wr'[x] > 0
               PROVE  wr'[y] = 0 /\ rd'[y] = 0
    BY DEF OneWriter
  <2>1. CASE x = t
    BY <2>1 DEF OthersSame
  <2>2. CASE y = t
    <3>1. wr[x] > 0
      BY <2>2 DEF OthersSame
    <3>2. x \in Threads \ {t} /\ wr[x] # 0
      BY <3>1, <2>2
    <3> QED BY <3>2, <1>2, <2>2
  <2>3. CASE x # t /\ y # t
    BY <2>3 DEF OthersSame, LockInv, OneWriter
  <2> QED BY <2>1, <2>2, <2>3
<1>4. WriterRecorded'
  <2> SUFFICES ASSUME RecordSame, wrlocker = t => Writer(t)'
               PROVE  WriterRecorded'
    OBVIOUS
  <2>1. CASE wrlocker = NoThread
    BY <2>1 DEF RecordSame, WriterRecorded, LockInv
  <2>2. CASE wrlocker = t
    BY <2>2 DEF RecordSame, WriterRecorded, SqlAssumption
  <2>3. CASE wrlocker # t /\ wrlocker # NoThread
    <3>1. wrlocker \in Threads \ {t} /\ Writer(wrlocker)
      BY <2>3 DEF Shapes, LockInv, WriterRecorded
    <3>2. PICK u \in Threads \ {t} : u = wrlocker
      BY <3>1
    <3>3. Writer(u)'
      BY <3>1, <3>2, <1>1
    <3> QED BY <3>2, <3>3, <2>3 DEF RecordSame, WriterRecorded
  <2> QED BY <2>1, <2>2, <2>3
<1> QED BY <1>1, <1>3, <1>4 DEF LockInv

(* The recorded writer has a write lock on record; the last one on record  *)
(* is the last one it has.                                                 *)
LEMMA WriterCounts ==
  ASSUME Shapes, NEW t \in Threads, Writer(t)
  PROVE  /\ sqllockcnt > 0
         /\ Len(frames[t]) > 0 /\ sqllockcnt = 1
              /\ (Upper(frames[t]) # "rd" \/ sqlrdlockcnt[t] = 0)
              => Len(frames[t]) = 1 /\ t \notin leaked /\ sqlrdlockcnt[t] = 0
<1> DEFINE s == frames[t]
           n == Len(s)
           r == Reading(s)
<1>1. /\ n \in Nat /\ r \in Nat /\ r <= n /\ (r = n <=> AllRead(s))
      /\ AllRead(s) /\ n > 0 => Upper(s) = "rd" /\ Bottom(s) = "rd"
      /\ wr[t] \in Int /\ sqllockcnt \in Int /\ sqlrdlockcnt[t] \in Nat
  BY FrameFacts
<1>2. /\ wr[t] > 0 /\ wr[t] = n + Leaks(t) /\ wr[t] = sqllockcnt + sqlrdlockcnt[t]
      /\ sqlrdlockcnt[t] <= r
      /\ t \notin leaked /\ Bottom(s) = "rd" => sqlrdlockcnt[t] < r
  BY DEF Writer
<1>3. Leaks(t) = IF t \in leaked THEN 1 ELSE 0
  BY DEF Leaks
<1>4. n > 1 /\ Upper(s) # "rd" /\ r = n - 1 => Bottom(s) = "rd"
  BY FrameFacts, ReadsBelow
<1> HIDE DEF n, r, s
<1>5. sqllockcnt > 0
  BY <1>1, <1>2, <1>3
<1>6. ASSUME n > 0, sqllockcnt = 1, Upper(s) # "rd"
      PROVE  n = 1 /\ t \notin leaked /\ sqlrdlockcnt[t] = 0
  <2>1. r < n
    BY <1>1, <1>6
  <2>2. t \notin leaked /\ sqlrdlockcnt[t] = r /\ r = n - 1
    BY <2>1, <1>1, <1>2, <1>3, <1>6
  <2> QED BY <2>2, <1>1, <1>2, <1>4, <1>6
<1>7. ASSUME n > 0, sqllockcnt = 1, sqlrdlockcnt[t] = 0
      PROVE  n = 1 /\ t \notin leaked
  BY <1>7, <1>1, <1>2, <1>3
<1> QED BY <1>5, <1>6, <1>7 DEF n, s

(* Another write lock, or the first one.                                   *)
LEMMA TakeWriteStep ==
  ASSUME SqlAssumption, Shapes, LockInv, NEW t \in Threads, NEW f \in {"wr", "begin"},
         Push(t, f), TakeWrite(t)
  PROVE  Shapes' /\ LockInv'
<1> DEFINE s == frames[t]
           p == frames'[t]
<1>1. s \in Seq(Frames) /\ p = Onto(f, s) /\ f \in Frames
  BY DEF Push, Onto, Shapes, Frames
<1>2. p \in Seq(Frames) /\ Piled(p, f, s)
  <2>1. Piled(p, f, s)
    BY <1>1, Pushed
  <2> QED BY <2>1 DEF Piled
<1>3. Shapes'
  <2>1. frames' \in [Threads -> Seq(Frames)]
    BY <1>2 DEF Push, Shapes
  <2>2. /\ rd' = rd /\ upgrader' = upgrader /\ wrlocker' = wrlocker /\ sqlrdlockcnt' = sqlrdlockcnt
        /\ rdlock' = rdlock /\ leaked' = leaked
    BY DEF TakeWrite, tranVars
  <2>3. wr' \in [Threads -> Int] /\ sqllockcnt' \in Int
    BY SMTT(30) DEF Shapes, TakeWrite
  <2>4. at' \in [Threads -> {"run", "record", "upgraded", "leave"}]
    BY DEF Shapes, TakeWrite
  <2> QED BY <2>1, <2>2, <2>3, <2>4 DEF Shapes
<1>4. OthersSame(t)
  BY DEF OthersSame, Push, TakeWrite, tranVars, Shapes
<1>5. /\ Len(s) \in Nat /\ Reading(s) \in Nat /\ Len(p) = Len(s) + 1 /\ Upper(p) = f /\ f # "rd"
      /\ Reading(p) = Reading(s) /\ Len(p) <= MaxNested
      /\ (Len(s) = 0 => Bottom(p) = f) /\ (Len(s) > 0 => Bottom(p) = Bottom(s))
  BY <1>2, FrameFacts DEF Piled, Push, One, SqlAssumption
<1>6. /\ at[t] = "run" /\ upgrader # t /\ upgrader' = upgrader /\ rd[t] = 0 /\ rd'[t] = 0
      /\ sqlrdlockcnt' = sqlrdlockcnt /\ rdlock' = rdlock /\ leaked' = leaked /\ wrlocker' = wrlocker
      /\ wr'[t] = wr[t] + 1 /\ wr[t] \in Int /\ sqllockcnt \in Int
  BY DEF TakeWrite, Ready, Idle, Shapes, tranVars
<1>7. Bounded(t)'
  BY <1>5, <1>6 DEF LockInv, Bounded
<1>8. Free(t) \/ Writer(t)
  BY <1>5, <1>6 DEF LockInv, Situated, Reader, Recording, Upgrade, Leaving
<1>9. CASE Free(t)
  <2>1. /\ MayWrite(t) /\ at'[t] = "record" /\ RecordSame
    BY <1>9 DEF Free, TakeWrite, RecordSame, Shapes
  <2>2. Recording(t)'
    BY <2>1, <1>5, <1>6, <1>9 DEF Recording, Free
  <2>3. \A u \in Threads \ {t} : wr[u] = 0 /\ rd[u] = 0
    <3> SUFFICES ASSUME NEW u \in Threads \ {t} PROVE wr[u] = 0 /\ rd[u] = 0
      OBVIOUS
    <3>1. wr[u] = 0 /\ ~(rd[u] > 0)
      BY <2>1 DEF MayWrite, Others, Reads, SqlAssumption
    <3>2. rd[u] >= 0
      BY FrameFacts DEF LockInv, Situated, Free, Reader, Recording, Upgrade, Writer, Leaving
    <3> QED BY <3>1, <3>2, FrameFacts
  <2>4. wrlocker # t
    <3>1. ~Writer(t)
      BY <1>9 DEF Free, Writer
    <3> QED BY <3>1 DEF LockInv, WriterRecorded, SqlAssumption
  <2> QED BY <1>3, <1>4, <1>6, <1>7, <2>1, <2>2, <2>3, <2>4, LockStep DEF Situated
<1>10. CASE Writer(t)
  <2>1. wr[t] > 0 /\ sqllockcnt > 0 /\ wrlocker = t
    BY <1>10, WriterCounts DEF Writer
  <2>2. sqllockcnt' = sqllockcnt + 1 /\ at' = at
    BY <2>1 DEF TakeWrite
  <2>3. Writer(t)'
    <3>1. Leaks(t)' = Leaks(t) /\ Leaks(t) \in Int
      BY <1>6 DEF Leaks
    <3>2. at'[t] = "run" /\ upgrader' # t /\ wrlocker' = t /\ wr'[t] > 0
      BY <1>6, <2>1, <2>2
    <3>3. wr'[t] = Len(p) + Leaks(t)
      <4>1. wr[t] = Len(s) + Leaks(t)
        BY <1>10 DEF Writer
      <4> QED BY <4>1, <3>1, <1>5, <1>6
    <3>4. wr'[t] = sqllockcnt' + sqlrdlockcnt[t]
      BY <1>10, <1>6, <2>2, FrameFacts DEF Writer
    <3>5. /\ sqlrdlockcnt[t] <= Reading(p)
          /\ t \notin leaked /\ Bottom(p) = "rd" => sqlrdlockcnt[t] < Reading(p)
      BY <1>10, <1>5, <1>6 DEF Writer
    <3> QED BY <3>1, <3>2, <3>3, <3>4, <3>5, <1>6 DEF Writer
  <2>4. \A u \in Threads \ {t} : wr[u] = 0 /\ rd[u] = 0
    BY <2>1 DEF LockInv, OneWriter
  <2>5. WriterRecorded'
    BY <2>1, <2>3, <1>6 DEF WriterRecorded, SqlAssumption
  <2> QED BY <1>3, <1>4, <1>6, <1>7, <2>1, <2>3, <2>4, <2>5, LockStep DEF Situated
<1> QED BY <1>8, <1>9, <1>10

(* What a call on top of the pile leaves of the numbers, and its undoing.  *)
LEMMA PushFacts ==
  ASSUME Shapes, NEW t \in Threads, NEW f \in Frames, Push(t, f)
  PROVE  /\ frames' \in [Threads -> Seq(Frames)]
         /\ \A u \in Threads \ {t} : frames'[u] = frames[u]
         /\ Len(frames'[t]) = Len(frames[t]) + 1 /\ Len(frames[t]) < MaxNested
         /\ Upper(frames'[t]) = f
         /\ Reading(frames'[t]) = Reading(frames[t]) + One(f = "rd")
         /\ Len(frames[t]) = 0 => Bottom(frames'[t]) = f
         /\ Len(frames[t]) > 0 => Bottom(frames'[t]) = Bottom(frames[t])
         /\ AllRead(frames'[t]) <=> f = "rd" /\ AllRead(frames[t])
         /\ Piled(frames'[t], f, frames[t])
<1>1. frames[t] \in Seq(Frames) /\ frames'[t] = Onto(f, frames[t])
  BY DEF Push, Onto, Shapes
<1>2. Piled(frames'[t], f, frames[t])
  BY <1>1, Pushed
<1>3. frames' \in [Threads -> Seq(Frames)]
  BY <1>2 DEF Push, Shapes, Piled
<1>4. \A u \in Threads \ {t} : frames'[u] = frames[u]
  BY DEF Push, Shapes
<1>5. Len(frames[t]) < MaxNested
  BY DEF Push
<1> QED BY <1>2, <1>3, <1>4, <1>5 DEF Piled

(* A call is undone.                                                       *)
LEMMA PopFacts ==
  ASSUME Shapes, NEW t \in Threads, Len(frames[t]) > 0, Pop(t)
  PROVE  /\ frames' \in [Threads -> Seq(Frames)]
         /\ \A u \in Threads \ {t} : frames'[u] = frames[u]
         /\ Len(frames'[t]) = Len(frames[t]) - 1
         /\ Reading(frames'[t]) = Reading(frames[t]) - One(Upper(frames[t]) = "rd")
         /\ Reading(frames'[t]) \in Nat
         /\ Len(frames'[t]) > 0 => Bottom(frames'[t]) = Bottom(frames[t])
         /\ Len(frames'[t]) > 0 /\ Bottom(frames'[t]) = "rd" => Reading(frames'[t]) > 0
         /\ AllRead(frames[t]) <=> Upper(frames[t]) = "rd" /\ AllRead(frames'[t])
         /\ Piled(frames[t], Upper(frames[t]), frames'[t])
<1> DEFINE s == frames[t]
           q == frames'[t]
<1>1. s \in Seq(Frames) /\ q = Tail(s)
  BY DEF Pop, Shapes
<1>2. q \in Seq(Frames) /\ Piled(s, Upper(s), q)
  BY <1>1, Popped
<1>3. frames' \in [Threads -> Seq(Frames)] /\ \A u \in Threads \ {t} : frames'[u] = frames[u]
  BY <1>2 DEF Pop, Shapes
<1>4. Reading(s) \in Nat /\ Reading(q) \in Nat /\ (Len(q) > 0 /\ Bottom(q) = "rd" => Reading(q) > 0)
  BY <1>1, <1>2, ReadingFacts
<1>5. Len(q) \in Nat /\ Len(s) = Len(q) + 1
  BY <1>2 DEF Piled
<1>6. Reading(s) = Reading(q) + One(Upper(s) = "rd") /\ One(Upper(s) = "rd") \in Int
  BY <1>2 DEF Piled, One
<1>7. (Len(q) > 0 => Bottom(s) = Bottom(q)) /\ (AllRead(s) <=> Upper(s) = "rd" /\ AllRead(q))
  BY <1>2 DEF Piled
<1>8. Len(q) = Len(s) - 1
  BY <1>5
<1>9. Reading(q) = Reading(s) - One(Upper(s) = "rd")
  BY <1>4, <1>6
<1> QED BY <1>2, <1>3, <1>4, <1>7, <1>8, <1>9

(* Only the recorded writer, and it alone, has a lock then.                *)
LEMMA Alone ==
  ASSUME LockInv, NEW t \in Threads, wr[t] > 0
  PROVE  \A u \in Threads \ {t} : wr[u] = 0 /\ rd[u] = 0
BY DEF LockInv, OneWriter

(* Nobody has a write lock while a thread reads.                           *)
LEMMA ReaderExcludes ==
  ASSUME Shapes, LockInv, NEW t \in Threads, rd[t] > 0
  PROVE  \A u \in Threads \ {t} : wr[u] = 0
<1> SUFFICES ASSUME NEW u \in Threads \ {t} PROVE wr[u] = 0
  OBVIOUS
<1>1. wr[u] >= 0
  BY FrameFacts DEF LockInv, Situated, Free, Reader, Recording, Upgrade, Writer, Leaving
<1>2. rd[t] # 0
  BY FrameFacts
<1>3. ~(wr[u] > 0)
  BY <1>2 DEF LockInv, OneWriter
<1> QED BY <1>1, <1>3, FrameFacts

(* A thread that is not the recorded writer is not wrlocker.               *)
LEMMA NotRecorded ==
  ASSUME SqlAssumption, LockInv, NEW t \in Threads, ~Writer(t)
  PROVE  wrlocker # t
BY DEF LockInv, WriterRecorded, SqlAssumption

(* A writer records itself,                                                *)
LEMMA RecordStep ==
  ASSUME SqlAssumption, Shapes, LockInv, NEW t \in Threads, record_wrlock(t)
  PROVE  Shapes' /\ LockInv'
<1>1. Recording(t) /\ Bounded(t)
  BY DEF record_wrlock, LockInv, Situated, Free, Reader, Upgrade, Writer, Leaving
<1>2. /\ frames' = frames /\ rd' = rd /\ wr' = wr /\ upgrader' = upgrader /\ leaked' = leaked
      /\ sqlrdlockcnt' = sqlrdlockcnt /\ rdlock' = rdlock
      /\ at' = [at EXCEPT ![t] = "run"] /\ wrlocker' = t /\ sqllockcnt' = sqllockcnt + 1
  BY DEF record_wrlock, lockVars, tranVars
<1>3. Shapes' /\ OthersSame(t)
  BY <1>2 DEF Shapes, OthersSame
<1>4. sqllockcnt = 0
  <2>1. wrlocker = NoThread
    <3> SUFFICES ASSUME wrlocker # NoThread PROVE FALSE
      OBVIOUS
    <3>1. wrlocker \in Threads /\ Writer(wrlocker)
      BY DEF Shapes, LockInv, WriterRecorded
    <3>2. wrlocker # t
      BY <3>1, <1>1 DEF Recording, Writer
    <3> QED BY <3>1, <3>2, <1>1, Alone DEF Writer, Recording
  <2> QED BY <2>1 DEF LockInv, WriterRecorded
<1>5. Writer(t)'
  <2>1. /\ Len(frames[t]) = 1 /\ Upper(frames[t]) # "rd" /\ Bottom(frames[t]) # "rd"
        /\ wr[t] = 1 /\ rd[t] = 0 /\ sqlrdlockcnt[t] = 0 /\ t \notin leaked /\ upgrader # t
    BY <1>1, FrameFacts DEF Recording
  <2>2. Reading(frames[t]) \in Nat
    BY FrameFacts
  <2>3. at'[t] = "run"
    BY <1>2 DEF Shapes
  <2> QED BY <1>2, <1>4, <2>1, <2>2, <2>3 DEF Writer, Leaks
<1>6. WriterRecorded'
  BY <1>2, <1>5 DEF WriterRecorded, SqlAssumption
<1>7. Bounded(t)'
  BY <1>1, <1>2 DEF Bounded
<1>8. wr[t] > 0 /\ rd'[t] \in Int /\ wr'[t] \in Int
  BY <1>1, <1>2, FrameFacts DEF Recording
<1> QED BY <1>3, <1>5, <1>6, <1>7, <1>8, Alone, LockStep DEF Situated

(* takes its record back,                                                  *)
LEMMA LeaveStep ==
  ASSUME SqlAssumption, Shapes, LockInv, NEW t \in Threads, leave_wrlock(t)
  PROVE  Shapes' /\ LockInv'
<1>1. Leaving(t) /\ Bounded(t)
  BY DEF leave_wrlock, LockInv, Situated, Free, Reader, Upgrade, Writer, Recording
<1>2. /\ frames' = frames /\ rd' = rd /\ upgrader' = upgrader /\ leaked' = leaked
      /\ sqlrdlockcnt' = sqlrdlockcnt /\ rdlock' = rdlock /\ RecordSame
      /\ at' = [at EXCEPT ![t] = "run"] /\ wr' = [wr EXCEPT ![t] = @ - 1]
  BY DEF leave_wrlock, recordVars, tranVars, RecordSame
<1>3. Shapes' /\ OthersSame(t)
  BY <1>2, SMTT(30) DEF Shapes, OthersSame, RecordSame
<1>4. Free(t)'
  BY <1>1, <1>2 DEF Free, Leaving, Shapes
<1>5. Bounded(t)'
  BY <1>1, <1>2 DEF Bounded
<1>6. wrlocker # t
  BY <1>1, NotRecorded DEF Leaving, Writer
<1>7. rd'[t] = 0 /\ wr'[t] = 0
  BY <1>4 DEF Free
<1> QED BY <1>2, <1>3, <1>4, <1>5, <1>6, <1>7, LockStep DEF Situated

(* The writer gives back its last lock on record, or one of several.       *)
LEMMA UnlockStep ==
  ASSUME SqlAssumption, Shapes, LockInv, NEW t \in Threads, Writer(t), Len(frames[t]) > 0,
         Upper(frames[t]) # "rd" \/ sqlrdlockcnt[t] = 0,
         Pop(t), Unlock(t), leaked' = leaked
  PROVE  Shapes' /\ LockInv'
<1> DEFINE n == Len(frames[t])
           r == Reading(frames[t])
<1>1. /\ at[t] = "run" /\ upgrader # t /\ wrlocker = t /\ rd[t] = 0 /\ wr[t] > 0
      /\ wr[t] = n + Leaks(t) /\ wr[t] = sqllockcnt + sqlrdlockcnt[t] /\ sqlrdlockcnt[t] <= r
      /\ t \notin leaked /\ Bottom(frames[t]) = "rd" => sqlrdlockcnt[t] < r
  BY DEF Writer
<1>2. /\ rd' = rd /\ upgrader' = upgrader /\ sqlrdlockcnt' = sqlrdlockcnt /\ rdlock' = rdlock
      /\ sqllockcnt' = sqllockcnt - 1
  BY DEF Unlock
<1>3. /\ sqllockcnt > 0
      /\ sqllockcnt = 1 => n = 1 /\ t \notin leaked /\ sqlrdlockcnt[t] = 0
  BY WriterCounts
<1>4. /\ n \in Nat /\ r \in Nat /\ wr[t] \in Int /\ sqllockcnt \in Int /\ sqlrdlockcnt[t] \in Nat
      /\ Upper(frames[t]) = "rd" => r > 0
      /\ Leaks(t) = IF t \in leaked THEN 1 ELSE 0
  <2>1. Upper(frames[t]) = "rd" => r > 0
    <3>1. /\ Reading(frames'[t]) \in Nat /\ r \in Nat
          /\ Reading(frames'[t]) = r - One(Upper(frames[t]) = "rd")
      BY FrameFacts, PopFacts
    <3> QED BY <3>1 DEF One
  <2> QED BY <2>1, FrameFacts DEF Leaks
<1>5. Shapes' /\ OthersSame(t)
  <2>1. /\ frames' \in [Threads -> Seq(Frames)]
        /\ \A u \in Threads \ {t} : frames'[u] = frames[u]
    BY PopFacts
  <2>2. /\ wr' \in [Threads -> Int]
        /\ \A u \in Threads \ {t} : wr'[u] = wr[u]
    <3>1. wr' = wr \/ wr' = [wr EXCEPT ![t] = @ - 1]
      BY DEF Unlock
    <3>2. wr \in [Threads -> Int]
      BY DEF Shapes
    <3> QED BY <3>1, <3>2
  <2>3. /\ at' \in [Threads -> {"run", "record", "upgraded", "leave"}]
        /\ \A u \in Threads \ {t} : at'[u] = at[u]
    <3>1. at' = at \/ at' = [at EXCEPT ![t] = "leave"]
      BY DEF Unlock
    <3> QED BY <3>1 DEF Shapes
  <2>4. wrlocker' \in Threads \union {NoThread} /\ sqllockcnt' \in Int
    BY <1>2, <1>4 DEF Shapes, Unlock
  <2>5. Shapes'
    BY <1>2, <2>1, <2>2, <2>3, <2>4 DEF Shapes
  <2> QED BY <1>2, <2>1, <2>2, <2>3, <2>5 DEF OthersSame
<1>6. Bounded(t)'
  <2>1. Len(frames'[t]) <= MaxNested
    BY <1>4, PopFacts DEF LockInv, Bounded, SqlAssumption
  <2> QED BY <2>1, <1>2 DEF LockInv, Bounded
<1>7. \A u \in Threads \ {t} : wr[u] = 0 /\ rd[u] = 0
  BY <1>1, Alone
<1>8. CASE sqllockcnt = 1
  <2>1. wrlocker' = NoThread /\ at'[t] = "leave" /\ wr' = wr
    BY <1>8 DEF Unlock, Shapes
  <2>2. Len(frames'[t]) = 0 /\ wr[t] = 1
    BY <1>1, <1>3, <1>4, <1>8, PopFacts
  <2>3. Leaving(t)'
    BY <1>1, <1>2, <1>3, <1>8, <2>1, <2>2 DEF Leaving
  <2>4. WriterRecorded'
    BY <1>2, <1>8, <2>1 DEF WriterRecorded
  <2>5. wr'[t] \in Int /\ rd'[t] \in Int
    BY <1>5 DEF Shapes
  <2> QED BY <1>1, <1>5, <1>6, <1>7, <2>3, <2>4, <2>5, LockStep DEF Situated
<1>9. CASE sqllockcnt # 1
  <2>1. wrlocker' = wrlocker /\ at' = at /\ wr'[t] = wr[t] - 1
    BY <1>9 DEF Unlock, Shapes
  <2>2. /\ wr'[t] > 0 /\ wr'[t] = n - 1 + Leaks(t)
        /\ wr'[t] = sqllockcnt' + sqlrdlockcnt[t]
    <3>1. wr[t] = n + Leaks(t) /\ Leaks(t) \in Int /\ n \in Nat
      BY <1>1, <1>4
    <3>2. wr'[t] = n - 1 + Leaks(t)
      BY <2>1, <3>1
    <3>3. sqllockcnt > 1
      BY <1>3, <1>4, <1>9
    <3>4. wr'[t] = sqllockcnt' + sqlrdlockcnt[t]
      <4>1. wr[t] = sqllockcnt + sqlrdlockcnt[t] /\ sqllockcnt' = sqllockcnt - 1
        BY <1>1, <1>2
      <4> QED BY <4>1, <1>4, <2>1
    <3>5. sqlrdlockcnt[t] \in Nat /\ sqllockcnt' \in Int /\ sqllockcnt' > 0
      BY <1>2, <1>4, <3>3
    <3> QED BY <3>2, <3>4, <3>5
  <2>8. Len(frames'[t]) = n - 1
    BY PopFacts
  <2>3. sqlrdlockcnt[t] <= Reading(frames'[t])
    <3>1. Upper(frames[t]) # "rd" => Reading(frames'[t]) = r
      BY <1>4, PopFacts DEF One
    <3>2. Reading(frames'[t]) \in Nat
      BY PopFacts
    <3> QED BY <1>1, <1>4, <3>1, <3>2
  <2>4. ASSUME t \notin leaked, Bottom(frames'[t]) = "rd"
        PROVE  sqlrdlockcnt[t] < Reading(frames'[t])
    <3>1. Len(frames'[t]) > 0
      BY <1>4, <2>2, <2>4, <2>8
    <3>2. Bottom(frames[t]) = "rd" /\ Reading(frames'[t]) > 0 /\ Reading(frames'[t]) \in Nat
      BY <2>4, <3>1, PopFacts
    <3>3. Upper(frames[t]) # "rd" => Reading(frames'[t]) = r
      BY <1>4, PopFacts DEF One
    <3> QED BY <1>1, <1>4, <2>4, <3>2, <3>3
  <2>5. Writer(t)'
    <3>1. Leaks(t)' = Leaks(t)
      BY DEF Leaks
    <3> QED BY <1>1, <1>2, <2>1, <2>2, <2>3, <2>4, <2>8, <3>1 DEF Writer
  <2>6. WriterRecorded'
    BY <1>1, <2>1, <2>5 DEF WriterRecorded, SqlAssumption
  <2>7. wr'[t] \in Int /\ rd'[t] \in Int
    BY <1>5 DEF Shapes
  <2> QED BY <1>1, <1>5, <1>6, <1>7, <2>5, <2>6, <2>7, LockStep DEF Situated
<1> QED BY <1>8, <1>9

(* has begun a transaction, or has not, which it ignores until the         *)
(* assertion fails,                                                        *)
LEMMA BeginStep ==
  ASSUME SqlAssumption, Shapes, LockInv, NEW t \in Threads, NEW g \in {"tr", "auto", "abort"},
         Idle(t), Top(t) \in {"begin", "auto"}, frames' = [frames EXCEPT ![t][1] = g],
         UNCHANGED <<lockVars, recordVars, at, leaked>>
  PROVE  /\ Shapes' /\ LockInv' /\ Writer(t) /\ Len(frames[t]) > 0
         /\ Upper(frames[t]) = Top(t)
<1> DEFINE s == frames[t]
           b == frames'[t]
<1>1. Len(s) > 0 /\ Upper(s) = Top(t) /\ Upper(s) \in {"begin", "auto"} /\ at[t] = "run" /\ upgrader # t
  BY FrameFacts DEF Idle
<1>2. Writer(t) /\ Bounded(t)
  BY <1>1, FrameFacts DEF LockInv, Situated, Free, Reader, Recording, Upgrade, Leaving
<1>3. /\ rd' = rd /\ wr' = wr /\ upgrader' = upgrader /\ leaked' = leaked /\ at' = at
      /\ RecordSame /\ sqlrdlockcnt' = sqlrdlockcnt /\ rdlock' = rdlock
  BY DEF lockVars, recordVars, RecordSame
<1>4. s \in Seq(Frames) /\ b = [s EXCEPT ![1] = g]
  BY DEF Shapes
<1>5. /\ b \in Seq(Frames) /\ Len(b) = Len(s) /\ Reading(b) = Reading(s)
      /\ Len(s) = 1 => Bottom(b) = g
      /\ Len(s) > 1 => Bottom(b) = Bottom(s)
  BY <1>1, <1>4, Begun
<1>6. /\ frames' \in [Threads -> Seq(Frames)]
      /\ \A u \in Threads \ {t} : frames'[u] = frames[u]
  BY <1>5 DEF Shapes
<1>7. Shapes' /\ OthersSame(t)
  BY <1>3, <1>6 DEF Shapes, OthersSame, RecordSame
<1>8. Writer(t)'
  <2>1. Leaks(t)' = Leaks(t)
    BY <1>3 DEF Leaks
  <2>2. Bottom(b) = "rd" => Bottom(s) = "rd"
    <3>1. Len(s) \in Nat
      BY FrameFacts
    <3>2. Len(s) > 0
      BY <1>1
    <3>3. \A n \in Nat : n > 0 => n = 1 \/ n > 1
      OBVIOUS
    <3>4. Len(s) = 1 \/ Len(s) > 1
      BY <3>1, <3>2, <3>3
    <3> QED BY <1>5, <3>4
  <2> QED BY <1>2, <1>3, <1>5, <2>1, <2>2 DEF Writer, RecordSame
<1>9. Bounded(t)'
  BY <1>2, <1>3, <1>5 DEF Bounded
<1>10. wr[t] > 0 /\ rd'[t] \in Int /\ wr'[t] \in Int
  BY <1>2, <1>3, FrameFacts DEF Writer
<1> QED BY <1>1, <1>2, <1>3, <1>7, <1>8, <1>9, <1>10, Alone, LockStep DEF Situated

(* or gives up, with the lock kept.                                        *)
LEMMA BeginFailsStep ==
  ASSUME SqlAssumption, Shapes, LockInv, NEW t \in Threads, BeginFails(t)
  PROVE  Shapes' /\ LockInv' /\ Writer(t) /\ Len(frames[t]) > 0 /\ Upper(frames[t]) = "begin"
<1>1. Len(frames[t]) > 0 /\ Upper(frames[t]) = "begin" /\ at[t] = "run" /\ upgrader # t
  BY FrameFacts DEF BeginFails, BeginError, Idle
<1>2. Writer(t) /\ Bounded(t)
  BY <1>1, FrameFacts DEF LockInv, Situated, Free, Reader, Recording, Upgrade, Leaving
<1>3. /\ rd' = rd /\ wr' = wr /\ upgrader' = upgrader /\ at' = at
      /\ RecordSame /\ sqlrdlockcnt' = sqlrdlockcnt /\ rdlock' = rdlock
      /\ leaked' = leaked \union {t} /\ t \notin leaked /\ Pop(t)
  BY DEF BeginFails, BeginError, lockVars, recordVars, RecordSame
<1>4. Shapes' /\ OthersSame(t)
  BY <1>1, <1>3, PopFacts DEF Shapes, OthersSame, RecordSame
<1>5. Len(frames'[t]) = Len(frames[t]) - 1 /\ Reading(frames'[t]) = Reading(frames[t])
  <2>1. Reading(frames[t]) \in Nat
    BY FrameFacts
  <2> QED BY <1>1, <1>3, <2>1, PopFacts DEF One
<1>6. Len(frames[t]) \in Nat /\ Leaks(t)' = 1 /\ Leaks(t) = 0
  BY <1>3, FrameFacts DEF Leaks
<1>7. Writer(t)'
  <2>1. wr[t] = Len(frames'[t]) + 1
    BY <1>2, <1>5, <1>6, FrameFacts DEF Writer
  <2> QED BY <1>2, <1>3, <1>5, <1>6, <2>1 DEF Writer, RecordSame
<1>8. Bounded(t)'
  BY <1>2, <1>3, <1>5, <1>6 DEF Bounded, SqlAssumption
<1>9. wr[t] > 0 /\ rd'[t] \in Int /\ wr'[t] \in Int
  BY <1>2, <1>3, FrameFacts DEF Writer
<1> QED BY <1>1, <1>2, <1>3, <1>4, <1>7, <1>8, <1>9, Alone, LockStep DEF Situated

(* A read lock: of a thread that has none or reads already, or nested in   *)
(* the writer's.                                                           *)
LEMMA RdlockStep ==
  ASSUME SqlAssumption, Shapes, LockInv, NEW t \in Threads, psync_sql_rdlock(t)
  PROVE  Shapes' /\ LockInv'
<1> DEFINE n == Len(frames[t])
           r == Reading(frames[t])
<1>1. /\ Push(t, "rd") /\ at[t] = "run" /\ upgrader # t
      /\ upgrader' = upgrader /\ at' = at /\ RecordSame /\ leaked' = leaked
      /\ sqlrdlockcnt' = [sqlrdlockcnt EXCEPT ![t] = @ + 1]
      /\ rdlock' = [rdlock EXCEPT ![t] = TRUE]
  BY DEF psync_sql_rdlock, Ready, Idle, RecordSame, tranVars
<1>2. /\ frames' \in [Threads -> Seq(Frames)]
      /\ \A u \in Threads \ {t} : frames'[u] = frames[u]
      /\ Len(frames'[t]) = n + 1 /\ Reading(frames'[t]) = r + 1 /\ n < MaxNested
      /\ AllRead(frames'[t]) <=> AllRead(frames[t])
      /\ n > 0 => Bottom(frames'[t]) = Bottom(frames[t])
  <2>1. "rd" \in Frames
    BY DEF Frames
  <2> QED BY <1>1, <2>1, PushFacts DEF One
<1>3. /\ n \in Nat /\ r \in Nat /\ r <= n /\ (r = n <=> AllRead(frames[t]))
      /\ rd[t] \in Int /\ wr[t] \in Int /\ sqlrdlockcnt[t] \in Nat
  BY FrameFacts
<1>4. rd' \in [Threads -> Int] /\ wr' \in [Threads -> Int]
  BY DEF psync_sql_rdlock, Shapes
<1>5. \A u \in Threads \ {t} : rd'[u] = rd[u] /\ wr'[u] = wr[u]
  BY DEF psync_sql_rdlock, Shapes
<1>6. sqlrdlockcnt'[t] = sqlrdlockcnt[t] + 1 /\ rdlock'[t] = TRUE
  BY <1>1 DEF Shapes
<1>7. Shapes'
  <2>1. sqlrdlockcnt' \in [Threads -> Nat] /\ rdlock' \in [Threads -> BOOLEAN]
    BY <1>1 DEF Shapes
  <2> QED BY <1>1, <1>2, <1>4, <2>1 DEF Shapes, RecordSame
<1>8. OthersSame(t)
  BY <1>1, <1>2, <1>5 DEF OthersSame, Shapes
<1>9. Bounded(t)'
  <2>1. n + 1 <= MaxNested
    BY <1>2, <1>3 DEF SqlAssumption
  <2> QED BY <1>2, <1>3, <1>6, <2>1 DEF Bounded
<1>10. Free(t) \/ Reader(t) \/ Writer(t)
  BY <1>1 DEF LockInv, Situated, Recording, Upgrade, Leaving
<1>11. CASE Free(t) \/ Reader(t)
  <2>1. /\ rd[t] = n /\ wr[t] = 0 /\ sqlrdlockcnt[t] = n /\ t \notin leaked
        /\ AllRead(frames[t])
    BY <1>3, <1>11 DEF Free, Reader
  <2>2. rd'[t] = n + 1 /\ wr'[t] = 0
    BY <1>3, <2>1 DEF psync_sql_rdlock, Shapes
  <2>3. Reader(t)'
    BY <1>1, <1>2, <1>3, <1>6, <2>1, <2>2 DEF Reader
  <2>4. \A u \in Threads \ {t} : wr[u] = 0
    <3>1. CASE rd[t] > 0
      BY <3>1, ReaderExcludes
    <3>2. CASE ~(rd[t] > 0)
      BY <3>2, <2>1 DEF psync_sql_rdlock, MayRead, Others
    <3> QED BY <3>1, <3>2
  <2>5. wrlocker # t
    <3>1. ~Writer(t)
      BY <2>1 DEF Writer
    <3> QED BY <3>1, NotRecorded
  <2>6. rd'[t] \in Int /\ wr'[t] \in Int
    BY <1>4
  <2> QED BY <1>1, <1>7, <1>8, <1>9, <2>2, <2>3, <2>4, <2>5, <2>6, LockStep DEF Situated
<1>12. CASE Writer(t)
  <2>1. wr[t] > 0 /\ rd[t] = 0
    BY <1>12 DEF Writer
  <2>2. rd'[t] = 0 /\ wr'[t] = wr[t] + 1
    BY <2>1 DEF psync_sql_rdlock, Shapes
  <2>3. Leaks(t)' = Leaks(t) /\ Leaks(t) \in Int
    BY <1>1 DEF Leaks
  <2>4. wr'[t] = Len(frames'[t]) + Leaks(t)
    <3>1. wr[t] = n + Leaks(t)
      BY <1>12 DEF Writer
    <3> QED BY <3>1, <1>2, <1>3, <2>2, <2>3
  <2>5. wr'[t] = sqllockcnt' + sqlrdlockcnt'[t]
    <3>1. wr[t] = sqllockcnt + sqlrdlockcnt[t] /\ sqllockcnt' = sqllockcnt /\ sqllockcnt \in Int
      BY <1>1, <1>12, FrameFacts DEF Writer, RecordSame
    <3> QED BY <3>1, <1>3, <1>6, <2>2
  <2>6. sqlrdlockcnt'[t] <= Reading(frames'[t])
    <3>1. sqlrdlockcnt[t] <= r
      BY <1>12 DEF Writer
    <3> QED BY <3>1, <1>2, <1>3, <1>6
  <2>7. ASSUME t \notin leaked, Bottom(frames'[t]) = "rd"
        PROVE  sqlrdlockcnt'[t] < Reading(frames'[t])
    <3>1. n > 0
      BY <1>3, <1>12, <2>7 DEF Writer, Leaks
    <3>2. sqlrdlockcnt[t] < r
      BY <3>1, <1>2, <1>12, <2>7 DEF Writer
    <3> QED BY <3>2, <1>2, <1>3, <1>6
  <2>8. Writer(t)'
    <3>1. wr'[t] > 0
      BY <1>3, <2>1, <2>2
    <3>2. wrlocker' = t
      BY <1>1, <1>12 DEF Writer, RecordSame
    <3> QED BY <1>1, <2>2, <2>3, <2>4, <2>5, <2>6, <2>7, <3>1, <3>2 DEF Writer
  <2>9. rd'[t] \in Int /\ wr'[t] \in Int
    BY <1>4
  <2> QED BY <1>1, <1>7, <1>8, <1>9, <2>1, <2>8, <2>9, Alone, LockStep DEF Situated
<1> QED BY <1>10, <1>11, <1>12

(* Who unlocks a write lock or ends a transaction is the writer.           *)
LEMMA UnlockTop ==
  ASSUME SqlAssumption, Shapes, LockInv, NEW t \in Threads, Ready(t),
         Top(t) \in {"wr", "tr"}
  PROVE  Writer(t) /\ Len(frames[t]) > 0 /\ Upper(frames[t]) = Top(t)
<1>1. Len(frames[t]) > 0 /\ Upper(frames[t]) = Top(t)
  BY FrameFacts
<1> QED BY <1>1, FrameFacts
        DEF LockInv, Situated, Free, Reader, Recording, Upgrade, Leaving, Ready, Idle

(* The end of a read lock.                                                 *)
LEMMA RdunlockStep ==
  ASSUME SqlAssumption, Shapes, LockInv, NEW t \in Threads, psync_sql_rdunlock(t)
  PROVE  Shapes' /\ LockInv' /\ Len(frames[t]) > 0 /\ Upper(frames[t]) = "rd"
<1> DEFINE n == Len(frames[t])
           r == Reading(frames[t])
<1>1. /\ Pop(t) /\ at[t] = "run" /\ upgrader # t /\ leaked' = leaked /\ Top(t) = "rd"
  BY DEF psync_sql_rdunlock, Ready, Idle, tranVars
<1>2. n > 0 /\ Upper(frames[t]) = "rd"
  BY <1>1, FrameFacts
<1>3. Free(t) \/ Reader(t) \/ Writer(t)
  BY <1>1 DEF LockInv, Situated, Recording, Upgrade, Leaving
<1>4. CASE sqlrdlockcnt[t] = 0
  <2>1. Writer(t)
    BY <1>2, <1>3, <1>4 DEF Free, Reader
  <2>2. Unlock(t)
    BY <1>4 DEF psync_sql_rdunlock
  <2> QED BY <1>1, <1>2, <1>4, <2>1, <2>2, UnlockStep
<1>5. CASE sqlrdlockcnt[t] # 0
  <2>1. /\ sqlrdlockcnt' = [sqlrdlockcnt EXCEPT ![t] = @ - 1]
        /\ rdlock' = [rdlock EXCEPT ![t] = sqlrdlockcnt[t] > 1]
        /\ upgrader' = upgrader /\ at' = at /\ RecordSame
    BY <1>5 DEF psync_sql_rdunlock, RecordSame
  <2>2. /\ n \in Nat /\ r \in Nat /\ r <= n
        /\ rd[t] \in Int /\ wr[t] \in Int /\ sqlrdlockcnt[t] \in Nat
    BY FrameFacts
  <2>3. /\ frames' \in [Threads -> Seq(Frames)]
        /\ \A u \in Threads \ {t} : frames'[u] = frames[u]
        /\ Len(frames'[t]) = n - 1 /\ Reading(frames'[t]) = r - 1
        /\ AllRead(frames[t]) <=> AllRead(frames'[t])
        /\ Len(frames'[t]) > 0 => Bottom(frames'[t]) = Bottom(frames[t])
        /\ Len(frames'[t]) > 0 /\ Bottom(frames'[t]) = "rd" => Reading(frames'[t]) > 0
    BY <1>1, <1>2, PopFacts DEF One
  <2>4. rd' \in [Threads -> Int] /\ wr' \in [Threads -> Int]
    <3>1. \/ rd' = [rd EXCEPT ![t] = @ - 1] /\ wr' = wr
          \/ wr' = [wr EXCEPT ![t] = @ - 1] /\ rd' = rd
      BY <1>5 DEF psync_sql_rdunlock
    <3> QED BY <3>1 DEF Shapes
  <2>5. \A u \in Threads \ {t} : rd'[u] = rd[u] /\ wr'[u] = wr[u]
    BY <1>5 DEF psync_sql_rdunlock, Shapes
  <2>6. sqlrdlockcnt'[t] = sqlrdlockcnt[t] - 1 /\ (rdlock'[t] <=> sqlrdlockcnt[t] > 1)
    BY <2>1 DEF Shapes
  <2>7. Shapes'
    <3>1. sqlrdlockcnt' \in [Threads -> Nat] /\ rdlock' \in [Threads -> BOOLEAN]
      BY <1>5, <2>1, <2>2, SMTT(30) DEF Shapes
    <3> QED BY <1>1, <2>1, <2>3, <2>4, <3>1 DEF Shapes, RecordSame
  <2>8. OthersSame(t)
    BY <1>1, <2>1, <2>3, <2>5 DEF OthersSame, Shapes
  <2>9. Bounded(t)'
    <3>1. n - 1 <= MaxNested
      BY <2>2 DEF LockInv, Bounded, SqlAssumption
    <3> QED BY <1>5, <2>2, <2>3, <2>6, <3>1 DEF Bounded
  <2>10. rd'[t] \in Int /\ wr'[t] \in Int
    BY <2>4
  <2>11. CASE Reader(t)
    <3>1. rd[t] = n /\ wr[t] = 0 /\ sqlrdlockcnt[t] = n /\ t \notin leaked /\ AllRead(frames[t])
      BY <2>11 DEF Reader
    <3>2. rd'[t] = n - 1 /\ wr'[t] = 0
      BY <1>2, <1>5, <2>2, <3>1 DEF psync_sql_rdunlock, Shapes
    <3>3. n = 1 \/ n - 1 > 0
      <4>1. \A k \in Nat : k > 0 => k = 1 \/ k - 1 > 0
        OBVIOUS
      <4> QED BY <1>2, <2>2, <4>1
    <3>4. n = 1 => Free(t)'
      BY <1>1, <2>1, <2>3, <2>6, <3>1, <3>2 DEF Free
    <3>5. n - 1 > 0 => Reader(t)'
      BY <1>1, <2>1, <2>3, <2>6, <3>1, <3>2 DEF Reader
    <3>6. \A u \in Threads \ {t} : wr[u] = 0
      BY <1>2, <3>1, ReaderExcludes
    <3>7. wrlocker # t
      <4>1. ~Writer(t)
        BY <3>1 DEF Writer
      <4> QED BY <4>1, NotRecorded
    <3> QED BY <1>2, <2>1, <2>7, <2>8, <2>9, <2>10, <3>2, <3>3, <3>4, <3>5, <3>6, <3>7, LockStep DEF Situated
  <2>12. CASE Writer(t)
    <3>1. wr[t] > 0 /\ rd[t] = 0 /\ sqllockcnt > 0 /\ sqllockcnt \in Int
      BY <2>12, WriterCounts DEF Writer, Shapes
    <3>2. rd'[t] = 0 /\ wr'[t] = wr[t] - 1
      BY <1>5, <3>1 DEF psync_sql_rdunlock, Shapes
    <3>3. Leaks(t)' = Leaks(t) /\ Leaks(t) \in Int
      BY <1>1 DEF Leaks
    <3>4. wr'[t] = Len(frames'[t]) + Leaks(t)
      <4>1. wr[t] = n + Leaks(t)
        BY <2>12 DEF Writer
      <4> QED BY <4>1, <2>2, <2>3, <3>2, <3>3
    <3>5. wr'[t] = sqllockcnt' + sqlrdlockcnt'[t] /\ wr'[t] > 0
      <4>1. wr[t] = sqllockcnt + sqlrdlockcnt[t] /\ sqllockcnt' = sqllockcnt
        BY <2>1, <2>12 DEF Writer, RecordSame
      <4> QED BY <4>1, <1>5, <2>2, <2>6, <3>1, <3>2
    <3>6. sqlrdlockcnt'[t] <= Reading(frames'[t])
      <4>1. sqlrdlockcnt[t] <= r
        BY <2>12 DEF Writer
      <4> QED BY <4>1, <2>2, <2>3, <2>6
    <3>7. ASSUME t \notin leaked, Bottom(frames'[t]) = "rd"
          PROVE  sqlrdlockcnt'[t] < Reading(frames'[t])
      <4>1. n - 1 > 0
        BY <2>2, <2>3, <3>4, <3>5, <3>7 DEF Leaks
      <4>2. sqlrdlockcnt[t] < r
        BY <4>1, <2>3, <2>12, <3>7 DEF Writer
      <4> QED BY <4>2, <2>2, <2>3, <2>6
    <3>8. Writer(t)'
      <4>1. wrlocker' = t
        BY <2>1, <2>12 DEF Writer, RecordSame
      <4> QED BY <1>1, <2>1, <3>2, <3>3, <3>4, <3>5, <3>6, <3>7, <4>1 DEF Writer
    <3> QED BY <1>2, <2>1, <2>7, <2>8, <2>9, <2>10, <3>1, <3>8, Alone, LockStep DEF Situated
  <2> QED BY <1>2, <1>3, <2>11, <2>12 DEF Free
<1> QED BY <1>2, <1>4, <1>5

(* A reader tries to become the writer                                     *)
LEMMA TryUpgradeStep ==
  ASSUME SqlAssumption, Shapes, LockInv, NEW t \in Threads, psync_sql_tryupgradelock(t)
  PROVE  Shapes' /\ LockInv'
<1>1. /\ at[t] = "run" /\ upgrader = NoThread /\ upgrader' = t /\ rd[t] = 1
      /\ frames' = frames /\ rd' = rd /\ wr' = wr /\ at' = at /\ leaked' = leaked
      /\ RecordSame /\ sqlrdlockcnt' = sqlrdlockcnt /\ rdlock' = rdlock
  BY DEF psync_sql_tryupgradelock, Ready, Idle, RecordSame, recordVars, tranVars
<1>2. Reader(t) /\ Bounded(t)
  BY <1>1 DEF LockInv, Situated, Free, Recording, Upgrade, Writer, Leaving
<1>3. Shapes'
  BY <1>1 DEF Shapes, RecordSame
<1>4. OthersSame(t)
  BY <1>1 DEF OthersSame, SqlAssumption
<1>5. Reader(t)'
  BY <1>1, <1>2 DEF Reader
<1>6. Bounded(t)'
  BY <1>1, <1>2 DEF Bounded
<1>7. wrlocker # t
  BY <1>2, NotRecorded DEF Reader, Writer
<1>8. \A u \in Threads \ {t} : (wr'[t] > 0 => wr[u] = 0 /\ rd[u] = 0) /\ (rd'[t] > 0 => wr[u] = 0)
  BY <1>1, <1>2, ReaderExcludes DEF Reader
<1>9. rd'[t] \in Int /\ wr'[t] \in Int
  BY <1>3 DEF Shapes
<1> QED BY <1>1, <1>3, <1>4, <1>5, <1>6, <1>7, <1>8, <1>9, LockStep DEF Situated

(* The upgrade: the last other reader has gone.                            *)
LEMMA UpgradedStep ==
  ASSUME SqlAssumption, Shapes, LockInv, NEW t \in Threads, Upgraded(t)
  PROVE  Shapes' /\ LockInv'
<1>1. /\ upgrader = t /\ upgrader' = NoThread
      /\ frames' = frames /\ leaked' = leaked
      /\ RecordSame /\ sqlrdlockcnt' = sqlrdlockcnt /\ rdlock' = rdlock
      /\ wr' = [wr EXCEPT ![t] = rd[t]] /\ rd' = [rd EXCEPT ![t] = 0]
      /\ at' = [at EXCEPT ![t] = "upgraded"]
  BY DEF Upgraded, RecordSame, recordVars, tranVars
<1>2. Reader(t) /\ Bounded(t)
  BY <1>1 DEF LockInv, Situated, Free, Recording, Upgrade, Writer, Leaving
<1>3. Shapes'
  BY <1>1 DEF Shapes, RecordSame
<1>4. OthersSame(t)
  BY <1>1 DEF OthersSame, Shapes, SqlAssumption
<1>5. /\ Len(frames[t]) = 1 /\ Upper(frames[t]) = "rd" /\ rd[t] = 1 /\ wr[t] = 0
      /\ sqlrdlockcnt[t] = 1 /\ t \notin leaked
  BY <1>1, <1>2, FrameFacts DEF Reader
<1>6. rd'[t] = 0 /\ wr'[t] = 1 /\ at'[t] = "upgraded"
  BY <1>1, <1>5 DEF Shapes
<1>7. Upgrade(t)'
  BY <1>1, <1>5, <1>6 DEF Upgrade, SqlAssumption
<1>8. Bounded(t)'
  BY <1>1, <1>2 DEF Bounded
<1>9. wrlocker # t
  BY <1>2, NotRecorded DEF Reader, Writer
<1>10. \A u \in Threads \ {t} : wr[u] = 0 /\ rd[u] = 0
  <2> SUFFICES ASSUME NEW u \in Threads \ {t} PROVE wr[u] = 0 /\ rd[u] = 0
    OBVIOUS
  <2>1. ~(rd[u] > 0)
    BY <1>1 DEF Upgraded, Others, Reads
  <2>2. rd[u] >= 0
    BY FrameFacts DEF LockInv, Situated, Free, Reader, Recording, Upgrade, Writer, Leaving
  <2>3. wr[u] = 0
    BY <1>5, ReaderExcludes
  <2> QED BY <2>1, <2>2, <2>3, FrameFacts
<1> QED BY <1>1, <1>3, <1>4, <1>6, <1>7, <1>8, <1>9, <1>10, LockStep DEF Situated

(* and records itself.                                                     *)
LEMMA RecordUpgradeStep ==
  ASSUME SqlAssumption, Shapes, LockInv, NEW t \in Threads, record_upgrade(t)
  PROVE  Shapes' /\ LockInv'
<1>1. /\ frames' = frames /\ leaked' = leaked /\ rd' = rd /\ wr' = wr /\ upgrader' = upgrader
      /\ at[t] = "upgraded" /\ at' = [at EXCEPT ![t] = "run"]
      /\ rdlock' = [rdlock EXCEPT ![t] = FALSE]
      /\ sqllockcnt' = sqlrdlockcnt[t] /\ sqlrdlockcnt' = [sqlrdlockcnt EXCEPT ![t] = 0]
      /\ wrlocker' = t
  BY DEF record_upgrade, lockVars, tranVars
<1>2. Upgrade(t) /\ Bounded(t)
  BY <1>1 DEF LockInv, Situated, Free, Recording, Reader, Writer, Leaving
<1>3. /\ Len(frames[t]) = 1 /\ Upper(frames[t]) = "rd" /\ rd[t] = 0 /\ wr[t] = 1
      /\ sqlrdlockcnt[t] = 1 /\ t \notin leaked /\ upgrader # t
  BY <1>2 DEF Upgrade
<1>4. Shapes'
  BY <1>1, <1>3 DEF Shapes
<1>5. OthersSame(t)
  BY <1>1 DEF OthersSame, Shapes
<1>6. at'[t] = "run" /\ sqlrdlockcnt'[t] = 0 /\ rdlock'[t] = FALSE
  BY <1>1 DEF Shapes
<1>7. AllRead(frames[t]) /\ Reading(frames[t]) = 1
  <2>1. AllRead(frames[t])
    BY <1>3 DEF AllRead, Upper
  <2> QED BY <1>3, <2>1, FrameFacts
<1>8. Writer(t)'
  <2>1. Leaks(t)' = 0
    BY <1>1, <1>3 DEF Leaks
  <2> QED BY <1>1, <1>3, <1>6, <1>7, <2>1 DEF Writer
<1>9. WriterRecorded'
  BY <1>1, <1>8 DEF WriterRecorded, SqlAssumption
<1>10. Bounded(t)'
  BY <1>1, <1>2, <1>6 DEF Bounded
<1>11. wr[t] > 0 /\ rd'[t] \in Int /\ wr'[t] \in Int
  BY <1>1, <1>3
<1> QED BY <1>1, <1>3, <1>4, <1>5, <1>8, <1>9, <1>10, <1>11, Alone, LockStep DEF Situated

-----------------------------------------------------------------------------
(* The two ends of a transaction.                                          *)
LEMMA EndLock ==
  ASSUME SqlAssumption, Shapes, LockInv, NEW t \in Threads, NEW ok \in BOOLEAN, Ready(t), Top(t) = "tr",
         EndTransaction(t, ok)
  PROVE  Shapes' /\ LockInv'
<1>1. Writer(t) /\ Len(frames[t]) > 0 /\ Upper(frames[t]) = "tr"
  BY UnlockTop
<1>2. Pop(t) /\ Unlock(t) /\ leaked' = leaked
  BY DEF EndTransaction
<1> QED BY <1>1, <1>2, UnlockStep

(* What takes or gives back no lock.                                       *)
LEMMA Unlocked ==
  ASSUME Shapes, LockInv, UNCHANGED <<lockVars, recordVars, at, frames, leaked>>
  PROVE  Shapes' /\ LockInv'
<1>1. Shapes'
  BY DEF Shapes, lockVars, recordVars
<1>2. \A t \in Threads : Leaks(t)' = Leaks(t)
  BY DEF Leaks
<1>3. \A t \in Threads : Writer(t)' = Writer(t)
  BY <1>2 DEF Writer, lockVars, recordVars
<1>4. \A t \in Threads : Situated(t) => Situated(t)'
  BY <1>3 DEF Situated, Free, Reader, Recording, Upgrade, Leaving, lockVars, recordVars
<1>5. (\A t \in Threads : Bounded(t)') /\ OneWriter'
  BY DEF LockInv, Bounded, OneWriter, lockVars, recordVars
<1>6. WriterRecorded'
  <2>1. CASE wrlocker = NoThread
    BY <2>1 DEF LockInv, WriterRecorded, recordVars
  <2>2. CASE wrlocker # NoThread
    <3>1. wrlocker \in Threads /\ Writer(wrlocker) /\ wrlocker' = wrlocker
      BY <2>2 DEF LockInv, WriterRecorded, recordVars, Shapes
    <3>2. PICK u \in Threads : u = wrlocker
      BY <3>1
    <3>3. Writer(u)'
      BY <3>1, <3>2, <1>3
    <3> QED BY <3>1, <3>2, <3>3, <2>2 DEF WriterRecorded
  <2> QED BY <2>1, <2>2
<1> QED BY <1>1, <1>4, <1>5, <1>6 DEF LockInv

-----------------------------------------------------------------------------
(* The transactions in a pile of calls.                                    *)
Lone(s) == ~HasTr(s) /\ ~HasBegin(s) /\ ~HasAuto(s)

LEMMA PiledTran ==
  ASSUME NEW s \in Seq(Frames), NEW f \in Frames, NEW p, Piled(p, f, s)
  PROVE  /\ HasTr(p) <=> f = "tr" \/ HasTr(s)
         /\ HasBegin(p) <=> f = "begin" \/ HasBegin(s)
         /\ HasAuto(p) <=> f \in {"auto", "abort"} \/ HasAuto(s)
         /\ OneTran(p) => OneTran(s)
         /\ OneTran(p) /\ f \in Trans => Lone(s)
         /\ OneTran(s) /\ (f \in Trans => Lone(s)) => OneTran(p)
<1>1. /\ p \in Seq(Frames) /\ Len(s) \in Nat /\ Len(p) = Len(s) + 1 /\ p[1] = f
      /\ \A i \in 2 .. Len(p) : p[i] = s[i - 1]
  BY DEF Piled, Upper, Above
<1>2. ASSUME NEW i \in 1 .. Len(s)
      PROVE  i + 1 \in 1 .. Len(p) /\ p[i + 1] = s[i]
  <2>1. i + 1 \in 2 .. Len(p) /\ i + 1 \in 1 .. Len(p) /\ (i + 1) - 1 = i
    BY <1>1
  <2> QED BY <2>1, <1>1
<1>3. ASSUME NEW i \in 1 .. Len(p), i # 1
      PROVE  i - 1 \in 1 .. Len(s) /\ p[i] = s[i - 1]
  <2>1. i \in 2 .. Len(p) /\ i - 1 \in 1 .. Len(s)
    BY <1>1, <1>3
  <2> QED BY <2>1, <1>1
<1>4. 1 \in 1 .. Len(p)
  BY <1>1
<1>5. HasTr(p) <=> f = "tr" \/ HasTr(s)
  <2>1. HasTr(p) => f = "tr" \/ HasTr(s)
    BY <1>1, <1>3 DEF HasTr
  <2>2. f = "tr" \/ HasTr(s) => HasTr(p)
    BY <1>1, <1>2, <1>4 DEF HasTr
  <2> QED BY <2>1, <2>2
<1>6. HasBegin(p) <=> f = "begin" \/ HasBegin(s)
  <2>1. HasBegin(p) => f = "begin" \/ HasBegin(s)
    BY <1>1, <1>3 DEF HasBegin
  <2>2. f = "begin" \/ HasBegin(s) => HasBegin(p)
    BY <1>1, <1>2, <1>4 DEF HasBegin
  <2> QED BY <2>1, <2>2
<1>10. HasAuto(p) <=> f \in {"auto", "abort"} \/ HasAuto(s)
  <2>1. HasAuto(p) => f \in {"auto", "abort"} \/ HasAuto(s)
    BY <1>1, <1>3 DEF HasAuto
  <2>2. f \in {"auto", "abort"} \/ HasAuto(s) => HasAuto(p)
    BY <1>1, <1>2, <1>4 DEF HasAuto
  <2> QED BY <2>1, <2>2
<1>7. OneTran(p) => OneTran(s)
  <2> SUFFICES ASSUME OneTran(p), NEW i \in 1 .. Len(s), NEW j \in 1 .. Len(s),
                      s[i] \in Trans, s[j] \in Trans
               PROVE  i = j
    BY DEF OneTran
  <2>1. i + 1 = j + 1
    BY <1>2 DEF OneTran
  <2> QED BY <2>1
<1>8. ASSUME OneTran(p), f \in Trans, NEW i \in 1 .. Len(s), s[i] \in Trans
      PROVE  FALSE
  <2>1. 1 = i + 1
    BY <1>1, <1>2, <1>4, <1>8 DEF OneTran
  <2> QED BY <2>1
<1>9. ASSUME OneTran(s), f \in Trans => Lone(s)
      PROVE  OneTran(p)
  <2> SUFFICES ASSUME NEW i \in 1 .. Len(p), NEW j \in 1 .. Len(p),
                      p[i] \in Trans, p[j] \in Trans
               PROVE  i = j
    BY DEF OneTran
  <2>1. CASE i # 1 /\ j # 1
    <3>1. i - 1 = j - 1
      BY <2>1, <1>3, <1>9 DEF OneTran
    <3> QED BY <3>1
  <2>2. CASE i = 1 /\ j # 1
    BY <2>2, <1>1, <1>3, <1>9 DEF Lone, HasTr, HasBegin, HasAuto, Trans
  <2>3. CASE i # 1 /\ j = 1
    BY <2>3, <1>1, <1>3, <1>9 DEF Lone, HasTr, HasBegin, HasAuto, Trans
  <2> QED BY <2>1, <2>2, <2>3
<1> QED BY <1>5, <1>6, <1>7, <1>8, <1>9, <1>10 DEF Lone, HasTr, HasBegin, HasAuto, Trans

(* A call that began a transaction is in it, or goes on without one.       *)
LEMMA BegunTran ==
  ASSUME NEW s \in Seq(Frames), Len(s) > 0, Upper(s) \in {"begin", "auto"}, OneTran(s),
         NEW g \in {"tr", "auto", "abort"}, NEW b, b = [s EXCEPT ![1] = g]
  PROVE  /\ HasTr(b) <=> g = "tr"
         /\ ~HasBegin(b) /\ OneTran(b) /\ (HasAuto(b) <=> g # "tr")
         /\ ~HasTr(s) /\ (HasBegin(s) <=> Upper(s) = "begin") /\ (HasAuto(s) <=> Upper(s) = "auto")
<1>1. /\ b \in Seq(Frames) /\ Len(b) = Len(s) /\ b[1] = g /\ s[1] \in {"begin", "auto"}
      /\ \A i \in 2 .. Len(s) : b[i] = s[i]
  BY Begun DEF Upper
<1>2. 1 \in 1 .. Len(s) /\ \A i \in 1 .. Len(s) : i = 1 \/ i \in 2 .. Len(s)
  OBVIOUS
<1>3. \A i \in 1 .. Len(s) : b[i] \in Trans <=> s[i] \in Trans
  BY <1>1, <1>2 DEF Trans
<1>4. \A i \in 1 .. Len(s) : s[i] \in Trans => i = 1
  BY <1>1, <1>2 DEF OneTran, Trans
<1>5. OneTran(b)
  BY <1>1, <1>3, <1>4 DEF OneTran
<1>6. \A i \in 1 .. Len(s) : i # 1 => s[i] \notin Trans /\ b[i] \notin Trans
  BY <1>3, <1>4
<1>7. /\ HasTr(b) <=> g = "tr"
      /\ ~HasBegin(b) /\ (HasAuto(b) <=> g # "tr")
  BY <1>1, <1>2, <1>6 DEF HasTr, HasBegin, HasAuto, Trans
<1>8. /\ ~HasTr(s) /\ (HasBegin(s) <=> Upper(s) = "begin")
      /\ HasAuto(s) <=> Upper(s) = "auto"
  BY <1>1, <1>2, <1>6 DEF HasTr, HasBegin, HasAuto, Trans, Upper
<1> QED BY <1>5, <1>7, <1>8

(* Only the recorded writer has a transaction, or goes on without one, and *)
(* then nobody else has anything.                                          *)
LEMMA TranWriter ==
  ASSUME Shapes, LockInv, NEW t \in Threads, HasTr(frames[t]) \/ HasAuto(frames[t])
  PROVE  Writer(t)
<1>1. Len(frames[t]) > 0 /\ ~AllRead(frames[t])
  BY FrameFacts DEF HasTr, HasAuto, AllRead
<1>2. Len(frames[t]) = 1 => Upper(frames[t]) \in {"tr", "auto", "abort"}
  BY DEF HasTr, HasAuto, Upper
<1> QED BY <1>1, <1>2 DEF LockInv, Situated, Free, Reader, Recording, Upgrade, Leaving

(* Only the writer can be in a transaction.                                *)
LEMMA OthersEmpty ==
  ASSUME Shapes, LockInv, NEW t \in Threads, Writer(t)
  PROVE  \A u \in Threads \ {t} : Lone(frames[u])
<1> SUFFICES ASSUME NEW u \in Threads \ {t} PROVE Lone(frames[u])
  OBVIOUS
<1>1. wr[u] = 0 /\ rd[u] = 0
  BY Alone DEF Writer
<1>2. Free(u)
  BY <1>1 DEF LockInv, Situated, Reader, Recording, Upgrade, Writer, Leaving
<1>3. Len(frames[u]) = 0
  BY <1>2 DEF Free
<1> QED BY <1>3 DEF Lone, HasTr, HasBegin, HasAuto

(* Who goes on after a failed BEGIN is not in a transaction, and who is in *)
(* one is the only one.                                                    *)
LEMMA AutoOrTran ==
  ASSUME Shapes, LockInv, TranInv, NEW t \in Threads, HasTr(frames[t]), NEW u \in Threads
  PROVE  ~HasAuto(frames[u])
<1>1. Writer(t)
  BY TranWriter
<1>2. CASE u # t
  BY <1>1, <1>2, OthersEmpty DEF Lone
<1>3. CASE u = t
  <2>1. OneTran(frames[t])
    BY DEF TranInv
  <2> QED BY <1>3, <2>1 DEF OneTran, HasTr, HasAuto, Trans
<1> QED BY <1>2, <1>3

(* A step that takes or gives back a lock without a transaction changes    *)
(* nothing of the transactions.                                            *)
LEMMA KeepTran ==
  ASSUME TranInv, NEW t \in Threads, \A u \in Threads \ {t} : frames'[u] = frames[u],
         UNCHANGED <<in_transaction, value>>,
         OneTran(frames'[t]), HasTr(frames'[t]) <=> HasTr(frames[t]),
         HasBegin(frames'[t]) => Upper(frames'[t]) = "begin" /\ value < MaxValue
  PROVE  TranInv'
<1>1. \A u \in Threads : HasTr(frames'[u]) <=> HasTr(frames[u])
  OBVIOUS
<1>2. ASSUME NEW u \in Threads
      PROVE  /\ OneTran(frames'[u])
             /\ HasBegin(frames'[u]) => Upper(frames'[u]) = "begin" /\ value < MaxValue
  BY DEF TranInv
<1>3. in_transaction' <=> \E u \in Threads : HasTr(frames'[u])
  BY <1>1 DEF TranInv
<1> QED BY <1>2, <1>3 DEF TranInv

(* who goes on after a failed BEGIN still does,                            *)
SameAuto == \A u \in Threads : HasAuto(frames'[u]) <=> HasAuto(frames[u])

(* A call inside or outside of a transaction leaves it where it is,        *)
LEMMA PushTran ==
  ASSUME Shapes, TranInv, NEW t \in Threads, NEW f \in {"rd", "wr", "begin"}, Push(t, f), Ready(t),
         f = "begin" => value < MaxValue /\ ~HasTr(frames[t]) /\ ~HasAuto(frames[t]),
         UNCHANGED <<in_transaction, value>>
  PROVE  TranInv' /\ SameAuto
<1> f \in Frames
  BY DEF Frames
<1>1. /\ Piled(frames'[t], f, frames[t]) /\ Upper(frames'[t]) = f
      /\ \A u \in Threads \ {t} : frames'[u] = frames[u]
  BY PushFacts
<1>2. frames[t] \in Seq(Frames) /\ OneTran(frames[t])
  BY DEF Shapes, TranInv
<1>3. ~HasBegin(frames[t])
  <2>1. Upper(frames[t]) = "begin" => Len(frames[t]) = 0
    BY FrameFacts DEF Ready
  <2>2. Len(frames[t]) = 0 => ~HasBegin(frames[t])
    BY DEF HasBegin
  <2> QED BY <2>1, <2>2 DEF TranInv
<1>4. /\ OneTran(frames'[t]) /\ (HasTr(frames'[t]) <=> HasTr(frames[t]))
      /\ HasBegin(frames'[t]) => f = "begin"
      /\ HasAuto(frames'[t]) <=> HasAuto(frames[t])
  BY <1>1, <1>2, <1>3, PiledTran DEF Lone, Trans
<1> QED BY <1>1, <1>4, KeepTran DEF SameAuto

(* and so does the end of such a call.                                     *)
LEMMA PopTran ==
  ASSUME Shapes, TranInv, NEW t \in Threads, Len(frames[t]) > 0, Pop(t),
         Upper(frames[t]) \in {"rd", "wr"}, UNCHANGED <<in_transaction, value>>
  PROVE  TranInv' /\ SameAuto
<1>1. /\ Piled(frames[t], Upper(frames[t]), frames'[t]) /\ Upper(frames[t]) \in Frames
      /\ frames'[t] \in Seq(Frames) /\ \A u \in Threads \ {t} : frames'[u] = frames[u]
  BY PopFacts DEF Frames
<1>2. OneTran(frames[t]) /\ ~HasBegin(frames[t])
  BY DEF TranInv
<1>3. /\ OneTran(frames'[t]) /\ (HasTr(frames'[t]) <=> HasTr(frames[t])) /\ ~HasBegin(frames'[t])
      /\ HasAuto(frames'[t]) <=> HasAuto(frames[t])
  BY <1>1, <1>2, PiledTran
<1> QED BY <1>1, <1>3, KeepTran DEF SameAuto

(* What is neither lock nor call nor statement leaves the transaction      *)
(* alone.                                                                  *)
LEMMA TranUnchanged ==
  ASSUME UNCHANGED tranVars, SameAuto, TranShapes, Data
  PROVE  TranShapes' /\ Data'
BY DEF tranVars, TranShapes, Data, DataInv, SameAuto

-----------------------------------------------------------------------------
(* The steps of a transaction.                                             *)
LEMMA TranBegins ==
  ASSUME SqlAssumption, IInv, NEW t \in Threads, Begin(t)
  PROVE  Shapes' /\ LockInv' /\ TranShapes' /\ TranInv' /\ Data'
<1>1. /\ Idle(t) /\ Top(t) = "begin" /\ frames' = [frames EXCEPT ![t][1] = "tr"]
      /\ UNCHANGED <<lockVars, recordVars, at, leaked>>
  BY DEF Begin
<1>2. Shapes' /\ LockInv' /\ Writer(t) /\ Len(frames[t]) > 0 /\ Upper(frames[t]) = "begin"
  BY <1>1, BeginStep DEF IInv
<1>3. frames[t] \in Seq(Frames) /\ frames'[t] = [frames[t] EXCEPT ![1] = "tr"] /\ OneTran(frames[t])
  BY <1>1 DEF IInv, Shapes, TranInv
<1>4. /\ HasTr(frames'[t]) /\ ~HasBegin(frames'[t]) /\ OneTran(frames'[t])
      /\ HasBegin(frames[t]) /\ ~HasTr(frames[t]) /\ ~HasAuto(frames[t])
  BY <1>2, <1>3, BegunTran
<1>5. \A u \in Threads \ {t} : Lone(frames[u]) /\ frames'[u] = frames[u]
  BY <1>1, <1>2, OthersEmpty DEF IInv, Shapes
<1>6. ~in_transaction /\ value < MaxValue /\ \A u \in Threads : ~HasAuto(frames[u])
  BY <1>4, <1>5 DEF IInv, TranInv, Lone
<1>7. /\ in_transaction' = TRUE /\ transaction_failed' = FALSE /\ tran_callbacks' = {}
      /\ value' = value + 1 /\ tried' = {} /\ tables' = tables /\ committed' = committed
      /\ outcomes' = outcomes
  BY DEF Begin
<1>8. value \in Nat /\ value' \in Values /\ committed["a"] \in Nat
      /\ \A o \in outcomes : o[1] \in Nat
  BY <1>6, <1>7 DEF IInv, TranShapes, Values, Rows, SqlAssumption
<1>9. TranShapes'
  BY <1>7, <1>8 DEF IInv, TranShapes
<1>10. TranInv'
  <2>1. ASSUME NEW u \in Threads
        PROVE  OneTran(frames'[u]) /\ ~HasBegin(frames'[u])
    BY <1>4, <1>5 DEF IInv, TranInv, Lone
  <2> QED BY <1>4, <1>7, <2>1 DEF TranInv
<1>11. Data'
  <2> SUFFICES ASSUME DataInv PROVE DataInv'
    BY DEF IInv, Data
  <2>1. committed["a"] < value' /\ \A o \in outcomes : o[1] < value'
    BY <1>6, <1>7, <1>8 DEF DataInv
  <2> QED BY <1>6, <1>7, <2>1 DEF DataInv
<1> QED BY <1>2, <1>9, <1>10, <1>11

(* There is no transaction after a BEGIN that failed, whether the caller   *)
(* gives up                                                                *)
LEMMA TranBeginFails ==
  ASSUME SqlAssumption, IInv, NEW t \in Threads, BeginFails(t)
  PROVE  TranShapes' /\ TranInv' /\ Data'
<1>1. Writer(t) /\ Len(frames[t]) > 0 /\ Upper(frames[t]) = "begin"
  BY BeginFailsStep DEF IInv
<1>2. Pop(t)
  BY DEF BeginFails
<1>3. /\ Piled(frames[t], "begin", frames'[t]) /\ frames'[t] \in Seq(Frames)
      /\ \A u \in Threads \ {t} : frames'[u] = frames[u]
  BY <1>1, <1>2, PopFacts DEF IInv
<1>4. "begin" \in Frames /\ "begin" \in Trans /\ OneTran(frames[t])
  BY DEF Frames, Trans, IInv, TranInv
<1>5. /\ OneTran(frames'[t]) /\ Lone(frames'[t]) /\ ~HasTr(frames[t])
      /\ HasAuto(frames'[t]) <=> HasAuto(frames[t])
  BY <1>3, <1>4, PiledTran DEF Lone
<1>6. \A u \in Threads \ {t} : ~HasTr(frames[u])
  BY <1>1, OthersEmpty DEF IInv, Lone
<1>7. ~in_transaction
  BY <1>5, <1>6 DEF IInv, TranInv
<1>8. /\ in_transaction' = in_transaction /\ tran_callbacks' = tran_callbacks /\ value' = value
      /\ tried' = tried /\ tables' = tables /\ committed' = committed /\ outcomes' = outcomes
      /\ transaction_failed' \in {TRUE, transaction_failed}
  BY DEF BeginFails, BeginError
<1>9. TranInv'
  BY <1>3, <1>5, <1>8, KeepTran DEF IInv, Lone
<1>10. TranShapes'
  BY <1>8 DEF IInv, TranShapes
<1>11. Data'
  <2>1. \A u \in Threads : HasAuto(frames'[u]) <=> HasAuto(frames[u])
    BY <1>3, <1>5
  <2> QED BY <1>7, <1>8, <2>1 DEF IInv, Data, DataInv
<1> QED BY <1>9, <1>10, <1>11

(* or goes on, until it is stopped.                                        *)
LEMMA TranIgnores ==
  ASSUME SqlAssumption, IInv, NEW t \in Threads, BeginIgnored(t) \/ AssertionFails(t)
  PROVE  Shapes' /\ LockInv' /\ TranShapes' /\ TranInv' /\ Data'
<1>1. PICK g \in {"auto", "abort"} : frames' = [frames EXCEPT ![t][1] = g]
  BY DEF BeginIgnored, AssertionFails
<1>2. /\ Idle(t) /\ Top(t) \in {"begin", "auto"}
      /\ UNCHANGED <<lockVars, recordVars, at, leaked>>
  BY DEF BeginIgnored, BeginError, AssertionFails, Ready, tranVars
<1>3. /\ Shapes' /\ LockInv' /\ Writer(t) /\ Len(frames[t]) > 0
      /\ Upper(frames[t]) = Top(t)
  BY <1>1, <1>2, BeginStep DEF IInv
<1>4. frames[t] \in Seq(Frames) /\ frames'[t] = [frames[t] EXCEPT ![1] = g] /\ OneTran(frames[t])
  BY <1>1 DEF IInv, Shapes, TranInv
<1>5. /\ ~HasTr(frames'[t]) /\ ~HasBegin(frames'[t]) /\ OneTran(frames'[t])
      /\ HasAuto(frames'[t]) /\ ~HasTr(frames[t]) /\ (HasBegin(frames[t]) <=> Top(t) = "begin")
  BY <1>2, <1>3, <1>4, BegunTran
<1>6. \A u \in Threads \ {t} : Lone(frames[u]) /\ frames'[u] = frames[u]
  BY <1>1, <1>3, OthersEmpty DEF IInv, Shapes
<1>7. ~in_transaction
  BY <1>5, <1>6 DEF IInv, TranInv, Lone
<1>8. /\ UNCHANGED <<in_transaction, tran_callbacks, tables, committed, outcomes>>
      /\ transaction_failed' \in {TRUE, transaction_failed}
      /\ \/ value' = value + 1 /\ tried' = {} /\ Top(t) = "begin"
         \/ value' = value /\ tried' = tried
  BY DEF BeginIgnored, BeginError, AssertionFails, tranVars
<1>9. /\ value \in Nat /\ value' \in Values /\ value' \in Nat /\ value <= value'
      /\ committed["a"] \in Nat /\ \A o \in outcomes : o[1] \in Nat
  <2>1. Top(t) = "begin" => value < MaxValue
    BY <1>5 DEF IInv, TranInv
  <2> QED BY <1>8, <2>1 DEF IInv, TranShapes, Values, Rows, SqlAssumption
<1>10. TranShapes'
  BY <1>8, <1>9 DEF IInv, TranShapes
<1>11. TranInv'
  <2>1. ASSUME NEW u \in Threads
        PROVE  OneTran(frames'[u]) /\ ~HasBegin(frames'[u]) /\ ~HasTr(frames'[u])
    BY <1>5, <1>6 DEF IInv, TranInv, Lone
  <2> QED BY <1>7, <1>8, <2>1 DEF TranInv
<1>12. Data'
  <2> SUFFICES ASSUME DataInv PROVE DataInv'
    BY DEF IInv, Data
  <2>1. committed["a"] <= value' /\ \A o \in outcomes : o[1] <= value'
    BY <1>7, <1>9 DEF DataInv
  <2> QED BY <1>5, <1>7, <1>8, <2>1 DEF DataInv
<1> QED BY <1>3, <1>10, <1>11, <1>12

(* Whose last call is a transaction is in one,                             *)
LEMMA InTransaction ==
  ASSUME IInv, NEW t \in Threads, Top(t) = "tr"
  PROVE  in_transaction /\ \A u \in Threads : ~HasAuto(frames[u])
<1>1. Len(frames[t]) > 0 /\ Upper(frames[t]) = "tr"
  BY FrameFacts DEF IInv
<1>2. HasTr(frames[t])
  BY <1>1, FrameFacts DEF HasTr, Upper, IInv
<1> QED BY <1>2, AutoOrTran DEF IInv, TranInv

(* and whose BEGIN failed is not.                                          *)
LEMMA NoTransaction ==
  ASSUME IInv, NEW t \in Threads, Top(t) = "auto"
  PROVE  ~in_transaction /\ HasAuto(frames[t])
<1>1. Len(frames[t]) > 0 /\ Upper(frames[t]) = "auto"
  BY FrameFacts DEF IInv
<1>2. HasAuto(frames[t])
  BY <1>1, FrameFacts DEF HasAuto, Upper, IInv
<1> QED BY <1>2, AutoOrTran DEF IInv, TranInv

(* A statement of the transaction runs or fails, and is recorded; without  *)
(* BEGIN it is on disk at once.                                            *)
LEMMA TranRuns ==
  ASSUME SqlAssumption, IInv, NEW t \in Threads, NEW q \in Rows, psync_sql_run(t, q)
  PROVE  TranShapes' /\ TranInv' /\ Data'
<1>1. q \notin tried /\ (Top(t) = "tr" \/ Top(t) = "auto")
  BY DEF psync_sql_run
<1>2. /\ in_transaction' = in_transaction /\ tran_callbacks' = tran_callbacks /\ value' = value
      /\ tried' = tried \union {q} /\ outcomes' = outcomes /\ frames' = frames
      /\ committed' = IF Top(t) = "tr" THEN committed ELSE tables'
      /\ \/ tables' = [tables EXCEPT ![q] = value] /\ transaction_failed' = transaction_failed
         \/ transaction_failed' = TRUE /\ tables' = tables
  BY DEF psync_sql_run, Durable
<1>3. TranShapes'
  <2>1. tables' \in [Rows -> Values]
    BY <1>2 DEF IInv, TranShapes
  <2> QED BY <1>2, <2>1 DEF IInv, TranShapes
<1>4. TranInv'
  BY <1>2 DEF IInv, TranInv
<1>5. CASE Top(t) = "tr"
  <2> SUFFICES ASSUME DataInv PROVE DataInv'
    BY <1>3, <1>4 DEF IInv, Data
  <2>1. in_transaction /\ committed' = committed
    BY <1>2, <1>5, InTransaction
  <2>2. ASSUME NEW r \in Rows
        PROVE  IF r \in tried' THEN tables'[r] = value \/ transaction_failed'
                               ELSE tables'[r] = committed[r]
    BY <1>1, <1>2, <2>1 DEF DataInv, IInv, TranShapes
  <2> QED BY <1>2, <2>1, <2>2 DEF DataInv
<1>6. CASE Top(t) = "auto"
  <2> SUFFICES ASSUME DataInv PROVE DataInv'
    BY <1>3, <1>4 DEF IInv, Data
  <2>1. ~in_transaction /\ HasAuto(frames[t]) /\ committed' = tables'
    BY <1>2, <1>6, NoTransaction
  <2>2. value \in Nat /\ tables["a"] <= value
    BY <2>1 DEF DataInv, IInv, TranShapes, Values
  <2>3. tables'["a"] <= value
    <3>1. tables'["a"] = tables["a"] \/ tables'["a"] = value
      BY <1>2 DEF IInv, TranShapes, Rows
    <3> QED BY <2>2, <3>1
  <2> QED BY <1>2, <2>1, <2>3 DEF DataInv
<1> QED BY <1>1, <1>3, <1>4, <1>5, <1>6

(* Callbacks are registered in a transaction only.                         *)
LEMMA TranCallbacks ==
  ASSUME SqlAssumption, IInv, NEW t \in Threads, psync_sql_transation_add_callbacks(t)
  PROVE  TranShapes' /\ TranInv' /\ Data'
<1>1. in_transaction
  BY InTransaction DEF psync_sql_transation_add_callbacks
<1>2. /\ UNCHANGED <<in_transaction, value, tried, committed, outcomes, frames, tables, transaction_failed>>
      /\ tran_callbacks' = tran_callbacks \union {value}
  BY DEF psync_sql_transation_add_callbacks
<1>3. TranShapes'
  BY <1>2 DEF IInv, TranShapes
<1>4. TranInv'
  BY <1>2 DEF IInv, TranInv
<1>5. Data'
  BY <1>1, <1>2 DEF IInv, Data, DataInv
<1> QED BY <1>3, <1>4, <1>5

(* A statement of psync_sql_statement, inside a transaction or on its own. *)
LEMMA TranStatement ==
  ASSUME SqlAssumption, IInv, NEW t \in Threads, NEW q \in Rows, psync_sql_statement(t, q)
  PROVE  TranShapes' /\ TranInv' /\ Data'
<1>1. /\ UNCHANGED <<in_transaction, tran_callbacks, outcomes, frames, transaction_failed>>
      /\ Ready(t) /\ rd[t] = 0 /\ (wr[t] > 0 \/ MayWrite(t))
  BY DEF psync_sql_statement
<1>2. CASE Top(t) \in {"tr", "auto"}
  <2>1. /\ ExecInTransaction /\ tried' = tried \union {q}
        /\ tables' = tables \/ tables' = [tables EXCEPT ![q] = value]
        /\ committed' \in {committed, tables'} /\ value' = value
    BY <1>2 DEF psync_sql_statement, Durable
  <2>2. TranShapes'
    BY <1>1, <2>1 DEF IInv, TranShapes
  <2>3. TranInv'
    BY <1>1, <2>1 DEF IInv, TranInv
  <2> QED BY <2>1, <2>2, <2>3 DEF Data
<1>3. CASE Top(t) \notin {"tr", "auto"}
  <2>1. /\ ~in_transaction /\ value < MaxValue /\ value' = value + 1 /\ committed' = tables'
        /\ tables' = tables \/ tables' = [r \in Rows |-> value']
        /\ tried' = tried
    BY <1>3 DEF psync_sql_statement
  <2>2. value \in Nat /\ value' \in Values
    BY <2>1 DEF IInv, TranShapes, Values, SqlAssumption
  <2>3. tables' \in [Rows -> Values]
    BY <2>1, <2>2 DEF IInv, TranShapes
  <2>4. TranShapes'
    BY <1>1, <2>1, <2>2, <2>3 DEF IInv, TranShapes
  <2>5. \A u \in Threads : ~HasBegin(frames[u])
    <3>1. ~HasBegin(frames[t])
      <4>1. Upper(frames[t]) = "begin" => Len(frames[t]) = 0
        BY <1>1, FrameFacts DEF Ready, IInv
      <4>2. Len(frames[t]) = 0 => ~HasBegin(frames[t])
        BY DEF HasBegin
      <4> QED BY <4>1, <4>2 DEF TranInv, IInv
    <3>2. CASE wr[t] > 0
      <4>1. Writer(t)
        BY <1>1, <3>2 DEF IInv, LockInv, Situated, Free, Reader, Recording, Upgrade, Leaving, Ready, Idle
      <4> QED BY <3>1, <4>1, OthersEmpty DEF IInv, Lone
    <3>3. CASE MayWrite(t)
      <4> SUFFICES ASSUME NEW u \in Threads \ {t} PROVE ~HasBegin(frames[u])
        BY <3>1
      <4>1. wr[u] = 0 /\ ~(rd[u] > 0)
        BY <3>3 DEF MayWrite, Others, Reads, SqlAssumption
      <4>2. Len(frames[u]) = 0
        BY <4>1 DEF IInv, LockInv, Situated, Free, Reader, Recording, Upgrade, Writer, Leaving
      <4> QED BY <4>2 DEF HasBegin
    <3> QED BY <1>1, <3>2, <3>3
  <2>6. TranInv'
    BY <1>1, <2>5 DEF IInv, TranInv
  <2>7. Data'
    <3> SUFFICES ASSUME DataInv PROVE DataInv'
      BY DEF IInv, Data
    <3>1. /\ tables = committed /\ committed["a"] <= value
          /\ (\A u \in Threads : ~HasAuto(frames[u])) => committed["a"] = committed["b"]
      BY <2>1 DEF DataInv
    <3>2. committed["a"] \in Nat /\ \A o \in outcomes : o[1] \in Nat
      BY DEF IInv, TranShapes, Values, Rows
    <3>3. /\ (\A u \in Threads : ~HasAuto(frames[u])) => tables'["a"] = tables'["b"]
          /\ tables'["a"] <= value'
      BY <2>1, <2>2, <3>1, <3>2 DEF Rows
    <3>4. \A o \in outcomes : o[1] <= value'
      BY <2>1, <2>2, <3>2 DEF DataInv
    <3> QED BY <1>1, <2>1, <3>3, <3>4 DEF DataInv
  <2> QED BY <2>4, <2>6, <2>7
<1> QED BY <1>2, <1>3

(* The end of a transaction leaves none.                                   *)
LEMMA TranEnds ==
  ASSUME SqlAssumption, IInv, NEW t \in Threads, NEW ok \in BOOLEAN, Ready(t), Top(t) = "tr",
         EndTransaction(t, ok)
  PROVE  /\ TranInv' /\ ~in_transaction'
         /\ outcomes' = outcomes \union (tran_callbacks \X {ok})
         /\ UNCHANGED <<tran_callbacks, value, tried>>
<1>1. Writer(t) /\ Len(frames[t]) > 0 /\ Upper(frames[t]) = "tr"
  BY UnlockTop DEF IInv
<1>2. /\ in_transaction' = FALSE /\ Pop(t)
      /\ outcomes' = outcomes \union (tran_callbacks \X {ok})
      /\ UNCHANGED <<tran_callbacks, value, tried>>
  BY DEF EndTransaction
<1>3. /\ Piled(frames[t], "tr", frames'[t]) /\ frames'[t] \in Seq(Frames)
      /\ \A u \in Threads \ {t} : frames'[u] = frames[u]
  BY <1>1, <1>2, PopFacts DEF IInv
<1>4. "tr" \in Frames /\ OneTran(frames[t])
  BY DEF Frames, IInv, TranInv
<1>5. OneTran(frames'[t]) /\ ~HasTr(frames'[t]) /\ ~HasBegin(frames'[t])
  BY <1>3, <1>4, PiledTran DEF Lone, Trans
<1>6. \A u \in Threads \ {t} : ~HasTr(frames[u]) /\ ~HasBegin(frames[u])
  BY <1>1, OthersEmpty DEF IInv, Lone
<1>7. ASSUME NEW u \in Threads
      PROVE  OneTran(frames'[u]) /\ ~HasTr(frames'[u]) /\ ~HasBegin(frames'[u])
  BY <1>3, <1>5, <1>6 DEF IInv, TranInv
<1> QED BY <1>2, <1>7 DEF TranInv

(* A rollback restores what was committed.                                 *)
LEMMA TranRollsBack ==
  ASSUME SqlAssumption, IInv, NEW t \in Threads, Ready(t), Top(t) = "tr",
         EndTransaction(t, FALSE), tables' = committed, committed' = committed,
         transaction_failed' \in BOOLEAN
  PROVE  TranShapes' /\ TranInv' /\ Data'
<1>1. /\ TranInv' /\ ~in_transaction' /\ in_transaction /\ \A u \in Threads : ~HasAuto(frames[u])
      /\ outcomes' = outcomes \union (tran_callbacks \X {FALSE})
      /\ UNCHANGED <<tran_callbacks, value, tried>>
  BY TranEnds, InTransaction
<1>2. TranShapes'
  <2>1. in_transaction' \in BOOLEAN
    BY DEF EndTransaction
  <2> QED BY <1>1, <2>1 DEF IInv, TranShapes
<1>3. Data'
  <2> SUFFICES ASSUME DataInv PROVE DataInv'
    BY DEF IInv, Data
  <2>1. committed["a"] <= value /\ value \in Nat /\ committed["a"] = committed["b"]
    BY <1>1 DEF DataInv, IInv, TranShapes, Values, Rows
  <2>2. \A o \in outcomes' : o[1] <= value
    <3>1. \A o \in outcomes : o[1] \in Nat /\ o[1] < value
      BY <1>1 DEF DataInv, IInv, TranShapes, Values
    <3>2. \A o \in tran_callbacks \X {FALSE} : o[1] = value
      BY <1>1 DEF DataInv
    <3> SUFFICES ASSUME NEW o \in outcomes' PROVE o[1] <= value
      OBVIOUS
    <3>3. CASE o \in outcomes
      BY <2>1, <3>1, <3>3
    <3>4. CASE o \in tran_callbacks \X {FALSE}
      <4>1. o[1] = value
        BY <3>2, <3>4, Zenon
      <4>2. value \in Nat
        BY DEF IInv, TranShapes, Values
      <4> QED BY <4>1, <4>2
    <3> QED BY <1>1, <3>3, <3>4
  <2> QED BY <1>1, <2>1, <2>2 DEF DataInv
<1> QED BY <1>1, <1>2, <1>3

(* A commit of all statements puts the whole transaction into the tables.  *)
LEMMA TranCommits ==
  ASSUME SqlAssumption, IInv, NEW t \in Threads, Ready(t), Top(t) = "tr", tried = Rows,
         ~transaction_failed, committed' = tables, EndTransaction(t, TRUE),
         UNCHANGED <<transaction_failed, tables>>
  PROVE  TranShapes' /\ TranInv' /\ Data' /\ (DataInv => tables = [r \in Rows |-> value])
<1>1. /\ TranInv' /\ ~in_transaction' /\ in_transaction
      /\ outcomes' = outcomes \union (tran_callbacks \X {TRUE})
      /\ UNCHANGED <<tran_callbacks, value, tried>>
  BY TranEnds, InTransaction
<1>2. TranShapes'
  <2>1. in_transaction' \in BOOLEAN
    BY DEF EndTransaction
  <2> QED BY <1>1, <2>1 DEF IInv, TranShapes
<1>3. ASSUME DataInv
      PROVE  tables = [r \in Rows |-> value] /\ DataInv'
  <2>1. \A r \in Rows : tables[r] = value
    BY <1>1, <1>3 DEF DataInv
  <2>2. tables = [r \in Rows |-> value]
    BY <2>1 DEF IInv, TranShapes
  <2>3. committed'["a"] = value /\ committed'["b"] = value
    BY <2>1 DEF Rows
  <2>4. \A o \in outcomes' : o[1] <= value
    <3>1. value \in Nat /\ \A o \in outcomes : o[1] \in Nat /\ o[1] < value
      BY <1>1, <1>3 DEF DataInv, IInv, TranShapes, Values
    <3>2. \A o \in tran_callbacks \X {TRUE} : o[1] = value
      BY <1>1, <1>3 DEF DataInv
    <3> SUFFICES ASSUME NEW o \in outcomes' PROVE o[1] <= value
      OBVIOUS
    <3>3. CASE o \in outcomes
      BY <3>1, <3>3
    <3>4. CASE o \in tran_callbacks \X {TRUE}
      <4>1. o[1] = value
        BY <3>2, <3>4, Zenon
      <4>2. value \in Nat
        BY DEF IInv, TranShapes, Values
      <4> QED BY <4>1, <4>2
    <3> QED BY <1>1, <3>3, <3>4
  <2>5. value \in Nat
    BY DEF IInv, TranShapes, Values
  <2>6. committed'["a"] <= value' /\ committed'["a"] = committed'["b"] /\ tables' = committed'
    BY <1>1, <2>3, <2>5
  <2> QED BY <1>1, <2>2, <2>4, <2>6 DEF DataInv
<1> QED BY <1>1, <1>2, <1>3 DEF Data, IInv

-----------------------------------------------------------------------------
(* Every step keeps the invariant.                                         *)
LEMMA InitIInv == ASSUME SqlAssumption, Init PROVE IInv
<1>1. Shapes
  BY DEF Init, Shapes
<1>2. \A t \in Threads : Len(frames[t]) = 0
  BY DEF Init
<1>3. LockInv
  <2>1. \A t \in Threads : Free(t) /\ Bounded(t)
    <3> SUFFICES ASSUME NEW t \in Threads PROVE Free(t) /\ Bounded(t)
      OBVIOUS
    <3>1. /\ at[t] = "run" /\ upgrader # t /\ leaked = {} /\ rd[t] = 0 /\ wr[t] = 0
          /\ sqlrdlockcnt[t] = 0 /\ rdlock[t] = FALSE
      BY DEF Init, SqlAssumption
    <3>2. 0 <= MaxNested /\ ~(0 > 0)
      BY DEF SqlAssumption
    <3> QED BY <1>2, <3>1, <3>2 DEF Free, Bounded
  <2> QED BY <2>1 DEF Init, LockInv, Situated, OneWriter, WriterRecorded
<1>4. TranShapes
  <2>1. 0 \in Values
    BY DEF Values, SqlAssumption
  <2> QED BY <2>1 DEF Init, TranShapes
<1>5. TranInv
  BY <1>2 DEF Init, TranInv, OneTran, HasTr, HasBegin
<1>6. DataInv
  BY DEF Init, DataInv, Rows
<1> QED BY <1>1, <1>3, <1>4, <1>5, <1>6 DEF IInv, Data

(* Every step keeps the inductive invariant.                               *)
LEMMA IInvStep == ASSUME SqlAssumption, IInv, [Next]_vars PROVE IInv'
<1>1. CASE UNCHANGED vars
  <2>1. Shapes' /\ LockInv'
    BY <1>1, Unlocked DEF IInv, vars, tranVars
  <2>2. TranShapes' /\ Data'
    BY <1>1, TranUnchanged DEF IInv, vars, SameAuto
  <2>3. TranInv'
    BY <1>1 DEF IInv, TranInv, vars, tranVars
  <2> QED BY <2>1, <2>2, <2>3 DEF IInv
<1>2. ASSUME NEW t \in Threads, psync_sql_lock(t)
      PROVE  IInv'
  <2>1. Push(t, "wr") /\ TakeWrite(t) /\ Ready(t) /\ UNCHANGED tranVars
    BY <1>2 DEF psync_sql_lock, TakeWrite
  <2>2. Shapes' /\ LockInv'
    BY <2>1, TakeWriteStep DEF IInv
  <2>3. TranInv' /\ SameAuto
    BY <2>1, PushTran DEF IInv, tranVars
  <2> QED BY <2>1, <2>2, <2>3, TranUnchanged DEF IInv
<1>3. ASSUME NEW t \in Threads, record_wrlock(t) \/ leave_wrlock(t) \/ Upgraded(t)
                                  \/ psync_sql_tryupgradelock(t) \/ record_upgrade(t)
      PROVE  IInv'
  <2>1. Shapes' /\ LockInv'
    BY <1>3, RecordStep, LeaveStep, UpgradedStep, TryUpgradeStep, RecordUpgradeStep DEF IInv
  <2>2. UNCHANGED tranVars /\ UNCHANGED frames
    BY <1>3 DEF record_wrlock, leave_wrlock, Upgraded, psync_sql_tryupgradelock, record_upgrade
  <2>3. TranInv' /\ SameAuto
    BY <2>2 DEF IInv, TranInv, tranVars, SameAuto
  <2> QED BY <2>1, <2>2, <2>3, TranUnchanged DEF IInv
<1>4. ASSUME NEW t \in Threads, psync_sql_unlock(t)
      PROVE  IInv'
  <2>1. Pop(t) /\ Unlock(t) /\ Ready(t) /\ Top(t) = "wr" /\ UNCHANGED tranVars
    BY <1>4 DEF psync_sql_unlock
  <2>2. Writer(t) /\ Len(frames[t]) > 0 /\ Upper(frames[t]) = "wr"
    BY <2>1, UnlockTop DEF IInv
  <2>3. Shapes' /\ LockInv'
    BY <2>1, <2>2, UnlockStep DEF IInv, tranVars
  <2>4. TranInv' /\ SameAuto
    BY <2>1, <2>2, PopTran DEF IInv, tranVars
  <2> QED BY <2>1, <2>3, <2>4, TranUnchanged DEF IInv
<1>5. ASSUME NEW t \in Threads, psync_sql_rdlock(t)
      PROVE  IInv'
  <2>1. Push(t, "rd") /\ Ready(t) /\ UNCHANGED tranVars
    BY <1>5 DEF psync_sql_rdlock
  <2>2. TranInv' /\ SameAuto
    BY <2>1, PushTran DEF IInv, tranVars
  <2> QED BY <1>5, <2>1, <2>2, RdlockStep, TranUnchanged DEF IInv
<1>6. ASSUME NEW t \in Threads, psync_sql_rdunlock(t)
      PROVE  IInv'
  <2>1. Pop(t) /\ UNCHANGED tranVars
    BY <1>6 DEF psync_sql_rdunlock
  <2>2. Shapes' /\ LockInv' /\ Len(frames[t]) > 0 /\ Upper(frames[t]) = "rd"
    BY <1>6, RdunlockStep DEF IInv
  <2>3. TranInv' /\ SameAuto
    BY <2>1, <2>2, PopTran DEF IInv, tranVars
  <2> QED BY <2>1, <2>2, <2>3, TranUnchanged DEF IInv
<1>7. ASSUME NEW t \in Threads, psync_sql_start_transaction(t)
      PROVE  IInv'
  <2>1. Push(t, "begin") /\ TakeWrite(t) /\ Ready(t) /\ UNCHANGED tranVars
    BY <1>7 DEF psync_sql_start_transaction, TakeWrite
  <2>2. Shapes' /\ LockInv'
    BY <2>1, TakeWriteStep DEF IInv
  <2>3. value < MaxValue /\ ~HasTr(frames[t]) /\ ~HasAuto(frames[t])
    BY <1>7 DEF psync_sql_start_transaction, HasTr, HasAuto, IInv, Shapes
  <2>4. TranInv' /\ SameAuto
    BY <2>1, <2>3, PushTran DEF IInv, tranVars
  <2> QED BY <2>1, <2>2, <2>4, TranUnchanged DEF IInv
<1>8. ASSUME NEW t \in Threads, Begin(t)
      PROVE  IInv'
  BY <1>8, TranBegins DEF IInv
<1>9. ASSUME NEW t \in Threads, BeginFails(t)
      PROVE  IInv'
  BY <1>9, BeginFailsStep, TranBeginFails DEF IInv
<1>10. ASSUME NEW t \in Threads, NEW r \in Rows, psync_sql_run(t, r)
       PROVE  IInv'
  <2>1. UNCHANGED <<lockVars, recordVars, at, frames, leaked>>
    BY <1>10 DEF psync_sql_run
  <2> QED BY <1>10, <2>1, Unlocked, TranRuns DEF IInv
<1>11. ASSUME NEW t \in Threads, NEW r \in Rows, psync_sql_statement(t, r)
       PROVE  IInv'
  <2>1. UNCHANGED <<lockVars, recordVars, at, frames, leaked>>
    BY <1>11 DEF psync_sql_statement
  <2> QED BY <1>11, <2>1, Unlocked, TranStatement DEF IInv
<1>12. ASSUME NEW t \in Threads, psync_sql_transation_add_callbacks(t)
       PROVE  IInv'
  <2>1. UNCHANGED <<lockVars, recordVars, at, frames, leaked>>
    BY <1>12 DEF psync_sql_transation_add_callbacks
  <2> QED BY <1>12, <2>1, Unlocked, TranCallbacks DEF IInv
<1>13. ASSUME NEW t \in Threads, psync_sql_commit_transaction(t)
       PROVE  IInv'
  <2>1. Ready(t) /\ Top(t) = "tr" /\ tried = Rows
    BY <1>13 DEF psync_sql_commit_transaction
  <2>2. CASE /\ ~transaction_failed /\ committed' = tables /\ EndTransaction(t, TRUE)
             /\ UNCHANGED <<transaction_failed, tables>>
    BY <2>1, <2>2, EndLock, TranCommits DEF IInv
  <2>3. CASE /\ transaction_failed' = TRUE /\ tables' = committed /\ EndTransaction(t, FALSE)
             /\ UNCHANGED committed
    BY <2>1, <2>3, EndLock, TranRollsBack DEF IInv
  <2> QED BY <1>13, <2>2, <2>3 DEF psync_sql_commit_transaction
<1>14. ASSUME NEW t \in Threads, psync_sql_rollback_transaction(t)
       PROVE  IInv'
  <2>1. /\ Ready(t) /\ Top(t) = "tr" /\ tables' = committed /\ EndTransaction(t, FALSE)
        /\ transaction_failed' \in BOOLEAN /\ committed' = committed
    BY <1>14 DEF psync_sql_rollback_transaction, IInv, TranShapes
  <2> QED BY <2>1, EndLock, TranRollsBack DEF IInv
<1>15. ASSUME NEW t \in Threads, BeginIgnored(t) \/ AssertionFails(t)
       PROVE  IInv'
  BY <1>15, TranIgnores DEF IInv
<1> QED BY <1>1, <1>2, <1>3, <1>4, <1>5, <1>6, <1>7, <1>8, <1>9, <1>10, <1>11, <1>12, <1>13, <1>14,
           <1>15
        DEF Next

(* Every assertion of the accounting holds and the record agrees with the  *)
(* lock, whether or not transactions use psync_sql_statement.              *)
LEMMA IInvAccounting == ASSUME SqlAssumption, IInv PROVE Accounting
<1> USE DEF IInv
<1>1. ASSUME NEW t \in Threads
      PROVE  /\ rd[t] \in 0 .. MaxNested /\ wr[t] \in 0 .. MaxNested + 1
             /\ sqlrdlockcnt[t] \in 0 .. MaxNested
  <2>1. /\ Len(frames[t]) \in Nat /\ Len(frames[t]) <= MaxNested /\ MaxNested \in Nat
        /\ MaxNested > 0 /\ Leaks(t) \in 0 .. 1
        /\ Reading(frames[t]) \in Nat /\ Reading(frames[t]) <= Len(frames[t])
        /\ rd[t] \in Int /\ wr[t] \in Int /\ sqlrdlockcnt[t] \in Nat
    BY FrameFacts DEF LockInv, Bounded, SqlAssumption, Leaks
  <2>2. CASE Writer(t)
    <3>1. rd[t] = 0 /\ wr[t] > 0 /\ wr[t] = Len(frames[t]) + Leaks(t)
          /\ sqlrdlockcnt[t] <= Reading(frames[t])
      BY <2>2 DEF Writer
    <3> QED BY <2>1, <3>1
  <2>3. CASE ~Writer(t)
    <3>1. /\ rd[t] = 0 \/ rd[t] = Len(frames[t])
          /\ wr[t] = 0 \/ wr[t] = 1
          /\ sqlrdlockcnt[t] = 0 \/ sqlrdlockcnt[t] = 1 \/ sqlrdlockcnt[t] = Len(frames[t])
      BY <2>3 DEF LockInv, Situated, Free, Reader, Recording, Upgrade, Leaving
    <3> QED BY <2>1, <3>1
  <2> QED BY <2>2, <2>3
<1>2. sqllockcnt \in 0 .. MaxNested + 1
  <2>1. CASE wrlocker = NoThread
    BY <2>1 DEF LockInv, WriterRecorded, SqlAssumption
  <2>2. CASE wrlocker # NoThread
    <3>1. PICK t \in Threads : t = wrlocker /\ Writer(t)
      BY <2>2 DEF Shapes, LockInv, WriterRecorded
    <3>2. sqllockcnt > 0 /\ wr[t] = sqllockcnt + sqlrdlockcnt[t]
      BY <3>1, WriterCounts DEF Writer
    <3>3. sqllockcnt \in Int /\ MaxNested \in Nat
      BY DEF Shapes, SqlAssumption
    <3> QED BY <1>1, <3>2, <3>3
  <2> QED BY <2>1, <2>2
<1>3. TypeOK
  <2>1. /\ rd \in [Threads -> 0 .. MaxNested] /\ wr \in [Threads -> 0 .. MaxNested + 1]
        /\ sqlrdlockcnt \in [Threads -> 0 .. MaxNested]
    BY <1>1 DEF Shapes
  <2> QED BY <1>2, <2>1 DEF TypeOK, Shapes, TranShapes, Frames
<1>4. AccountingAssertions
  <2> SUFFICES ASSUME NEW t \in Threads
               PROVE  /\ at[t] = "record" => sqllockcnt = 0 /\ wrlocker = NoThread /\ ~rdlock[t]
                      /\ at[t] = "upgraded"
                           => wrlocker = NoThread /\ sqlrdlockcnt[t] = 1 /\ rdlock[t]
                      /\ Idle(t) /\ Top(t) \in {"wr", "tr", "begin", "auto", "abort"}
                           => sqllockcnt > 0 /\ wrlocker = t
                      /\ Ready(t) /\ Top(t) = "rd" /\ sqlrdlockcnt[t] = 0
                           => sqllockcnt > 0 /\ wrlocker = t
    BY DEF AccountingAssertions
  <2>1. ASSUME wr[t] > 0, ~Writer(t)
        PROVE  wrlocker = NoThread /\ sqllockcnt = 0
    <3> SUFFICES ASSUME wrlocker # NoThread PROVE FALSE
      BY DEF LockInv, WriterRecorded
    <3>1. PICK u \in Threads \ {t} : Writer(u)
      BY <2>1 DEF Shapes, LockInv, WriterRecorded
    <3> QED BY <2>1, <3>1, Alone DEF Writer
  <2>2. at[t] = "record" => sqllockcnt = 0 /\ wrlocker = NoThread /\ ~rdlock[t]
    <3> SUFFICES ASSUME at[t] = "record" PROVE sqllockcnt = 0 /\ wrlocker = NoThread /\ ~rdlock[t]
      OBVIOUS
    <3>1. Recording(t) /\ Bounded(t)
      BY DEF LockInv, Situated, Free, Reader, Upgrade, Writer, Leaving
    <3> QED BY <2>1, <3>1 DEF Recording, Bounded, Writer
  <2>3. at[t] = "upgraded" => wrlocker = NoThread /\ sqlrdlockcnt[t] = 1 /\ rdlock[t]
    <3> SUFFICES ASSUME at[t] = "upgraded"
                 PROVE  wrlocker = NoThread /\ sqlrdlockcnt[t] = 1 /\ rdlock[t]
      OBVIOUS
    <3>1. Upgrade(t) /\ Bounded(t)
      BY DEF LockInv, Situated, Free, Reader, Recording, Writer, Leaving
    <3> QED BY <2>1, <3>1 DEF Upgrade, Bounded, Writer
  <2>4. Writer(t) => sqllockcnt > 0 /\ wrlocker = t
    BY WriterCounts DEF Writer
  <2>5. Idle(t) /\ Top(t) \in {"wr", "tr", "begin", "auto", "abort"} => Writer(t)
    BY FrameFacts DEF LockInv, Situated, Free, Reader, Recording, Upgrade, Leaving, Idle
  <2>6. Ready(t) /\ Top(t) = "rd" /\ sqlrdlockcnt[t] = 0 => Writer(t)
    BY FrameFacts DEF LockInv, Situated, Free, Reader, Recording, Upgrade, Leaving, Idle, Ready
  <2> QED BY <2>2, <2>3, <2>4, <2>5, <2>6
<1>5. AccountingAgrees
  <2> SUFFICES ASSUME NEW t \in Threads
               PROVE  /\ Idle(t) /\ wr[t] > 0 => wr[t] = sqllockcnt + sqlrdlockcnt[t]
                      /\ rd[t] > 0 /\ at[t] = "run" => rd[t] = sqlrdlockcnt[t]
                      /\ frames[t] = <<>> /\ at[t] = "run" /\ t \notin leaked
                           => rd[t] = 0 /\ wr[t] = 0
    BY DEF AccountingAgrees
  <2>1. at[t] = "run" => Free(t) \/ Reader(t) \/ Writer(t)
    BY DEF LockInv, Situated, Recording, Upgrade, Leaving
  <2>2. frames[t] = <<>> => Len(frames[t]) = 0
    OBVIOUS
  <2>3. Idle(t) /\ wr[t] > 0 => wr[t] = sqllockcnt + sqlrdlockcnt[t]
    BY <2>1 DEF Idle, Free, Reader, Writer
  <2>4. rd[t] > 0 /\ at[t] = "run" => rd[t] = sqlrdlockcnt[t]
    BY <2>1 DEF Free, Reader, Writer
  <2>5. ASSUME Len(frames[t]) = 0, at[t] = "run", t \notin leaked
        PROVE  rd[t] = 0 /\ wr[t] = 0
    <3>1. ~Writer(t)
      BY <2>5 DEF Writer, Leaks
    <3>2. ~Reader(t)
      BY <2>5 DEF Reader
    <3> QED BY <2>1, <2>5, <3>1, <3>2 DEF Free
  <2> QED BY <2>2, <2>3, <2>4, <2>5
<1> QED BY <1>3, <1>4, <1>5 DEF Accounting

(* It says that no reader sees half a transaction, unless statements       *)
(* bypass the record: a thread that goes on without BEGIN keeps readers    *)
(* out.                                                                    *)
LEMMA IInvRows == ASSUME SqlAssumption, ~ExecInTransaction, IInv PROVE ConsistentRows
<1>1. DataInv
  BY DEF IInv, Data
<1>2. ASSUME NEW t \in Threads, rd[t] > 0,
             NEW u \in Threads, HasTr(frames[u]) \/ HasAuto(frames[u])
      PROVE  FALSE
  <2>1. Writer(u)
    BY <1>2, TranWriter DEF IInv
  <2>2. CASE u = t
    BY <1>2, <2>1, <2>2 DEF Writer
  <2>3. CASE u # t
    <3>1. wr[u] = 0
      BY <1>2, <2>3, ReaderExcludes DEF IInv
    <3> QED BY <2>1, <3>1 DEF Writer
  <2> QED BY <2>2, <2>3
<1>3. ASSUME NEW t \in Threads, wr[t] > 0, NEW u \in Threads \ {t}
      PROVE  ~HasAuto(frames[u])
  <2> SUFFICES ASSUME HasAuto(frames[u]) PROVE FALSE
    OBVIOUS
  <2>1. Writer(u)
    BY TranWriter DEF IInv
  <2> QED BY <1>3, <2>1 DEF IInv, LockInv, OneWriter, Writer
<1>4. \A t \in Threads : Unbegun(t) <=> HasAuto(frames[t])
  BY DEF Unbegun, HasAuto, IInv, Shapes
<1>5. (\A t \in Threads : ~HasAuto(frames[t])) /\ ~in_transaction => tables["a"] = tables["b"]
  BY <1>1 DEF DataInv
<1>6. \A t \in Threads : rd[t] > 0 => tables["a"] = tables["b"]
  BY <1>2, <1>5 DEF IInv, TranInv
<1>7. \A t \in Threads : wr[t] > 0 /\ ~in_transaction /\ ~Unbegun(t) => tables["a"] = tables["b"]
  BY <1>3, <1>4, <1>5
<1> QED BY <1>1, <1>4, <1>6, <1>7 DEF ConsistentRows, DataInv

(* What a step does to the outcomes.                                       *)
Truthful ==
  \A v \in Values, ok \in BOOLEAN :
    <<v, ok>> \in outcomes' \ outcomes
      => /\ ok <=> committed' = [r \in Rows |-> v]
         /\ <<v, ~ok>> \notin outcomes'

(* The end of a transaction reports what happened to it,                   *)
LEMMA EndTruthful ==
  ASSUME SqlAssumption, IInv, DataInv, NEW t \in Threads, NEW success \in BOOLEAN,
         Ready(t), Top(t) = "tr",
         EndTransaction(t, success), success <=> committed' = [r \in Rows |-> value]
  PROVE  Truthful
<1>1. in_transaction /\ outcomes' = outcomes \union (tran_callbacks \X {success})
  BY TranEnds, InTransaction
<1>2. tran_callbacks \subseteq {value} /\ \A o \in outcomes : o[1] < value
  BY <1>1 DEF DataInv
<1> SUFFICES ASSUME NEW v \in Values, NEW ok \in BOOLEAN, <<v, ok>> \in outcomes' \ outcomes
             PROVE  /\ ok <=> committed' = [r \in Rows |-> v]
                    /\ <<v, ~ok>> \notin outcomes'
  BY DEF Truthful
<1>3. <<v, ok>> \in tran_callbacks \X {success}
  BY <1>1
<1>4. v = value /\ ok = success
  BY <1>2, <1>3
<1>5. <<v, ~ok>> \notin tran_callbacks \X {success}
  BY <1>4
<1>6. <<v, ~ok>> \notin outcomes
  <2>1. value \in Nat
    BY DEF IInv, TranShapes, Values
  <2>2. <<v, ~ok>>[1] = value
    BY <1>4
  <2> SUFFICES ASSUME <<v, ~ok>> \in outcomes PROVE FALSE
    OBVIOUS
  <2>3. <<v, ~ok>>[1] < value
    BY <1>2
  <2> QED BY <2>1, <2>2, <2>3
<1> QED BY <1>1, <1>4, <1>5, <1>6

(* and no other step reports anything.                                     *)
LEMMA StepTruthful == ASSUME SqlAssumption, ~ExecInTransaction, IInv, [Next]_vars PROVE Truthful
<1>1. DataInv
  BY DEF IInv, Data
<1>2. SUFFICES ASSUME outcomes' # outcomes PROVE Truthful
  BY DEF Truthful
<1>3. PICK t \in Threads : psync_sql_commit_transaction(t) \/ psync_sql_rollback_transaction(t)
  BY <1>2 DEF Next, vars, tranVars, psync_sql_lock, TakeWrite, record_wrlock, psync_sql_unlock,
              leave_wrlock, psync_sql_rdlock, psync_sql_rdunlock, psync_sql_tryupgradelock,
              Upgraded, record_upgrade, psync_sql_start_transaction, Begin, BeginFails,
              BeginIgnored, BeginError, AssertionFails,
              psync_sql_run, psync_sql_statement, psync_sql_transation_add_callbacks
<1>4. Ready(t) /\ Top(t) = "tr"
  BY <1>3 DEF psync_sql_commit_transaction, psync_sql_rollback_transaction
<1>5. committed # [r \in Rows |-> value]
  <2>1. committed["a"] < value /\ value \in Nat
    BY <1>1, <1>4, InTransaction DEF DataInv, IInv, TranShapes, Values
  <2> QED BY <2>1 DEF Rows
<1>6. CASE EndTransaction(t, FALSE) /\ committed' = committed
  BY <1>1, <1>4, <1>5, <1>6, EndTruthful
<1>7. CASE /\ tried = Rows /\ ~transaction_failed /\ committed' = tables /\ EndTransaction(t, TRUE)
           /\ UNCHANGED <<transaction_failed, tables>>
  BY <1>1, <1>4, <1>7, EndTruthful, TranCommits
<1> QED BY <1>3, <1>6, <1>7 DEF psync_sql_commit_transaction, psync_sql_rollback_transaction

-----------------------------------------------------------------------------
(* The inductive invariant holds of every state.                           *)
THEOREM SqlInvariant == ASSUME SqlAssumption PROVE Spec => []IInv
<1>1. Init => IInv
  BY InitIInv
<1>2. IInv /\ [Next]_vars => IInv'
  BY IInvStep
<1> QED BY <1>1, <1>2, PTL DEF Spec

(* The record of who has the database lock agrees with the lock and no     *)
(* assertion of the accounting fails (plibs.c:628-680, 744-767).           *)
THEOREM AccountingHolds == ASSUME SqlAssumption PROVE Spec => []Accounting
<1>1. IInv => Accounting
  BY IInvAccounting
<1> QED BY <1>1, SqlInvariant, PTL

(* Whoever may look at the tables sees the rows of one transaction, if no  *)
(* statement of a transaction escapes transaction_failed (plibs.c:1490);   *)
(* the disk has them too, except while a thread goes on after a failed     *)
(* BEGIN (plibs.c:829).                                                    *)
THEOREM RowsConsistent ==
  ASSUME SqlAssumption, ~ExecInTransaction PROVE Spec => []ConsistentRows
<1>1. IInv => ConsistentRows
  BY IInvRows
<1> QED BY <1>1, SqlInvariant, PTL

(* The callbacks of a transaction learn whether it reached the disk        *)
(* (run_commit_callbacks, plibs.c:837).                                    *)
THEOREM CallbacksTruthful ==
  ASSUME SqlAssumption, ~ExecInTransaction PROVE Spec => CallbacksTellTheTruth
<1>1. IInv /\ [Next]_vars => [Truthful]_vars
  BY StepTruthful
<1> QED BY <1>1, SqlInvariant, PTL DEF Spec, CallbacksTellTheTruth, Truthful
=============================================================================
