---------------------------- MODULE PTimerProofs ----------------------------
(***************************************************************************)
(* That no timer of ptimer.c is forgotten or, but for the hasty ones,      *)
(* called early, that the waiters for the next second are woken, and that  *)
(* the users of the timers may rely on their contract: for every number of *)
(* timers, waiters, levels and slots and all intervals.                    *)
(***************************************************************************)
EXTENDS PTimer, TLAPS

(* Quotients and remainders.                                               *)
LEMMA Quotient ==
  ASSUME NEW u \in Nat \ {0}, NEW r \in Nat
  PROVE  /\ r \div u \in Nat
         /\ (r \div u) * u <= r /\ r < (r \div u) * u + u
         /\ r % u = r - (r \div u) * u
  OBVIOUS

(* A number without remainder is a multiple,                               *)
LEMMA NoRemainder ==
  ASSUME NEW u \in Nat \ {0}, NEW r \in Nat, r % u = 0
  PROVE  r \div u \in Nat /\ r = (r \div u) * u
  BY Quotient

(* a quotient is at least each multiple below                              *)
LEMMA QuotientAtLeast ==
  ASSUME NEW u \in Nat \ {0}, NEW r \in Nat, NEW k \in Nat, k * u <= r
  PROVE  k <= r \div u
<1>1. r < (r \div u) * u + u /\ r \div u \in Nat BY Quotient
<1>2. ASSUME k >= r \div u + 1 PROVE FALSE
  <2>1. k * u >= (r \div u + 1) * u BY <1>1, <1>2
  <2>2. (r \div u + 1) * u = (r \div u) * u + u BY <1>1
  <2> QED BY <1>1, <2>1, <2>2
<1> QED BY <1>1, <1>2

(* and less than each multiple above,                                      *)
LEMMA QuotientBelow ==
  ASSUME NEW u \in Nat \ {0}, NEW r \in Nat, NEW k \in Nat, r < k * u
  PROVE  r \div u < k
<1>1. (r \div u) * u <= r /\ r \div u \in Nat BY Quotient
<1>2. ASSUME k <= r \div u PROVE FALSE
  <2>1. k * u <= (r \div u) * u BY <1>1, <1>2
  <2> QED BY <1>1, <2>1
<1> QED BY <1>1, <1>2

(* a multiple is more than its factor,                                     *)
LEMMA Enlarged ==
  ASSUME NEW u \in Nat \ {0}, NEW n \in Nat, n >= 2
  PROVE  u * n > u
<1>1. u * n >= u * 2 OBVIOUS
<1> QED BY <1>1

(* and a multiple has no remainder.                                        *)
LEMMA Multiple ==
  ASSUME NEW u \in Nat \ {0}, NEW m \in Nat
  PROVE  (m * u) \div u = m /\ (m * u) % u = 0
<1>1. m * u \in Nat OBVIOUS
<1>2. m <= (m * u) \div u BY <1>1, QuotientAtLeast
<1>3. m * u < (m + 1) * u OBVIOUS
<1>4. (m * u) \div u < m + 1 BY <1>1, <1>3, QuotientBelow
<1>5. (m * u) \div u \in Nat /\ (m * u) % u = m * u - ((m * u) \div u) * u BY <1>1, Quotient
<1> QED BY <1>2, <1>4, <1>5

(* Numbers less than N apart that leave the same remainder are equal.      *)
LEMMA SameResidue ==
  ASSUME NEW N \in Nat \ {0}, NEW a \in Nat, NEW b \in Nat, a % N = b % N, a >= b, a < b + N
  PROVE  a = b
<1>1. /\ a \div N \in Nat /\ a % N = a - (a \div N) * N
      /\ b \div N \in Nat /\ b % N = b - (b \div N) * N
  BY Quotient
<1> DEFINE x == (a \div N) - (b \div N)
<1>2. x \in Int /\ a - b = x * N
  <2>1. a - b = (a \div N) * N - (b \div N) * N BY <1>1
  <2>2. (a \div N) * N - (b \div N) * N = x * N BY <1>1
  <2> QED BY <1>1, <2>1, <2>2
<1> HIDE DEF x
<1>3. ASSUME x >= 1 PROVE FALSE
  <2>1. x * N >= N BY <1>2, <1>3
  <2> QED BY <1>2, <2>1
<1>4. ASSUME x <= -1 PROVE FALSE
  <2>1. x * N <= -N BY <1>2, <1>4
  <2> QED BY <1>2, <2>1
<1>5. x = 0 BY <1>2, <1>3, <1>4
<1> QED BY <1>2, <1>5

-----------------------------------------------------------------------------
(* The levels of the wheel.                                                *)
LEMMA Turns ==
  ASSUME WheelAssumption, NEW l \in Levels
  PROVE  /\ l \in Nat /\ Turn(l) \in Nat \ {0}
         /\ Span(l) \in Nat \ {0} /\ Span(l) = Turn(l) * TIMER_ARRAY_SIZE
         /\ TIMER_ARRAY_SIZE \in Nat \ {0}
         /\ l = 0 => Turn(l) = 1
         /\ l > 0 => l - 1 \in Levels /\ Turn(l) = Turn(l - 1) * TIMER_ARRAY_SIZE
<1>1. l \in 0 .. TIMER_LEVELS /\ l + 1 \in 0 .. TIMER_LEVELS /\ l \in 0 .. l + 1 /\ 1 = (l + 1) - l
  BY DEF WheelAssumption, Levels
<1>2. Turn(l + 1) = Turn(l) * Turn(1) BY <1>1 DEF WheelAssumption
<1>3. ASSUME l > 0 PROVE l - 1 \in Levels /\ Turn(l) = Turn(l - 1) * TIMER_ARRAY_SIZE
  <2>1. l - 1 \in 0 .. l /\ l - (l - 1) = 1 BY <1>1, <1>3
  <2>2. Turn(l) = Turn(l - 1) * Turn(1) BY <1>1, <2>1 DEF WheelAssumption
  <2> QED BY <1>1, <1>3, <2>2 DEF WheelAssumption, Levels
<1> QED BY <1>1, <1>2, <1>3 DEF WheelAssumption, Span

(* Every time has its slot at every level.                                 *)
LEMMA SlotType ==
  ASSUME WheelAssumption, NEW l \in Levels, NEW time \in Nat
  PROVE  Slot(l, time) \in Slots
<1>1. time \div Turn(l) \in Nat BY Turns, Quotient
<1> QED BY <1>1, Turns DEF Slot, Slots

(* A slot opens at or before the time it is for, by less than a turn of    *)
(* its level.                                                              *)
LEMMA OpensBounds ==
  ASSUME WheelAssumption, NEW l \in Levels, NEW time \in Nat
  PROVE  /\ Opens(l, time) \in Nat
         /\ Opens(l, time) <= time /\ time < Opens(l, time) + Turn(l)
         /\ l = 0 => Opens(l, time) = time
<1>1. /\ time \div Turn(l) \in Nat
      /\ (time \div Turn(l)) * Turn(l) <= time
      /\ time < (time \div Turn(l)) * Turn(l) + Turn(l)
  BY Turns, Quotient
<1>2. Opens(l, time) \in Nat BY <1>1, Turns DEF Opens
<1> QED BY <1>1, <1>2, Turns DEF Opens

(* A time whose slot opens at second s is in the slot that s opens, *)
LEMMA OpensSlot ==
  ASSUME WheelAssumption, NEW l \in Levels, NEW s \in Nat, NEW time \in Nat, Opens(l, time) = s
  PROVE  Slot(l, time) = Slot(l, s)
<1>1. time \div Turn(l) \in Nat BY Turns, Quotient
<1>2. s \div Turn(l) = time \div Turn(l) BY <1>1, Turns, Multiple DEF Opens
<1> QED BY <1>2 DEF Slot

(* and less than a lap ahead it is the only one.                           *)
LEMMA SlotOpens ==
  ASSUME WheelAssumption, NEW l \in Levels, NEW s \in Nat, NEW time \in Nat,
         s % Turn(l) = 0, Slot(l, time) = Slot(l, s),
         Opens(l, time) >= s, time < s + Span(l)
  PROVE  Opens(l, time) = s
<1> DEFINE a == time \div Turn(l)
           b == s \div Turn(l)
           u == Turn(l)
<1>1. u \in Nat \ {0} /\ Span(l) = u * TIMER_ARRAY_SIZE /\ TIMER_ARRAY_SIZE \in Nat \ {0}
  BY Turns
<1>2. a \in Nat /\ a * u <= time BY <1>1, Quotient
<1>3. b \in Nat /\ s = b * u BY <1>1, NoRemainder
<1>4. a * u >= b * u BY <1>3 DEF Opens
<1> HIDE DEF a, b, u
<1>5. a >= b
  <2>1. ASSUME a + 1 <= b PROVE FALSE
    <3>1. (a + 1) * u <= b * u BY <1>1, <1>2, <1>3, <2>1
    <3>2. (a + 1) * u = a * u + u BY <1>1, <1>2, <1>3
    <3> QED BY <1>1, <1>2, <1>3, <1>4, <3>1, <3>2
  <2> QED BY <1>2, <1>3, <2>1
<1>6. a < b + TIMER_ARRAY_SIZE
  <2>1. time < (b + TIMER_ARRAY_SIZE) * u
    <3>1. (b + TIMER_ARRAY_SIZE) * u = b * u + u * TIMER_ARRAY_SIZE BY <1>1, <1>2, <1>3
    <3> QED BY <1>1, <1>2, <1>3, <3>1
  <2>2. b + TIMER_ARRAY_SIZE \in Nat BY <1>1, <1>3
  <2>3. time \div u < b + TIMER_ARRAY_SIZE BY <1>1, <2>1, <2>2, QuotientBelow
  <2> QED BY <2>3 DEF a, u
<1>7. a = b BY <1>1, <1>2, <1>3, <1>5, <1>6, SameResidue DEF Slot, a, b
<1> QED BY <1>3, <1>7 DEF Opens, a, u

(* A slot of the level below opens no earlier.                             *)
LEMMA OpensBelow ==
  ASSUME WheelAssumption, NEW l \in Levels, l > 0, NEW time \in Nat
  PROVE  Opens(l, time) <= Opens(l - 1, time)
<1> DEFINE u == Turn(l - 1)
           c == time \div Turn(l)
<1>1. u \in Nat \ {0} /\ TIMER_ARRAY_SIZE \in Nat \ {0} /\ Turn(l) = u * TIMER_ARRAY_SIZE
      /\ Turn(l) \in Nat \ {0}
  <2>1. l - 1 \in Levels BY Turns
  <2> QED BY <2>1, Turns
<1>2. c \in Nat /\ c * Turn(l) <= time BY <1>1, Quotient
<1> HIDE DEF u, c
<1>3. c * Turn(l) = (c * TIMER_ARRAY_SIZE) * u BY <1>1, <1>2
<1>4. c * TIMER_ARRAY_SIZE <= time \div u BY <1>1, <1>2, <1>3, QuotientAtLeast
<1>5. time \div u \in Nat BY <1>1, Quotient
<1>6. (c * TIMER_ARRAY_SIZE) * u <= (time \div u) * u BY <1>1, <1>2, <1>4, <1>5
<1> QED BY <1>3, <1>6 DEF Opens, u, c

(* A second that ends no turn of level d opens no slot above it.           *)
LEMMA NotOpened ==
  ASSUME WheelAssumption, NEW d \in Levels, NEW l \in Levels, d < l, NEW s \in Nat, NEW time \in Nat,
         Slot(d, s) # 0
  PROVE  Opens(l, time) # s
<1> SUFFICES ASSUME Opens(l, time) = s PROVE FALSE OBVIOUS
<1> DEFINE u == Turn(d)
           k == Turn(l - (d + 1))
           c == time \div Turn(l)
<1>1. /\ u \in Nat \ {0} /\ TIMER_ARRAY_SIZE \in Nat \ {0}
      /\ Turn(d + 1) = u * TIMER_ARRAY_SIZE /\ Turn(l) \in Nat \ {0}
  BY Turns DEF Span
<1>2. k \in Nat \ {0} /\ Turn(l) = Turn(d + 1) * k
  <2>1. l \in 0 .. TIMER_LEVELS /\ d + 1 \in 0 .. l /\ l - (d + 1) \in 0 .. TIMER_LEVELS
    BY DEF WheelAssumption, Levels
  <2> QED BY <2>1 DEF WheelAssumption
<1>3. c \in Nat BY <1>1, Quotient
<1>4. s = c * Turn(l) BY DEF Opens
<1> HIDE DEF u, k, c
<1>5. s = ((c * k) * TIMER_ARRAY_SIZE) * u
  <2>1. s = c * ((u * TIMER_ARRAY_SIZE) * k) BY <1>1, <1>2, <1>4
  <2>2. c * ((u * TIMER_ARRAY_SIZE) * k) = ((c * k) * TIMER_ARRAY_SIZE) * u
    BY <1>1, <1>2, <1>3
  <2> QED BY <2>1, <2>2
<1>6. c * k \in Nat /\ (c * k) * TIMER_ARRAY_SIZE \in Nat BY <1>1, <1>2, <1>3
<1>7. s \div u = (c * k) * TIMER_ARRAY_SIZE BY <1>1, <1>5, <1>6, Multiple
<1>8. (s \div u) % TIMER_ARRAY_SIZE = 0 BY <1>1, <1>6, <1>7, Multiple
<1> QED BY <1>8 DEF Slot, u

(* A second that ends a turn of level d opens a slot of the level above.   *)
LEMMA TurnOver ==
  ASSUME WheelAssumption, NEW d \in Levels, NEW s \in Nat, s % Turn(d) = 0, Slot(d, s) = 0
  PROVE  s % Turn(d + 1) = 0
<1> DEFINE u == Turn(d)
           b == s \div Turn(d)
           c == (s \div Turn(d)) \div TIMER_ARRAY_SIZE
<1>1. /\ u \in Nat \ {0} /\ TIMER_ARRAY_SIZE \in Nat \ {0}
      /\ Turn(d + 1) = u * TIMER_ARRAY_SIZE /\ Turn(d + 1) \in Nat \ {0}
  BY Turns DEF Span
<1>2. b \in Nat /\ s = b * u BY <1>1, NoRemainder
<1>3. c \in Nat /\ b = c * TIMER_ARRAY_SIZE
  <2>1. b % TIMER_ARRAY_SIZE = 0 BY DEF Slot
  <2> HIDE DEF b
  <2>2. b \div TIMER_ARRAY_SIZE \in Nat /\ b = (b \div TIMER_ARRAY_SIZE) * TIMER_ARRAY_SIZE
    BY <1>1, <1>2, <2>1, NoRemainder
  <2> QED BY <2>2 DEF b
<1> HIDE DEF u, b, c
<1>4. s = c * Turn(d + 1)
  <2>1. (c * TIMER_ARRAY_SIZE) * u = c * (u * TIMER_ARRAY_SIZE) BY <1>1, <1>3
  <2> QED BY <1>1, <1>2, <1>3, <2>1
<1> QED BY <1>1, <1>3, <1>4, Multiple

(* A timer registered for a time after now is in a slot not opened yet.    *)
LEMMA OpensLater ==
  ASSUME WheelAssumption, NEW l \in Levels, NEW now \in Nat, NEW n \in Nat \ {0}, l > 0 => n > Turn(l)
  PROVE  Opens(l, now + n) > now
<1>1. now + n \in Nat OBVIOUS
<1>2. /\ Opens(l, now + n) \in Nat /\ now + n < Opens(l, now + n) + Turn(l)
      /\ Turn(l) \in Nat /\ l \in Nat
      /\ l = 0 => Turn(l) = 1
  BY <1>1, OpensBounds, Turns
<1> QED BY <1>2

(* The start of a turn is the start of one of the level below.             *)
LEMMA TurnInside ==
  ASSUME WheelAssumption, NEW d \in Levels, d > 0, NEW s \in Nat, s % Turn(d) = 0
  PROVE  s % Turn(d - 1) = 0
<1> DEFINE u == Turn(d - 1)
           c == s \div Turn(d)
<1>1. /\ u \in Nat \ {0} /\ TIMER_ARRAY_SIZE \in Nat \ {0}
      /\ Turn(d) = u * TIMER_ARRAY_SIZE /\ Turn(d) \in Nat \ {0}
  <2>1. d - 1 \in Levels BY Turns
  <2> QED BY <2>1, Turns
<1>2. c \in Nat /\ s = c * Turn(d) BY <1>1, NoRemainder
<1> HIDE DEF u, c
<1>3. s = (c * TIMER_ARRAY_SIZE) * u /\ c * TIMER_ARRAY_SIZE \in Nat
  <2>1. (c * TIMER_ARRAY_SIZE) * u = c * (u * TIMER_ARRAY_SIZE) BY <1>1, <1>2
  <2> QED BY <1>1, <1>2, <2>1
<1> QED BY <1>1, <1>3, Multiple DEF u

-----------------------------------------------------------------------------
(* What a step outside the loop leaves of a timer in the wheel.            *)
LEMMA PlaceKept ==
  ASSUME WheelAssumption, NEW t \in Timers, PlaceInv(t),
         place'[t] = place[t], runat'[t] = runat[t], second' = second,
         step \notin {"up", "down"}, step' \notin {"up", "down"},
         t \in hasty => t \in hasty'
  PROVE  PlaceInv(t)'
  BY DEF PlaceInv, Pending, Served, Opens, Slot

(* A timer put into the wheel, by its owner or after its run.              *)
LEMMA PutInWheel ==
  ASSUME WheelAssumption, NEW t \in Timers, NEW l \in Levels, NEW n \in Nat \ {0},
         psync_current_time \in Nat, second \in Nat, second <= psync_current_time,
         l > 0 => n > Turn(l),
         runat'[t] = psync_current_time + n, place'[t] = <<l, Slot(l, runat'[t])>>,
         second' = second, step' \notin {"up", "down"},
         t \notin hasty' => psync_current_time + n <= second + Span(l)
  PROVE  PlaceInv(t)'
<1>1. Opens(l, runat'[t]) > psync_current_time BY OpensLater
<1>2. Opens(l, runat'[t]) \in Nat /\ runat'[t] \in Nat BY OpensBounds
<1>3. Opens(l, runat'[t]) > second BY <1>1, <1>2
<1>4. ~Pending(l)' BY DEF Pending
<1>5. Served' = second BY DEF Served
<1>6. Opens(l, runat[t])' = Opens(l, runat'[t]) /\ Slot(l, runat[t])' = Slot(l, runat'[t])
  BY DEF Opens, Slot
<1>7. place'[t][1] = l /\ place'[t][2] = Slot(l, runat'[t]) OBVIOUS
<1> QED BY <1>3, <1>4, <1>5, <1>7 DEF PlaceInv, Opens, Slot, Pending, Served

(* The wheel is empty at the start.                                        *)
LEMMA WheelStarts ==
  ASSUME WheelAssumption, WheelInit
  PROVE  WheelInv
<1>1. 0 \in Levels /\ 0 \in Slots BY DEF WheelAssumption, Levels, Slots
<1>2. WheelTypes BY <1>1 DEF WheelInit, WheelTypes, WheelAssumption
<1>3. ThreadInv BY DEF WheelInit, ThreadInv, Held
<1> QED BY <1>2, <1>3 DEF WheelInit, WheelInv, Linked

(* psync_timer_register puts the timer into the slot of its time.          *)
LEMMA RegisterStep ==
  ASSUME WheelAssumption, WheelInv, NEW t \in Timers, NEW n \in Numsecs, psync_timer_register(t, n)
  PROVE  WheelInv'
<1> USE DEF WheelInv
<1>1. PICK l \in Levels :
        LET secs == IF n <= Span(l) THEN n ELSE Span(l)
            at == psync_current_time + secs
        IN  /\ LevelFor(n, l)
            /\ status' = [status EXCEPT ![t] = "wheel"]
            /\ numsec' = [numsec EXCEPT ![t] = secs]
            /\ level' = [level EXCEPT ![t] = l]
            /\ runat' = [runat EXCEPT ![t] = at]
            /\ place' = [place EXCEPT ![t] = <<l, Slot(l, at)>>]
            /\ hasty' = IF at > second + Span(l) THEN hasty \union {t} ELSE hasty \ {t}
  BY DEF psync_timer_register
<1> DEFINE secs == IF n <= Span(l) THEN n ELSE Span(l)
           at == psync_current_time + secs
<1>2. n \in Nat \ {0} /\ Span(l) \in Nat \ {0} /\ Turn(l) \in Nat \ {0} /\ l \in Nat
  BY Turns DEF WheelAssumption
<1>3. secs \in Nat \ {0} /\ secs \in 1 .. Span(l) BY <1>2
<1>4. l > 0 => secs > Turn(l)
  <2> SUFFICES ASSUME l > 0 PROVE secs > Turn(l) OBVIOUS
  <2>1. l - 1 \in 0 .. l - 1 /\ l - 1 + 1 = l BY <1>2
  <2>2. n > Turn(l) BY <1>1, <2>1 DEF LevelFor, Span
  <2>3. Span(l) > Turn(l)
    <3>1. Span(l) = Turn(l) * TIMER_ARRAY_SIZE BY Turns
    <3>2. TIMER_ARRAY_SIZE \in Nat /\ TIMER_ARRAY_SIZE >= 2
      BY DEF WheelAssumption
    <3>3. Turn(l) * TIMER_ARRAY_SIZE > Turn(l) BY <1>2, <3>2, Enlarged
    <3> QED BY <3>1, <3>3
  <2> QED BY <2>2, <2>3
<1>5. /\ psync_current_time \in Nat /\ second \in Nat /\ second <= psync_current_time
      /\ at \in Nat
  BY <1>3, SMTT(30) DEF WheelTypes, WheelAssumption
<1>6. UNCHANGED <<threadVars, stop_after_run, ctime, announced>> /\ status[t] = "free" /\ ~Held
  BY DEF psync_timer_register
<1>7. t \notin timers /\ \A u \in Timers \ {t} : status'[u] = status[u]
  BY <1>1, <1>6 DEF WheelTypes
<1>8. WheelTypes'
  <2>1. timers' = {u \in Timers : status'[u] = "running"}
    BY <1>1, <1>6, <1>7 DEF WheelTypes, threadVars
  <2>2. Slot(l, at) \in Slots BY <1>5, SlotType
  <2>3. /\ status' \in [Timers -> {"free", "wheel", "running"}]
        /\ numsec' \in [Timers -> Nat] /\ runat' \in [Timers -> Nat]
    BY <1>1, <1>3, <1>5 DEF WheelTypes
  <2>4. place' \in [Timers -> Levels \X Slots] /\ level' \in [Timers -> Levels]
    BY <1>1, <2>2 DEF WheelTypes
  <2>5. hasty' \subseteq Timers BY <1>1 DEF WheelTypes
  <2> QED BY <1>6, <2>1, <2>3, <2>4, <2>5 DEF WheelTypes, threadVars
<1>9. ThreadInv' BY <1>6 DEF ThreadInv, threadVars, Held
<1>10. ASSUME NEW u \in Timers, status'[u] # "free" PROVE IntervalInv(u)'
  <2>1. CASE u = t
    <3>1. numsec'[u] = secs /\ level'[u] = l BY <1>1, <2>1 DEF WheelTypes
    <3> QED BY <1>3, <1>4, <3>1 DEF IntervalInv, Span, Turn
  <2>2. CASE u # t
    <3>1. numsec'[u] = numsec[u] /\ level'[u] = level[u] /\ status[u] # "free"
      BY <1>1, <1>7, <1>10, <2>2 DEF WheelTypes
    <3> QED BY <3>1 DEF IntervalInv, Span, Turn
  <2> QED BY <2>1, <2>2
<1>11. ASSUME NEW u \in Timers, status'[u] = "wheel" PROVE PlaceInv(u)'
  <2>1. step \notin {"up", "down"} /\ step' = step /\ second' = second
    BY <1>6 DEF Held, threadVars
  <2>2. CASE u = t
    <3>1. runat'[t] = psync_current_time + secs /\ place'[t] = <<l, Slot(l, runat'[t])>>
      BY <1>1 DEF WheelTypes
    <3>2. t \notin hasty' => psync_current_time + secs <= second + Span(l)
      BY <1>1, <1>2, <1>5
    <3> QED BY <1>3, <1>4, <1>5, <2>1, <2>2, <3>1, <3>2, PutInWheel
  <2>3. CASE u # t
    <3>1. place'[u] = place[u] /\ runat'[u] = runat[u] /\ status[u] = "wheel"
      BY <1>1, <1>7, <1>11, <2>3 DEF WheelTypes
    <3>2. u \in hasty => u \in hasty' BY <1>1, <2>3
    <3> QED BY <2>1, <3>1, <3>2, PlaceKept DEF Linked
  <2> QED BY <2>2, <2>3
<1>12. ASSUME NEW u \in timers', u \notin hasty' PROVE runat'[u] <= second'
  <2>1. u \in timers /\ u # t /\ u \in Timers BY <1>6, <1>7 DEF threadVars, WheelTypes
  <2>2. u \notin hasty /\ runat'[u] = runat[u] /\ second' = second
    BY <1>1, <1>6, <1>12, <2>1 DEF WheelTypes, threadVars
  <2> QED BY <2>1, <2>2
<1> QED BY <1>8, <1>9, <1>10, <1>11, <1>12 DEF Linked

(* psync_timer_stop takes it out, or leaves a mark for the thread.         *)
LEMMA StopStep ==
  ASSUME WheelAssumption, WheelInv, NEW t \in Timers, psync_timer_stop(t)
  PROVE  WheelInv'
<1> USE DEF WheelInv
<1>1. /\ UNCHANGED <<threadVars, place, numsec, level, runat, hasty, ctime, announced>>
      /\ status[t] # "free" /\ ~Held
  BY DEF psync_timer_stop
<1>2. \/ status' = status /\ status[t] = "running" /\ stop_after_run' = stop_after_run \union {t}
      \/ /\ status[t] = "wheel" /\ status' = [status EXCEPT ![t] = "free"]
         /\ stop_after_run' = stop_after_run
  BY DEF psync_timer_stop, WheelTypes
<1>3. WheelTypes' BY <1>1, <1>2 DEF WheelTypes, threadVars
<1>4. ThreadInv' BY <1>1 DEF ThreadInv, threadVars, Held
<1>5. \A u \in Timers : status'[u] # "free" => status'[u] = status[u] BY <1>2 DEF WheelTypes
<1>6. ASSUME NEW u \in Timers, status'[u] # "free" PROVE IntervalInv(u)'
  BY <1>1, <1>5, <1>6 DEF IntervalInv, Span, Turn
<1>7. ASSUME NEW u \in Timers, status'[u] = "wheel" PROVE PlaceInv(u)'
  BY <1>1, <1>5, <1>7, PlaceKept DEF Linked, Held, threadVars
<1> QED BY <1>1, <1>3, <1>4, <1>6, <1>7 DEF Linked, threadVars

(* The thread reads the clock, takes the mutex, wakes those who wait, or   *)
(* ends a round.                                                           *)
LEMMA ClockStep ==
  ASSUME WheelAssumption, WheelInv, ReadClock \/ TakeMutex \/ NextRound \/ Announce
  PROVE  WheelInv'
<1> USE DEF WheelInv
<1>1. /\ UNCHANGED <<depth, timers, called, timerVars, ctime>>
      /\ psync_current_time' \in Nat /\ psync_current_time <= psync_current_time'
      /\ psync_current_time' <= MaxTime /\ psync_current_time \in Nat /\ second \in Nat
      /\ announced' \subseteq Waiters /\ \A w \in announced' : ctime[w] # -1
  BY DEF ReadClock, TakeMutex, NextRound, Announce, WheelTypes, WheelAssumption
<1>2. /\ second' = second /\ step \notin {"up", "down"} /\ step' \notin {"up", "down"}
      /\ step' \in {"sleep", "prepare", "next", "process", "after"}
  BY DEF ReadClock, TakeMutex, NextRound, Announce, WheelTypes, ThreadInv
<1>3. WheelTypes'
  <2>1. second' \in 0 .. psync_current_time'
    BY <1>1, <1>2 DEF WheelTypes
  <2>2. ctime' \in [Waiters -> {-1} \union (0 .. psync_current_time')]
    BY <1>1 DEF WheelTypes
  <2>3. psync_current_time' \in 0 .. MaxTime BY <1>1 DEF WheelAssumption
  <2> QED BY <1>1, <1>2, <2>1, <2>2, <2>3 DEF WheelTypes, timerVars
<1>4. ThreadInv'
  <2>1. CASE ReadClock BY <2>1 DEF ReadClock, ThreadInv, Held
  <2>2. CASE TakeMutex BY <2>2 DEF TakeMutex, ThreadInv, Held
  <2>3. CASE NextRound BY <2>3 DEF NextRound, ThreadInv, Held
  <2>4. CASE Announce BY <2>4 DEF Announce, ThreadInv, Held
  <2> QED BY <2>1, <2>2, <2>3, <2>4
<1>5. ASSUME NEW u \in Timers, status'[u] # "free" PROVE IntervalInv(u)'
  BY <1>1, <1>5 DEF IntervalInv, Span, Turn, timerVars
<1>6. ASSUME NEW u \in Timers, status'[u] = "wheel" PROVE PlaceInv(u)'
  BY <1>1, <1>2, <1>6, PlaceKept DEF Linked, timerVars
<1> QED BY <1>1, <1>2, <1>3, <1>5, <1>4, <1>6 DEF Linked, timerVars

(* A callback is called without the mutex, and its timer is on the own     *)
(* list of the thread.                                                     *)
LEMMA CallStep ==
  ASSUME WheelAssumption, WheelInv, NEW t \in Timers, CallTimer(t)
  PROVE  WheelInv'
<1> USE DEF WheelInv
<1>1. /\ UNCHANGED <<psync_current_time, second, step, depth, timers, timerVars, ctime, announced>>
      /\ step = "process" /\ called' = called \union {t} /\ t \in timers
  BY DEF CallTimer
<1>2. WheelTypes' BY <1>1 DEF WheelTypes, timerVars
<1>3. ThreadInv' BY <1>1 DEF ThreadInv, Held
<1>4. ASSUME NEW u \in Timers, status'[u] # "free" PROVE IntervalInv(u)'
  BY <1>1, <1>4 DEF IntervalInv, Span, Turn, timerVars
<1>5. ASSUME NEW u \in Timers, status'[u] = "wheel" PROVE PlaceInv(u)'
  BY <1>1, <1>5, PlaceKept DEF Linked, timerVars
<1> QED BY <1>1, <1>2, <1>3, <1>4, <1>5 DEF Linked, timerVars

(* Those who wait for the next second touch no timer.                      *)
LEMMA WaiterStep ==
  ASSUME WheelAssumption, WheelInv, NEW w \in Waiters,
         psync_timer_wait_next_sec(w) \/ WaiterWakes(w) \/ psync_timer_wake(w)
  PROVE  WheelInv'
<1> USE DEF WheelInv
<1>1. UNCHANGED <<threadVars, timerVars>>
  BY DEF psync_timer_wait_next_sec, WaiterWakes, psync_timer_wake
<1>2. psync_current_time \in 0 .. psync_current_time /\ psync_current_time # -1
  BY DEF WheelTypes, WheelAssumption
<1>3. /\ ctime' \in [Waiters -> {-1} \union (0 .. psync_current_time)]
      /\ announced' \subseteq Waiters
      /\ \A v \in announced' : ctime'[v] # -1
  <2>1. CASE psync_timer_wait_next_sec(w)
    BY <1>2, <2>1 DEF psync_timer_wait_next_sec, WheelTypes
  <2>2. CASE WaiterWakes(w)
    BY <2>2 DEF WaiterWakes, WheelTypes
  <2>3. CASE psync_timer_wake(w)
    BY <2>3 DEF psync_timer_wake, WheelTypes
  <2> QED BY <2>1, <2>2, <2>3
<1>4. WheelTypes' BY <1>1, <1>3 DEF WheelTypes, threadVars, timerVars
<1>5. ThreadInv' BY <1>1 DEF ThreadInv, Held, threadVars
<1>6. ASSUME NEW u \in Timers, status'[u] # "free" PROVE IntervalInv(u)'
  BY <1>1, <1>6 DEF IntervalInv, Span, Turn, timerVars
<1>7. ASSUME NEW u \in Timers, status'[u] = "wheel" PROVE PlaceInv(u)'
  <2>1. PlaceInv(u) BY <1>1, <1>7 DEF Linked, timerVars
  <2> QED BY <1>1, <2>1 DEF PlaceInv, Pending, Served, Opens, Slot, Span, Turn, threadVars, timerVars
<1> QED BY <1>1, <1>4, <1>5, <1>6, <1>7 DEF Linked, timerVars, threadVars

(* Timers that were called and not stopped get a slot again.               *)
LEMMA ReinsertStep ==
  ASSUME WheelAssumption, WheelInv, Reinsert
  PROVE  WheelInv'
<1> USE DEF WheelInv
<1> DEFINE again == timers \ stop_after_run
<1>1. /\ UNCHANGED <<psync_current_time, second, depth, numsec, level, ctime, announced>>
      /\ step = "process" /\ step' = "after" /\ timers' = {} /\ called' = {}
      /\ stop_after_run' = {} /\ hasty' = hasty \ timers
      /\ status' = [t \in Timers |-> IF t \notin timers THEN status[t]
                                     ELSE IF t \in again THEN "wheel" ELSE "free"]
      /\ runat' = [t \in Timers |-> IF t \in again THEN psync_current_time + numsec[t]
                                    ELSE runat[t]]
      /\ place' = [t \in Timers |->
                     IF t \in again THEN <<level[t], Slot(level[t], psync_current_time + numsec[t])>>
                     ELSE place[t]]
  BY DEF Reinsert
<1>2. /\ psync_current_time \in Nat /\ second = psync_current_time
      /\ timers = {t \in Timers : status[t] = "running"}
  BY <1>1 DEF WheelTypes, WheelAssumption, ThreadInv
<1>3. ASSUME NEW t \in again
      PROVE  /\ t \in Timers /\ numsec[t] \in Nat \ {0} /\ level[t] \in Levels
             /\ numsec[t] <= Span(level[t])
             /\ level[t] > 0 => numsec[t] > Turn(level[t])
             /\ Slot(level[t], psync_current_time + numsec[t]) \in Slots
  <2>1. t \in Timers /\ level[t] \in Levels /\ IntervalInv(t) BY <1>2 DEF WheelTypes
  <2>2. numsec[t] \in Nat \ {0} /\ numsec[t] <= Span(level[t]) BY <2>1, Turns DEF IntervalInv
  <2>3. Slot(level[t], psync_current_time + numsec[t]) \in Slots
    BY <1>2, <2>1, <2>2, SlotType
  <2> QED BY <2>1, <2>2, <2>3 DEF IntervalInv
<1>4. WheelTypes'
  <2>1. /\ timers' = {t \in Timers : status'[t] = "running"}
        /\ status' \in [Timers -> {"free", "wheel", "running"}]
    BY <1>1, <1>2 DEF WheelTypes
  <2>2. place' \in [Timers -> Levels \X Slots] BY <1>1, <1>3 DEF WheelTypes
  <2>3. runat' \in [Timers -> Nat] BY <1>1, <1>2, <1>3 DEF WheelTypes
  <2> QED BY <1>1, <2>1, <2>2, <2>3 DEF WheelTypes
<1>5. ThreadInv' BY <1>1, <1>2 DEF ThreadInv, Held
<1>6. ASSUME NEW u \in Timers, status'[u] # "free" PROVE IntervalInv(u)'
  BY <1>1, <1>2, <1>6 DEF IntervalInv, Span, Turn
<1>7. ASSUME NEW u \in Timers, status'[u] = "wheel" PROVE PlaceInv(u)'
  <2>1. CASE u \in again
    <3>1. /\ runat'[u] = psync_current_time + numsec[u]
          /\ place'[u] = <<level[u], Slot(level[u], runat'[u])>>
      BY <1>1, <2>1
    <3>2. psync_current_time + numsec[u] <= second + Span(level[u])
      BY <1>2, <1>3, <2>1, Turns
    <3> QED BY <1>1, <1>2, <1>3, <2>1, <3>1, <3>2, PutInWheel
  <2>2. CASE u \notin again
    <3>1. u \notin timers /\ status[u] = "wheel" BY <1>1, <1>2, <1>7, <2>2
    <3>2. place'[u] = place[u] /\ runat'[u] = runat[u] /\ (u \in hasty => u \in hasty')
      BY <1>1, <2>2, <3>1
    <3> QED BY <1>1, <3>1, <3>2, PlaceKept DEF Linked
  <2> QED BY <2>1, <2>2
<1> QED BY <1>1, <1>4, <1>5, <1>6, <1>7 DEF Linked

-----------------------------------------------------------------------------
(* The loop of timer_prepare_timers under the mutex.  What a timer in the  *)
(* wheel has, in terms of its level and its time.                          *)
LEMMA InWheel ==
  ASSUME WheelAssumption, WheelInv, NEW t \in Timers, status[t] = "wheel"
  PROVE  /\ place[t][1] \in Levels /\ runat[t] \in Nat
         /\ place[t] = <<place[t][1], Slot(place[t][1], runat[t])>>
         /\ Opens(place[t][1], runat[t]) \in Nat
         /\ IF Pending(place[t][1]) THEN Opens(place[t][1], runat[t]) >= second
            ELSE Opens(place[t][1], runat[t]) > second
         /\ t \notin hasty => runat[t] <= Served + Span(place[t][1])
<1>1. PlaceInv(t) BY DEF WheelInv, Linked
<1>2. place[t] \in Levels \X Slots /\ runat[t] \in Nat BY DEF WheelInv, WheelTypes
<1>3. Opens(place[t][1], runat[t]) \in Nat BY <1>2, OpensBounds
<1> QED BY <1>1, <1>2, <1>3 DEF PlaceInv

(* When second opens the slots of this level, a timer of the level that is *)
(* not in the opened slot opens later, and one that is opens now.          *)
LEMMA AtOpened ==
  ASSUME WheelAssumption, WheelInv, step = "down", NEW t \in Timers, status[t] = "wheel", place[t][1] = depth
  PROVE  /\ ~Opened(t) => Opens(depth, runat[t]) > second
         /\ Opened(t) /\ t \notin hasty => Opens(depth, runat[t]) = second
<1>1. depth \in Levels /\ second \in Nat BY DEF WheelInv, WheelTypes, WheelAssumption
<1>2. second % Turn(depth) = 0
  <2>1. CASE depth > 0 BY <2>1 DEF WheelInv, ThreadInv
  <2>2. CASE depth = 0
    <3>1. Turn(depth) = 1 BY <1>1, <2>2, Turns
    <3> QED BY <1>1, <3>1
  <2> QED BY <1>1, <2>1, <2>2, Turns
<1>3. /\ runat[t] \in Nat /\ place[t] = <<depth, Slot(depth, runat[t])>>
      /\ Opens(depth, runat[t]) \in Nat /\ Opens(depth, runat[t]) >= second
      /\ t \notin hasty => runat[t] <= second - 1 + Span(depth)
  BY <1>1, InWheel, Turns DEF Pending, Served
<1>4. ASSUME ~Opened(t) PROVE Opens(depth, runat[t]) > second
  <2>1. Slot(depth, runat[t]) # Slot(depth, second) BY <1>3, <1>4 DEF Opened, Linked
  <2>2. Opens(depth, runat[t]) # second BY <1>1, <1>3, <2>1, OpensSlot
  <2> QED BY <1>1, <1>3, <2>2
<1>5. ASSUME Opened(t), t \notin hasty PROVE Opens(depth, runat[t]) = second
  <2>1. Slot(depth, runat[t]) = Slot(depth, second) BY <1>3, <1>5 DEF Opened
  <2>2. runat[t] < second + Span(depth) BY <1>1, <1>3, <1>5, Turns
  <2> QED BY <1>1, <1>2, <1>3, <2>1, <2>2, SlotOpens
<1> QED BY <1>4, <1>5

(* The next second is due: its levels are to be opened.                    *)
LEMMA NextSecondStep ==
  ASSUME WheelAssumption, WheelInv, NextSecond
  PROVE  WheelInv'
<1>1. /\ UNCHANGED <<psync_current_time, timers, called, timerVars, ctime, announced>>
      /\ step = "next" /\ second < psync_current_time
      /\ second' = second + 1 /\ step' = "up" /\ depth' = 0
  BY DEF NextSecond
<1>2. second \in Nat /\ psync_current_time \in Nat /\ 0 \in Levels
  BY DEF WheelInv, WheelTypes, WheelAssumption, Levels
<1>3. WheelTypes' BY <1>1, <1>2 DEF WheelInv, WheelTypes, timerVars
<1>4. ThreadInv' BY <1>1 DEF WheelInv, ThreadInv, Held
<1>5. ASSUME NEW u \in Timers, status'[u] # "free" PROVE IntervalInv(u)'
  BY <1>1, <1>5 DEF WheelInv, IntervalInv, Span, Turn, timerVars
<1>6. ASSUME NEW u \in Timers, status'[u] = "wheel" PROVE PlaceInv(u)'
  <2>1. status[u] = "wheel" /\ place'[u] = place[u] /\ runat'[u] = runat[u] /\ hasty' = hasty
    BY <1>1, <1>6 DEF timerVars
  <2>2. /\ place[u][2] = Slot(place[u][1], runat[u])
        /\ Opens(place[u][1], runat[u]) >= second + 1
        /\ u \notin hasty => runat[u] <= second + Span(place[u][1])
    <3>1. PlaceInv(u) BY <2>1 DEF WheelInv, Linked
    <3>2. Opens(place[u][1], runat[u]) \in Nat BY <2>1, InWheel
    <3> QED BY <1>1, <1>2, <3>1, <3>2 DEF PlaceInv, Pending, Served
  <2>3. Pending(place[u][1])' /\ Served' = second BY <1>1, <1>2, <2>1 DEF Pending, Served
  <2> QED BY <1>1, <1>2, <2>1, <2>2, <2>3 DEF PlaceInv, Slot, Opens, Span, Turn, Pending, Served
<1>7. ASSUME NEW u \in timers' \ hasty' PROVE runat'[u] <= second'
  <2>1. u \in timers \ hasty /\ u \in Timers /\ runat'[u] = runat[u]
    BY <1>1, <1>7 DEF timerVars, WheelInv, WheelTypes
  <2>2. runat[u] <= second /\ runat[u] \in Nat BY <2>1 DEF WheelInv, WheelTypes
  <2> QED BY <1>1, <1>2, <2>1, <2>2
<1> QED BY <1>3, <1>4, <1>5, <1>6, <1>7 DEF WheelInv, Linked

(* A level whose index wraps has the level above opened first.             *)
LEMMA RiseStep ==
  ASSUME WheelAssumption, WheelInv, Rise
  PROVE  WheelInv'
<1>1. /\ UNCHANGED <<psync_current_time, second, timers, called, timerVars, ctime, announced>>
      /\ step = "up"
  BY DEF Rise
<1>2. \/ /\ Slot(depth, second) = 0 /\ depth < TIMER_LEVELS - 1
         /\ depth' = depth + 1 /\ step' = "up"
      \/ /\ Slot(depth, second) # 0 \/ depth >= TIMER_LEVELS - 1
         /\ depth' = depth /\ step' = "down"
  BY <1>1 DEF Rise, WheelInv, WheelTypes, WheelAssumption, Levels
<1>3. second \in Nat /\ depth \in Levels
  BY DEF WheelInv, WheelTypes, WheelAssumption
<1>4. WheelTypes'
  <2>1. depth' \in Levels BY <1>2, <1>3 DEF WheelAssumption, Levels
  <2> QED BY <1>1, <1>2, <2>1 DEF WheelInv, WheelTypes, timerVars
<1>5. ThreadInv'
  <2>1. second % Turn(depth) = 0
    <3>1. CASE depth > 0 BY <1>1, <3>1 DEF WheelInv, ThreadInv
    <3>2. CASE depth = 0
      <4>1. Turn(depth) = 1 BY <1>3, <3>2, Turns
      <4> QED BY <1>3, <4>1
    <3> QED BY <1>3, <3>1, <3>2, Turns
  <2>2. second % Turn(depth') = 0
    <3>1. CASE depth' = depth BY <2>1, <3>1
    <3>2. CASE depth' = depth + 1 /\ Slot(depth, second) = 0 BY <1>3, <2>1, <3>2, TurnOver
    <3> QED BY <1>2, <3>1, <3>2
  <2> QED BY <1>1, <1>2, <2>2 DEF WheelInv, ThreadInv, Held, Turn
<1>6. ASSUME NEW u \in Timers, status'[u] # "free" PROVE IntervalInv(u)'
  BY <1>1, <1>6 DEF WheelInv, IntervalInv, Span, Turn, timerVars
<1>7. ASSUME NEW u \in Timers, status'[u] = "wheel" PROVE PlaceInv(u)'
  <2>1. status[u] = "wheel" /\ place'[u] = place[u] /\ runat'[u] = runat[u] /\ hasty' = hasty
    BY <1>1, <1>7 DEF timerVars
  <2> DEFINE l == place[u][1]
  <2>2. /\ place[u][2] = Slot(l, runat[u])
        /\ l \in Levels /\ Opens(l, runat[u]) \in Nat /\ Opens(l, runat[u]) >= second
        /\ u \notin hasty => runat[u] <= second - 1 + Span(l)
    <3>1. PlaceInv(u) BY <2>1 DEF WheelInv, Linked
    <3>2. l \in Levels /\ Opens(l, runat[u]) \in Nat BY <2>1, InWheel
    <3> QED BY <1>1, <1>3, <3>1, <3>2 DEF PlaceInv, Pending, Served
  <2>3. ~Pending(l)' => Opens(l, runat[u]) > second
    <3> SUFFICES ASSUME ~Pending(l)' PROVE Opens(l, runat[u]) > second OBVIOUS
    <3>1. step' = "down" /\ depth < l
      BY <1>2, <1>3, <2>1, <2>2 DEF Pending, Levels
    <3>2. runat[u] \in Nat BY <2>1, InWheel
    <3>3. Slot(depth, second) # 0
      <4>1. l \in Levels BY <2>2
      <4> HIDE DEF l
      <4>2. depth < TIMER_LEVELS - 1
        BY <1>3, <3>1, <4>1 DEF WheelAssumption, Levels
      <4>3. depth \in Nat /\ TIMER_LEVELS - 1 \in Nat
        BY <1>3 DEF WheelAssumption, Levels
      <4> QED BY <1>2, <3>1, <4>2, <4>3
    <3>4. Opens(l, runat[u]) # second BY <1>3, <2>2, <3>1, <3>2, <3>3, NotOpened
    <3> QED BY <1>3, <2>2, <3>4
  <2>4. Served' = second - 1 BY <1>1, <1>2 DEF Served
  <2> QED BY <1>1, <2>1, <2>2, <2>3, <2>4 DEF PlaceInv, Slot, Opens, Span, Turn, Pending, Served
<1> QED BY <1>1, <1>4, <1>5, <1>6, <1>7 DEF WheelInv, Linked, timerVars

(* The timers of its slot move to lower levels.                            *)
LEMMA MoveDownStep ==
  ASSUME WheelAssumption, WheelInv, MoveDown
  PROVE  WheelInv'
<1>1. /\ UNCHANGED <<psync_current_time, second, step, timers, called, status, stop_after_run,
                     numsec, level, runat, hasty, ctime, announced>>
      /\ step = "down" /\ depth > 0 /\ depth' = depth - 1
      /\ place' = [t \in Timers |-> IF Opened(t) THEN <<depth - 1, Slot(depth - 1, runat[t])>>
                                    ELSE place[t]]
  BY DEF MoveDown
<1>2. /\ second \in Nat /\ depth \in Levels /\ depth - 1 \in Levels /\ depth \in Nat
      /\ \A t \in Timers : runat[t] \in Nat
  <2>1. depth \in Levels BY DEF WheelInv, WheelTypes
  <2> QED BY <1>1, <2>1, Turns DEF WheelInv, WheelTypes, WheelAssumption
<1>3. WheelTypes'
  <2>1. \A t \in Timers : Slot(depth - 1, runat[t]) \in Slots BY <1>2, SlotType
  <2>2. place' \in [Timers -> Levels \X Slots] BY <1>1, <1>2, <2>1 DEF WheelInv, WheelTypes
  <2> QED BY <1>1, <1>2, <2>2 DEF WheelInv, WheelTypes
<1>4. ThreadInv'
  <2>1. second % Turn(depth - 1) = 0 BY <1>1, <1>2, TurnInside DEF WheelInv, ThreadInv
  <2> QED BY <1>1, <2>1 DEF WheelInv, ThreadInv, Held, Turn
<1>5. ASSUME NEW u \in Timers, status'[u] # "free" PROVE IntervalInv(u)'
  BY <1>1, <1>5 DEF WheelInv, IntervalInv, Span, Turn
<1>6. ASSUME NEW u \in Timers, status'[u] = "wheel" PROVE PlaceInv(u)'
  <2>1. status[u] = "wheel" BY <1>1, <1>6
  <2>2. Served' = second - 1 /\ Served = second - 1 BY <1>1 DEF Served
  <2>3. CASE Opened(u)
    <3> DEFINE k == depth - 1
    <3>1. place'[u] = <<k, Slot(k, runat[u])>> BY <1>1, <2>3
    <3>2. place[u][1] = depth BY <2>3 DEF Opened
    <3>3. Opens(depth, runat[u]) >= second /\ Opens(depth, runat[u]) \in Nat
      BY <1>1, <1>2, <2>1, <3>2, InWheel DEF Pending
    <3>4. Opens(k, runat[u]) >= second
      <4>1. Opens(depth, runat[u]) <= Opens(k, runat[u]) BY <1>1, <1>2, OpensBelow
      <4>2. Opens(k, runat[u]) \in Nat BY <1>2, OpensBounds
      <4> QED BY <1>2, <3>3, <4>1, <4>2
    <3>5. u \notin hasty => runat[u] <= second - 1 + Span(k)
      <4> SUFFICES ASSUME u \notin hasty PROVE runat[u] <= second - 1 + Span(k) OBVIOUS
      <4>1. Opens(depth, runat[u]) = second BY <1>1, <2>1, <2>3, <3>2, AtOpened
      <4>2. runat[u] < second + Turn(depth) BY <1>2, <4>1, OpensBounds
      <4>3. Span(k) = Turn(depth) /\ Span(k) \in Nat
        <5>1. k + 1 = depth BY <1>2
        <5> QED BY <1>2, <5>1, Turns DEF Span
      <4> QED BY <1>2, <4>2, <4>3
    <3>6. step' = "down" /\ k <= depth' BY <1>1, <1>2
    <3>7. place'[u][1] = k /\ place'[u][2] = Slot(k, runat[u]) BY <3>1
    <3> HIDE DEF k
    <3>8. place'[u][2] = Slot(place'[u][1], runat'[u]) BY <1>1, <3>7
    <3>9. Opens(place'[u][1], runat'[u]) >= second' BY <1>1, <3>4, <3>7
    <3>10. u \notin hasty' => runat'[u] <= Served' + Span(place'[u][1])
      BY <1>1, <2>2, <3>5, <3>7
    <3>11. Pending(place[u][1])' BY <3>6, <3>7 DEF Pending
    <3> QED BY <3>8, <3>9, <3>10, <3>11 DEF PlaceInv, Slot, Opens, Span, Turn
  <2>4. CASE ~Opened(u)
    <3> DEFINE l == place[u][1]
    <3>1. place'[u] = place[u] BY <1>1, <2>4
    <3>2. /\ l \in Levels /\ l \in Nat /\ place[u][2] = Slot(l, runat[u])
          /\ Opens(l, runat[u]) \in Nat /\ Opens(l, runat[u]) >= second
          /\ l > depth => Opens(l, runat[u]) > second
          /\ u \notin hasty => runat[u] <= second - 1 + Span(l)
      <4>1. l \in Levels /\ l \in Nat BY <2>1, InWheel, Turns
      <4>2. PlaceInv(u) /\ Opens(l, runat[u]) \in Nat BY <2>1, InWheel DEF WheelInv, Linked
      <4> QED BY <1>1, <1>2, <2>2, <4>1, <4>2 DEF PlaceInv, Pending
    <3>3. l = depth => Opens(l, runat[u]) > second BY <1>1, <2>1, <2>4, AtOpened
    <3>4. ~Pending(l)' => Opens(l, runat[u]) > second
      <4>1. ~Pending(l)' => l > depth - 1 BY <1>1, <1>2, <3>1, <3>2 DEF Pending
      <4> QED BY <1>2, <3>2, <3>3, <4>1
    <3> QED BY <1>1, <2>2, <3>1, <3>2, <3>4 DEF PlaceInv, Slot, Opens, Span, Turn, Pending, Served
  <2> QED BY <2>3, <2>4
<1> QED BY <1>1, <1>3, <1>4, <1>5, <1>6 DEF WheelInv, Linked

(* Those of the lowest slot are taken to be called.                        *)
LEMMA TakeDueStep ==
  ASSUME WheelAssumption, WheelInv, TakeDue
  PROVE  WheelInv'
<1> DEFINE due == {t \in Timers : Opened(t)}
<1>1. /\ UNCHANGED <<psync_current_time, second, depth, called, stop_after_run, place, numsec,
                     level, runat, hasty, ctime, announced>>
      /\ step = "down" /\ depth = 0 /\ step' = "next"
      /\ timers' = timers \union due
      /\ status' = [t \in Timers |-> IF t \in due THEN "running" ELSE status[t]]
  BY DEF TakeDue
<1>2. second \in Nat /\ 0 \in Levels /\ \A t \in Timers : runat[t] \in Nat
  BY <1>1 DEF WheelInv, WheelTypes, WheelAssumption
<1>3. WheelTypes'
  <2>1. timers' = {t \in Timers : status'[t] = "running"}
    BY <1>1 DEF WheelInv, WheelTypes
  <2>2. status' \in [Timers -> {"free", "wheel", "running"}] BY <1>1 DEF WheelInv, WheelTypes
  <2>3. called' \subseteq timers' /\ stop_after_run' \subseteq timers'
    BY <1>1 DEF WheelInv, WheelTypes
  <2> QED BY <1>1, <2>1, <2>2, <2>3 DEF WheelInv, WheelTypes
<1>4. ThreadInv' BY <1>1 DEF WheelInv, ThreadInv, Held
<1>5. ASSUME NEW u \in Timers, status'[u] # "free" PROVE IntervalInv(u)'
  <2>1. status[u] # "free" BY <1>1, <1>5 DEF Opened, Linked
  <2> QED BY <1>1, <2>1 DEF WheelInv, IntervalInv, Span, Turn
<1>6. ASSUME NEW u \in Timers, status'[u] = "wheel" PROVE PlaceInv(u)'
  <2>1. status[u] = "wheel" /\ ~Opened(u) BY <1>1, <1>6
  <2> DEFINE l == place[u][1]
  <2>2. /\ l \in Levels /\ l \in Nat /\ place[u][2] = Slot(l, runat[u])
        /\ Opens(l, runat[u]) \in Nat
        /\ l > 0 => Opens(l, runat[u]) > second
        /\ u \notin hasty => runat[u] <= second - 1 + Span(l)
    <3>1. l \in Levels /\ l \in Nat BY <2>1, InWheel, Turns
    <3>2. PlaceInv(u) /\ Opens(l, runat[u]) \in Nat BY <2>1, InWheel DEF WheelInv, Linked
    <3> QED BY <1>1, <1>2, <3>1, <3>2 DEF PlaceInv, Pending, Served
  <2>3. l = 0 => Opens(l, runat[u]) > second BY <1>1, <2>1, AtOpened
  <2>4. Opens(l, runat[u]) > second BY <2>2, <2>3
  <2>5. u \notin hasty => runat[u] <= second + Span(l) BY <1>2, <2>2, Turns
  <2> QED BY <1>1, <2>2, <2>4, <2>5 DEF PlaceInv, Slot, Opens, Span, Turn, Pending, Served
<1>7. ASSUME NEW u \in timers', u \notin hasty' PROVE runat'[u] <= second'
  <2>1. CASE u \in timers BY <1>1, <1>7, <2>1 DEF WheelInv
  <2>2. CASE u \in due
    <3>1. u \in Timers /\ status[u] = "wheel" /\ place[u][1] = depth /\ Opened(u)
      BY <2>2 DEF Opened, Linked
    <3>2. Opens(depth, runat[u]) = second BY <1>1, <1>7, <3>1, AtOpened
    <3>3. runat[u] = second BY <1>1, <1>2, <3>1, <3>2, OpensBounds
    <3> QED BY <1>1, <1>2, <3>3
  <2> QED BY <1>1, <1>7, <2>1, <2>2
<1> QED BY <1>3, <1>4, <1>5, <1>6, <1>7 DEF WheelInv, Linked

-----------------------------------------------------------------------------
(* Every step keeps the invariant of the wheel.                            *)
LEMMA WheelStep ==
  ASSUME WheelAssumption, WheelInv, [WheelNext]_wheelVars
  PROVE  WheelInv'
<1>1. CASE UNCHANGED wheelVars
  <2>1. UNCHANGED <<threadVars, timerVars, ctime, announced>> BY <1>1 DEF wheelVars
  <2>2. WheelTypes' /\ ThreadInv'
    BY <2>1 DEF WheelInv, WheelTypes, ThreadInv, Held, threadVars, timerVars
  <2>3. ASSUME NEW u \in Timers, status'[u] # "free" PROVE IntervalInv(u)'
    BY <2>1, <2>3 DEF WheelInv, IntervalInv, Span, Turn, timerVars
  <2>4. ASSUME NEW u \in Timers, status'[u] = "wheel" PROVE PlaceInv(u)'
    <3>1. PlaceInv(u) BY <2>1, <2>4 DEF WheelInv, Linked, timerVars
    <3> QED BY <2>1, <3>1
      DEF PlaceInv, Pending, Served, Opens, Slot, Span, Turn, threadVars, timerVars
  <2> QED BY <2>1, <2>2, <2>3, <2>4 DEF WheelInv, Linked, threadVars, timerVars
<1>2. CASE NextSecond BY <1>2, NextSecondStep
<1>3. CASE Rise BY <1>3, RiseStep
<1>4. CASE MoveDown BY <1>4, MoveDownStep
<1>5. CASE TakeDue BY <1>5, TakeDueStep
<1>6. CASE ReadClock \/ TakeMutex \/ NextRound \/ Announce BY <1>6, ClockStep
<1>7. CASE Reinsert BY <1>7, ReinsertStep
<1>8. ASSUME NEW t \in Timers, CallTimer(t) PROVE WheelInv' BY <1>8, CallStep
<1>9. ASSUME NEW t \in Timers, psync_timer_stop(t) PROVE WheelInv' BY <1>9, StopStep
<1>10. ASSUME NEW t \in Timers, NEW n \in Numsecs, psync_timer_register(t, n) PROVE WheelInv'
  BY <1>10, RegisterStep
<1>11. ASSUME NEW w \in Waiters,
              psync_timer_wait_next_sec(w) \/ WaiterWakes(w) \/ psync_timer_wake(w)
       PROVE  WheelInv'
  BY <1>11, WaiterStep
<1> QED BY <1>1, <1>2, <1>3, <1>4, <1>5, <1>6, <1>7, <1>8, <1>9, <1>10, <1>11 DEF WheelNext

(* Every timer is in the slot its time says, at a level where that slot    *)
(* opens by its time and, unless it is hasty, not a lap before; each move  *)
(* of timer_check_upper_levels keeps it so.  And a timer that              *)
(* psync_timer_stop freed is on no list of the timer thread.               *)
THEOREM WheelInvariant ==
  ASSUME WheelAssumption
  PROVE  WheelSpec => []WheelInv
<1> QED BY WheelStarts, WheelStep, PTL DEF WheelSpec

(* timer_prepare_timers forgets no timer, and none is called before its    *)
(* time but those registered for a time more than a lap of their level     *)
(* after the last second served.                                           *)
THEOREM CalledOnTime ==
  ASSUME WheelAssumption
  PROVE  WheelSpec => []OnTime
<1>1. ASSUME WheelInv PROVE OnTime
  <2>1. ASSUME NEW t \in timers \ hasty PROVE runat[t] <= psync_current_time
    <3>1. runat[t] <= second /\ second <= psync_current_time /\ runat[t] \in Nat
          /\ second \in Nat /\ psync_current_time \in Nat
      BY <1>1, <2>1 DEF WheelInv, WheelTypes, WheelAssumption
    <3> QED BY <3>1
  <2>2. ASSUME NEW t \in Timers, status[t] = "wheel", ~Held PROVE runat[t] > second
    <3>1. place[t][1] \in Levels /\ runat[t] \in Nat /\ second \in Nat
      BY <1>1, <2>2, InWheel DEF WheelInv, WheelTypes, WheelAssumption
    <3>2. Opens(place[t][1], runat[t]) > second BY <1>1, <2>2, InWheel DEF Pending, Held
    <3>3. Opens(place[t][1], runat[t]) <= runat[t] /\ Opens(place[t][1], runat[t]) \in Nat
      BY <3>1, OpensBounds
    <3> QED BY <3>1, <3>2, <3>3
  <2> QED BY <2>1, <2>2 DEF OnTime, Linked
<1> QED BY <1>1, WheelInvariant, PTL

(* Every thread in psync_timer_wait_next_sec is woken when the next second *)
(* is there, also one that begins to wait while it is being announced.     *)
THEOREM WaitersWoken ==
  ASSUME WheelAssumption
  PROVE  WheelSpec => []NoMissedSecond
<1>1. WheelInit => NoMissedSecond BY DEF WheelInit, NoMissedSecond
<1>2. ASSUME WheelInv, NoMissedSecond, [WheelNext]_wheelVars PROVE NoMissedSecond'
  <2>1. CASE UNCHANGED <<ctime, psync_current_time, announced>> /\ ~(step = "prepare" \/ Held)
    BY <1>2, <2>1 DEF NoMissedSecond
  <2>2. CASE UNCHANGED <<ctime, psync_current_time, announced>> /\ (step' = "prepare" \/ Held')
    BY <2>2 DEF NoMissedSecond, Held
  <2>3. CASE UNCHANGED <<ctime, psync_current_time, announced, step>>
    BY <1>2, <2>3 DEF NoMissedSecond, Held
  <2>4. CASE ReadClock BY <2>4 DEF ReadClock, NoMissedSecond
  <2>5. CASE Announce BY <2>5 DEF Announce, NoMissedSecond
  <2>6. ASSUME NEW w \in Waiters, psync_timer_wait_next_sec(w) PROVE NoMissedSecond'
    BY <1>2, <2>6 DEF psync_timer_wait_next_sec, threadVars, NoMissedSecond, WheelInv, WheelTypes, Held
  <2>7. ASSUME NEW w \in Waiters, WaiterWakes(w) PROVE NoMissedSecond'
    BY <1>2, <2>7 DEF WaiterWakes, threadVars, NoMissedSecond, WheelInv, WheelTypes, Held
  <2>8. ASSUME NEW w \in Waiters, psync_timer_wake(w) PROVE NoMissedSecond'
    BY <1>2, <2>8 DEF psync_timer_wake, threadVars, NoMissedSecond, Held
  <2>9. ASSUME NEW t \in Timers,
               \/ CallTimer(t) \/ psync_timer_stop(t)
               \/ \E n \in Numsecs : psync_timer_register(t, n)
        PROVE  UNCHANGED <<ctime, psync_current_time, announced, step>>
    BY <2>9 DEF CallTimer, psync_timer_stop, psync_timer_register, threadVars
  <2>10. CASE TakeMutex \/ NextSecond \/ Rise \/ MoveDown \/ TakeDue
    BY <2>2, <2>10 DEF TakeMutex, NextSecond, Rise, MoveDown, TakeDue, Held
  <2>11. CASE Reinsert \/ NextRound
    BY <2>1, <2>11 DEF Reinsert, NextRound, Held
  <2>12. CASE UNCHANGED wheelVars BY <2>3, <2>12 DEF wheelVars, threadVars
  <2> QED BY <1>2, <2>3, <2>4, <2>5, <2>6, <2>7, <2>8, <2>9, <2>10, <2>11, <2>12 DEF WheelNext
<1> QED BY <1>1, <1>2, WheelInvariant, PTL DEF WheelSpec

-----------------------------------------------------------------------------
(* The refinement.  To the users the timers that are due become running    *)
(* at once, when the thread releases the mutex.                            *)
Shown == [t \in Timers |-> IF Held /\ t \in timers THEN "wheel" ELSE status[t]]

(* A step that users do not see is a stutter of the contract.              *)
LEMMA SameToUsers ==
  ASSUME WheelAssumption, Shown' = Shown, UNCHANGED <<stop_after_run, called>>
  PROVE  [Contract!Next]_Contract!vars
  BY DEF Contract!vars, Shown

(* The loop over slots and levels is such a step.                          *)
LEMMA LoopUnseen ==
  ASSUME WheelAssumption, WheelInv, TakeMutex \/ NextSecond \/ Rise \/ MoveDown \/ TakeDue
  PROVE  [Contract!Next]_Contract!vars
<1>1. UNCHANGED <<stop_after_run, called>>
  BY DEF TakeMutex, NextSecond, Rise, MoveDown, TakeDue, timerVars
<1>2. Shown' = Shown
  <2>1. CASE TakeMutex
    <3>1. timers = {} BY <2>1 DEF TakeMutex, WheelInv, ThreadInv, Held
    <3> QED BY <2>1, <3>1 DEF TakeMutex, Shown, timerVars
  <2>2. CASE NextSecond \/ Rise \/ MoveDown
    <3>1. UNCHANGED <<status, timers>> /\ Held /\ Held'
      BY <2>2 DEF NextSecond, Rise, MoveDown, timerVars, Held
    <3> QED BY <3>1 DEF Shown
  <2>3. CASE TakeDue BY <2>3 DEF TakeDue, Shown, Held, Opened, Linked
  <2> QED BY <2>1, <2>2, <2>3
<1> QED BY <1>1, <1>2, SameToUsers

(* The users' timers are registered, stopped, taken, called and put back   *)
(* as TimerContract says.                                                  *)
THEOREM ContractKept ==
  ASSUME WheelAssumption
  PROVE  WheelSpec => ContractHolds
<1>1. WheelInit => Contract!Init BY DEF WheelInit, Contract!Init, Held
<1>2. ASSUME WheelInv, [WheelNext]_wheelVars PROVE [Contract!Next]_Contract!vars
  <2>1. CASE TakeMutex \/ NextSecond \/ Rise \/ MoveDown \/ TakeDue BY <1>2, <2>1, LoopUnseen
  <2>2. CASE Announce
    <3>1. PICK S \in SUBSET Timers : S = timers BY <1>2 DEF WheelInv, WheelTypes
    <3>2. /\ Held /\ ~Held' /\ timers' = timers /\ status' = status
          /\ UNCHANGED <<stop_after_run, called>>
      BY <2>2 DEF Announce, Held, timerVars
    <3>3. timers = {t \in Timers : status[t] = "running"} BY <1>2 DEF WheelInv, WheelTypes
    <3>4. Contract!Fire(S) BY <3>1, <3>2, <3>3 DEF Contract!Fire, Contract!InState
    <3> QED BY <3>4 DEF Contract!Next
  <2>3. CASE Reinsert
    <3>1. ~Held /\ ~Held' /\ called = timers /\ timers # {}
      BY <1>2, <2>3 DEF Reinsert, Held, WheelInv, ThreadInv
    <3>2. timers = {t \in Timers : status[t] = "running"} /\ stop_after_run \subseteq timers
      BY <1>2 DEF WheelInv, WheelTypes
    <3>3. Shown = [t \in Timers |-> status[t]] /\ Shown' = [t \in Timers |-> status'[t]]
      BY <3>1 DEF Shown
    <3>4. \A t \in Timers : status'[t] = IF t \in stop_after_run THEN "free"
                                        ELSE IF t \in called THEN "wheel" ELSE status[t]
      BY <2>3, <3>1, <3>2 DEF Reinsert
    <3>5. called = Contract!InState("running") BY <3>1, <3>2 DEF Contract!InState
    <3>6. Contract!PutBack
      BY <2>3, <3>1, <3>3, <3>4, <3>5 DEF Reinsert, Contract!PutBack, Shown
    <3> QED BY <3>6 DEF Contract!Next
  <2>4. CASE ReadClock \/ NextRound
    <3>1. ~Held /\ ~Held' /\ UNCHANGED <<status, timers, stop_after_run, called>>
      BY <2>4 DEF ReadClock, NextRound, Held, timerVars
    <3> QED BY <3>1, SameToUsers DEF Shown
  <2>5. ASSUME NEW t \in Timers, CallTimer(t) PROVE Contract!Call(t)
    <3>1. ~Held /\ ~Held' /\ UNCHANGED <<status, stop_after_run>> BY <2>5 DEF CallTimer, Held, timerVars
    <3>2. status[t] = "running" BY <1>2, <2>5 DEF CallTimer, WheelInv, WheelTypes
    <3> QED BY <2>5, <3>1, <3>2 DEF CallTimer, Contract!Call
  <2>6. ASSUME NEW t \in Timers, psync_timer_stop(t) PROVE Contract!Stop({t})
    <3>1. ~Held /\ ~Held' /\ called' = called BY <2>6 DEF psync_timer_stop, threadVars, Held
    <3>2. status \in [Timers -> {"free", "wheel", "running"}] BY <1>2 DEF WheelInv, WheelTypes
    <3> QED BY <2>6, <3>1, <3>2 DEF psync_timer_stop, Contract!Stop, Contract!InState
  <2>7. ASSUME NEW t \in Timers, NEW n \in Numsecs, psync_timer_register(t, n)
        PROVE  Contract!Register(t)
    <3>1. ~Held /\ ~Held' /\ UNCHANGED <<called, stop_after_run>> /\ status[t] = "free"
          /\ status' = [status EXCEPT ![t] = "wheel"]
      BY <2>7 DEF psync_timer_register, threadVars, Held
    <3>2. status \in [Timers -> {"free", "wheel", "running"}] BY <1>2 DEF WheelInv, WheelTypes
    <3> QED BY <3>1, <3>2 DEF Contract!Register
  <2>8. ASSUME NEW w \in Waiters,
               psync_timer_wait_next_sec(w) \/ WaiterWakes(w) \/ psync_timer_wake(w)
        PROVE  [Contract!Next]_Contract!vars
    <3>1. UNCHANGED <<step, status, timers, stop_after_run, called>>
      BY <2>8 DEF psync_timer_wait_next_sec, WaiterWakes, psync_timer_wake, threadVars, timerVars
    <3> QED BY <3>1, SameToUsers DEF Shown, Held
  <2>9. CASE UNCHANGED wheelVars
    <3>1. UNCHANGED <<step, status, timers, stop_after_run, called>>
      BY <2>9 DEF wheelVars, threadVars, timerVars
    <3> QED BY <3>1, SameToUsers DEF Shown, Held
  <2>10. ASSUME NEW t \in Timers,
                \/ CallTimer(t) \/ psync_timer_stop(t)
                \/ \E n \in Numsecs : psync_timer_register(t, n)
         PROVE  Contract!Next
    BY <2>5, <2>6, <2>7, <2>10 DEF Contract!Next
  <2> QED BY <1>2, <2>1, <2>2, <2>3, <2>4, <2>8, <2>9, <2>10 DEF WheelNext
<1> QED BY <1>1, <1>2, WheelInvariant, PTL DEF WheelSpec, ContractHolds, Contract!Spec
=============================================================================
