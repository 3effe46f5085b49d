----------------------------- MODULE TimerLemmas ----------------------------
(***************************************************************************)
(* Facts about the operators of the timer component, for any number of     *)
(* timers and any width of the tick counters, that the proofs about every  *)
(* variant cite, and facts of arithmetic.                                  *)
(***************************************************************************)
EXTENDS Timer, WellFoundedInduction, TLAPS

\* An unsigned counter of the C code stays in its range, whatever is stored.
LEMMA ModRange ==
  ASSUME NEW a \in Int, NEW m \in Nat \ {0}
  PROVE  a % m \in 0 .. (m - 1)
  OBVIOUS

\* A set of natural numbers has a least member.
LEMMA LeastOf ==
  ASSUME NEW D \in SUBSET Nat, D # {}
  PROVE  \E d \in D : \A e \in D : d <= e
<1> DEFINE R == OpToRel(<, Nat)
<1>1. IsWellFoundedOn(R, Nat)
  BY NatLessThanWellFounded
<1>2. \A x, y \in Nat : y < x => <<y, x>> \in R
  BY DEF OpToRel
<1> HIDE DEF R
<1>3. PICK x \in D : \A y \in D : <<y, x>> \notin R
  BY <1>1, WFMin
<1>4. \A y \in D : ~(y < x)
  BY <1>2, <1>3
<1>5. \A y \in D : x \in Int /\ y \in Int
  OBVIOUS
<1>6. QED
  BY <1>4, <1>5

\* Ahead of a counter modulo m by less than m is another value of the counter.
LEMMA ModDiffers ==
  ASSUME NEW m \in Nat \ {0}, NEW a \in 0 .. (m - 1), NEW r \in 1 .. (m - 1)
  PROVE  (a + r) % m # a
<1>1. CASE a + r < m
  <2>1. (a + r) % m = a + r
    BY <1>1
  <2>2. QED
    BY <2>1
<1>2. CASE a + r >= m
  <2>1. (a + r) % m = a + r - m
    BY <1>2
  <2>2. QED
    BY <2>1
<1>3. QED
  BY <1>1, <1>2

\* Division with remainder.
LEMMA DivMod ==
  ASSUME NEW m \in Nat \ {0}, NEW a \in Int
  PROVE  a = m * (a \div m) + (a % m) /\ (a \div m) \in Int
  OBVIOUS

\* Two values of a counter modulo m do not differ by a multiple of m.
LEMMA ModUnique ==
  ASSUME NEW m \in Nat \ {0}, NEW x \in 0 .. (m - 1), NEW y \in 0 .. (m - 1),
         NEW k \in Int, x - y = m * k
  PROVE  x = y
<1>0. \A i \in Int : i >= 1 => m * i >= m
  OBVIOUS
<1>1. CASE k >= 1
  BY <1>0, <1>1
<1>2. CASE k <= -1
  <2>1. m * (-k) >= m
    BY <1>0, <1>2
  <2>2. m * (-k) = -(m * k)
    OBVIOUS
  <2>3. QED
    BY <2>1, <2>2
<1>3. CASE k = 0
  BY <1>3
<1>4. QED
  BY <1>1, <1>2, <1>3

\* A counter modulo m that is at a is at b after the time left until b.
LEMMA ModAdvance ==
  ASSUME NEW m \in Nat \ {0}, NEW a \in Int, NEW b \in Int
  PROVE  ((a % m) + ((b - a) % m)) % m = b % m
<1> DEFINE x == a % m
           y == (b - a) % m
           z == b % m
           v == (x + y) % m
<1>1. x \in Int /\ y \in Int /\ z \in 0 .. (m - 1) /\ b - a \in Int
  OBVIOUS
<1>2. x + y \in Int /\ v \in 0 .. (m - 1)
  BY <1>1
<1>3. PICK i \in Int : a = m * i + x
  BY DivMod
<1>4. PICK j \in Int : b - a = m * j + y
  BY <1>1, DivMod
<1>5. PICK n \in Int : x + y = m * n + v
  BY <1>2, DivMod
<1>6. PICK l \in Int : b = m * l + z
  BY DivMod
<1> HIDE DEF x, y, z, v
<1>7. m * (l - i - j - n) = m * l - m * i - m * j - m * n /\ l - i - j - n \in Int
  OBVIOUS
<1>8. v - z = m * (l - i - j - n)
  BY <1>1, <1>2, <1>3, <1>4, <1>5, <1>6, <1>7
<1>9. v = z
  BY <1>1, <1>2, <1>7, <1>8, ModUnique
<1>10. QED
  BY <1>9 DEF v, x, y, z

\* timer_process_one, timer_enable and timer_oneshot write a well-formed timer.
LEMMA TimerOpsTyped ==
  ASSUME NEW tm \in TimerRecord, NEW pending, NEW timeout \in TicksRelative, TimerTypeOK
  PROVE  /\ timer_process_one(tm, pending) \in TimerRecord
         /\ timer_start(tm) \in TimerRecord
         /\ timer_start_oneshot(tm, timeout) \in TimerRecord
         /\ [tm EXCEPT !.reload = timeout] \in TimerRecord
<1>1. TicksTimeoutMod \in Nat \ {0} /\ timer_current_ticks \in Int
  BY TimerAssumption DEF TimerTypeOK, TicksAbsolute
<1>2. \A a \in Int : a % TicksTimeoutMod \in TicksRelative
  BY <1>1, ModRange DEF TicksRelative
<1>3. \A a \in TicksRelative : a \in Int
  BY <1>1 DEF TicksRelative
<1>4. timer_process_one(tm, pending) \in TimerRecord
  <2>1. /\ tm.expiry \in TicksRelative /\ tm.reload \in TicksRelative
        /\ tm.enabled \in BOOLEAN /\ tm.overflow \in BOOLEAN
    BY DEF TimerRecord
  <2> DEFINE e == tm.enabled /\ tm.reload > 0
             x == IF tm.reload > 0 THEN (tm.expiry + tm.reload) % TicksTimeoutMod ELSE tm.expiry
             o == tm.overflow \/ tm.signal_set \subseteq pending
  <2>2. e \in BOOLEAN /\ o \in BOOLEAN
    OBVIOUS
  <2>3. x \in TicksRelative
    <3>1. (tm.expiry + tm.reload) % TicksTimeoutMod \in TicksRelative
      BY <1>2, <1>3, <2>1
    <3>2. QED
      BY <3>1, <2>1
  <2>4. timer_process_one(tm, pending) = [tm EXCEPT !.enabled = e, !.expiry = x, !.overflow = o]
    BY DEF timer_process_one
  <2> HIDE DEF e, x, o
  <2>5. QED
    BY <2>2, <2>3, <2>4 DEF TimerRecord
<1>5. ASSUME NEW r \in TimerRecord
      PROVE  timer_start(r) \in TimerRecord
  <2>1. timer_current_ticks % TicksTimeoutMod \in Int /\ r.reload \in Int
    BY <1>1, <1>2, <1>3 DEF TimerRecord
  <2>2. ((timer_current_ticks % TicksTimeoutMod) + r.reload) % TicksTimeoutMod \in TicksRelative
    BY <1>2, <2>1
  <2>3. QED
    BY <2>2 DEF timer_start, TimerRecord, current_timeout
<1>6. [tm EXCEPT !.reload = timeout] \in TimerRecord
  BY DEF TimerRecord
<1>7. 0 \in TicksRelative
  BY <1>1 DEF TicksRelative
<1>8. timer_start_oneshot(tm, timeout) \in TimerRecord
  BY <1>5, <1>6, <1>7 DEF timer_start_oneshot, TimerRecord
<1>9. QED
  BY <1>4, <1>5, <1>6, <1>8

\* timer_process_one for every expired timer, and the signals they send.
LEMMA ExpiredTyped ==
  ASSUME TimerTypeOK, NEW K \in SUBSET TimerIds
  PROVE  /\ TimersAfter(K) \in [TimerIds -> TimerRecord]
         /\ TimerTasks(K) \in SUBSET Tasks
         /\ \A t \in TimerTasks(K) : TimerSignals(K)[t] \subseteq Signals
<1>0. 0 \in TicksRelative /\ timers \in [TimerIds -> TimerRecord]
  BY TimerAssumption DEF TicksRelative, TimerTypeOK
<1>1. \A k \in TimerIds : timers[k].task_id \in Tasks /\ timers[k].signal_set \subseteq Signals
  BY <1>0 DEF TimerRecord
<1>2. \A k \in TimerIds : timer_process_one(timers[k], PendingAt(k, K)) \in TimerRecord
  BY <1>0, TimerOpsTyped
<1>3. TimersAfter(K) \in [TimerIds -> TimerRecord]
  BY <1>0, <1>2 DEF TimersAfter
<1>4. TimerTasks(K) \in SUBSET Tasks
  BY <1>1 DEF TimerTasks
<1>5. \A t \in Tasks : TimerSignals(K)[t] \subseteq Signals
  BY <1>1 DEF TimerSignals
<1>6. QED
  BY <1>3, <1>4, <1>5

\* timer_oneshot for the time left until tick a, in a call whose conversion to
\* TicksRelative cuts it, starts a timer that expires at tick a's timeout.
LEMMA OneshotExpiry ==
  ASSUME TimerTypeOK, NEW tm \in TimerRecord, NEW a \in Int,
         NEW left, left = (a - timer_current_ticks) % TicksTimeoutMod
  PROVE  /\ timer_start_oneshot(tm, left).enabled
         /\ timer_start_oneshot(tm, left).expiry = a % TicksTimeoutMod
<1>1. timer_current_ticks \in Int /\ TicksTimeoutMod \in Nat \ {0}
  BY TimerAssumption DEF TimerTypeOK, TicksAbsolute
<1>2. (current_timeout(timer_current_ticks) + left) % TicksTimeoutMod = a % TicksTimeoutMod
  BY <1>1, ModAdvance DEF current_timeout
<1>3. /\ timer_start_oneshot(tm, left).enabled
      /\ timer_start_oneshot(tm, left).expiry
           = (current_timeout(timer_current_ticks) + left) % TicksTimeoutMod
  BY DEF timer_start_oneshot, timer_start, TimerRecord
<1>4. QED
  BY <1>2, <1>3

\* A tick signals the tasks of the timers that expire and leaves the others.
LEMMA TickEffect ==
  ASSUME NEW K, NEW k \in TimerIds, timers' = TimersAfter(K)
  PROVE  /\ k \notin K => timers'[k] = timers[k]
         /\ k \in K => /\ timers[k].task_id \in TimerTasks(K)
                       /\ timers[k].task_id \in Tasks
                             => timers[k].signal_set \subseteq TimerSignals(K)[timers[k].task_id]
<1>1. k \notin K => timers'[k] = timers[k]
  BY DEF TimersAfter
<1>2. k \in K => timers[k].task_id \in TimerTasks(K)
  BY DEF TimerTasks
<1>3. ASSUME k \in K, timers[k].task_id \in Tasks
      PROVE  timers[k].signal_set \subseteq TimerSignals(K)[timers[k].task_id]
  <2>1. k \in {j \in K : timers[j].task_id = timers[k].task_id}
    BY <1>3
  <2>2. QED
    BY <1>3, <2>1 DEF TimerSignals
<1>4. QED
  BY <1>1, <1>2, <1>3

\* The time left of a call is a relative tick count, from its start to its end.
LEMMA TimeLeftTyped ==
  ASSUME TimeLeftTypeOK, NEW t \in Tasks
  PROVE  /\ \A timeout \in TicksRelative : StartTimeout(t, timeout) => TimeLeftTypeOK'
         /\ EndTimeout(t) => TimeLeftTypeOK'
         /\ UNCHANGED time_left => TimeLeftTypeOK'
<1>1. 0 \in TicksRelative
  BY TimerAssumption DEF TicksRelative
<1>2. QED
  BY <1>1 DEF TimeLeftTypeOK, StartTimeout, EndTimeout

\* A tick takes one off what is left of every timeout to come.
LEMMA CountTickTyped ==
  ASSUME TimeLeftTypeOK, NEW ticks, NEW T, CountTick(ticks, T)
  PROVE  TimeLeftTypeOK'
<1>1. ASSUME NEW t \in Tasks
      PROVE  time_left'[t] \in TicksRelative \cup {WRAPPED}
  <2>1. /\ TicksTimeoutMod \in Nat \ {0}
        /\ time_left[t] \in TicksRelative \cup {WRAPPED}
    BY TimerAssumption DEF TimeLeftTypeOK
  <2>2. time_left[t] > 0 => time_left[t] - 1 \in TicksRelative
    BY <2>1 DEF TicksRelative, WRAPPED
  <2>3. time_left'[t] \in {time_left[t], WRAPPED} \/ (time_left[t] > 0 /\ time_left'[t] = time_left[t] - 1)
    BY DEF CountTick
  <2>4. QED
    BY <2>1, <2>2, <2>3
<1>2. QED
  BY <1>1 DEF CountTick, TimeLeftTypeOK

\* A whole turn of the absolute counter is whole turns of a timer's counter.
LEMMA ModTurn ==
  ASSUME NEW m \in Nat \ {0}, NEW a \in Int, a % m = 0, NEW x \in Int
  PROVE  (a + x) % m = x % m
<1>1. \A b \in Int : ((a % m) + ((b - a) % m)) % m = b % m
  BY ModAdvance
<1>2. a + x \in Int /\ (a + x) - a = x
  OBVIOUS
<1>3. (x % m) % m = x % m /\ 0 + (x % m) = x % m
  OBVIOUS
<1>4. ((a % m) + (x % m)) % m = (a + x) % m
  BY <1>1, <1>2
<1>5. QED
  BY <1>3, <1>4

\* Absolute tick a is the timeout of task t's call, which is time_left[t] ticks
\* away, or which the counter has passed and not left behind by a wrap.
OnClock(t, a) ==
    /\ time_left[t] > 0 => a = (timer_current_ticks + time_left[t]) % TicksAbsoluteMod
    /\ time_left[t] = 0 => a <= timer_current_ticks

\* The ranges of the counters.
LEMMA ClockTyped ==
  ASSUME TimerTypeOK, TimeLeftTypeOK, NEW t \in Tasks
  PROVE  /\ timer_current_ticks \in Int /\ 0 <= timer_current_ticks /\ timer_current_ticks < TicksAbsoluteMod
         /\ time_left[t] \in Int /\ -1 <= time_left[t] /\ time_left[t] < TicksAbsoluteMod
         /\ TicksAbsoluteMod \in Nat \ {0} /\ TicksTimeoutMod \in Nat \ {0}
<1>1. TicksAbsoluteMod \in Nat \ {0} /\ TicksTimeoutMod \in Nat \ {0}
  BY TimerAssumption
<1>2. TicksTimeoutMod <= TicksAbsoluteMod
  <2>1. TicksAbsoluteMod < TicksTimeoutMod => TicksAbsoluteMod % TicksTimeoutMod = TicksAbsoluteMod
    BY <1>1
  <2>2. QED
    BY <1>1, <2>1, TimerAssumption
<1>3. QED
  BY <1>1, <1>2 DEF TimerTypeOK, TimeLeftTypeOK, TicksAbsolute, TicksRelative, WRAPPED

\* The absolute timeout that a call computes when it starts.
LEMMA ClockStarts ==
  ASSUME TimerTypeOK, TimeLeftTypeOK, NEW t \in Tasks, NEW timeout \in TicksRelative,
         StartTimeout(t, timeout), UNCHANGED timer_current_ticks,
         NEW a, a = (timer_current_ticks + timeout) % TicksAbsoluteMod
  PROVE  OnClock(t, a)'
<1>1. time_left'[t] = timeout
  BY DEF StartTimeout, TimeLeftTypeOK
<1>2. timeout = 0 => a = timer_current_ticks
  BY ClockTyped
<1>3. QED
  BY <1>1, <1>2, ClockTyped DEF OnClock

\* A tick, also one that makes a counter begin anew, keeps that relation.
LEMMA ClockTicks ==
  ASSUME TimerTypeOK, TimeLeftTypeOK, NEW T, NEW t \in Tasks \cap T, NEW a \in TicksAbsolute, OnClock(t, a),
         NEW ticks, ticks = (timer_current_ticks + 1) % TicksAbsoluteMod,
         timer_current_ticks' = ticks, CountTick(ticks, T)
  PROVE  OnClock(t, a)'
<1> DEFINE now == timer_current_ticks
           left == time_left[t]
           A == TicksAbsoluteMod
<1>1. /\ now \in Int /\ 0 <= now /\ now < A /\ left \in Int /\ -1 <= left /\ left < A
      /\ A \in Nat \ {0} /\ a \in Int
  BY ClockTyped DEF TicksAbsolute
<1>2. /\ left > 0 => time_left'[t] = left - 1
      /\ left <= 0 => time_left'[t] = IF ticks = 0 THEN -1 ELSE left
  BY <1>1 DEF CountTick, WRAPPED
<1>3. /\ left > 0 => a = (now + left) % A
      /\ left = 0 => a <= now
  BY DEF OnClock
<1> HIDE DEF now, left, A
<1>4. CASE now + 1 < A
  <2>1. ticks = now + 1
    BY <1>1, <1>4 DEF now, A
  <2>2. left > 1 => ticks + (left - 1) = now + left
    BY <1>1, <2>1
  <2>3. left = 1 => a = ticks
    BY <1>1, <1>3, <1>4, <2>1
  <2>4. QED
    BY <1>1, <1>2, <1>3, <2>1, <2>2, <2>3 DEF OnClock, now, A
<1>5. CASE now + 1 = A
  <2>1. ticks = 0
    BY <1>1, <1>5 DEF now, A
  <2>2. left > 0 => (now + left) % A = left - 1 /\ (0 + (left - 1)) % A = left - 1
    BY <1>1, <1>5
  <2>3. QED
    BY <1>1, <1>2, <1>3, <2>1, <2>2 DEF OnClock, A
<1>6. QED
  BY <1>1, <1>4, <1>5

\* A call that finds its timeout ahead of the counter starts its timer for
\* exactly the ticks that are left.
LEMMA TimerInTime ==
  ASSUME TimerTypeOK, TimeLeftTypeOK, NEW t \in Tasks, NEW a \in TicksAbsolute, OnClock(t, a),
         a > timer_current_ticks, NEW tm \in TimerRecord,
         NEW left, left = (a - timer_current_ticks) % TicksTimeoutMod
  PROVE  /\ timer_start_oneshot(tm, left).enabled
         /\ time_left[t] # WRAPPED =>
               /\ time_left[t] > 0
               /\ timer_start_oneshot(tm, left).expiry = (timer_current_ticks + time_left[t]) % TicksTimeoutMod
<1>1. a \in Int
  BY TimerAssumption DEF TicksAbsolute
<1>2. /\ timer_start_oneshot(tm, left).enabled
      /\ timer_start_oneshot(tm, left).expiry = a % TicksTimeoutMod
  BY <1>1, OneshotExpiry
<1>3. time_left[t] > 0 => a = timer_current_ticks + time_left[t]
  <2>1. ASSUME time_left[t] > 0, timer_current_ticks + time_left[t] >= TicksAbsoluteMod
        PROVE  (timer_current_ticks + time_left[t]) % TicksAbsoluteMod
                  = timer_current_ticks + time_left[t] - TicksAbsoluteMod
    BY <2>1, ClockTyped
  <2>2. QED
    BY <1>1, <2>1, ClockTyped DEF OnClock
<1>4. time_left[t] # WRAPPED => time_left[t] > 0
  BY <1>1, ClockTyped DEF OnClock, WRAPPED
<1>5. QED
  BY <1>2, <1>3, <1>4

\* A tick that is not the one a timer waits for leaves that one to come.
LEMMA TickInTime ==
  ASSUME TimerTypeOK, TimeLeftTypeOK, NEW t \in Tasks, ExpiresInTime(t),
         NEW ticks, ticks = (timer_current_ticks + 1) % TicksAbsoluteMod,
         timers[task_timers(t)].expiry # current_timeout(ticks),
         timer_current_ticks' = ticks, NEW T, CountTick(ticks, T),
         timers'[task_timers(t)] = timers[task_timers(t)]
  PROVE  ExpiresInTime(t)'
<1> DEFINE now == timer_current_ticks
           left == time_left[t]
           A == TicksAbsoluteMod
           M == TicksTimeoutMod
           x == timers[task_timers(t)].expiry
<1>1. /\ now \in Int /\ 0 <= now /\ now < A /\ left \in Int /\ -1 <= left /\ left < A
      /\ A \in Nat \ {0} /\ M \in Nat \ {0} /\ A % M = 0
  BY ClockTyped, TimerAssumption
<1>2. CASE left = WRAPPED
  <2>1. time_left'[t] = WRAPPED
    BY <1>2 DEF CountTick, WRAPPED
  <2>2. QED
    BY <2>1 DEF ExpiresInTime
<1>3. CASE left # WRAPPED
  <2>1. left > 0 /\ x = (now + left) % M
    BY <1>3 DEF ExpiresInTime
  <2>2. x # ticks % M
    BY DEF current_timeout
  <2>3. time_left'[t] = left - 1
    BY <2>1 DEF CountTick
  <2>4. \A d \in Nat : (ticks + d) % M = (now + 1 + d) % M
    <3>1. SUFFICES ASSUME NEW d \in Nat PROVE (ticks + d) % M = (now + 1 + d) % M
      OBVIOUS
    <3>2. CASE now + 1 < A
      <4>1. ticks = now + 1
        BY <1>1, <3>2
      <4>2. QED
        BY <4>1
    <3>3. CASE now + 1 = A
      <4>1. ticks = 0
        BY <1>1, <3>3
      <4>2. (A + d) % M = d % M
        <5>1. A \in Int /\ d \in Int /\ M \in Nat \ {0} /\ A % M = 0
          BY <1>1
        <5>2. QED
          BY <5>1, ModTurn
      <4>3. QED
        BY <1>1, <3>3, <4>1, <4>2
    <3>4. QED
      BY <1>1, <3>2, <3>3
  <2> HIDE DEF now, left, A, M, x
  <2>t. ticks \in Int
    BY <1>1, ModRange DEF now, A
  <2>5. left # 1
    <3>1. (ticks + 0) % M = (now + 1 + 0) % M
      BY <2>4
    <3>2. ticks + 0 = ticks /\ now + 1 + 0 = now + 1
      BY <1>1, <2>t
    <3>3. QED
      BY <2>1, <2>2, <3>1, <3>2
  <2>6. left - 1 > 0 /\ left - 1 \in Nat
    BY <1>1, <2>1, <2>5
  <2>7. (ticks + (left - 1)) % M = x
    <3>1. now + 1 + (left - 1) = now + left
      BY <1>1
    <3>2. QED
      BY <2>1, <2>4, <2>6, <3>1
  <2>8. QED
    BY <2>3, <2>6, <2>7 DEF ExpiresInTime, now, left, M, x
<1>4. QED
  BY <1>2, <1>3
=============================================================================
