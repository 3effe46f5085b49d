----------------------------- MODULE PhactProofs ----------------------------
(***************************************************************************)
(* Type correctness and the safety of Phact, for any configuration: any    *)
(* number of tasks, mutexes and events, any sound assignment of            *)
(* priorities and ceilings, and any width of the tick counters.            *)
(***************************************************************************)
EXTENDS Phact, TimerLemmas

\* The calls that hold a mutex identifier, and the code that runs with
\* preemption enabled.
LockLabels == MutexWaits \cup {"lock", "lock_timeout_call", "lock_timeout"}
Preemptible == {"app", "lock_timeout_call"}

\* The locals of the calls.
FrameTypeOK ==
    /\ pc \in [Tasks -> Labels]
    /\ obj \in [Tasks -> Mutexes \cup {NoObject}]
    /\ arg \in [Tasks -> TicksAbsolute]
    /\ requested_signals \in [Tasks -> SUBSET Signals]
    /\ \A t \in Tasks : pc[t] \in LockLabels => obj[t] \in Mutexes

\* What the CPU does, and the flags of preemption.
CpuTypeOK ==
    /\ phase \in Phases
    /\ current_task \in Tasks
    /\ preempt_disabled \in BOOLEAN /\ return_disabled \in BOOLEAN
    /\ restore_disabled \in [Tasks -> BOOLEAN]

\* The events that are being processed: while they are, there is one.
CopyTypeOK ==
    /\ EventTypeOK
    /\ tmp \in SUBSET Events /\ loaded \in SUBSET Events /\ raised \in SUBSET Events
    /\ phase \in {"load", "store"} => tmp # {}

(***************************************************************************)
(* The scheduler's table: the entry of a mutex names its holder, the entry *)
(* of a task names the task or nobody, and there are no other entries.     *)
(***************************************************************************)
TableOK ==
    /\ \A m \in Mutexes : locked_by[mutex_to_index[m]] =
            IF holder[m] = TASK_ID_NONE THEN SCHED_INDEX_NONE ELSE task_to_index[holder[m]]
    /\ \A t \in Tasks : locked_by[task_to_index[t]] \in {task_to_index[t], SCHED_INDEX_NONE}
    /\ \A i \in Indexes : locked_by[i] # SCHED_INDEX_NONE =>
            (\E t \in Tasks : i = task_to_index[t]) \/ (\E m \in Mutexes : i = mutex_to_index[m])

\* The type invariant together with the type of a call's object and the shape
\* of the scheduler's table, without which it is not inductive.
TypeInv ==
    /\ SchedTypeOK /\ SignalTypeOK /\ TimerTypeOK /\ MutexTypeOK
    /\ preempt_pending \in BOOLEAN
    /\ CpuTypeOK /\ CopyTypeOK /\ FrameTypeOK /\ TableOK

LEMMA TypeInvIsStronger == TypeInv /\ TimeLeftTypeOK => TypeOK
  BY DEF TypeInv, TypeOK, CpuTypeOK, CopyTypeOK, FrameTypeOK

-----------------------------------------------------------------------------
(* The scheduler's table. *)

\* The entries of tasks and mutexes are different.
LEMMA EntriesDiffer ==
  /\ \A t \in Tasks : task_to_index[t] \in Indexes
  /\ \A m \in Mutexes : mutex_to_index[m] \in Indexes
  /\ \A t, u \in Tasks : task_to_index[t] = task_to_index[u] => t = u
  /\ \A m, n \in Mutexes : mutex_to_index[m] = mutex_to_index[n] => m = n
  /\ \A t \in Tasks, m \in Mutexes : task_to_index[t] # mutex_to_index[m]
  /\ Indexes \subseteq Nat /\ SCHED_INDEX_NONE \notin Indexes
<1>1. /\ \A t \in Tasks : task_to_index[t] \in Indexes
      /\ \A m \in Mutexes : mutex_to_index[m] \in Indexes
      /\ \A t \in Tasks, m \in Mutexes : task_to_index[t] # mutex_to_index[m]
  BY CeilingAssumption
<1>2. Indexes \subseteq Nat /\ SCHED_INDEX_NONE \notin Indexes
  BY NAssumption, MutexAssumption DEF Indexes, SCHED_INDEX_NONE
<1>3. ASSUME NEW t \in Tasks, NEW u \in Tasks, task_to_index[t] = task_to_index[u]
      PROVE  t = u
  <2>1. t \in Int /\ u \in Int
    BY NAssumption DEF Tasks
  <2>i. task_to_index[t] \in Nat
    BY <1>1, <1>2
  <2>2. ~(t < u) /\ ~(u < t)
    BY <1>3, <2>1, <2>i, CeilingAssumption
  <2>3. QED
    BY <2>1, <2>2
<1>4. ASSUME NEW m \in Mutexes, NEW n \in Mutexes, mutex_to_index[m] = mutex_to_index[n]
      PROVE  m = n
  <2>1. m \in Int /\ n \in Int
    BY MutexAssumption DEF Mutexes
  <2>i. mutex_to_index[m] \in Nat
    BY <1>1, <1>2
  <2>2. ~(m < n) /\ ~(n < m)
    BY <1>4, <2>1, <2>i, CeilingAssumption
  <2>3. QED
    BY <2>1, <2>2
<1>5. QED
  BY <1>1, <1>2, <1>3, <1>4

\* The identifiers that stand for nothing.
LEMMA NoneIsNone == TASK_ID_NONE \notin Tasks /\ MUTEX_ID_NONE \notin Mutexes
  BY NAssumption, MutexAssumption DEF TASK_ID_NONE, Tasks, MUTEX_ID_NONE, Mutexes

\* The scheduler's table is well-formed.
Table == SchedTypeOK /\ MutexTypeOK /\ TableOK

\* sched_set_runnable makes the tasks of T runnable and nothing else.
LEMMA SetRunnable ==
  ASSUME Table, NEW T \in SUBSET Tasks, sched_set_runnable(T), UNCHANGED holder
  PROVE  /\ SchedTypeOK' /\ TableOK'
         /\ \A u \in Tasks : sched_runnable(u)' <=> (u \in T \/ sched_runnable(u))
<1>1. \A i \in Indexes : locked_by'[i] = IF \E t \in T : task_to_index[t] = i THEN i ELSE locked_by[i]
  BY DEF sched_set_runnable
<1>2. SchedTypeOK'
  BY DEF sched_set_runnable, Table, SchedTypeOK
<1>3. \A m \in Mutexes : locked_by'[mutex_to_index[m]] = locked_by[mutex_to_index[m]]
  <2>1. \A m \in Mutexes : mutex_to_index[m] \in Indexes /\ ~\E t \in T : task_to_index[t] = mutex_to_index[m]
    BY EntriesDiffer
  <2>2. QED
    BY <1>1, <2>1
<1>4. \A u \in Tasks : locked_by'[task_to_index[u]] = IF u \in T THEN task_to_index[u]
                                                      ELSE locked_by[task_to_index[u]]
  BY <1>1, EntriesDiffer
<1>5. TableOK'
  BY <1>1, <1>3, <1>4 DEF Table, TableOK
<1>6. QED
  BY <1>2, <1>4, <1>5 DEF sched_runnable

\* sched_set_blocked makes t no longer runnable.
LEMMA SetBlocked ==
  ASSUME Table, NEW t \in Tasks, sched_set_blocked(t), UNCHANGED holder
  PROVE  /\ SchedTypeOK' /\ TableOK'
         /\ \A u \in Tasks \ {t} : sched_runnable(u)' <=> sched_runnable(u)
<1>1. /\ task_to_index[t] \in Indexes
      /\ locked_by'[task_to_index[t]] = SCHED_INDEX_NONE
      /\ \A i \in Indexes \ {task_to_index[t]} : locked_by'[i] = locked_by[i]
  BY EntriesDiffer DEF sched_set_blocked, Table, SchedTypeOK
<1>2. SchedTypeOK'
  BY DEF sched_set_blocked, Table, SchedTypeOK
<1>3. /\ \A m \in Mutexes : locked_by'[mutex_to_index[m]] = locked_by[mutex_to_index[m]]
      /\ \A u \in Tasks \ {t} : locked_by'[task_to_index[u]] = locked_by[task_to_index[u]]
  BY <1>1, EntriesDiffer
<1>4. TableOK'
  BY <1>1, <1>3 DEF Table, TableOK
<1>5. QED
  BY <1>2, <1>3, <1>4 DEF sched_runnable

\* Locking a mutex writes the mutex's entry only.
LEMMA Acquire ==
  ASSUME Table, NEW t \in Tasks, NEW m \in Mutexes, mutex_acquire(t, m)
  PROVE  /\ SchedTypeOK' /\ MutexTypeOK' /\ TableOK'
         /\ \A u \in Tasks : sched_runnable(u)' <=> sched_runnable(u)
         /\ holder[m] = TASK_ID_NONE /\ holder'[m] = t
         /\ \A n \in Mutexes \ {m} : holder'[n] = holder[n]
         /\ mutex_waiters' = mutex_waiters
<1>1. /\ mutex_to_index[m] \in Indexes /\ task_to_index[t] \in Indexes
      /\ locked_by'[mutex_to_index[m]] = task_to_index[t]
      /\ \A i \in Indexes \ {mutex_to_index[m]} : locked_by'[i] = locked_by[i]
  BY EntriesDiffer DEF mutex_acquire, sched_set_mutex_locked_by, Table, SchedTypeOK
<1>2. SchedTypeOK'
  BY <1>1 DEF mutex_acquire, sched_set_mutex_locked_by, Table, SchedTypeOK
<1>3. /\ holder[m] = TASK_ID_NONE /\ holder'[m] = t /\ mutex_waiters' = mutex_waiters
      /\ \A n \in Mutexes \ {m} : holder'[n] = holder[n]
      /\ MutexTypeOK'
  BY DEF mutex_acquire, mutex_take, MutexFree, Table, MutexTypeOK, TaskIdOption
<1>4. /\ \A n \in Mutexes \ {m} : locked_by'[mutex_to_index[n]] = locked_by[mutex_to_index[n]]
      /\ \A u \in Tasks : locked_by'[task_to_index[u]] = locked_by[task_to_index[u]]
  BY <1>1, EntriesDiffer
<1>5. TableOK'
  BY <1>1, <1>3, <1>4, NoneIsNone DEF Table, TableOK
<1>6. QED
  BY <1>2, <1>3, <1>4, <1>5 DEF sched_runnable

\* Unlocking a mutex clears its entry and makes its waiters runnable.
LEMMA Release ==
  ASSUME Table, NEW m \in Mutexes, sched_set_mutex_unlocked(m, MutexWaiters(m)), mutex_release(m)
  PROVE  /\ SchedTypeOK' /\ MutexTypeOK' /\ TableOK'
         /\ \A u \in Tasks : sched_runnable(u)' <=> (u \in MutexWaiters(m) \/ sched_runnable(u))
         /\ holder'[m] = TASK_ID_NONE
         /\ \A n \in Mutexes \ {m} : holder'[n] = holder[n]
<1> DEFINE T == MutexWaiters(m)
<1>t. T \in SUBSET Tasks
  BY DEF MutexWaiters
<1>1. \A i \in Indexes : locked_by'[i] = CASE i = mutex_to_index[m] -> SCHED_INDEX_NONE
                                           [] \E t \in T : task_to_index[t] = i -> i
                                           [] OTHER -> locked_by[i]
  BY DEF sched_set_mutex_unlocked
<1>2. holder'[m] = TASK_ID_NONE /\ \A n \in Mutexes \ {m} : holder'[n] = holder[n]
  BY DEF mutex_release, Table, MutexTypeOK
<1>3. MutexTypeOK'
  BY DEF mutex_release, Table, MutexTypeOK, TaskIdOption
<1> HIDE DEF T
<1>4. \A i \in Indexes : /\ i = mutex_to_index[m] => locked_by'[i] = SCHED_INDEX_NONE
                         /\ (i # mutex_to_index[m] /\ \E t \in T : task_to_index[t] = i) => locked_by'[i] = i
                         /\ (i # mutex_to_index[m] /\ ~\E t \in T : task_to_index[t] = i) =>
                                locked_by'[i] = locked_by[i]
  <2> TAKE i \in Indexes
  <2>1. ASSUME i = mutex_to_index[m] PROVE locked_by'[i] = SCHED_INDEX_NONE
    <3>1. ~\E t \in T : task_to_index[t] = i
      BY <1>t, <2>1, EntriesDiffer
    <3>2. QED
      BY <1>1, <2>1, <3>1
  <2>2. ASSUME i # mutex_to_index[m], \E t \in T : task_to_index[t] = i PROVE locked_by'[i] = i
    BY <1>1, <2>2
  <2>3. ASSUME i # mutex_to_index[m], ~\E t \in T : task_to_index[t] = i PROVE locked_by'[i] = locked_by[i]
    BY <1>1, <2>3
  <2>4. QED
    BY <2>1, <2>2, <2>3
<1>5. SchedTypeOK'
  <2>1. \A i \in Indexes : locked_by'[i] \in Indexes \cup {SCHED_INDEX_NONE}
    BY <1>4 DEF Table, SchedTypeOK
  <2>2. locked_by' = [i \in Indexes |-> locked_by'[i]]
    BY DEF sched_set_mutex_unlocked
  <2>3. QED
    BY <2>1, <2>2 DEF SchedTypeOK
<1>6. /\ locked_by'[mutex_to_index[m]] = SCHED_INDEX_NONE
      /\ \A n \in Mutexes \ {m} : locked_by'[mutex_to_index[n]] = locked_by[mutex_to_index[n]]
  BY <1>t, <1>4, EntriesDiffer
<1>7. \A u \in Tasks : locked_by'[task_to_index[u]] = IF u \in T THEN task_to_index[u]
                                                      ELSE locked_by[task_to_index[u]]
  BY <1>t, <1>4, EntriesDiffer
<1>8. TableOK'
  <2>1. \A i \in Indexes : locked_by'[i] # SCHED_INDEX_NONE =>
            (\E t \in Tasks : i = task_to_index[t]) \/ (\E n \in Mutexes : i = mutex_to_index[n])
    BY <1>t, <1>4 DEF Table, TableOK
  <2>2. QED
    BY <1>2, <1>6, <1>7, <2>1 DEF Table, TableOK
<1>9. QED
  BY <1>2, <1>3, <1>5, <1>7, <1>8 DEF sched_runnable, T

\* Task t has the highest effective priority of all runnable tasks.
Top(t) == \A u \in Tasks : sched_runnable(u) =>
    \A p \in Priorities(u) : \E c \in Priorities(t) : c <= p

\* sched_get_next returns a task of the highest effective priority.
LEMMA NextIsTop ==
  ASSUME Table
  PROVE  sched_get_next \in Tasks /\ Top(sched_get_next)
<1>1. ASSUME NEW i \in Indexes, NEW t \in Tasks
      PROVE  (Eligible(i) /\ locked_by[i] = task_to_index[t]) <=> (i \in Priorities(t) /\ sched_runnable(t))
  <2>0. /\ task_to_index[t] \in Indexes /\ task_to_index[t] # SCHED_INDEX_NONE
    BY EntriesDiffer
  <2>1. ASSUME Eligible(i), locked_by[i] = task_to_index[t]
        PROVE  i \in Priorities(t) /\ sched_runnable(t)
    <3>1. sched_runnable(t)
      BY <2>1 DEF Eligible, sched_runnable
    <3>2. CASE \E u \in Tasks : i = task_to_index[u]
      <4>1. PICK u \in Tasks : i = task_to_index[u]
        BY <3>2
      <4>2. locked_by[i] = i
        BY <2>0, <2>1, <4>1 DEF Table, TableOK
      <4>3. QED
        BY <2>1, <3>1, <4>2 DEF Priorities
    <3>3. CASE \E m \in Mutexes : i = mutex_to_index[m]
      <4>1. PICK m \in Mutexes : i = mutex_to_index[m]
        BY <3>3
      <4>2. holder[m] # TASK_ID_NONE /\ task_to_index[holder[m]] = task_to_index[t]
        BY <2>0, <2>1, <4>1 DEF Table, TableOK
      <4>3. holder[m] \in Tasks
        BY <4>2 DEF Table, MutexTypeOK, TaskIdOption
      <4>4. holder[m] = t
        BY <4>2, <4>3, EntriesDiffer
      <4>5. QED
        BY <3>1, <4>1, <4>4 DEF Priorities
    <3>4. QED
      BY <2>0, <2>1, <3>1, <3>2, <3>3 DEF Table, TableOK
  <2>2. ASSUME i \in Priorities(t), sched_runnable(t)
        PROVE  Eligible(i) /\ locked_by[i] = task_to_index[t]
    <3>1. locked_by[i] = task_to_index[t]
      BY <2>2, NoneIsNone DEF Priorities, sched_runnable, Table, TableOK
    <3>2. QED
      BY <2>0, <2>2, <3>1 DEF Eligible, sched_runnable
  <2>3. QED
    BY <2>1, <2>2
<1>2. \A t \in Tasks : Priorities(t) \subseteq Indexes
  BY EntriesDiffer DEF Priorities
<1>3. CASE \E i \in Indexes : Eligible(i)
  <2> DEFINE D == {i \in Indexes : Eligible(i)}
             least == CHOOSE i \in Indexes : Eligible(i) /\ \A j \in Indexes : Eligible(j) => i <= j
  <2>1. D \in SUBSET Nat /\ D # {}
    BY <1>3, EntriesDiffer
  <2>2. \E i \in D : \A j \in D : i <= j
    BY <2>1, LeastOf
  <2>3. least \in Indexes /\ Eligible(least) /\ \A j \in Indexes : Eligible(j) => least <= j
    BY <2>2
  <2>4. sched_get_next = TaskAt(locked_by[least])
    BY <1>3 DEF sched_get_next
  <2> HIDE DEF least
  <2>5. PICK t \in Tasks : locked_by[least] = task_to_index[t]
    <3>1. locked_by[least] # SCHED_INDEX_NONE
      BY <2>3 DEF Eligible
    <3>2. CASE \E u \in Tasks : least = task_to_index[u]
      BY <3>1, <3>2 DEF Table, TableOK
    <3>3. CASE \E m \in Mutexes : least = mutex_to_index[m]
      BY <3>1, <3>3 DEF Table, TableOK, MutexTypeOK, TaskIdOption
    <3>4. QED
      BY <2>3, <3>1, <3>2, <3>3 DEF Table, TableOK
  <2>6. sched_get_next = t
    BY <2>4, <2>5, EntriesDiffer DEF TaskAt
  <2>7. least \in Priorities(t)
    BY <1>1, <2>3, <2>5
  <2>8. Top(t)
    BY <1>1, <1>2, <2>3, <2>7 DEF Top
  <2>9. QED
    BY <2>6, <2>8
<1>4. CASE ~\E i \in Indexes : Eligible(i)
  <2>1. \A u \in Tasks : ~sched_runnable(u)
    <3>1. \A u \in Tasks : task_to_index[u] \in Indexes /\ task_to_index[u] \in Priorities(u)
      BY EntriesDiffer DEF Priorities
    <3>2. QED
      BY <1>1, <1>4, <3>1
  <2>2. sched_get_next = N - 1
    BY <1>4 DEF sched_get_next
  <2>3. N - 1 \in Tasks
    BY NAssumption DEF Tasks
  <2>4. QED
    BY <2>1, <2>2, <2>3 DEF Top
<1>5. QED
  BY <1>3, <1>4

-----------------------------------------------------------------------------
(* The calls that the components make of each other. *)

LEMMA IsTable == TypeInv => Table
  BY DEF TypeInv, Table

\* What a step leaves alone keeps its type.
LEMMA Kept ==
  ASSUME TypeInv
  PROVE  /\ UNCHANGED <<locked_by, holder>> =>
                SchedTypeOK' /\ TableOK' /\ \A u \in Tasks : sched_runnable(u)' <=> sched_runnable(u)
         /\ UNCHANGED PENDING_SIGNALS => SignalTypeOK'
         /\ UNCHANGED <<timers, timer_current_ticks, timer_pending_ticks>> => TimerTypeOK'
         /\ UNCHANGED <<holder, mutex_waiters>> => MutexTypeOK'
         /\ UNCHANGED preempt_pending => preempt_pending' \in BOOLEAN
         /\ UNCHANGED <<switchVars, preempt_disabled>> => CpuTypeOK'
         /\ UNCHANGED switchVars /\ preempt_disabled' = TRUE => CpuTypeOK'
         /\ UNCHANGED <<eventVars, phase>> => CopyTypeOK'
         /\ UNCHANGED eventVars /\ phase' \notin {"load", "store"} => CopyTypeOK'
         /\ UNCHANGED <<pc, obj, arg, requested_signals>> => FrameTypeOK'
<1> USE DEF TypeInv
<1>1. UNCHANGED <<locked_by, holder>> =>
          SchedTypeOK' /\ TableOK' /\ \A u \in Tasks : sched_runnable(u)' <=> sched_runnable(u)
  BY DEF SchedTypeOK, TableOK, sched_runnable
<1>2. UNCHANGED PENDING_SIGNALS => SignalTypeOK'
  BY DEF SignalTypeOK
<1>3. UNCHANGED <<timers, timer_current_ticks, timer_pending_ticks>> => TimerTypeOK'
  BY DEF TimerTypeOK
<1>4. UNCHANGED <<holder, mutex_waiters>> => MutexTypeOK'
  BY DEF MutexTypeOK
<1>5. /\ UNCHANGED <<switchVars, preempt_disabled>> => CpuTypeOK'
      /\ UNCHANGED switchVars /\ preempt_disabled' = TRUE => CpuTypeOK'
  BY DEF CpuTypeOK, switchVars
<1>6. /\ UNCHANGED <<eventVars, phase>> => CopyTypeOK'
      /\ UNCHANGED eventVars /\ phase' \notin {"load", "store"} => CopyTypeOK'
  BY DEF CopyTypeOK, EventTypeOK, eventVars
<1>7. UNCHANGED <<pc, obj, arg, requested_signals>> => FrameTypeOK'
  BY DEF FrameTypeOK
<1>8. UNCHANGED preempt_pending => preempt_pending' \in BOOLEAN
  OBVIOUS
<1>9. QED
  BY <1>1, <1>2, <1>3, <1>4, <1>5, <1>6, <1>7, <1>8

\* signal_send_set takes nothing, sends to the tasks of T and makes them runnable.
LEMMA SendEffect ==
  ASSUME TypeInv, NEW T \in SUBSET Tasks, NEW sigs, \A t \in T : sigs[t] \subseteq Signals,
         signal_send_set(T, sigs), UNCHANGED holder
  PROVE  /\ SchedTypeOK' /\ TableOK' /\ SignalTypeOK' /\ preempt_pending' \in BOOLEAN
         /\ \A u \in Tasks : sched_runnable(u)' <=> (u \in T \/ sched_runnable(u))
         /\ \A u \in Tasks : PENDING_SIGNALS'[u] = IF u \in T THEN PENDING_SIGNALS[u] \cup sigs[u]
                                                   ELSE PENDING_SIGNALS[u]
<1>1. /\ SchedTypeOK' /\ TableOK'
      /\ \A u \in Tasks : sched_runnable(u)' <=> (u \in T \/ sched_runnable(u))
  BY IsTable, SetRunnable DEF signal_send_set
<1>2. SignalTypeOK'
  BY DEF signal_send_set, signal_set_pending, TypeInv, SignalTypeOK
<1>3. \A u \in Tasks : PENDING_SIGNALS'[u] = IF u \in T THEN PENDING_SIGNALS[u] \cup sigs[u]
                                             ELSE PENDING_SIGNALS[u]
  BY DEF signal_send_set, signal_set_pending
<1>4. preempt_pending' \in BOOLEAN
  BY DEF signal_send_set
<1>5. QED
  BY <1>1, <1>2, <1>3, <1>4

\* Entering the scheduler.
EntersScheduler ==
    /\ CpuTypeOK' /\ phase' = "events"
    /\ UNCHANGED <<current_task, restore_disabled>>

LEMMA YieldEffect ==
  ASSUME TypeInv, NEW disabled \in BOOLEAN, yield_common(disabled), preempt_disabled' \in BOOLEAN
  PROVE  EntersScheduler /\ return_disabled' = disabled
  BY DEF yield_common, TypeInv, CpuTypeOK, Phases, EntersScheduler

\* The effect of a wait of t for the signals of requested on the scheduler: if
\* it takes t off the table, none of them is pending.
StartsWaiting(t, requested) ==
    /\ EntersScheduler /\ return_disabled' = TRUE
    /\ SchedTypeOK' /\ TableOK'
    /\ requested_signals' \in [Tasks -> SUBSET Signals]
    /\ requested_signals'[t] = requested
    /\ \A u \in Tasks \ {t} : /\ sched_runnable(u)' <=> sched_runnable(u)
                              /\ requested_signals'[u] = requested_signals[u]
                              /\ PENDING_SIGNALS'[u] = PENDING_SIGNALS[u]
    /\ PENDING_SIGNALS[t] \subseteq PENDING_SIGNALS'[t]
    /\ (sched_runnable(t) => sched_runnable(t)') \/ PENDING_SIGNALS'[t] \cap requested = {}

LEMMA BlockEffect ==
  ASSUME TypeInv, NEW t \in Tasks, block(t), UNCHANGED holder, preempt_disabled' \in BOOLEAN
  PROVE  /\ EntersScheduler /\ return_disabled' = TRUE
         /\ SchedTypeOK' /\ TableOK'
         /\ \A u \in Tasks \ {t} : sched_runnable(u)' <=> sched_runnable(u)
  BY YieldEffect, IsTable, SetBlocked DEF block

LEMMA WaitEffect ==
  ASSUME TypeInv, NEW t \in Tasks, NEW requested \in SUBSET Signals, signal_wait_set(t, requested),
         UNCHANGED <<holder, PENDING_SIGNALS>>, preempt_disabled' \in BOOLEAN
  PROVE  StartsWaiting(t, requested)
<1>1. /\ requested_signals' \in [Tasks -> SUBSET Signals] /\ requested_signals'[t] = requested
      /\ \A u \in Tasks \ {t} : requested_signals'[u] = requested_signals[u]
  BY DEF signal_wait_set, TypeInv, FrameTypeOK
<1>2. CASE signal_peek(t, requested)
  <2>1. yield_common(TRUE) /\ UNCHANGED locked_by
    BY <1>2 DEF signal_wait_set
  <2>2. EntersScheduler /\ return_disabled' = TRUE
    BY <2>1, YieldEffect
  <2>3. SchedTypeOK' /\ TableOK' /\ \A u \in Tasks : sched_runnable(u)' <=> sched_runnable(u)
    BY <2>1, Kept
  <2>4. QED
    BY <1>1, <2>2, <2>3 DEF StartsWaiting
<1>3. CASE ~signal_peek(t, requested)
  <2>1. block(t)
    BY <1>3 DEF signal_wait_set
  <2>2. QED
    BY <1>1, <1>3, <2>1, BlockEffect DEF StartsWaiting, signal_peek
<1>4. QED
  BY <1>2, <1>3

\* The task timers are the only timers.
LEMMA TaskTimersOnly == TimerIds = Tasks /\ \A t \in Tasks : task_timers(t) = t
  BY PhactAssumption, NAssumption DEF TimerIds, Tasks, task_timers

LEMMA TimedWaitEffect ==
  ASSUME TypeInv, NEW t \in Tasks, NEW timeout \in TicksRelative, timed_wait(t, timeout),
         UNCHANGED <<holder, timer_current_ticks, timer_pending_ticks>>, preempt_disabled' \in BOOLEAN
  PROVE  /\ StartsWaiting(t, {TASK_TIMER})
         /\ TimerTypeOK' /\ SignalTypeOK' /\ preempt_pending' \in BOOLEAN
<1>0. /\ 0 \in TicksRelative /\ task_timers(t) \in TimerIds /\ timers[task_timers(t)] \in TimerRecord
      /\ {TASK_TIMER} \in SUBSET Signals
  BY TimerAssumption, TaskTimersOnly DEF TicksRelative, TypeInv, TimerTypeOK, Signals
<1>1. CASE timeout = 0
  <2>1. [timers[task_timers(t)] EXCEPT !.reload = 0] \in TimerRecord
    BY <1>0, TimerOpsTyped DEF TypeInv
  <2>2. timer_process_one([timers[task_timers(t)] EXCEPT !.reload = 0], PENDING_SIGNALS[t]) \in TimerRecord
    BY <1>0, <2>1, TimerOpsTyped DEF TypeInv
  <2>3. TimerTypeOK'
    BY <1>0, <1>1, <2>2 DEF timed_wait, TypeInv, TimerTypeOK
  <2> DEFINE sends == [u \in {t} |-> {TASK_TIMER}]
  <2>4. signal_send_set({t}, sends) /\ yield_common(TRUE)
    BY <1>1 DEF timed_wait
  <2>5. \A u \in {t} : sends[u] = {TASK_TIMER} /\ sends[u] \subseteq Signals
    BY <1>0
  <2> HIDE DEF sends
  <2>6. /\ SchedTypeOK' /\ TableOK' /\ SignalTypeOK' /\ preempt_pending' \in BOOLEAN
        /\ \A u \in Tasks : sched_runnable(u)' <=> (u \in {t} \/ sched_runnable(u))
        /\ \A u \in Tasks : PENDING_SIGNALS'[u] = IF u \in {t} THEN PENDING_SIGNALS[u] \cup sends[u]
                                                  ELSE PENDING_SIGNALS[u]
    BY <2>4, <2>5, SendEffect
  <2>7. /\ requested_signals' \in [Tasks -> SUBSET Signals] /\ requested_signals'[t] = {TASK_TIMER}
        /\ \A u \in Tasks \ {t} : requested_signals'[u] = requested_signals[u]
    BY <1>0 DEF timed_wait, TypeInv, FrameTypeOK
  <2>8. EntersScheduler /\ return_disabled' = TRUE
    BY <2>4, YieldEffect
  <2>9. QED
    BY <2>3, <2>6, <2>7, <2>8 DEF StartsWaiting
<1>2. CASE timeout # 0
  <2>1. timer_start_oneshot(timers[task_timers(t)], timeout) \in TimerRecord
    BY <1>0, TimerOpsTyped DEF TypeInv
  <2>2. /\ timers' = [timers EXCEPT ![task_timers(t)] = timer_start_oneshot(timers[task_timers(t)], timeout)]
        /\ signal_wait_set(t, {TASK_TIMER}) /\ UNCHANGED <<PENDING_SIGNALS, preempt_pending>>
    BY <1>2 DEF timed_wait
  <2>3. TimerTypeOK'
    BY <1>0, <2>1, <2>2 DEF TypeInv, TimerTypeOK
  <2>4. QED
    BY <1>0, <2>2, <2>3, WaitEffect, Kept
<1>3. QED
  BY <1>1, <1>2

\* A new stack frame of t, whose locals have the types of its call.
LEMMA FrameEffect ==
  ASSUME TypeInv, NEW t \in Tasks, NEW label \in Labels, NEW m \in Mutexes \cup {NoObject},
         NEW a \in TicksAbsolute, label \in LockLabels => m \in Mutexes, Frame(t, label, m, a),
         requested_signals' \in [Tasks -> SUBSET Signals]
  PROVE  /\ FrameTypeOK' /\ pc'[t] = label /\ obj'[t] = m
         /\ \A u \in Tasks \ {t} : pc'[u] = pc[u] /\ obj'[u] = obj[u]
  BY DEF Frame, TypeInv, FrameTypeOK

LEMMA FinishEffect ==
  ASSUME TypeInv, NEW t \in Tasks, NEW label \in {"enable", "app"}, Frame(t, label, NoObject, 0),
         requested_signals' \in [Tasks -> SUBSET Signals]
  PROVE  /\ FrameTypeOK' /\ pc'[t] = label /\ obj'[t] = NoObject
         /\ \A u \in Tasks \ {t} : pc'[u] = pc[u] /\ obj'[u] = obj[u]
<1>1. label \in Labels /\ label \notin LockLabels /\ 0 \in TicksAbsolute
  BY TimerAssumption DEF Labels, LockLabels, MutexWaits, TicksAbsolute
<1>2. QED
  BY <1>1, FrameEffect

-----------------------------------------------------------------------------
(* Type correctness. *)

\* The initial configuration is well-formed.
LEMMA TypeInit == Init => TypeInv
<1> SUFFICES ASSUME Init PROVE TypeInv
  OBVIOUS
<1>1. 0 \in Tasks /\ 0 \in TicksAbsolute /\ 0 \in TicksRelative
  BY NAssumption, TimerAssumption DEF Tasks, TicksAbsolute, TicksRelative
<1>2. SignalTypeOK /\ MutexTypeOK /\ CopyTypeOK
  BY DEF Init, SignalTypeOK, MutexInit, MutexTypeOK, TaskIdOption, CopyTypeOK, EventTypeOK
<1>3. TimerTypeOK
  <2>1. \A t \in Tasks : TaskTimer(t) \in TimerRecord
    BY <1>1 DEF TaskTimer, TimerRecord, Signals
  <2>2. QED
    BY <1>1, <2>1, TaskTimersOnly DEF Init, TimerTypeOK
<1>4. SchedTypeOK
  BY DEF Init, SchedInit, SchedTypeOK
<1>5. TableOK
  <2>1. \A i \in Indexes : locked_by[i] = IF \E t \in Tasks : task_to_index[t] = i THEN i ELSE SCHED_INDEX_NONE
    BY DEF Init, SchedInit
  <2>2. \A m \in Mutexes : locked_by[mutex_to_index[m]] = SCHED_INDEX_NONE /\ holder[m] = TASK_ID_NONE
    <3>1. \A m \in Mutexes : mutex_to_index[m] \in Indexes /\ ~\E t \in Tasks : task_to_index[t] = mutex_to_index[m]
      BY EntriesDiffer
    <3>2. QED
      BY <2>1, <3>1 DEF Init, MutexInit
  <2>3. \A t \in Tasks : locked_by[task_to_index[t]] = task_to_index[t]
    BY <2>1, EntriesDiffer
  <2>4. QED
    BY <2>1, <2>2, <2>3 DEF TableOK
<1>6. CpuTypeOK /\ FrameTypeOK /\ preempt_pending \in BOOLEAN
  BY <1>1 DEF Init, CpuTypeOK, FrameTypeOK, Phases, Labels, LockLabels, MutexWaits
<1>7. QED
  BY <1>2, <1>3, <1>4, <1>5, <1>6 DEF TypeInv

LEMMA FatalTyped == TypeInv /\ Fatal => TypeInv'
<1> SUFFICES ASSUME TypeInv, Fatal PROVE TypeInv'
  OBVIOUS
<1>1. CpuTypeOK' /\ CopyTypeOK'
  BY DEF Fatal, TypeInv, CpuTypeOK, CopyTypeOK, EventTypeOK, Phases, eventVars
<1>2. QED
  BY <1>1, Kept DEF Fatal, timerVars, mutexVars, frameVars, TypeInv

\* The time left of a timed call is cut to TicksRelative.
LEMMA RemainingTyped ==
  ASSUME TypeInv, NEW t \in Tasks
  PROVE  Remaining(t) \in TicksRelative
<1>1. arg[t] - timer_current_ticks \in Int /\ TicksTimeoutMod \in Nat \ {0}
  BY TimerAssumption DEF TicksAbsolute, TypeInv, TimerTypeOK, FrameTypeOK
<1>2. QED
  BY <1>1, ModRange DEF Remaining, TicksRelative

\* Waiting, resuming and the loops of the blocking calls keep the types.
LEMMA TaskStepTyped ==
  ASSUME TypeInv, NEW t \in Tasks, TaskStep(t)
  PROVE  TypeInv'
<1> USE DEF TypeInv
<1>r. UNCHANGED requested_signals => requested_signals' \in [Tasks -> SUBSET Signals]
  BY DEF FrameTypeOK
<1>o. pc[t] \in LockLabels => obj[t] \in Mutexes
  BY DEF FrameTypeOK
<1>e. ASSUME EntersScheduler PROVE CpuTypeOK' /\ phase' \notin {"load", "store"}
  BY <1>e DEF EntersScheduler
<1>s. {TASK_TIMER} \in SUBSET Signals /\ preempt_disabled \in BOOLEAN
  BY DEF Signals, CpuTypeOK
<1>a. arg[t] \in TicksAbsolute /\ 0 \in TicksAbsolute
  BY TimerAssumption DEF FrameTypeOK, TicksAbsolute
<1>l. /\ LockLabels \subseteq Labels
      /\ {"lock", "lock_timeout", "lock_timeout_call", "lock_wait", "lock_timeout_wait"} \subseteq LockLabels
  BY DEF LockLabels, MutexWaits, Labels, Waits, TimerWaits
<1>1. CASE Entry(t)
  <2>1. FrameTypeOK'
    BY <1>1, <1>r, FinishEffect DEF Entry, Finish
  <2>2. QED
    BY <1>1, <2>1, Kept DEF Entry, switchVars, timerVars, mutexVars
<1>2. CASE preempt_enable(t)
  <2>1. FrameTypeOK'
    BY <1>2, <1>r, FinishEffect DEF preempt_enable
  <2>2. CpuTypeOK' /\ CopyTypeOK'
    <3>1. CASE yield_common(FALSE) /\ UNCHANGED preempt_disabled
      BY <1>2, <1>e, <1>s, <3>1, YieldEffect, Kept DEF preempt_enable
    <3>2. CASE preempt_disabled' = FALSE /\ UNCHANGED switchVars
      <4>1. CpuTypeOK' /\ phase' = phase
        BY <3>2 DEF CpuTypeOK, switchVars
      <4>2. QED
        BY <1>2, <4>1, Kept DEF preempt_enable
    <3>3. QED
      BY <1>2, <3>1, <3>2 DEF preempt_enable
  <2>3. QED
    BY <1>2, <2>1, <2>2, Kept DEF preempt_enable, timerVars, mutexVars
<1>3. CASE WaitAgain(t)
  <2>1. EntersScheduler /\ SchedTypeOK' /\ TableOK'
    BY <1>3, <1>s, BlockEffect DEF WaitAgain, mutexVars
  <2>2. CpuTypeOK' /\ CopyTypeOK'
    BY <1>3, <1>e, <2>1, Kept DEF WaitAgain
  <2>3. QED
    BY <1>3, <2>1, <2>2, Kept DEF WaitAgain, timerVars, mutexVars, frameVars
<1>4. CASE WaitEnd(t)
  <2>1. SignalTypeOK'
    BY <1>4 DEF WaitEnd, signal_wait_return, signal_recv, SignalTypeOK
  <2>2. requested_signals' \in [Tasks -> SUBSET Signals]
    BY <1>4 DEF WaitEnd, signal_wait_return, FrameTypeOK
  <2>3. FrameTypeOK'
    <3>1. CASE Finish(t)
      BY <2>2, <3>1, FinishEffect DEF Finish
    <3>2. CASE Frame(t, AfterWait[pc[t]], obj[t], arg[t]) /\ AfterWait[pc[t]] # "enable"
      <4>1. pc[t] \in LockLabels /\ AfterWait[pc[t]] \in LockLabels
        BY <1>4, <3>2 DEF WaitEnd, signal_wait_return, Waits, TimerWaits, MutexWaits, LockLabels, AfterWait
      <4>2. QED
        BY <1>a, <1>l, <1>o, <2>2, <3>2, <4>1, FrameEffect
    <3>3. QED
      BY <1>4, <3>1, <3>2 DEF WaitEnd, signal_wait_return
  <2>4. TimerTypeOK'
    <3>1. timers[task_timers(t)] \in TimerRecord /\ task_timers(t) \in TimerIds
      BY TaskTimersOnly DEF TimerTypeOK
    <3>2. [timers[task_timers(t)] EXCEPT !.enabled = FALSE] \in TimerRecord
      BY <3>1 DEF TimerRecord
    <3>3. [timers EXCEPT ![task_timers(t)].enabled = FALSE] \in [TimerIds -> TimerRecord]
      BY <3>1, <3>2 DEF TimerTypeOK
    <3>4. QED
      BY <1>4, <3>3 DEF WaitEnd, signal_wait_return, TimerTypeOK
  <2>5. QED
    BY <1>4, <2>1, <2>3, <2>4, Kept DEF WaitEnd, signal_wait_return, mutexVars, switchVars
<1>5. CASE PreemptDisable(t)
  <2>1. FrameTypeOK'
    BY <1>5, <1>l, <1>o, <1>r DEF PreemptDisable, Running, FrameTypeOK
  <2>2. QED
    BY <1>5, <2>1, Kept DEF PreemptDisable, switchVars, timerVars, mutexVars
<1>6. CASE mutex_lock_loop(t)
  <2>0. obj[t] \in Mutexes
    BY <1>6, <1>o, <1>l DEF mutex_lock_loop, Running
  <2>1. CASE mutex_acquire(t, obj[t]) /\ Finish(t) /\ UNCHANGED <<requested_signals, switchVars>>
    <3>1. SchedTypeOK' /\ MutexTypeOK' /\ TableOK'
      BY <2>0, <2>1, IsTable, Acquire
    <3>2. FrameTypeOK'
      BY <1>r, <2>1, FinishEffect DEF Finish
    <3>3. QED
      BY <1>6, <2>1, <3>1, <3>2, Kept DEF mutex_lock_loop, switchVars, timerVars
  <2>2. CASE mutex_wait(obj[t], t) /\ Frame(t, "lock_wait", obj[t], 0) /\ signal_wait_set(t, {TASK_TIMER})
    <3>1. MutexTypeOK' /\ UNCHANGED holder
      BY <2>0, <2>2 DEF mutex_wait, MutexTypeOK
    <3>2. StartsWaiting(t, {TASK_TIMER})
      BY <1>6, <1>s, <2>2, <3>1, WaitEffect DEF mutex_lock_loop
    <3>3. FrameTypeOK'
      BY <1>l, <1>a, <2>0, <2>2, <3>2, FrameEffect DEF StartsWaiting
    <3>4. QED
      BY <1>6, <1>e, <3>1, <3>2, <3>3, Kept DEF mutex_lock_loop, StartsWaiting, timerVars
  <2>3. QED
    BY <1>6, <2>1, <2>2 DEF mutex_lock_loop
<1>7. CASE mutex_lock_timeout_loop(t)
  <2>0. obj[t] \in Mutexes
    BY <1>7, <1>o, <1>l DEF mutex_lock_timeout_loop, Running
  <2>1. CASE /\ mutex_acquire(t, obj[t]) /\ Finish(t)
             /\ UNCHANGED <<PENDING_SIGNALS, preempt_pending, timers, requested_signals, switchVars>>
    <3>1. SchedTypeOK' /\ MutexTypeOK' /\ TableOK'
      BY <2>0, <2>1, IsTable, Acquire
    <3>2. FrameTypeOK'
      BY <1>r, <2>1, FinishEffect DEF Finish
    <3>3. QED
      BY <1>7, <2>1, <3>1, <3>2, Kept DEF mutex_lock_timeout_loop, switchVars
  <2>2. CASE /\ mutex_wait(obj[t], t) /\ Frame(t, "lock_timeout_wait", obj[t], arg[t])
             /\ timed_wait(t, Remaining(t))
    <3>1. MutexTypeOK' /\ UNCHANGED holder
      BY <2>0, <2>2 DEF mutex_wait, MutexTypeOK
    <3>2. Remaining(t) \in TicksRelative
      BY RemainingTyped
    <3>3. StartsWaiting(t, {TASK_TIMER}) /\ TimerTypeOK' /\ SignalTypeOK' /\ preempt_pending' \in BOOLEAN
      BY <1>7, <1>s, <2>2, <3>1, <3>2, TimedWaitEffect DEF mutex_lock_timeout_loop
    <3>4. FrameTypeOK'
      BY <1>l, <1>a, <2>0, <2>2, <3>3, FrameEffect DEF StartsWaiting
    <3>5. QED
      BY <1>7, <1>e, <3>1, <3>3, <3>4, Kept DEF mutex_lock_timeout_loop, StartsWaiting
  <2>3. CASE /\ Finish(t)
             /\ UNCHANGED <<locked_by, PENDING_SIGNALS, preempt_pending, timers, mutexVars,
                            requested_signals, switchVars>>
    <3>1. FrameTypeOK'
      BY <1>r, <2>3, FinishEffect DEF Finish
    <3>2. QED
      BY <1>7, <2>3, <3>1, Kept DEF mutex_lock_timeout_loop, switchVars, mutexVars
  <2>4. QED
    BY <1>7, <2>1, <2>2, <2>3 DEF mutex_lock_timeout_loop
<1>8. QED
  BY <1>1, <1>2, <1>3, <1>4, <1>5, <1>6, <1>7 DEF TaskStep

\* The API calls of an application keep the types.
LEMMA AppStepTyped ==
  ASSUME TypeInv, NEW t \in Tasks, AppStep(t)
  PROVE  TypeInv'
<1> USE DEF TypeInv
<1>r. UNCHANGED requested_signals => requested_signals' \in [Tasks -> SUBSET Signals]
  BY DEF FrameTypeOK
<1>m. \A m \in TaskMutexes[t] : m \in Mutexes
  BY PhactAssumption
<1>e. ASSUME EntersScheduler PROVE CpuTypeOK' /\ phase' \notin {"load", "store"}
  BY <1>e DEF EntersScheduler
<1>s. /\ {TASK_TIMER} \in SUBSET Signals
      /\ \A sigs \in SignalSets : sigs \in SUBSET Signals
      /\ 0 \in TicksAbsolute
  BY TimerAssumption DEF Signals, SignalSets, TicksAbsolute
<1>l. /\ {"lock", "lock_timeout_call"} \subseteq Labels \cap LockLabels
      /\ {"sleep_wait", "signal_wait"} \subseteq Labels \ LockLabels
  BY DEF LockLabels, MutexWaits, Labels, Waits, TimerWaits
<1>1. CASE mutex_lock(t)
  <2>1. CASE Fatal
    BY <2>1, FatalTyped
  <2>2. CASE ~Fatal
    <3>1. PICK m \in TaskMutexes[t] :
            /\ preempt_disabled' = TRUE
            /\ Frame(t, "lock", m, 0)
            /\ UNCHANGED <<locked_by, PENDING_SIGNALS, preempt_pending, eventVars, timerVars,
                           timer_pending_ticks, mutexVars, requested_signals, switchVars>>
      BY <1>1, <2>2 DEF mutex_lock, Disabling
    <3>2. FrameTypeOK'
      BY <1>r, <1>m, <1>s, <1>l, <3>1, FrameEffect
    <3>3. QED
      BY <3>1, <3>2, Kept DEF switchVars, timerVars, mutexVars
  <2>3. QED
    BY <2>1, <2>2
<1>2. CASE mutex_lock_timeout(t)
  <2>1. CASE Fatal
    BY <2>1, FatalTyped
  <2>2. CASE ~Fatal
    <3>1. PICK m \in TaskMutexes[t], timeout \in Timeouts :
            /\ Frame(t, "lock_timeout_call", m, (timer_current_ticks + timeout) % TicksAbsoluteMod)
            /\ UNCHANGED <<locked_by, PENDING_SIGNALS, preempt_disabled, preempt_pending, eventVars, timers,
                           timer_current_ticks, timer_pending_ticks, mutexVars, requested_signals, switchVars>>
      BY <1>2, <2>2 DEF mutex_lock_timeout
    <3>2. (timer_current_ticks + timeout) % TicksAbsoluteMod \in TicksAbsolute
      <4>1. timer_current_ticks + timeout \in Int /\ TicksAbsoluteMod \in Nat \ {0}
        BY PhactAssumption, TimerAssumption DEF TimerTypeOK, TicksAbsolute, TicksRelative
      <4>2. QED
        BY <4>1, ModRange DEF TicksAbsolute
    <3>3. FrameTypeOK'
      BY <1>r, <1>m, <1>l, <3>1, <3>2, FrameEffect
    <3>4. QED
      BY <3>1, <3>3, Kept DEF switchVars, timerVars, mutexVars
  <2>3. QED
    BY <2>1, <2>2
<1>3. CASE mutex_unlock(t)
  <2>1. CASE Fatal
    BY <2>1, FatalTyped
  <2>2. CASE ~Fatal
    <3>1. PICK m \in TaskMutexes[t] :
            /\ preempt_disabled' = TRUE
            /\ signal_set_pending(MutexWaiters(m), [u \in MutexWaiters(m) |-> {TASK_TIMER}])
            /\ sched_set_mutex_unlocked(m, MutexWaiters(m))
            /\ preempt_pending' = TRUE
            /\ mutex_release(m)
            /\ Finish(t)
            /\ UNCHANGED <<eventVars, timerVars, timer_pending_ticks, requested_signals, switchVars>>
      BY <1>3, <2>2 DEF mutex_unlock, Disabling
    <3>2. SchedTypeOK' /\ MutexTypeOK' /\ TableOK'
      BY <1>m, <3>1, IsTable, Release
    <3>3. SignalTypeOK'
      BY <1>s, <3>1 DEF signal_set_pending, SignalTypeOK
    <3>4. FrameTypeOK'
      BY <1>r, <3>1, FinishEffect DEF Finish
    <3>5. QED
      BY <3>1, <3>2, <3>3, <3>4, Kept DEF switchVars, timerVars
  <2>3. QED
    BY <2>1, <2>2
<1>4. CASE mutex_try_lock(t)
  <2>1. PICK m \in TaskMutexes[t] : mutex_acquire(t, m) \/ UNCHANGED <<mutexVars, locked_by>>
    BY <1>4 DEF mutex_try_lock
  <2>2. SchedTypeOK' /\ MutexTypeOK' /\ TableOK'
    <3>1. CASE mutex_acquire(t, m)
      BY <1>m, <2>1, <3>1, IsTable, Acquire
    <3>2. CASE UNCHANGED <<mutexVars, locked_by>>
      BY <3>2, Kept DEF mutexVars
    <3>3. QED
      BY <2>1, <3>1, <3>2
  <2>3. FrameTypeOK'
    BY <1>4, <1>r, FinishEffect DEF mutex_try_lock, Finish
  <2>4. QED
    BY <1>4, <2>2, <2>3, Kept DEF mutex_try_lock, Disabling, switchVars, timerVars
<1>5. CASE signal_wait_set_call(t)
  <2>1. PICK requested \in SignalSets : signal_wait_set(t, requested)
    BY <1>5 DEF signal_wait_set_call
  <2>2. StartsWaiting(t, requested)
    BY <1>5, <1>s, <2>1, WaitEffect DEF signal_wait_set_call, Disabling, mutexVars
  <2>3. FrameTypeOK'
    BY <1>5, <1>l, <1>s, <2>2, FrameEffect DEF signal_wait_set_call, StartsWaiting
  <2>4. QED
    BY <1>5, <1>e, <2>2, <2>3, Kept DEF signal_wait_set_call, StartsWaiting, timerVars, mutexVars
<1>6. CASE signal_poll_set(t)
  <2>1. SignalTypeOK'
    BY <1>6 DEF signal_poll_set, signal_recv, SignalTypeOK
  <2>2. FrameTypeOK'
    BY <1>6, <1>r, FinishEffect DEF signal_poll_set, Finish
  <2>3. QED
    BY <1>6, <2>1, <2>2, Kept DEF signal_poll_set, Disabling, switchVars, timerVars, mutexVars
<1>7. CASE signal_send(t)
  <2>1. PICK task_id \in Recipients, sigs \in SignalSets :
            signal_send_set({task_id}, [u \in {task_id} |-> sigs])
    BY <1>7 DEF signal_send
  <2>2. {task_id} \in SUBSET Tasks /\ \A u \in {task_id} : [v \in {task_id} |-> sigs][u] \subseteq Signals
    BY <1>s, PhactAssumption
  <2>3. SchedTypeOK' /\ TableOK' /\ SignalTypeOK' /\ preempt_pending' \in BOOLEAN
    BY <1>7, <2>1, <2>2, SendEffect DEF signal_send, mutexVars
  <2>4. FrameTypeOK'
    BY <1>7, <1>r, FinishEffect DEF signal_send, Finish
  <2>5. QED
    BY <1>7, <2>3, <2>4, Kept DEF signal_send, Disabling, switchVars, timerVars, mutexVars
<1>8. CASE sleep(t)
  <2>1. PICK ticks \in Timeouts : timed_wait(t, ticks)
    BY <1>8 DEF sleep
  <2>2. StartsWaiting(t, {TASK_TIMER}) /\ TimerTypeOK' /\ SignalTypeOK' /\ preempt_pending' \in BOOLEAN
    BY <1>8, <2>1, TimedWaitEffect, PhactAssumption DEF sleep, Disabling, mutexVars
  <2>3. FrameTypeOK'
    BY <1>8, <1>l, <1>s, <2>2, FrameEffect DEF sleep, StartsWaiting
  <2>4. QED
    BY <1>8, <1>e, <2>2, <2>3, Kept DEF sleep, StartsWaiting, mutexVars
<1>9. QED
  BY <1>1, <1>2, <1>3, <1>4, <1>5, <1>6, <1>7, <1>8 DEF AppStep

\* The events that are being processed, and where they are sent.
LEMMA NextEventTyped ==
  ASSUME CopyTypeOK, tmp # {}
  PROVE  /\ NextEvent \in tmp /\ NextEvent \in Events
         /\ {EventTask[NextEvent]} \in SUBSET Tasks
         /\ \A t \in {EventTask[NextEvent]} : EventSends(EventTask, {NextEvent})[t] \subseteq AppSignals
<1>1. tmp \in SUBSET Nat
  BY EventAssumption DEF CopyTypeOK, Events
<1>2. \E i \in tmp : \A j \in tmp : i <= j
  BY <1>1, LeastOf
<1>3. NextEvent \in tmp
  BY <1>2 DEF NextEvent
<1>4. NextEvent \in Events
  BY <1>3 DEF CopyTypeOK
<1>5. {EventTask[NextEvent]} \in SUBSET Tasks
  BY <1>4, EventAssumption
<1>6. \A t \in Tasks : EventSends(EventTask, {NextEvent})[t] \subseteq AppSignals
  BY <1>4, EventAssumption DEF EventSends
<1>7. QED
  BY <1>3, <1>4, <1>5, <1>6

\* The scheduler and the interrupt handlers keep the types.
LEMMA CpuStepTyped ==
  ASSUME TypeInv, SchedStep \/ Interrupt
  PROVE  TypeInv'
<1> USE DEF TypeInv
<1>b. preempt_disabled \in BOOLEAN /\ phase \in Phases
  BY DEF CpuTypeOK
<1>p. ASSUME phase' \in Phases, UNCHANGED <<preempt_disabled, current_task, return_disabled, restore_disabled>>
      PROVE  CpuTypeOK'
  BY <1>p DEF CpuTypeOK
<1>1. CASE interrupt_event_process
  <2>1. CASE event_copy
    <3>1. phase' \in Phases /\ CopyTypeOK' /\ preempt_pending' \in BOOLEAN
      BY <2>1 DEF event_copy, CopyTypeOK, EventTypeOK, Phases
    <3>2. QED
      BY <1>1, <1>p, <2>1, <3>1, Kept DEF interrupt_event_process, event_copy, timerVars, mutexVars, frameVars
  <2>2. CASE event_load
    <3>1. phase' \in Phases /\ CopyTypeOK'
      BY <2>2 DEF event_load, CopyTypeOK, EventTypeOK, Phases
    <3>2. QED
      BY <1>1, <1>p, <2>2, <3>1, Kept DEF interrupt_event_process, event_load, timerVars, mutexVars, frameVars
  <2>3. CASE event_store
    <3>1. phase' \in Phases /\ CopyTypeOK'
      BY <2>3 DEF event_store, event_handle, CopyTypeOK, EventTypeOK, Phases
    <3>2. tmp # {}
      BY <2>3 DEF event_store, CopyTypeOK
    <3>3. signal_send_set({EventTask[NextEvent]}, EventSends(EventTask, {NextEvent}))
      BY <2>3 DEF event_store, event_handle
    <3>4. \A t \in {EventTask[NextEvent]} : EventSends(EventTask, {NextEvent})[t] \subseteq Signals
      BY <3>2, NextEventTyped DEF Signals
    <3>5. SchedTypeOK' /\ TableOK' /\ SignalTypeOK' /\ preempt_pending' \in BOOLEAN
      BY <1>1, <3>2, <3>3, <3>4, NextEventTyped, SendEffect DEF interrupt_event_process, mutexVars
    <3>6. QED
      BY <1>1, <1>p, <3>1, <3>5, Kept DEF interrupt_event_process, timerVars, mutexVars, frameVars
  <2>4. QED
    BY <1>1, <2>1, <2>2, <2>3 DEF interrupt_event_process, event_process
<1>2. CASE timer_tick_process
  <2> DEFINE ticks == (timer_current_ticks + 1) % TicksAbsoluteMod
             K == Expired(ticks)
  <2>1. CpuTypeOK' /\ CopyTypeOK'
    <3>1. phase' \in Phases /\ phase' \notin {"load", "store"}
      BY <1>2 DEF timer_tick_process, Phases
    <3>2. QED
      BY <1>2, <1>p, <3>1, Kept DEF timer_tick_process
  <2>2. CASE UNCHANGED <<locked_by, PENDING_SIGNALS, preempt_pending, timerVars>>
    <3>1. TimerTypeOK'
      BY <1>2, <2>2 DEF timer_tick_process, TimerTypeOK, timerVars
    <3>2. QED
      BY <1>2, <2>1, <2>2, <3>1, Kept DEF timer_tick_process, mutexVars, frameVars
  <2>3. CASE /\ timer_current_ticks' = ticks /\ timers' = TimersAfter(K)
             /\ signal_send_set(TimerTasks(K), TimerSignals(K))
    <3>1. ticks \in TicksAbsolute
      <4>1. timer_current_ticks + 1 \in Int /\ TicksAbsoluteMod \in Nat \ {0}
        BY TimerAssumption DEF TimerTypeOK, TicksAbsolute
      <4>2. QED
        BY <4>1, ModRange DEF TicksAbsolute
    <3>2. K \in SUBSET TimerIds
      BY DEF Expired
    <3> HIDE DEF ticks, K
    <3>3. TimerTypeOK'
      BY <1>2, <2>3, <3>1, <3>2, ExpiredTyped DEF timer_tick_process, TimerTypeOK
    <3>4. SchedTypeOK' /\ TableOK' /\ SignalTypeOK' /\ preempt_pending' \in BOOLEAN
      BY <1>2, <2>3, <3>2, ExpiredTyped, SendEffect DEF timer_tick_process, mutexVars
    <3>5. QED
      BY <1>2, <2>1, <3>3, <3>4, Kept DEF timer_tick_process, mutexVars, frameVars
  <2>4. QED
    BY <1>2, <2>2, <2>3 DEF timer_tick_process
<1>3. CASE sched_pick
  <2>1. CpuTypeOK' /\ phase' \notin {"load", "store"}
    <3>1. CASE phase' = "events" /\ UNCHANGED <<preempt_disabled, current_task, return_disabled, restore_disabled>>
      BY <1>p, <3>1 DEF Phases
    <3>2. CASE switch_to(sched_get_next)
      <4>1. sched_get_next \in Tasks
        BY IsTable, NextIsTop
      <4>2. QED
        BY <3>2, <4>1 DEF switch_to, CpuTypeOK, Phases
    <3>3. QED
      BY <1>3, <3>1, <3>2 DEF sched_pick
  <2>2. QED
    BY <1>3, <2>1, Kept DEF sched_pick, SchedPickFrame, timerVars, mutexVars, frameVars
<1>h. ASSUME NEW preempt \in BOOLEAN, HandlerReturns(preempt)
      PROVE  /\ CpuTypeOK' /\ preempt_pending' \in BOOLEAN
             /\ phase' \in {"load", "store"} => phase' = phase
  <2>1. CASE preempt_disabled' = TRUE /\ yield_common(FALSE)
    BY <1>h, <2>1 DEF HandlerReturns, yield_common, CpuTypeOK, Phases
  <2>2. CASE UNCHANGED <<preempt_disabled, switchVars>>
    BY <1>h, <2>2, Kept DEF HandlerReturns, switchVars
  <2>3. QED
    BY <1>h, <2>1, <2>2 DEF HandlerReturns
<1>4. ASSUME NEW preempt \in BOOLEAN, timer_tick(preempt)
      PROVE  TypeInv'
  <2>1. TimerTypeOK'
    BY <1>4 DEF timer_tick, HandlerReturns, timerVars, TimerTypeOK
  <2>2. CpuTypeOK' /\ preempt_pending' \in BOOLEAN /\ CopyTypeOK'
    BY <1>4, <1>h DEF timer_tick, HandlerReturns, CopyTypeOK, EventTypeOK
  <2>3. QED
    BY <1>4, <2>1, <2>2, Kept DEF timer_tick, HandlerReturns, mutexVars, frameVars
<1>5. ASSUME NEW e \in Events, NEW preempt \in BOOLEAN, interrupt_event_raise(e, preempt)
      PROVE  TypeInv'
  <2>1. CpuTypeOK' /\ preempt_pending' \in BOOLEAN /\ CopyTypeOK'
    BY <1>5, <1>h DEF interrupt_event_raise, HandlerReturns, CopyTypeOK, EventTypeOK
  <2>2. QED
    BY <1>5, <2>1, Kept DEF interrupt_event_raise, HandlerReturns, timerVars, mutexVars, frameVars
<1>6. QED
  BY <1>1, <1>2, <1>3, <1>4, <1>5, PhactAssumption DEF SchedStep, Interrupt

\* No step of Phact breaks the types.
LEMMA TypeNext == TypeInv /\ [Next]_vars => TypeInv'
<1> SUFFICES ASSUME TypeInv, [Next]_vars PROVE TypeInv'
  OBVIOUS
<1>1. CASE UNCHANGED vars
  BY <1>1, Kept DEF vars, timerVars, mutexVars, frameVars, switchVars, TypeInv
<1>2. CASE Next
  BY <1>1, <1>2, TaskStepTyped, AppStepTyped, CpuStepTyped DEF Next, Stopped
<1>3. QED
  BY <1>1, <1>2

\* What is left of a timeout is changed by the ticks, and by the task itself
\* only where its call starts or ends.
LEMMA TimeLeftSteps ==
  ASSUME NEW t \in Tasks, TaskStep(t) \/ AppStep(t)
  PROVE  UNCHANGED time_left \/ EndTimeout(t) \/ \E timeout \in Timeouts : StartTimeout(t, timeout)
<1>1. CASE TaskStep(t)
  BY <1>1 DEF TaskStep, Entry, preempt_enable, WaitAgain, WaitEnd, signal_wait_return, PreemptDisable,
     mutex_lock_loop, mutex_lock_timeout_loop, timerVars
<1>2. CASE AppStep(t)
  BY <1>2 DEF AppStep, mutex_lock, mutex_lock_timeout, mutex_unlock, mutex_try_lock, signal_wait_set_call,
     signal_poll_set, signal_send, sleep, Fatal, timerVars
<1>3. QED
  BY <1>1, <1>2

\* What is left of a timeout is a relative tick count.
LEMMA TimeLeftNext == TimeLeftTypeOK /\ [Next]_vars => TimeLeftTypeOK'
<1> SUFFICES ASSUME TimeLeftTypeOK, [Next]_vars PROVE TimeLeftTypeOK'
  OBVIOUS
<1>u. CASE UNCHANGED time_left
  BY <1>u DEF TimeLeftTypeOK
<1>1. ASSUME NEW t \in Tasks, TaskStep(t) \/ AppStep(t)
      PROVE  TimeLeftTypeOK'
  <2>1. Timeouts \subseteq TicksRelative
    BY PhactAssumption
  <2>2. QED
    BY <1>1, <2>1, TimeLeftSteps, TimeLeftTyped
<1>2. CASE timer_tick_process
  <2>1. \/ UNCHANGED time_left
        \/ CountTick((timer_current_ticks + 1) % TicksAbsoluteMod, {t \in Tasks : pc[t] \in TimedLabels})
    BY <1>2 DEF timer_tick_process, timerVars
  <2>2. QED
    BY <1>u, <2>1, CountTickTyped
<1>3. CASE (SchedStep /\ ~timer_tick_process) \/ Interrupt \/ Stopped \/ UNCHANGED vars
  BY <1>u, <1>3 DEF SchedStep, Interrupt, Stopped, interrupt_event_process, sched_pick, SchedPickFrame,
     timer_tick, interrupt_event_raise, HandlerReturns, vars, timerVars
<1>4. QED
  BY <1>1, <1>2, <1>3 DEF Next, SchedStep

LEMMA TimeLeftInit == Init => TimeLeftTypeOK
  BY TimerAssumption DEF Init, TimeLeftTypeOK, TicksRelative

\* Type correctness: no identifier, counter, flag or entry of the scheduler's
\* table ever leaves the range of its C type.
THEOREM TypeCorrect == Spec => []TypeOK
<1>1. Spec => [](TypeInv /\ TimeLeftTypeOK)
  BY TypeInit, TypeNext, TimeLeftInit, TimeLeftNext, PTL DEF Spec
<1>2. QED
  BY <1>1, TypeInvIsStronger, PTL

-----------------------------------------------------------------------------
(* The flags of preemption. *)

(***************************************************************************)
(* The inductive invariant of the flags: with preemption enabled none is   *)
(* pending; it is enabled where the code of a task is preemptible; and the *)
(* flags that yield_common and a context keep are those of the task that   *)
(* they will be restored for.                                              *)
(***************************************************************************)
FlagsOK ==
    phase # "fatal" =>
        /\ preempt_pending => preempt_disabled
        /\ preempt_disabled <=> (phase # "task" \/ pc[current_task] \notin Preemptible)
        /\ phase # "task" => (return_disabled <=> pc[current_task] \notin Preemptible)
        /\ \A u \in Tasks \ {current_task} : restore_disabled[u] <=> pc[u] \notin Preemptible

\* What a step of the running task t does to the flags: it stops the system,
\* goes on with preemption disabled, enters the scheduler with the flag it
\* returns with, or goes on with preemption enabled and none pending.
Flow(t) ==
    /\ phase = "task" /\ t = current_task
    /\ \/ phase' = "fatal"
       \/ /\ \A u \in Tasks \ {t} : pc'[u] = pc[u]
          /\ \/ UNCHANGED switchVars /\ preempt_disabled' /\ pc'[t] \notin Preemptible
             \/ EntersScheduler /\ preempt_disabled' /\ (return_disabled' <=> pc'[t] \notin Preemptible)
             \/ UNCHANGED switchVars /\ ~preempt_disabled' /\ ~preempt_pending' /\ pc'[t] \in Preemptible

LEMMA FlowKeepsFlags ==
  ASSUME TypeInv, FlagsOK, NEW t \in Tasks, Flow(t)
  PROVE  FlagsOK'
<1>1. CASE phase' = "fatal"
  BY <1>1 DEF FlagsOK
<1>2. CASE phase' # "fatal"
  BY <1>2 DEF FlagsOK, Flow, EntersScheduler, switchVars
<1>3. QED
  BY <1>1, <1>2

\* Waiting, resuming and the loops of the blocking calls.
LEMMA FlagsTaskStep ==
  ASSUME TypeInv, FlagsOK, NEW t \in Tasks, TaskStep(t)
  PROVE  Flow(t)
<1>t. TypeInv' /\ preempt_disabled \in BOOLEAN /\ requested_signals' \in [Tasks -> SUBSET Signals]
  BY TaskStepTyped DEF TypeInv, CpuTypeOK, FrameTypeOK
<1>r. phase = "task" /\ t = current_task
  BY DEF TaskStep, Entry, preempt_enable, WaitAgain, WaitEnd, signal_wait_return, PreemptDisable, mutex_lock_loop,
     mutex_lock_timeout_loop, Running
<1>d. pc[t] \notin Preemptible => preempt_disabled
  BY <1>r DEF FlagsOK
<1>l. \A label \in Waits \cup {"entry", "lock", "lock_timeout", "enable"} : label \notin Preemptible
  BY DEF Preemptible, Waits, TimerWaits, MutexWaits
<1>f. ASSUME Finish(t) PROVE pc'[t] \notin Preemptible /\ \A u \in Tasks \ {t} : pc'[u] = pc[u]
  BY <1>f, <1>l, <1>t, FinishEffect DEF Finish
<1>p. pc \in [Tasks -> Labels] /\ DOMAIN pc = Tasks
  BY DEF TypeInv, FrameTypeOK
<1>g. \A label, m, a : Frame(t, label, m, a) => pc'[t] = label /\ \A u \in Tasks \ {t} : pc'[u] = pc[u]
  BY <1>p DEF Frame
<1>1. CASE Entry(t)
  BY <1>1, <1>d, <1>f, <1>l, <1>r DEF Entry, Running, Flow
<1>2. CASE preempt_enable(t)
  <2>1. pc'[t] = "app" /\ (\A u \in Tasks \ {t} : pc'[u] = pc[u]) /\ preempt_disabled
    BY <1>2, <1>d, <1>g, <1>l DEF preempt_enable, Running
  <2>2. "app" \in Preemptible
    BY DEF Preemptible
  <2>3. CASE yield_common(FALSE) /\ UNCHANGED preempt_disabled
    BY <1>r, <1>t, <2>1, <2>2, <2>3, YieldEffect DEF Flow
  <2>4. CASE ~preempt_pending /\ preempt_disabled' = FALSE /\ UNCHANGED switchVars
    BY <1>2, <1>r, <2>1, <2>2, <2>4 DEF Flow, preempt_enable
  <2>5. QED
    BY <1>2, <2>3, <2>4 DEF preempt_enable
<1>3. CASE WaitAgain(t)
  <2>1. EntersScheduler /\ return_disabled' = TRUE
    BY <1>3, <1>t, BlockEffect DEF WaitAgain, mutexVars
  <2>2. pc' = pc /\ preempt_disabled' = preempt_disabled /\ pc[t] \notin Preemptible
    BY <1>3, <1>l DEF WaitAgain, frameVars
  <2>3. QED
    BY <1>d, <1>r, <2>1, <2>2 DEF Flow
<1>4. CASE WaitEnd(t)
  <2>1. pc'[t] \notin Preemptible /\ \A u \in Tasks \ {t} : pc'[u] = pc[u]
    <3>1. CASE Finish(t)
      BY <1>f, <3>1
    <3>2. CASE Frame(t, AfterWait[pc[t]], obj[t], arg[t])
      <4>1. AfterWait[pc[t]] \in {"lock", "lock_timeout", "enable"}
        BY <1>4 DEF WaitEnd, signal_wait_return, Waits, TimerWaits, MutexWaits, AfterWait
      <4>2. QED
        BY <1>g, <1>l, <3>2, <4>1
    <3>3. QED
      BY <1>4, <3>1, <3>2 DEF WaitEnd, signal_wait_return
  <2>2. UNCHANGED <<preempt_disabled, switchVars>> /\ pc[t] \notin Preemptible
    BY <1>4, <1>l DEF WaitEnd, signal_wait_return
  <2>3. QED
    BY <1>d, <1>r, <2>1, <2>2 DEF Flow
<1>5. CASE PreemptDisable(t)
  <2>1. pc'[t] = "lock_timeout" /\ \A u \in Tasks \ {t} : pc'[u] = pc[u]
    BY <1>5, <1>p DEF PreemptDisable
  <2>2. QED
    BY <1>5, <1>l, <1>r, <2>1 DEF PreemptDisable, Flow
<1>w. ASSUME NEW label \in Waits, NEW m, NEW a, Frame(t, label, m, a), StartsWaiting(t, {TASK_TIMER}),
             preempt_disabled'
      PROVE  Flow(t)
  BY <1>g, <1>l, <1>r, <1>w DEF StartsWaiting, Flow
<1>m. "lock_wait" \in Waits /\ "lock_timeout_wait" \in Waits
  BY DEF Waits, TimerWaits, MutexWaits
<1>s. {TASK_TIMER} \in SUBSET Signals
  BY DEF Signals
<1>6. CASE mutex_lock_loop(t)
  <2>1. UNCHANGED preempt_disabled /\ preempt_disabled
    BY <1>6, <1>d, <1>l DEF mutex_lock_loop, Running
  <2>2. CASE Finish(t) /\ UNCHANGED switchVars
    BY <1>f, <1>r, <2>1, <2>2 DEF Flow
  <2>3. CASE mutex_wait(obj[t], t) /\ Frame(t, "lock_wait", obj[t], 0) /\ signal_wait_set(t, {TASK_TIMER})
    <3>1. StartsWaiting(t, {TASK_TIMER})
      BY <1>6, <1>s, <2>1, <2>3, <1>t, WaitEffect DEF mutex_lock_loop, mutex_wait
    <3>2. QED
      BY <1>m, <1>w, <2>1, <2>3, <3>1
  <2>4. QED
    BY <1>6, <2>2, <2>3 DEF mutex_lock_loop
<1>7. CASE mutex_lock_timeout_loop(t)
  <2>1. UNCHANGED preempt_disabled /\ preempt_disabled
    BY <1>7, <1>d, <1>l DEF mutex_lock_timeout_loop, Running
  <2>2. CASE Finish(t) /\ UNCHANGED switchVars
    BY <1>f, <1>r, <2>1, <2>2 DEF Flow
  <2>3. CASE /\ mutex_wait(obj[t], t) /\ Frame(t, "lock_timeout_wait", obj[t], arg[t])
             /\ timed_wait(t, Remaining(t))
    <3>1. Remaining(t) \in TicksRelative
      BY RemainingTyped
    <3>2. StartsWaiting(t, {TASK_TIMER})
      BY <1>7, <2>1, <2>3, <1>t, <3>1, TimedWaitEffect DEF mutex_lock_timeout_loop, mutex_wait
    <3>3. QED
      BY <1>m, <1>w, <2>1, <2>3, <3>2
  <2>4. QED
    BY <1>7, <2>2, <2>3 DEF mutex_lock_timeout_loop
<1>8. QED
  BY <1>1, <1>2, <1>3, <1>4, <1>5, <1>6, <1>7 DEF TaskStep

\* The API calls of an application.
LEMMA FlagsAppStep ==
  ASSUME TypeInv, FlagsOK, NEW t \in Tasks, AppStep(t)
  PROVE  Flow(t)
<1>t. TypeInv' /\ TRUE \in BOOLEAN
  BY AppStepTyped
<1>r. phase = "task" /\ t = current_task /\ pc[t] = "app"
  BY DEF AppStep, mutex_lock, mutex_lock_timeout, mutex_unlock, mutex_try_lock, signal_wait_set_call,
     signal_poll_set, signal_send, sleep, Disabling, Calling, Running
<1>p. pc \in [Tasks -> Labels] /\ DOMAIN pc = Tasks
  BY DEF TypeInv, FrameTypeOK
<1>g. \A label, m, a : Frame(t, label, m, a) => pc'[t] = label /\ \A u \in Tasks \ {t} : pc'[u] = pc[u]
  BY <1>p DEF Frame
<1>l. /\ \A label \in {"lock", "enable", "signal_wait", "sleep_wait"} : label \notin Preemptible
      /\ "app" \in Preemptible /\ "lock_timeout_call" \in Preemptible
  BY DEF Preemptible
<1>f. ASSUME Fatal PROVE Flow(t)
  BY <1>f, <1>r DEF Fatal, Flow
<1>s. \A sigs \in SignalSets : sigs \in SUBSET Signals
  BY DEF Signals, SignalSets
<1>1. CASE mutex_lock(t)
  BY <1>1, <1>f, <1>g, <1>l, <1>r DEF mutex_lock, Disabling, Flow
<1>2. CASE mutex_lock_timeout(t)
  <2>1. ~preempt_disabled /\ ~preempt_pending
    BY <1>l, <1>r DEF FlagsOK
  <2>2. QED
    BY <1>2, <1>f, <1>g, <1>l, <1>r, <2>1 DEF mutex_lock_timeout, Flow
<1>3. CASE mutex_unlock(t)
  BY <1>3, <1>f, <1>g, <1>l, <1>r DEF mutex_unlock, Disabling, Finish, Flow
<1>4. CASE mutex_try_lock(t) \/ signal_poll_set(t) \/ signal_send(t)
  BY <1>4, <1>g, <1>l, <1>r DEF mutex_try_lock, signal_poll_set, signal_send, Disabling, Finish, Flow
<1>5. CASE signal_wait_set_call(t)
  <2>1. PICK requested \in SignalSets : signal_wait_set(t, requested)
    BY <1>5 DEF signal_wait_set_call
  <2>2. StartsWaiting(t, requested)
    BY <1>5, <1>s, <2>1, WaitEffect DEF signal_wait_set_call, Disabling, mutexVars
  <2>3. QED
    BY <1>5, <1>g, <1>l, <1>r, <2>2 DEF signal_wait_set_call, Disabling, StartsWaiting, Flow
<1>6. CASE sleep(t)
  <2>1. PICK ticks \in Timeouts : timed_wait(t, ticks)
    BY <1>6 DEF sleep
  <2>2. StartsWaiting(t, {TASK_TIMER})
    BY <1>6, <2>1, TimedWaitEffect, PhactAssumption DEF sleep, Disabling, mutexVars
  <2>3. QED
    BY <1>6, <1>g, <1>l, <1>r, <2>2 DEF sleep, Disabling, StartsWaiting, Flow
<1>7. QED
  BY <1>1, <1>2, <1>3, <1>4, <1>5, <1>6 DEF AppStep

\* The scheduler's steps before it picks a task.
Scheduling ==
    /\ phase # "task" /\ phase' \notin {"task"}
    /\ UNCHANGED <<preempt_disabled, current_task, return_disabled, restore_disabled, pc>>

LEMMA SchedSteps ==
  ASSUME SchedStep
  PROVE  \/ Scheduling
         \/ ~preempt_pending /\ switch_to(sched_get_next) /\ SchedPickFrame /\ phase = "pick"
<1>1. CASE interrupt_event_process
  BY <1>1 DEF interrupt_event_process, event_process, event_copy, event_load, event_store, frameVars, Scheduling
<1>2. CASE timer_tick_process
  BY <1>2 DEF timer_tick_process, frameVars, Scheduling
<1>3. CASE sched_pick
  BY <1>3 DEF sched_pick, SchedPickFrame, frameVars, Scheduling
<1>4. QED
  BY <1>1, <1>2, <1>3 DEF SchedStep

\* The scheduler and the interrupt handlers keep the flags.
LEMMA FlagsCpuStep ==
  ASSUME TypeInv, FlagsOK, SchedStep \/ Interrupt
  PROVE  FlagsOK'
<1>b. /\ preempt_disabled \in BOOLEAN /\ return_disabled \in BOOLEAN /\ current_task \in Tasks
      /\ restore_disabled \in [Tasks -> BOOLEAN] /\ preempt_pending \in BOOLEAN
  BY DEF TypeInv, CpuTypeOK
<1>1. CASE Scheduling /\ phase = "fatal"
  <2>1. phase' = "fatal"
    BY <1>1 DEF SchedStep, Interrupt, interrupt_event_process, event_process, event_copy, event_load, event_store,
       timer_tick_process, sched_pick, timer_tick, interrupt_event_raise, HandlerReturns
  <2>2. QED
    BY <2>1 DEF FlagsOK
<1>2. CASE Scheduling /\ phase # "fatal"
  BY <1>2 DEF Scheduling, FlagsOK
<1>3. CASE ~preempt_pending /\ switch_to(sched_get_next) /\ SchedPickFrame /\ phase = "pick"
  <2>1. sched_get_next \in Tasks
    BY IsTable, NextIsTop
  <2>2. pc' = pc /\ ~preempt_pending'
    BY <1>3 DEF SchedPickFrame, frameVars
  <2> DEFINE to == sched_get_next
  <2>3. phase' = "task" /\ current_task' = to
    BY <1>3 DEF switch_to
  <2> HIDE DEF to
  <2>4. CASE to = current_task /\ preempt_disabled' = return_disabled /\ UNCHANGED restore_disabled
    BY <1>3, <2>2, <2>3, <2>4 DEF FlagsOK
  <2>5. CASE /\ to # current_task
             /\ restore_disabled' = [restore_disabled EXCEPT ![current_task] = return_disabled]
             /\ preempt_disabled' = restore_disabled[to]
    <3>1. preempt_disabled' <=> pc'[to] \notin Preemptible
      BY <1>3, <2>1, <2>2, <2>5 DEF FlagsOK, to
    <3>2. \A u \in Tasks \ {to} : restore_disabled'[u] <=> pc'[u] \notin Preemptible
      BY <1>b, <1>3, <2>2, <2>5 DEF FlagsOK
    <3>3. QED
      BY <2>2, <2>3, <3>1, <3>2 DEF FlagsOK
  <2>6. QED
    BY <1>3, <2>4, <2>5 DEF switch_to, to
<1>4. ASSUME NEW preempt \in BOOLEAN, HandlerReturns(preempt)
      PROVE  FlagsOK'
  <2>1. pc' = pc /\ phase # "fatal" /\ preempt_pending' = (preempt_pending \/ preempt)
    BY <1>4 DEF HandlerReturns, frameVars
  <2>2. CASE preempt /\ ~preempt_disabled
    BY <1>4, <2>1, <2>2 DEF HandlerReturns, yield_common, FlagsOK
  <2>3. CASE ~(preempt /\ ~preempt_disabled)
    BY <1>b, <1>4, <2>1, <2>3 DEF HandlerReturns, switchVars, FlagsOK
  <2>4. QED
    BY <2>2, <2>3
<1>5. QED
  BY <1>1, <1>2, <1>3, <1>4, SchedSteps, PhactAssumption DEF Interrupt, timer_tick, interrupt_event_raise

LEMMA FlagsNext == TypeInv /\ FlagsOK /\ [Next]_vars => FlagsOK'
<1> SUFFICES ASSUME TypeInv, FlagsOK, [Next]_vars PROVE FlagsOK'
  OBVIOUS
<1>1. CASE UNCHANGED vars
  BY <1>1 DEF vars, FlagsOK, frameVars, switchVars
<1>2. CASE Next
  BY <1>1, <1>2, FlagsTaskStep, FlagsAppStep, FlowKeepsFlags, FlagsCpuStep DEF Next, Stopped
<1>3. QED
  BY <1>1, <1>2

LEMMA FlagsInit == Init => FlagsOK
<1>1. 0 \in Tasks
  BY NAssumption DEF Tasks
<1>2. QED
  BY <1>1 DEF Init, FlagsOK, Preemptible

\* The flags of preemption: code runs with preemption enabled exactly where the
\* RTOS may be preempted, and no preemption is pending then, however handlers,
\* yields and switches between contexts follow each other.
THEOREM FlagsCorrect == Spec => []PreemptionFlags
<1>1. TypeInv /\ FlagsOK => PreemptionFlags
  BY DEF TypeInv, CpuTypeOK, FlagsOK, Preemptible, PreemptionFlags
<1>2. Spec => [](TypeInv /\ FlagsOK)
  BY TypeInit, TypeNext, FlagsInit, FlagsNext, PTL DEF Spec
<1>3. QED
  BY <1>1, <1>2, PTL

-----------------------------------------------------------------------------
(* Sleeping, waking and the order of priorities. *)

(***************************************************************************)
(* The inductive invariants: a task that is not on the table sleeps; the   *)
(* task that runs with no preemption pending has the highest effective     *)
(* priority; and a call that locks a mutex does so in a task that does not *)
(* hold it, and sleeps only as a registered waiter while another holds it. *)
(***************************************************************************)
SleepOK(u) == sched_runnable(u) \/ Asleep(u)

TopOK == (phase = "task" /\ ~preempt_pending) => Top(current_task)

LockOK(u) ==
    /\ pc[u] \in MutexWaits => requested_signals[u] = {TASK_TIMER}
    /\ pc[u] \in LockLabels => holder[obj[u]] # u
    /\ (pc[u] \in MutexWaits /\ Asleep(u)) =>
            mutex_waiters[u] = obj[u] /\ holder[obj[u]] # TASK_ID_NONE

WakeInv == (\A u \in Tasks : SleepOK(u) /\ LockOK(u)) /\ TopOK

\* What a step of another task does to task u: it is left alone or woken.
Quiet(u) ==
    /\ pc'[u] = pc[u] /\ obj'[u] = obj[u] /\ requested_signals'[u] = requested_signals[u]
    /\ PENDING_SIGNALS[u] \subseteq PENDING_SIGNALS'[u]
    /\ sched_runnable(u) => sched_runnable(u)'
    /\ PENDING_SIGNALS'[u] = PENDING_SIGNALS[u] \/ sched_runnable(u)'
    /\ mutex_waiters'[u] = mutex_waiters[u] \/ TASK_TIMER \in PENDING_SIGNALS'[u]

\* What a step of t does to the holders: a free mutex is taken, or one is
\* released and its waiters are sent the signal they wait for.
Takes(t, m) ==
    /\ holder[m] = TASK_ID_NONE /\ holder'[m] = t
    /\ \A n \in Mutexes \ {m} : holder'[n] = holder[n]

Releases(m) ==
    /\ holder'[m] = TASK_ID_NONE
    /\ \A n \in Mutexes \ {m} : holder'[n] = holder[n]
    /\ \A u \in Tasks : mutex_waiters[u] = m => TASK_TIMER \in PENDING_SIGNALS'[u]

HolderEffect(t) ==
    \/ UNCHANGED holder
    \/ \E m \in Mutexes : Takes(t, m)
    \/ \E m \in Mutexes : Releases(m)

\* A step that goes on without a preemption pending wakes nobody and releases
\* no mutex.
Calm(t) ==
    (phase' = "task" /\ ~preempt_pending') =>
        /\ ~preempt_pending /\ current_task' = t
        /\ \A u \in Tasks : sched_runnable(u)' => sched_runnable(u)
        /\ UNCHANGED holder \/ \E m \in Mutexes : Takes(t, m)

StepEffect(t) ==
    /\ phase = "task" /\ t = current_task
    /\ \A u \in Tasks \ {t} : Quiet(u)
    /\ HolderEffect(t)
    /\ Calm(t)
    /\ SleepOK(t)' /\ LockOK(t)'

\* A task that another task's step leaves alone or wakes is still in order.
LEMMA QuietKeeps ==
  ASSUME TypeInv, NEW t \in Tasks, NEW u \in Tasks, u # t \/ UNCHANGED holder,
         SleepOK(u), LockOK(u), Quiet(u), HolderEffect(t)
  PROVE  SleepOK(u)' /\ LockOK(u)'
<1>1. Asleep(u)' => Asleep(u)
  BY DEF Asleep, signal_peek, Quiet
<1>2. SleepOK(u)'
  BY DEF SleepOK, Quiet, Asleep, signal_peek
<1>3. pc[u] \in LockLabels => obj[u] \in Mutexes
  BY DEF TypeInv, FrameTypeOK
<1>4. pc[u] \in MutexWaits => pc[u] \in LockLabels
  BY DEF LockLabels
<1>5. pc[u] \in LockLabels => holder'[obj[u]] # u
  BY <1>3, NoneIsNone DEF LockOK, HolderEffect, Takes, Releases
<1>6. ASSUME pc[u] \in MutexWaits, Asleep(u)'
      PROVE  mutex_waiters'[u] = obj[u] /\ holder'[obj[u]] # TASK_ID_NONE
  <2>1. TASK_TIMER \notin PENDING_SIGNALS'[u]
    BY <1>6 DEF LockOK, Quiet, Asleep, signal_peek
  <2>2. mutex_waiters[u] = obj[u] /\ holder[obj[u]] # TASK_ID_NONE /\ mutex_waiters'[u] = mutex_waiters[u]
    BY <1>1, <1>6, <2>1 DEF LockOK, Quiet
  <2>3. QED
    BY <1>3, <1>4, <1>6, <2>1, <2>2, NoneIsNone DEF HolderEffect, Takes, Releases
<1>7. QED
  BY <1>2, <1>5, <1>6 DEF LockOK, Quiet

\* Taking a mutex adds its ceiling to the priorities of the task that takes it.
LEMMA CalmKeepsTop ==
  ASSUME TypeInv, TopOK, NEW t \in Tasks, phase = "task", t = current_task, Calm(t)
  PROVE  TopOK'
<1> SUFFICES ASSUME phase' = "task", ~preempt_pending' PROVE Top(t)'
  BY DEF TopOK, Calm
<1>1. Top(t) /\ (\A u \in Tasks : sched_runnable(u)' => sched_runnable(u))
  BY DEF TopOK, Calm
<1>2. CASE UNCHANGED holder
  BY <1>1, <1>2 DEF Top, Priorities
<1>3. CASE \E m \in Mutexes : Takes(t, m)
  <2>1. \A n \in Mutexes, u \in Tasks \ {t} : holder'[n] = u => holder[n] = u
    BY <1>3 DEF Takes
  <2>2. \A n \in Mutexes : holder[n] = t => holder'[n] = t
    BY <1>3, NoneIsNone DEF Takes
  <2>3. \A u \in Tasks \ {t} : Priorities(u)' \subseteq Priorities(u)
    BY <2>1 DEF Priorities
  <2>4. Priorities(t) \subseteq Priorities(t)'
    BY <2>2 DEF Priorities
  <2>5. Priorities(t)' \subseteq Nat
    BY EntriesDiffer DEF Priorities
  <2>6. ASSUME NEW u \in Tasks, sched_runnable(u)', NEW p \in Priorities(u)'
        PROVE  \E c \in Priorities(t)' : c <= p
    <3>1. CASE u = t
      BY <2>5, <2>6, <3>1
    <3>2. CASE u # t
      BY <1>1, <2>3, <2>4, <2>6, <3>2 DEF Top
    <3>3. QED
      BY <3>1, <3>2
  <2>7. QED
    BY <2>6 DEF Top
<1>4. QED
  BY <1>2, <1>3 DEF Calm

LEMMA StepKeeps ==
  ASSUME TypeInv, WakeInv, NEW t \in Tasks, StepEffect(t)
  PROVE  WakeInv'
<1>1. \A u \in Tasks \ {t} : SleepOK(u)' /\ LockOK(u)'
  BY QuietKeeps DEF WakeInv, StepEffect
<1>2. TopOK'
  BY CalmKeepsTop DEF WakeInv, StepEffect
<1>3. QED
  BY <1>1, <1>2 DEF WakeInv, StepEffect

\* A step of t that sends no signal and changes neither table nor holders.
LEMMA Unsent ==
  ASSUME TypeInv, NEW t \in Tasks, UNCHANGED <<locked_by, holder, mutex_waiters, preempt_pending>>,
         phase = "task", t = current_task, phase' = "task" => current_task' = t,
         \A u \in Tasks \ {t} : /\ pc'[u] = pc[u] /\ obj'[u] = obj[u]
                                /\ requested_signals'[u] = requested_signals[u]
                                /\ PENDING_SIGNALS'[u] = PENDING_SIGNALS[u],
         sched_runnable(t) \/ Asleep(t)', LockOK(t)'
  PROVE  StepEffect(t)
<1>1. \A u \in Tasks : sched_runnable(u)' <=> sched_runnable(u)
  BY Kept
<1>2. \A u \in Tasks \ {t} : Quiet(u)
  BY <1>1 DEF Quiet
<1>3. HolderEffect(t) /\ Calm(t)
  BY <1>1 DEF HolderEffect, Calm
<1>4. SleepOK(t)'
  BY <1>1 DEF SleepOK
<1>5. QED
  BY <1>2, <1>3, <1>4 DEF StepEffect

\* A call of t that takes a mutex and does not wait.
LEMMA Taken ==
  ASSUME TypeInv, NEW t \in Tasks, NEW m \in Mutexes, mutex_acquire(t, m),
         UNCHANGED <<preempt_pending, PENDING_SIGNALS, requested_signals>>,
         phase = "task", t = current_task, phase' = "task" => current_task' = t,
         \A u \in Tasks \ {t} : pc'[u] = pc[u] /\ obj'[u] = obj[u],
         sched_runnable(t), LockOK(t)'
  PROVE  StepEffect(t)
<1>1. /\ \A u \in Tasks : sched_runnable(u)' <=> sched_runnable(u)
      /\ Takes(t, m) /\ mutex_waiters' = mutex_waiters
  BY IsTable, Acquire DEF Takes
<1>2. \A u \in Tasks \ {t} : Quiet(u)
  BY <1>1 DEF Quiet
<1>3. HolderEffect(t) /\ Calm(t)
  BY <1>1 DEF HolderEffect, Calm
<1>4. SleepOK(t)'
  BY <1>1 DEF SleepOK
<1>5. QED
  BY <1>2, <1>3, <1>4 DEF StepEffect

\* A call of t that starts to wait.
LEMMA Waiting ==
  ASSUME TypeInv, NEW t \in Tasks, NEW requested, StartsWaiting(t, requested), UNCHANGED holder,
         phase = "task", t = current_task,
         \A u \in Tasks \ {t} : pc'[u] = pc[u] /\ obj'[u] = obj[u] /\ mutex_waiters'[u] = mutex_waiters[u],
         pc'[t] \in Waits, sched_runnable(t), LockOK(t)'
  PROVE  StepEffect(t)
<1>1. \A u \in Tasks \ {t} : Quiet(u)
  BY DEF StartsWaiting, Quiet
<1>2. HolderEffect(t) /\ Calm(t)
  BY DEF HolderEffect, Calm, StartsWaiting, EntersScheduler
<1>3. SleepOK(t)'
  BY DEF SleepOK, Asleep, signal_peek, StartsWaiting
<1>4. QED
  BY <1>1, <1>2, <1>3 DEF StepEffect

\* Whoever runs and does not sleep is on the table.
LEMMA AwakeIsRunnable ==
  ASSUME WakeInv, NEW t \in Tasks, ~Asleep(t)
  PROVE  sched_runnable(t)
  BY DEF WakeInv, SleepOK

\* A call of t that leaves LockLabels, or stays there with its object.
LEMMA LockKept ==
  ASSUME WakeInv, NEW t \in Tasks, UNCHANGED holder, pc'[t] \notin MutexWaits,
         pc'[t] \notin LockLabels \/ (pc[t] \in LockLabels /\ obj'[t] = obj[t])
  PROVE  LockOK(t)'
  BY DEF WakeInv, LockOK

\* Waiting, resuming and the loops of the blocking calls.
LEMMA WakeTaskStep ==
  ASSUME TypeInv, WakeInv, NEW t \in Tasks, TaskStep(t)
  PROVE  StepEffect(t)
<1>r. phase = "task" /\ t = current_task
  BY DEF TaskStep, Entry, preempt_enable, WaitAgain, WaitEnd, signal_wait_return, PreemptDisable, mutex_lock_loop,
     mutex_lock_timeout_loop, Running
<1>t. /\ requested_signals \in [Tasks -> SUBSET Signals] /\ PENDING_SIGNALS \in [Tasks -> SUBSET Signals]
      /\ pc \in [Tasks -> Labels] /\ DOMAIN pc = Tasks /\ DOMAIN obj = Tasks
      /\ preempt_disabled \in BOOLEAN /\ current_task \in Tasks
      /\ pc[t] \in LockLabels => obj[t] \in Mutexes
  BY DEF TypeInv, FrameTypeOK, SignalTypeOK, CpuTypeOK
<1>g. \A label, m, a : Frame(t, label, m, a) =>
          /\ pc'[t] = label /\ obj'[t] = m
          /\ \A u \in Tasks \ {t} : pc'[u] = pc[u] /\ obj'[u] = obj[u]
  BY <1>t DEF Frame
<1>l. /\ {"lock_wait", "lock_timeout_wait"} = MutexWaits
      /\ MutexWaits \subseteq Waits /\ MutexWaits \subseteq LockLabels
      /\ {"entry", "app", "lock", "lock_timeout_call", "lock_timeout", "enable"} \cap Waits = {}
      /\ {"entry", "app", "enable"} \cap LockLabels = {}
      /\ {"lock", "lock_timeout_call", "lock_timeout"} \subseteq LockLabels
  BY DEF MutexWaits, TimerWaits, Waits, LockLabels
<1>a. pc[t] \notin Waits => sched_runnable(t)
  BY AwakeIsRunnable DEF Asleep
<1>s. {TASK_TIMER} \in SUBSET Signals
  BY DEF Signals
<1>1. CASE Entry(t)
  <2>1. /\ pc'[t] = "enable" /\ \A u \in Tasks \ {t} : pc'[u] = pc[u] /\ obj'[u] = obj[u]
        /\ pc[t] \notin Waits
    BY <1>1, <1>g, <1>l DEF Entry, Running, Finish
  <2>2. LockOK(t)'
    BY <1>1, <1>l, <2>1, LockKept DEF Entry, mutexVars
  <2>3. QED
    BY <1>1, <1>a, <1>r, <2>1, <2>2, Unsent DEF Entry, mutexVars, switchVars
<1>2. CASE preempt_enable(t)
  <2>1. /\ pc'[t] = "app" /\ \A u \in Tasks \ {t} : pc'[u] = pc[u] /\ obj'[u] = obj[u]
        /\ pc[t] \notin Waits
    BY <1>2, <1>g, <1>l DEF preempt_enable, Running
  <2>2. LockOK(t)'
    BY <1>2, <1>l, <2>1, LockKept DEF preempt_enable, mutexVars
  <2>3. current_task' = current_task
    BY <1>2 DEF preempt_enable, yield_common, switchVars
  <2>4. QED
    BY <1>2, <1>a, <1>r, <2>1, <2>2, <2>3, Unsent DEF preempt_enable, mutexVars
<1>3. CASE WaitAgain(t)
  <2>1. /\ EntersScheduler
        /\ \A u \in Tasks \ {t} : sched_runnable(u)' <=> sched_runnable(u)
    BY <1>3, <1>t, BlockEffect DEF WaitAgain, mutexVars
  <2>2. UNCHANGED <<pc, obj, requested_signals, PENDING_SIGNALS, holder, mutex_waiters>>
    BY <1>3 DEF WaitAgain, frameVars, mutexVars
  <2>3. SleepOK(t)'
    BY <1>3, <2>2 DEF WaitAgain, SleepOK, Asleep, signal_peek
  <2>4. LockOK(t)'
    BY <2>2 DEF WakeInv, LockOK, Asleep, signal_peek
  <2>5. \A u \in Tasks \ {t} : Quiet(u)
    BY <2>1, <2>2 DEF Quiet
  <2>6. HolderEffect(t) /\ Calm(t)
    BY <2>1, <2>2 DEF HolderEffect, Calm, EntersScheduler
  <2>7. QED
    BY <1>r, <2>3, <2>4, <2>5, <2>6 DEF StepEffect
<1>4. CASE WaitEnd(t)
  <2>1. sched_runnable(t)
    BY <1>4, AwakeIsRunnable DEF WaitEnd, Asleep
  <2>2. /\ \A u \in Tasks \ {t} : /\ requested_signals'[u] = requested_signals[u]
                                  /\ PENDING_SIGNALS'[u] = PENDING_SIGNALS[u]
        /\ UNCHANGED <<locked_by, holder, mutex_waiters, preempt_pending, current_task>>
    BY <1>4, <1>t DEF WaitEnd, signal_wait_return, signal_recv, mutexVars, switchVars
  <2>3. CASE Finish(t)
    <3>1. pc'[t] = "enable" /\ \A u \in Tasks \ {t} : pc'[u] = pc[u] /\ obj'[u] = obj[u]
      BY <1>g, <2>3 DEF Finish
    <3>2. LockOK(t)'
      BY <1>l, <2>2, <3>1, LockKept
    <3>3. QED
      BY <1>r, <2>1, <2>2, <3>1, <3>2, Unsent
  <2>4. CASE Frame(t, AfterWait[pc[t]], obj[t], arg[t]) /\ AfterWait[pc[t]] # "enable"
    <3>1. pc[t] \in MutexWaits /\ AfterWait[pc[t]] \in {"lock", "lock_timeout"}
      BY <1>4, <2>4 DEF WaitEnd, signal_wait_return, Waits, TimerWaits, MutexWaits, AfterWait
    <3>2. /\ pc'[t] \in {"lock", "lock_timeout"} /\ obj'[t] = obj[t]
          /\ \A u \in Tasks \ {t} : pc'[u] = pc[u] /\ obj'[u] = obj[u]
      BY <1>g, <2>4, <3>1
    <3>3. LockOK(t)'
      BY <1>l, <2>2, <3>1, <3>2, LockKept
    <3>4. QED
      BY <1>r, <2>1, <2>2, <3>2, <3>3, Unsent
  <2>5. QED
    BY <1>4, <2>3, <2>4 DEF WaitEnd, signal_wait_return
<1>5. CASE PreemptDisable(t)
  <2>1. /\ pc'[t] = "lock_timeout" /\ pc[t] = "lock_timeout_call" /\ obj' = obj
        /\ \A u \in Tasks \ {t} : pc'[u] = pc[u]
    BY <1>5, <1>t DEF PreemptDisable, Running
  <2>2. LockOK(t)'
    BY <1>5, <1>l, <2>1, LockKept DEF PreemptDisable, mutexVars
  <2>3. QED
    BY <1>5, <1>a, <1>l, <1>r, <2>1, <2>2, Unsent DEF PreemptDisable, mutexVars, switchVars
\* Both loops end a call that takes the mutex, or wait for a mutex that another task holds.
<1>k. ASSUME obj[t] \in Mutexes, mutex_acquire(t, obj[t]), Finish(t), pc[t] \notin Waits,
             UNCHANGED <<preempt_pending, PENDING_SIGNALS, requested_signals, switchVars>>
      PROVE  StepEffect(t)
  <2>1. pc'[t] = "enable" /\ \A u \in Tasks \ {t} : pc'[u] = pc[u] /\ obj'[u] = obj[u]
    BY <1>g, <1>k DEF Finish
  <2>2. LockOK(t)'
    BY <1>l, <2>1 DEF LockOK
  <2>3. QED
    BY <1>a, <1>k, <1>r, <2>1, <2>2, Taken DEF switchVars
<1>w. ASSUME NEW label \in MutexWaits, NEW a, Frame(t, label, obj[t], a), StartsWaiting(t, {TASK_TIMER}),
             mutex_wait(obj[t], t), pc[t] \in LockLabels, pc[t] \notin Waits
      PROVE  StepEffect(t)
  <2>1. /\ pc'[t] \in MutexWaits /\ obj'[t] = obj[t]
        /\ \A u \in Tasks \ {t} : pc'[u] = pc[u] /\ obj'[u] = obj[u]
    BY <1>g, <1>w
  <2>2. /\ holder[obj[t]] # TASK_ID_NONE /\ UNCHANGED holder /\ mutex_waiters'[t] = obj[t]
        /\ \A u \in Tasks \ {t} : mutex_waiters'[u] = mutex_waiters[u]
    BY <1>w DEF mutex_wait, MutexFree, TypeInv, MutexTypeOK
  <2>3. LockOK(t)'
    <3>1. requested_signals'[t] = {TASK_TIMER}
      BY <1>w DEF StartsWaiting
    <3>2. holder[obj[t]] # t
      BY <1>w DEF WakeInv, LockOK
    <3>3. QED
      BY <2>1, <2>2, <3>1, <3>2 DEF LockOK
  <2>4. pc'[t] \in Waits
    BY <1>l, <2>1
  <2>5. QED
    BY <1>a, <1>r, <1>w, <2>1, <2>2, <2>3, <2>4, Waiting
<1>6. CASE mutex_lock_loop(t)
  <2>0. pc[t] \in LockLabels /\ pc[t] \notin Waits /\ obj[t] \in Mutexes
    BY <1>6, <1>l, <1>t DEF mutex_lock_loop, Running
  <2>1. CASE mutex_acquire(t, obj[t]) /\ Finish(t) /\ UNCHANGED <<requested_signals, switchVars>>
    BY <1>6, <1>k, <2>0, <2>1 DEF mutex_lock_loop
  <2>2. CASE mutex_wait(obj[t], t) /\ Frame(t, "lock_wait", obj[t], 0) /\ signal_wait_set(t, {TASK_TIMER})
    <3>1. StartsWaiting(t, {TASK_TIMER})
      BY <1>6, <1>s, <1>t, <2>2, WaitEffect DEF mutex_lock_loop, mutex_wait
    <3>2. QED
      BY <1>l, <1>w, <2>0, <2>2, <3>1
  <2>3. QED
    BY <1>6, <2>1, <2>2 DEF mutex_lock_loop
<1>7. CASE mutex_lock_timeout_loop(t)
  <2>0. pc[t] \in LockLabels /\ pc[t] \notin Waits /\ obj[t] \in Mutexes
    BY <1>7, <1>l, <1>t DEF mutex_lock_timeout_loop, Running
  <2>1. CASE /\ mutex_acquire(t, obj[t]) /\ Finish(t)
             /\ UNCHANGED <<PENDING_SIGNALS, preempt_pending, timers, requested_signals, switchVars>>
    BY <1>k, <2>0, <2>1
  <2>2. CASE /\ mutex_wait(obj[t], t) /\ Frame(t, "lock_timeout_wait", obj[t], arg[t])
             /\ timed_wait(t, Remaining(t))
    <3>1. Remaining(t) \in TicksRelative
      BY RemainingTyped
    <3>2. StartsWaiting(t, {TASK_TIMER})
      BY <1>7, <1>t, <2>2, <3>1, TimedWaitEffect DEF mutex_lock_timeout_loop, mutex_wait
    <3>3. QED
      BY <1>l, <1>w, <2>0, <2>2, <3>2
  <2>3. CASE /\ Finish(t)
             /\ UNCHANGED <<locked_by, PENDING_SIGNALS, preempt_pending, timers, mutexVars,
                            requested_signals, switchVars>>
    <3>1. pc'[t] = "enable" /\ \A u \in Tasks \ {t} : pc'[u] = pc[u] /\ obj'[u] = obj[u]
      BY <1>g, <2>3 DEF Finish
    <3>2. LockOK(t)'
      BY <1>l, <2>3, <3>1, LockKept DEF mutexVars
    <3>3. QED
      BY <1>a, <1>r, <2>0, <2>3, <3>1, <3>2, Unsent DEF mutexVars, switchVars
  <2>4. QED
    BY <1>7, <2>1, <2>2, <2>3 DEF mutex_lock_timeout_loop
<1>8. QED
  BY <1>1, <1>2, <1>3, <1>4, <1>5, <1>6, <1>7 DEF TaskStep

\* The API calls of an application.
LEMMA WakeAppStep ==
  ASSUME TypeInv, WakeInv, NEW t \in Tasks, AppStep(t)
  PROVE  StepEffect(t)
<1>r. phase = "task" /\ t = current_task /\ pc[t] = "app"
  BY DEF AppStep, mutex_lock, mutex_lock_timeout, mutex_unlock, mutex_try_lock, signal_wait_set_call,
     signal_poll_set, signal_send, sleep, Disabling, Calling, Running
<1>t. /\ PENDING_SIGNALS \in [Tasks -> SUBSET Signals]
      /\ pc \in [Tasks -> Labels] /\ DOMAIN pc = Tasks /\ DOMAIN obj = Tasks
      /\ \A m \in TaskMutexes[t] : m \in Mutexes
  BY PhactAssumption DEF TypeInv, FrameTypeOK, SignalTypeOK
<1>g. \A label, m, a : Frame(t, label, m, a) =>
          /\ pc'[t] = label /\ obj'[t] = m
          /\ \A u \in Tasks \ {t} : pc'[u] = pc[u] /\ obj'[u] = obj[u]
  BY <1>t DEF Frame
<1>l. /\ MutexWaits \subseteq Waits /\ MutexWaits \subseteq LockLabels
      /\ "app" \notin Waits /\ {"app", "enable", "sleep_wait", "signal_wait"} \cap LockLabels = {}
      /\ {"lock", "lock_timeout_call"} \cap MutexWaits = {} /\ {"sleep_wait", "signal_wait"} \subseteq Waits
  BY DEF MutexWaits, TimerWaits, Waits, LockLabels
<1>a. sched_runnable(t)
  BY <1>l, <1>r, AwakeIsRunnable DEF Asleep
<1>s. \A sigs \in SignalSets : sigs \in SUBSET Signals
  BY DEF Signals, SignalSets
<1>o. pc'[t] \notin LockLabels => LockOK(t)'
  BY <1>l DEF LockOK
<1>f. ASSUME Fatal PROVE StepEffect(t)
  <2>1. LockOK(t)'
    BY <1>f, <1>l, <1>o, <1>r DEF Fatal, frameVars
  <2>2. QED
    BY <1>a, <1>f, <1>r, <2>1, Unsent DEF Fatal, mutexVars, frameVars
<1>e. ASSUME Finish(t)
      PROVE  /\ LockOK(t)' /\ obj'[t] = NoObject
             /\ \A u \in Tasks \ {t} : pc'[u] = pc[u] /\ obj'[u] = obj[u]
  BY <1>e, <1>g, <1>l, <1>o DEF Finish
<1>1. CASE mutex_lock(t)
  <2>1. CASE Fatal
    BY <1>f, <2>1
  <2>2. CASE ~Fatal
    <3>1. PICK m \in TaskMutexes[t] :
            /\ holder[m] # t
            /\ Frame(t, "lock", m, 0)
            /\ UNCHANGED <<locked_by, PENDING_SIGNALS, preempt_pending, mutexVars, requested_signals, switchVars>>
      BY <1>1, <2>2 DEF mutex_lock
    <3>2. LockOK(t)'
      BY <1>g, <1>l, <3>1 DEF LockOK, mutexVars
    <3>3. QED
      BY <1>a, <1>g, <1>r, <3>1, <3>2, Unsent DEF mutexVars, switchVars
  <2>3. QED
    BY <2>1, <2>2
<1>2. CASE mutex_lock_timeout(t)
  <2>1. CASE Fatal
    BY <1>f, <2>1
  <2>2. CASE ~Fatal
    <3>1. PICK m \in TaskMutexes[t], timeout \in Timeouts :
            /\ holder[m] # t
            /\ Frame(t, "lock_timeout_call", m, (timer_current_ticks + timeout) % TicksAbsoluteMod)
            /\ UNCHANGED <<locked_by, PENDING_SIGNALS, preempt_pending, mutexVars, requested_signals, switchVars>>
      BY <1>2, <2>2 DEF mutex_lock_timeout
    <3>2. LockOK(t)'
      BY <1>g, <1>l, <3>1 DEF LockOK, mutexVars
    <3>3. QED
      BY <1>a, <1>g, <1>r, <3>1, <3>2, Unsent DEF mutexVars, switchVars
  <2>3. QED
    BY <2>1, <2>2
<1>3. CASE mutex_unlock(t)
  <2>1. CASE Fatal
    BY <1>f, <2>1
  <2>2. CASE ~Fatal
    <3>1. PICK m \in TaskMutexes[t] :
            /\ signal_set_pending(MutexWaiters(m), [u \in MutexWaiters(m) |-> {TASK_TIMER}])
            /\ sched_set_mutex_unlocked(m, MutexWaiters(m))
            /\ preempt_pending' = TRUE
            /\ mutex_release(m)
            /\ Finish(t)
            /\ UNCHANGED requested_signals
      BY <1>3, <2>2 DEF mutex_unlock
    <3>2. /\ \A u \in Tasks : sched_runnable(u)' <=> (u \in MutexWaiters(m) \/ sched_runnable(u))
          /\ holder'[m] = TASK_ID_NONE /\ \A n \in Mutexes \ {m} : holder'[n] = holder[n]
      BY <1>t, <3>1, IsTable, Release
    <3>3. \A u \in Tasks : PENDING_SIGNALS'[u] = IF u \in MutexWaiters(m) THEN PENDING_SIGNALS[u] \cup {TASK_TIMER}
                                                 ELSE PENDING_SIGNALS[u]
      BY <3>1 DEF signal_set_pending
    <3>4. \A u \in Tasks : mutex_waiters'[u] = mutex_waiters[u] \/ u \in MutexWaiters(m)
      BY <3>1 DEF mutex_release
    <3>5. \A u \in Tasks \ {t} : Quiet(u)
      BY <1>e, <3>1, <3>2, <3>3, <3>4 DEF Quiet
    <3>6. HolderEffect(t)
      <4>1. Releases(m)
        BY <3>2, <3>3 DEF Releases, MutexWaiters
      <4>2. QED
        BY <1>t, <4>1 DEF HolderEffect
    <3>7. Calm(t) /\ SleepOK(t)'
      BY <1>a, <3>1, <3>2 DEF Calm, SleepOK
    <3>8. QED
      BY <1>e, <1>r, <3>1, <3>5, <3>6, <3>7 DEF StepEffect
  <2>3. QED
    BY <2>1, <2>2
<1>4. CASE mutex_try_lock(t)
  <2>1. PICK m \in TaskMutexes[t] :
          /\ mutex_acquire(t, m) \/ UNCHANGED <<mutexVars, locked_by>>
          /\ Finish(t)
          /\ UNCHANGED <<PENDING_SIGNALS, preempt_pending, requested_signals, switchVars>>
    BY <1>4 DEF mutex_try_lock
  <2>2. CASE mutex_acquire(t, m)
    BY <1>a, <1>e, <1>r, <1>t, <2>1, <2>2, Taken DEF switchVars
  <2>3. CASE UNCHANGED <<mutexVars, locked_by>>
    BY <1>a, <1>e, <1>r, <2>1, <2>3, Unsent DEF switchVars, mutexVars
  <2>4. QED
    BY <2>1, <2>2, <2>3
<1>5. CASE signal_wait_set_call(t)
  <2>1. PICK requested \in SignalSets : Frame(t, "signal_wait", NoObject, 0) /\ signal_wait_set(t, requested)
    BY <1>5 DEF signal_wait_set_call
  <2>2. StartsWaiting(t, requested)
    BY <1>5, <1>s, <2>1, WaitEffect DEF signal_wait_set_call, Disabling, mutexVars
  <2>3. LockOK(t)' /\ pc'[t] \in Waits
    BY <1>g, <1>l, <1>o, <2>1
  <2>4. UNCHANGED <<holder, mutex_waiters>>
    BY <1>5 DEF signal_wait_set_call, mutexVars
  <2>5. QED
    BY <1>a, <1>g, <1>r, <2>1, <2>2, <2>3, <2>4, Waiting
<1>6. CASE signal_poll_set(t)
  <2>1. PICK requested \in SignalSets : signal_recv(t, requested) /\ Finish(t)
    BY <1>6 DEF signal_poll_set
  <2>2. \A u \in Tasks \ {t} : PENDING_SIGNALS'[u] = PENDING_SIGNALS[u]
    BY <1>t, <2>1 DEF signal_recv
  <2>3. QED
    BY <1>6, <1>a, <1>e, <1>r, <2>1, <2>2, Unsent DEF signal_poll_set, mutexVars, switchVars
<1>7. CASE signal_send(t)
  <2>1. PICK to \in Recipients, sigs \in SignalSets : signal_send_set({to}, [u \in {to} |-> sigs])
    BY <1>7 DEF signal_send
  <2>2. Finish(t) /\ UNCHANGED <<holder, mutex_waiters, requested_signals>>
    BY <1>7 DEF signal_send, mutexVars
  <2> DEFINE sends == [u \in {to} |-> sigs]
  <2>3. {to} \in SUBSET Tasks /\ \A u \in {to} : sends[u] \subseteq Signals
    BY <1>s, PhactAssumption
  <2> HIDE DEF sends
  <2>4. /\ \A u \in Tasks : sched_runnable(u)' <=> (u \in {to} \/ sched_runnable(u))
        /\ \A u \in Tasks : PENDING_SIGNALS'[u] = IF u \in {to} THEN PENDING_SIGNALS[u] \cup sends[u]
                                                  ELSE PENDING_SIGNALS[u]
    BY <2>1, <2>2, <2>3, SendEffect DEF sends
  <2>5. \A u \in Tasks \ {t} : Quiet(u)
    BY <1>e, <2>2, <2>4 DEF Quiet
  <2>6. HolderEffect(t) /\ Calm(t) /\ SleepOK(t)'
    BY <1>a, <2>1, <2>2, <2>4 DEF signal_send_set, HolderEffect, Calm, SleepOK
  <2>7. QED
    BY <1>e, <1>r, <2>2, <2>5, <2>6 DEF StepEffect
<1>8. CASE sleep(t)
  <2>1. PICK ticks \in Timeouts : Frame(t, "sleep_wait", NoObject, 0) /\ timed_wait(t, ticks)
    BY <1>8 DEF sleep
  <2>2. StartsWaiting(t, {TASK_TIMER})
    BY <1>8, <2>1, TimedWaitEffect, PhactAssumption DEF sleep, Disabling, mutexVars
  <2>3. LockOK(t)' /\ pc'[t] \in Waits
    BY <1>g, <1>l, <1>o, <2>1
  <2>4. UNCHANGED <<holder, mutex_waiters>>
    BY <1>8 DEF sleep, mutexVars
  <2>5. QED
    BY <1>a, <1>g, <1>r, <2>1, <2>2, <2>3, <2>4, Waiting
<1>9. QED
  BY <1>1, <1>2, <1>3, <1>4, <1>5, <1>6, <1>7, <1>8 DEF AppStep

\* What the scheduler and the handlers do to the tasks: a signal is sent to
\* some of them, or to none.
LEMMA CpuStepSends ==
  ASSUME TypeInv, SchedStep \/ Interrupt
  PROVE  /\ UNCHANGED <<mutexVars, frameVars, requested_signals>>
         /\ \/ UNCHANGED <<locked_by, PENDING_SIGNALS>>
            \/ \E T \in SUBSET Tasks, sigs \in [Tasks -> SUBSET Signals] : signal_send_set(T, sigs)
<1>1. CASE event_store /\ interrupt_event_process
  <2>1. signal_send_set({EventTask[NextEvent]}, EventSends(EventTask, {NextEvent})) /\ tmp # {}
    BY <1>1 DEF event_store, event_handle, TypeInv, CopyTypeOK
  <2>2. /\ {EventTask[NextEvent]} \in SUBSET Tasks
        /\ EventSends(EventTask, {NextEvent}) \in [Tasks -> SUBSET Signals]
    <3>1. EventTask[NextEvent] \in Tasks
      BY <2>1, NextEventTyped DEF TypeInv
    <3>2. \A e \in Events : EventSignals[e] \subseteq Signals
      BY EventAssumption DEF Signals
    <3>3. NextEvent \in Events
      BY <2>1, NextEventTyped DEF TypeInv
    <3>4. QED
      BY <3>1, <3>2, <3>3 DEF EventSends
  <2>3. QED
    BY <1>1, <2>1, <2>2 DEF interrupt_event_process
<1>2. CASE timer_tick_process
  <2> DEFINE K == Expired((timer_current_ticks + 1) % TicksAbsoluteMod)
  <2>1. UNCHANGED <<locked_by, PENDING_SIGNALS>> \/ signal_send_set(TimerTasks(K), TimerSignals(K))
    BY <1>2 DEF timer_tick_process
  <2>2. K \in SUBSET TimerIds
    BY DEF Expired
  <2> HIDE DEF K
  <2>3. TimerTasks(K) \in SUBSET Tasks
    BY <2>2, ExpiredTyped DEF TypeInv
  <2>4. TimerSignals(K) \in [Tasks -> SUBSET Signals]
    BY <2>2 DEF TimerSignals, TypeInv, TimerTypeOK, TimerRecord
  <2>5. QED
    BY <1>2, <2>1, <2>3, <2>4 DEF timer_tick_process
<1>3. QED
  BY <1>1, <1>2 DEF SchedStep, Interrupt, interrupt_event_process, event_process, event_copy, event_load,
     sched_pick, SchedPickFrame, timer_tick, interrupt_event_raise, HandlerReturns

\* The scheduler and the handlers wake tasks and block none, and the scheduler
\* switches to a task of the highest effective priority.
LEMMA WakeCpuStep ==
  ASSUME TypeInv, WakeInv, SchedStep \/ Interrupt
  PROVE  WakeInv'
<1>1. UNCHANGED <<holder, mutex_waiters, pc, obj, requested_signals>>
  BY CpuStepSends DEF mutexVars, frameVars
<1>2. \A u \in Tasks : Quiet(u)
  <2>1. CASE UNCHANGED <<locked_by, PENDING_SIGNALS>>
    BY <1>1, <2>1, Kept DEF Quiet
  <2>2. ASSUME NEW T \in SUBSET Tasks, NEW sigs \in [Tasks -> SUBSET Signals], signal_send_set(T, sigs)
        PROVE  \A u \in Tasks : Quiet(u)
    <3>1. /\ \A u \in Tasks : sched_runnable(u)' <=> (u \in T \/ sched_runnable(u))
          /\ \A u \in Tasks : PENDING_SIGNALS'[u] = IF u \in T THEN PENDING_SIGNALS[u] \cup sigs[u]
                                                    ELSE PENDING_SIGNALS[u]
      <4>1. \A u \in T : sigs[u] \subseteq Signals
        OBVIOUS
      <4>2. QED
        BY <1>1, <2>2, <4>1, SendEffect
    <3>2. QED
      BY <1>1, <3>1 DEF Quiet
  <2>3. QED
    BY <2>1, <2>2, CpuStepSends
<1>3. \A u \in Tasks : SleepOK(u)' /\ LockOK(u)'
  BY <1>1, <1>2, QuietKeeps DEF WakeInv, HolderEffect
<1>p. \A u \in Tasks : Priorities(u)' = Priorities(u)
  BY <1>1 DEF Priorities
<1>q. ASSUME NEW t \in Tasks, Top(t), UNCHANGED locked_by
      PROVE  Top(t)'
  <2>1. \A u \in Tasks : sched_runnable(u)' <=> sched_runnable(u)
    BY <1>1, <1>q, Kept
  <2>2. QED
    BY <1>p, <1>q, <2>1 DEF Top
<1>4. ASSUME UNCHANGED <<locked_by, phase, current_task>>, ~preempt_pending' => ~preempt_pending
      PROVE  TopOK'
  <2>1. PICK t \in Tasks : t = current_task
    BY DEF TypeInv, CpuTypeOK
  <2>2. (phase = "task" /\ ~preempt_pending) => Top(t)
    BY <2>1 DEF WakeInv, TopOK
  <2>3. (phase' = "task" /\ ~preempt_pending') => Top(t)'
    BY <1>4, <1>q, <2>2
  <2>4. QED
    BY <1>4, <2>1, <2>3 DEF TopOK
<1>5. ASSUME Scheduling PROVE TopOK'
  BY <1>5 DEF Scheduling, TopOK
<1>6. ASSUME switch_to(sched_get_next), SchedPickFrame PROVE TopOK'
  <2>1. PICK to \in Tasks : to = sched_get_next /\ Top(to)
    BY IsTable, NextIsTop
  <2>2. current_task' = to
    BY <1>6, <2>1 DEF switch_to
  <2>3. Top(to)'
    BY <1>6, <1>q, <2>1 DEF SchedPickFrame
  <2>4. QED
    BY <2>2, <2>3 DEF TopOK
<1>7. ASSUME NEW preempt \in BOOLEAN, HandlerReturns(preempt)
      PROVE  TopOK'
  <2>1. CASE yield_common(FALSE)
    BY <2>1 DEF yield_common, TopOK
  <2>2. CASE UNCHANGED switchVars
    BY <1>1, <1>4, <1>7, <2>2 DEF HandlerReturns, switchVars
  <2>3. QED
    BY <1>7, <2>1, <2>2 DEF HandlerReturns
<1>8. TopOK'
  <2>1. CASE SchedStep
    BY <1>5, <1>6, <2>1, SchedSteps
  <2>2. CASE Interrupt
    BY <1>7, <2>2, PhactAssumption DEF Interrupt, timer_tick, interrupt_event_raise
  <2>3. QED
    BY <2>1, <2>2
<1>9. QED
  BY <1>3, <1>8 DEF WakeInv

LEMMA WakeNext == TypeInv /\ WakeInv /\ [Next]_vars => WakeInv'
<1> SUFFICES ASSUME TypeInv, WakeInv, [Next]_vars PROVE WakeInv'
  OBVIOUS
<1>1. CASE UNCHANGED vars
  <2>1. \A u \in Tasks : Quiet(u)
    BY <1>1, Kept DEF vars, mutexVars, frameVars, Quiet
  <2>2. UNCHANGED holder
    BY <1>1 DEF vars, mutexVars
  <2>3. \A u \in Tasks : SleepOK(u)' /\ LockOK(u)'
    BY <2>1, <2>2, QuietKeeps DEF WakeInv, HolderEffect
  <2>4. TopOK'
    <3>1. PICK t \in Tasks : t = current_task
      BY DEF TypeInv, CpuTypeOK
    <3>2. UNCHANGED <<phase, current_task, preempt_pending, locked_by>>
      BY <1>1 DEF vars, switchVars
    <3>3. Top(t) => Top(t)'
      BY <2>2, <3>2, Kept DEF Top, Priorities
    <3>4. QED
      BY <3>1, <3>2, <3>3 DEF WakeInv, TopOK
  <2>5. QED
    BY <2>3, <2>4 DEF WakeInv
<1>2. CASE \E t \in Tasks : TaskStep(t) \/ AppStep(t)
  BY <1>2, WakeTaskStep, WakeAppStep, StepKeeps
<1>3. CASE SchedStep \/ Interrupt
  BY <1>3, WakeCpuStep
<1>4. QED
  BY <1>1, <1>2, <1>3 DEF Next, Stopped

LEMMA WakeInit == Init => WakeInv
<1> SUFFICES ASSUME Init PROVE WakeInv
  OBVIOUS
<1>1. \A t \in Tasks : sched_runnable(t) /\ task_to_index[t] \in Nat
  BY EntriesDiffer DEF Init, SchedInit, sched_runnable
<1>2. \A t \in Tasks : pc[t] \notin LockLabels /\ pc[t] \notin MutexWaits
  BY DEF Init, LockLabels, MutexWaits
<1>3. Top(current_task)
  <2>1. \A u \in Tasks : Priorities(u) = {task_to_index[u]}
    BY NoneIsNone DEF Init, MutexInit, Priorities
  <2>2. 0 \in Tasks /\ current_task = 0 /\ \A u \in Tasks : u = 0 \/ 0 < u
    BY NAssumption DEF Init, Tasks
  <2>3. \A u \in Tasks : task_to_index[0] <= task_to_index[u]
    BY <1>1, <2>2, CeilingAssumption
  <2>4. QED
    BY <2>1, <2>2, <2>3 DEF Top
<1>4. QED
  BY <1>1, <1>2, <1>3 DEF WakeInv, SleepOK, LockOK, TopOK

\* The three invariants of Phact hold together.
LEMMA Invariants == Spec => [](TypeInv /\ FlagsOK /\ WakeInv)
  BY TypeInit, TypeNext, FlagsInit, FlagsNext, WakeInit, WakeNext, PTL DEF Spec

\* The priority ceiling protocol: application code runs only in a task of the
\* highest effective priority of all tasks that are not asleep, whatever
\* signals, ticks, events, locks and unlocks came between.
THEOREM CeilingCorrect == Spec => []CeilingProtocol
<1>1. TypeInv /\ FlagsOK /\ WakeInv => CeilingProtocol
  <2> SUFFICES ASSUME TypeInv, FlagsOK, WakeInv, phase = "task", pc[current_task] = "app"
               PROVE  \A u \in {v \in Tasks : ~Asleep(v)} : \A p \in Priorities(u) :
                          \E c \in Priorities(current_task) : c <= p
    BY DEF CeilingProtocol
  <2>1. ~preempt_pending
    BY DEF FlagsOK, Preemptible
  <2>2. \A u \in Tasks : ~Asleep(u) => sched_runnable(u)
    BY DEF WakeInv, SleepOK
  <2>3. QED
    BY <2>1, <2>2 DEF WakeInv, TopOK, Top
<1>2. QED
  BY <1>1, Invariants, PTL

\* No task misses the release of the mutex it sleeps for: it is registered as
\* a waiter, and another task holds the mutex.
THEOREM WaitersRegistered == Spec => []MutexWaitersRegistered
<1>1. TypeInv /\ WakeInv => MutexWaitersRegistered
  BY DEF WakeInv, LockOK, LockLabels, MutexWaitersRegistered
<1>2. QED
  BY <1>1, Invariants, PTL

\* A task that the scheduler returns although it is blocked does nothing but
\* block again: only a task that sleeps is off the scheduler's table.
THEOREM BlockedOnlyWaits == Spec => []BlockedTaskOnlyWaits
<1>1. TypeInv /\ WakeInv => BlockedTaskOnlyWaits
  BY DEF TypeInv, CpuTypeOK, WakeInv, SleepOK, BlockedTaskOnlyWaits
<1>2. QED
  BY <1>1, Invariants, PTL

-----------------------------------------------------------------------------
(* The event word. *)

(***************************************************************************)
(* The inductive invariant of the events: the copy is empty unless it is   *)
(* being processed, a raised event is in the word or in the copy, and      *)
(* between the load and the store that clear an event, one that is raised  *)
(* is in what will be stored or in the copy.                               *)
(***************************************************************************)
EventsOK ==
    /\ phase \notin {"load", "store"} => tmp = {}
    /\ raised \subseteq interrupt_event \cup tmp
    /\ phase = "store" => raised \subseteq loaded \cup tmp

\* A handler raises an event between the load and the store of a clear.
RaisesDuringClear ==
    phase = "store" /\ \E e \in Events, preempt \in BOOLEAN : interrupt_event_raise(e, preempt)

\* The scheduler and the handlers keep the events, unless one of several is
\* raised during the clear of another.
LEMMA EventsCpuStep ==
  ASSUME TypeInv, FlagsOK, EventsOK, SchedStep \/ Interrupt, NumEvents <= 1 \/ ~RaisesDuringClear
  PROVE  EventsOK'
<1>1. CASE interrupt_event_process
  <2>1. CASE event_copy
    BY <2>1 DEF event_copy, EventsOK
  <2>2. CASE event_load
    BY <2>2 DEF event_load, EventsOK
  <2>3. CASE event_store
    BY <2>3 DEF event_store, event_handle, EventsOK
  <2>4. QED
    BY <1>1, <2>1, <2>2, <2>3 DEF interrupt_event_process, event_process
<1>2. CASE timer_tick_process
  BY <1>2 DEF timer_tick_process, eventVars, EventsOK
<1>3. CASE sched_pick
  BY <1>3 DEF sched_pick, switch_to, SchedPickFrame, eventVars, EventsOK
<1>h. ASSUME NEW preempt \in BOOLEAN, HandlerReturns(preempt)
      PROVE  /\ UNCHANGED <<tmp, loaded>>
             /\ phase \in {"load", "store"} => phase' = phase
             /\ phase' \in {"load", "store"} => phase' = phase
  <2>1. phase \in {"load", "store"} => preempt_disabled
    BY DEF FlagsOK
  <2>2. QED
    BY <1>h, <2>1 DEF HandlerReturns, yield_common, switchVars
<1>4. ASSUME NEW preempt \in BOOLEAN, timer_tick(preempt)
      PROVE  EventsOK'
  BY <1>4, <1>h DEF timer_tick, EventsOK
<1>5. ASSUME NEW e \in Events, NEW preempt \in BOOLEAN, interrupt_event_raise(e, preempt)
      PROVE  EventsOK'
  <2>1. interrupt_event' = interrupt_event \cup {e} /\ raised' = raised \cup {e} /\ HandlerReturns(preempt)
    BY <1>5 DEF interrupt_event_raise
  <2>2. CASE phase # "store"
    BY <1>h, <2>1, <2>2 DEF EventsOK
  <2>3. CASE phase = "store"
    <3>1. NumEvents <= 1
      BY <1>5, <2>3 DEF RaisesDuringClear
    <3>2. \A i \in Events : i = e
      BY <3>1, EventAssumption DEF Events
    <3>3. tmp # {} /\ tmp \subseteq Events
      BY <2>3 DEF TypeInv, CopyTypeOK
    <3>4. e \in tmp
      BY <3>2, <3>3
    <3>5. QED
      BY <1>h, <2>1, <2>3, <3>4 DEF EventsOK
  <2>4. QED
    BY <2>2, <2>3
<1>6. QED
  BY <1>1, <1>2, <1>3, <1>4, <1>5, PhactAssumption DEF SchedStep, Interrupt

\* The tasks leave the events alone.
LEMMA TasksRaiseNothing ==
  ASSUME NEW t \in Tasks, TaskStep(t) \/ AppStep(t)
  PROVE  UNCHANGED eventVars
<1>1. CASE TaskStep(t)
  BY <1>1 DEF TaskStep, Entry, preempt_enable, WaitAgain, WaitEnd, signal_wait_return, PreemptDisable,
     mutex_lock_loop, mutex_lock_timeout_loop
<1>2. CASE AppStep(t)
  BY <1>2 DEF AppStep, mutex_lock, mutex_lock_timeout, mutex_unlock, mutex_try_lock, signal_wait_set_call,
     signal_poll_set, signal_send, sleep, Fatal
<1>3. QED
  BY <1>1, <1>2

LEMMA EventsNext ==
  ASSUME TypeInv, FlagsOK, EventsOK, [Next]_vars, NumEvents <= 1 \/ ~RaisesDuringClear \/ UNCHANGED vars
  PROVE  EventsOK'
<1>1. CASE UNCHANGED vars
  BY <1>1 DEF vars, eventVars, switchVars, EventsOK
<1>2. ASSUME NEW t \in Tasks, TaskStep(t) \/ AppStep(t)
      PROVE  EventsOK'
  <2>1. Flow(t)
    BY <1>2, FlagsTaskStep, FlagsAppStep
  <2>2. phase = "task" /\ phase' \notin {"load", "store"}
    BY <2>1 DEF Flow, EntersScheduler, switchVars
  <2>3. QED
    BY <1>2, <2>2, TasksRaiseNothing DEF eventVars, EventsOK
<1>3. CASE SchedStep \/ Interrupt
  BY <1>1, <1>3, EventsCpuStep
<1>4. QED
  BY <1>1, <1>2, <1>3 DEF Next, Stopped

LEMMA EventsInit == Init => EventsOK
  BY DEF Init, EventsOK

\* No event is lost on a system with a single interrupt event, whatever its
\* handler interrupts: at worst an event that is raised during its own clear
\* is handled with the one before.
THEOREM SingleEventIsKept == NumEvents <= 1 => (Spec => []RaisedEventIsKept)
<1> SUFFICES ASSUME NumEvents <= 1 PROVE Spec => []RaisedEventIsKept
  OBVIOUS
<1>1. EventsOK => RaisedEventIsKept
  BY DEF EventsOK, RaisedEventIsKept
<1>2. TypeInv /\ FlagsOK /\ EventsOK /\ [Next]_vars => EventsOK'
  BY EventsNext
<1>3. QED
  BY <1>1, <1>2, EventsInit, Invariants, PTL DEF Spec

\* With any number of events, none is lost in a run in which no handler
\* raises an event between the load and the store that clear another one:
\* these two instructions are all that has to be protected.
THEOREM EventsAreKept == Spec /\ [][~RaisesDuringClear]_vars => []RaisedEventIsKept
<1>1. EventsOK => RaisedEventIsKept
  BY DEF EventsOK, RaisedEventIsKept
<1>2. TypeInv /\ FlagsOK /\ EventsOK /\ [Next]_vars /\ [~RaisesDuringClear]_vars => EventsOK'
  BY EventsNext
<1>3. QED
  BY <1>1, <1>2, EventsInit, Invariants, PTL DEF Spec

-----------------------------------------------------------------------------
(* Ceilings and blocking. *)

Holds(t) == \E m \in Mutexes : holder[m] = t

\* Task t itself comes before task u and all that u holds.
Outranks(t, u) == \A p \in Priorities(u) : task_to_index[t] < p

\* The task that runs has the highest effective priority, even with a
\* preemption pending, as long as it does not come to its preempt_enable.
StaysTop == (phase = "task" /\ pc[current_task] # "enable") => Top(current_task)

(***************************************************************************)
(* The inductive invariant of tasks that sleep only without a mutex.  Of   *)
(* two tasks that hold mutexes one has preempted the other, and came       *)
(* before it and all that it held then: its own priority, without that of  *)
(* its mutexes, outranks the other one.                                    *)
(***************************************************************************)
CeilingInv ==
    /\ StaysTop
    /\ \A t \in Tasks : pc[t] \notin MutexWaits
    /\ \A t \in Tasks : pc[t] \in LockLabels => obj[t] \in TaskMutexes[t]
    /\ \A t \in Tasks, m \in Mutexes : holder[m] = t => m \in TaskMutexes[t]
    /\ \A t, u \in Tasks : (t # u /\ Holds(t) /\ Holds(u)) => Outranks(t, u) \/ Outranks(u, t)

LEMMA PrioritiesTyped ==
  ASSUME NEW t \in Tasks
  PROVE  Priorities(t) \subseteq Nat /\ task_to_index[t] \in Priorities(t) /\ task_to_index[t] \in Nat
  BY EntriesDiffer DEF Priorities

\* A task that holds a mutex can run, because it sleeps neither in a lock nor
\* anywhere else.
LEMMA HoldersRunnable ==
  ASSUME WakeInv, CeilingInv, SleepersHoldNothing, NEW u \in Tasks, Holds(u)
  PROVE  sched_runnable(u)
<1>1. ~Asleep(u)
  BY DEF SleepersHoldNothing, Asleep, Waits, TimerWaits, CeilingInv, Holds
<1>2. QED
  BY <1>1, AwakeIsRunnable

\* The point of the ceilings: when a task runs, the mutexes that it may lock
\* are free or its own.
LEMMA RunnerFindsFree ==
  ASSUME TypeInv, WakeInv, CeilingInv, SleepersHoldNothing, NEW t \in Tasks, Top(t),
         NEW m \in TaskMutexes[t], holder[m] # t
  PROVE  holder[m] = TASK_ID_NONE
<1> SUFFICES ASSUME NEW u \in Tasks, holder[m] = u PROVE FALSE
  BY PhactAssumption DEF TypeInv, MutexTypeOK, TaskIdOption
<1>1. m \in Mutexes /\ mutex_to_index[m] \in Nat /\ mutex_to_index[m] < task_to_index[t]
  BY PhactAssumption, EntriesDiffer
<1>2. Holds(u) /\ u # t /\ mutex_to_index[m] \in Priorities(u)
  BY <1>1 DEF Holds, Priorities
<1>3. PICK c \in Priorities(t) : c <= mutex_to_index[m]
  BY <1>2, HoldersRunnable DEF Top
<1>4. Holds(t)
  BY <1>1, <1>3, PrioritiesTyped DEF Priorities, Holds
<1>5. mutex_to_index[m] < task_to_index[u]
  BY <1>1, PhactAssumption DEF CeilingInv
<1>6. ~Outranks(t, u)
  BY <1>1, <1>2, PrioritiesTyped DEF Outranks
<1>7. ~Outranks(u, t)
  BY <1>1, <1>3, <1>5, PrioritiesTyped DEF Outranks
<1>8. QED
  BY <1>2, <1>4, <1>6, <1>7 DEF CeilingInv

\* A task that runs and takes a mutex outranks every other holder, or had been
\* preempted by none of them.
LEMMA TakingKeepsRanks ==
  ASSUME TypeInv, WakeInv, CeilingInv, SleepersHoldNothing, NEW t \in Tasks, Top(t),
         NEW m \in Mutexes, Takes(t, m), NEW u \in Tasks, u # t, Holds(u)'
  PROVE  Outranks(t, u)'
<1>1. Holds(u)
  BY NoneIsNone DEF Holds, Takes
<1>2. Priorities(u)' = Priorities(u)
  BY NoneIsNone DEF Priorities, Takes
<1>3. \A p \in Priorities(u) : \E c \in Priorities(t) : c <= p
  BY <1>1, HoldersRunnable DEF Top
<1>4. task_to_index[t] \notin Priorities(u)
  BY EntriesDiffer DEF Priorities
<1>5. CASE Holds(t)
  <2>1. ~Outranks(u, t)
    BY <1>3, PrioritiesTyped DEF Outranks
  <2>2. Outranks(t, u)
    BY <1>1, <1>5, <2>1 DEF CeilingInv
  <2>3. QED
    BY <1>2, <2>2 DEF Outranks
<1>6. CASE ~Holds(t)
  <2>1. Priorities(t) = {task_to_index[t]}
    BY <1>6 DEF Holds, Priorities
  <2>2. QED
    BY <1>2, <1>3, <1>4, <2>1, PrioritiesTyped DEF Outranks
<1>7. QED
  BY <1>5, <1>6

\* Releasing a mutex lowers a priority, and disturbs no order of two others.
LEMMA RanksKept ==
  ASSUME CeilingInv, NEW t \in Tasks, NEW u \in Tasks, t # u, Holds(t)', Holds(u)',
         \A v \in {t, u}, n \in Mutexes : holder'[n] = v => holder[n] = v
  PROVE  Outranks(t, u)' \/ Outranks(u, t)'
<1>1. Holds(t) /\ Holds(u)
  BY DEF Holds
<1>2. Priorities(t)' \subseteq Priorities(t) /\ Priorities(u)' \subseteq Priorities(u)
  BY DEF Priorities
<1>3. QED
  BY <1>1, <1>2 DEF CeilingInv, Outranks

\* What a step of t does to its call on a mutex and to the holders.
LockStep(t) ==
    /\ pc'[t] \in LockLabels => obj'[t] \in TaskMutexes[t]
    /\ pc'[t] \in MutexWaits => pc[t] \in MutexWaits \/
            (pc[t] \in {"lock", "lock_timeout"} /\ holder[obj[t]] # TASK_ID_NONE)
    /\ \/ UNCHANGED holder
       \/ pc[t] # "enable" /\ \E m \in TaskMutexes[t] : Takes(t, m)
       \/ \E m \in Mutexes : holder' = [holder EXCEPT ![m] = TASK_ID_NONE]
    /\ (phase' = "task" /\ pc'[t] # "enable") =>
            /\ UNCHANGED <<locked_by, holder, current_task>>
            /\ pc[t] # "enable" \/ ~preempt_pending

LEMMA TaskLockStep ==
  ASSUME TypeInv, CeilingInv, NEW t \in Tasks, TaskStep(t)
  PROVE  LockStep(t)
<1>t. /\ pc \in [Tasks -> Labels] /\ DOMAIN pc = Tasks /\ DOMAIN obj = Tasks
      /\ pc[t] \in LockLabels => obj[t] \in TaskMutexes[t]
      /\ TaskMutexes[t] \subseteq Mutexes
      /\ holder \in [Mutexes -> TaskIdOption]
  BY PhactAssumption DEF TypeInv, FrameTypeOK, MutexTypeOK, CeilingInv
<1>g. \A label, m, a : Frame(t, label, m, a) => pc'[t] = label /\ obj'[t] = m
  BY <1>t DEF Frame
<1>l. /\ MutexWaits = {"lock_wait", "lock_timeout_wait"}
      /\ LockLabels = {"lock_wait", "lock_timeout_wait", "lock", "lock_timeout_call", "lock_timeout"}
      /\ {"entry", "app", "lock", "lock_timeout_call", "lock_timeout", "enable"} \cap Waits = {}
  BY DEF MutexWaits, LockLabels, Waits, TimerWaits
<1>f. Finish(t) => pc'[t] = "enable"
  BY <1>g DEF Finish
<1>a. ASSUME NEW m \in TaskMutexes[t], mutex_acquire(t, m)
      PROVE  Takes(t, m)
  BY <1>a, <1>t DEF mutex_acquire, mutex_take, MutexFree, Takes
<1>y. (\A disabled : yield_common(disabled) => phase' = "events") /\ (block(t) => phase' = "events")
      /\ (\A requested : signal_wait_set(t, requested) => phase' = "events")
      /\ (\A timeout : timed_wait(t, timeout) => phase' = "events")
  BY DEF yield_common, block, signal_wait_set, timed_wait
<1>1. CASE Entry(t)
  BY <1>1, <1>f, <1>l DEF Entry, mutexVars, LockStep
<1>2. CASE preempt_enable(t)
  BY <1>2, <1>g, <1>l, <1>y DEF preempt_enable, mutexVars, switchVars, LockStep
<1>3. CASE WaitAgain(t)
  BY <1>3, <1>t, <1>y DEF WaitAgain, mutexVars, frameVars, LockStep
<1>4. CASE WaitEnd(t)
  <2>1. pc[t] # "enable"
    BY <1>4, <1>l DEF WaitEnd, signal_wait_return
  <2>2. CASE Finish(t)
    BY <1>4, <1>f, <1>l, <2>2 DEF WaitEnd, signal_wait_return, mutexVars, LockStep
  <2>3. CASE AfterWait[pc[t]] # "enable" /\ Frame(t, AfterWait[pc[t]], obj[t], arg[t])
    <3>1. pc[t] \in MutexWaits /\ AfterWait[pc[t]] \in {"lock", "lock_timeout"}
      BY <1>4, <2>3 DEF WaitEnd, signal_wait_return, Waits, TimerWaits, MutexWaits, AfterWait
    <3>2. QED
      BY <1>4, <1>g, <1>l, <1>t, <2>1, <2>3, <3>1
      DEF WaitEnd, signal_wait_return, mutexVars, switchVars, LockStep
  <2>4. QED
    BY <1>4, <2>2, <2>3 DEF WaitEnd, signal_wait_return
<1>5. CASE PreemptDisable(t)
  BY <1>5, <1>l, <1>t DEF PreemptDisable, Running, mutexVars, switchVars, LockStep
<1>6. CASE mutex_lock_loop(t)
  <2>1. pc[t] = "lock" /\ obj[t] \in TaskMutexes[t]
    BY <1>6, <1>l, <1>t DEF mutex_lock_loop, Running
  <2>2. CASE mutex_acquire(t, obj[t]) /\ Finish(t)
    BY <1>a, <1>f, <1>l, <2>1, <2>2 DEF LockStep
  <2>3. CASE /\ mutex_wait(obj[t], t) /\ Frame(t, "lock_wait", obj[t], 0)
             /\ signal_wait_set(t, {TASK_TIMER})
    BY <1>g, <1>l, <1>y, <2>1, <2>3 DEF mutex_wait, MutexFree, LockStep
  <2>4. QED
    BY <1>6, <2>2, <2>3 DEF mutex_lock_loop
<1>7. CASE mutex_lock_timeout_loop(t)
  <2>1. pc[t] = "lock_timeout" /\ obj[t] \in TaskMutexes[t]
    BY <1>7, <1>l, <1>t DEF mutex_lock_timeout_loop, Running
  <2>2. CASE mutex_acquire(t, obj[t]) /\ Finish(t)
    BY <1>a, <1>f, <1>l, <2>1, <2>2 DEF LockStep
  <2>3. CASE /\ mutex_wait(obj[t], t) /\ Frame(t, "lock_timeout_wait", obj[t], arg[t])
             /\ timed_wait(t, Remaining(t))
    BY <1>g, <1>l, <1>y, <2>1, <2>3 DEF mutex_wait, MutexFree, LockStep
  <2>4. CASE Finish(t) /\ UNCHANGED mutexVars
    BY <1>f, <1>l, <2>4 DEF mutexVars, LockStep
  <2>5. QED
    BY <1>7, <2>2, <2>3, <2>4 DEF mutex_lock_timeout_loop
<1>8. QED
  BY <1>1, <1>2, <1>3, <1>4, <1>5, <1>6, <1>7 DEF TaskStep

LEMMA AppLockStep ==
  ASSUME TypeInv, NEW t \in Tasks, AppStep(t)
  PROVE  LockStep(t)
<1>t. /\ pc \in [Tasks -> Labels] /\ DOMAIN pc = Tasks /\ DOMAIN obj = Tasks
      /\ TaskMutexes[t] \subseteq Mutexes
      /\ holder \in [Mutexes -> TaskIdOption]
  BY PhactAssumption DEF TypeInv, FrameTypeOK, MutexTypeOK
<1>g. \A label, m, a : Frame(t, label, m, a) => pc'[t] = label /\ obj'[t] = m
  BY <1>t DEF Frame
<1>l. /\ {"app", "enable", "lock", "lock_timeout_call", "signal_wait", "sleep_wait"} \cap MutexWaits = {}
      /\ {"app", "enable", "signal_wait", "sleep_wait"} \cap LockLabels = {}
  BY DEF MutexWaits, LockLabels
<1>f. Finish(t) => pc'[t] = "enable"
  BY <1>g DEF Finish
<1>r. pc[t] = "app"
  BY DEF AppStep, mutex_lock, mutex_lock_timeout, mutex_unlock, mutex_try_lock, signal_wait_set_call,
     signal_poll_set, signal_send, sleep, Disabling, Calling, Running
<1>y. (\A requested : signal_wait_set(t, requested) => phase' = "events")
      /\ (\A timeout : timed_wait(t, timeout) => phase' = "events")
  BY DEF yield_common, block, signal_wait_set, timed_wait
<1>e. Fatal => LockStep(t)
  BY <1>l, <1>r DEF Fatal, mutexVars, frameVars, LockStep
<1>1. CASE mutex_lock(t)
  BY <1>1, <1>e, <1>g, <1>l, <1>r DEF mutex_lock, mutexVars, switchVars, LockStep
<1>2. CASE mutex_lock_timeout(t)
  BY <1>2, <1>e, <1>g, <1>l, <1>r DEF mutex_lock_timeout, mutexVars, switchVars, LockStep
<1>3. CASE mutex_unlock(t)
  BY <1>3, <1>e, <1>f, <1>l, <1>t DEF mutex_unlock, mutex_release, LockStep
<1>4. CASE mutex_try_lock(t)
  <2>1. PICK m \in TaskMutexes[t] : mutex_acquire(t, m) \/ UNCHANGED mutexVars
    BY <1>4 DEF mutex_try_lock, mutexVars
  <2>2. mutex_acquire(t, m) => Takes(t, m)
    BY <1>t DEF mutex_acquire, mutex_take, MutexFree, Takes
  <2>3. QED
    BY <1>4, <1>f, <1>l, <1>r, <2>1, <2>2 DEF mutex_try_lock, mutexVars, LockStep
<1>5. CASE signal_wait_set_call(t)
  BY <1>5, <1>g, <1>l, <1>y DEF signal_wait_set_call, mutexVars, LockStep
<1>6. CASE signal_poll_set(t) \/ signal_send(t)
  BY <1>6, <1>f, <1>l DEF signal_poll_set, signal_send, mutexVars, LockStep
<1>7. CASE sleep(t)
  BY <1>7, <1>g, <1>l, <1>y DEF sleep, mutexVars, LockStep
<1>8. QED
  BY <1>1, <1>2, <1>3, <1>4, <1>5, <1>6, <1>7 DEF AppStep

\* A step of the running task keeps the invariant of the ceilings.
LEMMA CeilingTaskStep ==
  ASSUME TypeInv, WakeInv, CeilingInv, SleepersHoldNothing, NEW t \in Tasks, TaskStep(t) \/ AppStep(t)
  PROVE  CeilingInv'
<1>1. LockStep(t) /\ StepEffect(t)
  BY TaskLockStep, AppLockStep, WakeTaskStep, WakeAppStep
<1>2. phase = "task" /\ t = current_task /\ \A u \in Tasks \ {t} : pc'[u] = pc[u] /\ obj'[u] = obj[u]
  BY <1>1 DEF StepEffect, Quiet
<1>3. pc[t] # "enable" \/ ~preempt_pending => Top(t)
  BY <1>2 DEF CeilingInv, StaysTop, WakeInv, TopOK
<1>4. StaysTop'
  <2> SUFFICES ASSUME phase' = "task", pc'[current_task'] # "enable" PROVE Top(current_task)'
    BY DEF StaysTop
  <2>1. CASE current_task' = t
    <3>1. UNCHANGED <<locked_by, holder>> /\ Top(t)
      BY <1>1, <1>3, <2>1 DEF LockStep
    <3>2. Top(t)'
      BY <3>1, Kept DEF Top, Priorities
    <3>3. QED
      BY <2>1, <3>2
  <2>2. CASE current_task' # t
    <3>1. pc'[t] = "enable"
      BY <1>1, <1>2, <2>2 DEF LockStep
    <3>2. switchVars' = switchVars \/ phase' = "events" \/ phase' = "fatal"
      BY <1>2 DEF TaskStep, AppStep, Entry, preempt_enable, WaitAgain, WaitEnd, signal_wait_return, PreemptDisable,
         mutex_lock_loop, mutex_lock_timeout_loop, mutex_lock, mutex_lock_timeout, mutex_unlock, mutex_try_lock,
         signal_wait_set_call, signal_poll_set, signal_send, sleep, Fatal, yield_common, block, signal_wait_set,
         timed_wait
    <3>3. QED
      BY <1>2, <2>2, <3>2 DEF switchVars
  <2>3. QED
    BY <2>1, <2>2
<1>5. \A u \in Tasks : pc'[u] \notin MutexWaits
  <2>1. CASE pc'[t] \in MutexWaits
    <3>1. pc[t] \in {"lock", "lock_timeout"} /\ holder[obj[t]] # TASK_ID_NONE
      BY <1>1, <2>1 DEF LockStep, CeilingInv
    <3>2. obj[t] \in TaskMutexes[t] /\ holder[obj[t]] # t
      BY <3>1 DEF CeilingInv, WakeInv, LockOK, LockLabels
    <3>3. QED
      BY <1>3, <3>1, <3>2, RunnerFindsFree
  <2>2. QED
    BY <1>2, <2>1 DEF CeilingInv
<1>6. \A u \in Tasks : pc'[u] \in LockLabels => obj'[u] \in TaskMutexes[u]
  BY <1>1, <1>2 DEF LockStep, CeilingInv
<1>7. CASE UNCHANGED holder \/ \E m \in Mutexes : holder' = [holder EXCEPT ![m] = TASK_ID_NONE]
  <2>1. \A u \in Tasks, n \in Mutexes : holder'[n] = u => holder[n] = u
    BY <1>7, NoneIsNone DEF TypeInv, MutexTypeOK
  <2>2. \A u \in Tasks, n \in Mutexes : holder'[n] = u => n \in TaskMutexes[u]
    BY <2>1 DEF CeilingInv
  <2>3. \A u, v \in Tasks : (u # v /\ Holds(u)' /\ Holds(v)') => Outranks(u, v)' \/ Outranks(v, u)'
    BY <2>1, RanksKept
  <2>4. QED
    BY <1>4, <1>5, <1>6, <2>2, <2>3 DEF CeilingInv
<1>8. CASE pc[t] # "enable" /\ \E m \in TaskMutexes[t] : Takes(t, m)
  <2>1. PICK m \in TaskMutexes[t] : Takes(t, m)
    BY <1>8
  <2>2. m \in Mutexes
    BY PhactAssumption
  <2>3. \A u \in Tasks, n \in Mutexes : holder'[n] = u => n \in TaskMutexes[u]
    BY <2>1 DEF CeilingInv, Takes
  <2>4. \A u \in Tasks \ {t} : Holds(u)' => Outranks(t, u)'
    BY <1>3, <1>8, <2>1, <2>2, TakingKeepsRanks
  <2>5. \A u \in Tasks \ {t}, n \in Mutexes : holder'[n] = u => holder[n] = u
    BY <2>1 DEF Takes
  <2>6. \A u, v \in Tasks \ {t} : (u # v /\ Holds(u)' /\ Holds(v)') => Outranks(u, v)' \/ Outranks(v, u)'
    BY <2>5, RanksKept
  <2>7. \A u, v \in Tasks : (u # v /\ Holds(u)' /\ Holds(v)') => Outranks(u, v)' \/ Outranks(v, u)'
    BY <2>4, <2>6
  <2>8. QED
    BY <1>4, <1>5, <1>6, <2>3, <2>7 DEF CeilingInv
<1>9. QED
  BY <1>1, <1>7, <1>8 DEF LockStep

\* The scheduler and the handlers keep it.
LEMMA CeilingCpuStep ==
  ASSUME TypeInv, CeilingInv, SchedStep \/ Interrupt
  PROVE  CeilingInv'
<1>1. UNCHANGED <<holder, pc, obj>>
  BY CpuStepSends DEF mutexVars, frameVars
<1>2. \A u \in Tasks : Priorities(u)' = Priorities(u) /\ Holds(u)' = Holds(u)
  BY <1>1 DEF Priorities, Holds
<1>q. ASSUME NEW t \in Tasks, Top(t), UNCHANGED locked_by
      PROVE  Top(t)'
  BY <1>1, <1>2, <1>q, Kept DEF Top
<1>3. StaysTop'
  <2>1. ASSUME Scheduling PROVE StaysTop'
    BY <2>1 DEF Scheduling, StaysTop
  <2>2. ASSUME switch_to(sched_get_next), SchedPickFrame PROVE StaysTop'
    <3>1. PICK to \in Tasks : to = sched_get_next /\ Top(to)
      BY IsTable, NextIsTop
    <3>2. current_task' = to /\ Top(to)'
      BY <1>q, <2>2, <3>1 DEF switch_to, SchedPickFrame
    <3>3. QED
      BY <3>2 DEF StaysTop
  <2>3. ASSUME NEW preempt \in BOOLEAN, HandlerReturns(preempt) PROVE StaysTop'
    <3>1. CASE yield_common(FALSE)
      BY <3>1 DEF yield_common, StaysTop
    <3>2. CASE UNCHANGED switchVars
      <4>1. PICK t \in Tasks : t = current_task
        BY DEF TypeInv, CpuTypeOK
      <4>2. UNCHANGED <<phase, current_task, locked_by>>
        BY <2>3, <3>2 DEF HandlerReturns, switchVars
      <4>3. (phase = "task" /\ pc[t] # "enable") => Top(t)'
        BY <1>q, <4>1, <4>2 DEF CeilingInv, StaysTop
      <4>4. QED
        BY <1>1, <4>1, <4>2, <4>3 DEF StaysTop
    <3>3. QED
      BY <2>3, <3>1, <3>2 DEF HandlerReturns
  <2>4. QED
    BY <2>1, <2>2, <2>3, SchedSteps, PhactAssumption DEF Interrupt, timer_tick, interrupt_event_raise
<1>4. QED
  BY <1>1, <1>2, <1>3 DEF CeilingInv, Outranks

LEMMA CeilingNext ==
  ASSUME TypeInv, WakeInv, CeilingInv, SleepersHoldNothing, [Next]_vars
  PROVE  CeilingInv'
<1>1. CASE UNCHANGED vars
  <2>1. UNCHANGED <<locked_by, holder, pc, obj, phase, current_task>>
    BY <1>1 DEF vars, mutexVars, frameVars, switchVars
  <2>2. QED
    BY <2>1 DEF CeilingInv, StaysTop, Top, sched_runnable, Priorities, Holds, Outranks
<1>2. QED
  BY <1>1, CeilingTaskStep, CeilingCpuStep DEF Next, Stopped

LEMMA CeilingInit == Init => CeilingInv
<1> SUFFICES ASSUME Init PROVE CeilingInv
  OBVIOUS
<1>1. Top(current_task)
  BY WakeInit DEF Init, WakeInv, TopOK
<1>2. \A t \in Tasks : pc[t] \notin MutexWaits /\ pc[t] \notin LockLabels
  BY DEF Init, MutexWaits, LockLabels
<1>3. \A t \in Tasks, m \in Mutexes : holder[m] # t
  BY NoneIsNone DEF Init, MutexInit
<1>4. QED
  BY <1>1, <1>2, <1>3 DEF CeilingInv, StaysTop, Holds

\* Ceilings do what they are for: in a run in which no task sleeps while it
\* holds a mutex, no task ever waits for a mutex in mutex_lock or
\* mutex_lock_timeout, so tasks cannot wait for each other.
THEOREM CeilingsAvoidBlocking == Spec => CeilingAvoidsBlocking
<1> DEFINE H == SleepersHoldNothing
           NoWait == \A t \in Tasks : pc[t] \notin MutexWaits
<1>1. CeilingInv => NoWait
  BY DEF CeilingInv
<1>2. TypeInv /\ WakeInv /\ CeilingInv /\ H /\ [Next]_vars => CeilingInv'
  BY CeilingNext
<1>3. CeilingAvoidsBlocking <=> ([]H => []NoWait)
  BY DEF CeilingAvoidsBlocking
<1> HIDE DEF H, NoWait
<1>4. QED
  BY <1>1, <1>2, <1>3, CeilingInit, Invariants, PTL DEF Spec
-----------------------------------------------------------------------------
(* The task timers of the sleeps and of mutex_lock_timeout. *)

TimedWaits == {"lock_timeout_wait", "sleep_wait"}

\* The timer of task u signals u and nobody else.
OwnTimer(u) == timers[u].task_id = u /\ timers[u].signal_set = {TASK_TIMER}

\* The absolute timeout that a call keeps is the true one, and the counter has
\* either not reached it, or passed it, or left it behind by a wrap.
ClockOK(u) == pc[u] \in TimedLabels => OnClock(u, arg[u])

(***************************************************************************)
(* The inductive invariant of the timed waits, for one task: it waits for  *)
(* its timer's signal, and has been sent it or has its timer running until *)
(* its time is up.                                                         *)
(***************************************************************************)
ArmOK(u) ==
    /\ OwnTimer(u)
    /\ pc[u] \in TimedWaits =>
          /\ requested_signals[u] = {TASK_TIMER}
          /\ TASK_TIMER \in PENDING_SIGNALS[u] \/ ExpiresInTime(u)

ArmInv == TimeLeftTypeOK /\ \A u \in Tasks : ClockOK(u) /\ ArmOK(u)

\* A task's steps do not advance the ticks, and leave the timers and the
\* timeouts of the other tasks.
LEMMA TicksKept ==
  ASSUME TypeInv, TimeLeftTypeOK, NEW t \in Tasks, TaskStep(t) \/ AppStep(t)
  PROVE  /\ UNCHANGED timer_current_ticks
         /\ \A u \in Tasks \ {t} : arg'[u] = arg[u] /\ timers'[u] = timers[u] /\ time_left'[u] = time_left[u]
<1>1. UNCHANGED timer_current_ticks
  BY DEF TaskStep, Entry, preempt_enable, WaitAgain, WaitEnd, signal_wait_return, PreemptDisable, mutex_lock_loop,
     mutex_lock_timeout_loop, AppStep, mutex_lock, mutex_lock_timeout, mutex_unlock, mutex_try_lock,
     signal_wait_set_call, signal_poll_set, signal_send, sleep, Fatal, timerVars
<1>2. \/ \E label, m, a : Frame(t, label, m, a)
      \/ UNCHANGED arg
  BY DEF TaskStep, Entry, preempt_enable, WaitAgain, WaitEnd, signal_wait_return, PreemptDisable, mutex_lock_loop,
     mutex_lock_timeout_loop, AppStep, mutex_lock, mutex_lock_timeout, mutex_unlock, mutex_try_lock,
     signal_wait_set_call, signal_poll_set, signal_send, sleep, Fatal, Finish, frameVars
<1>3. \A u \in Tasks \ {t} : arg'[u] = arg[u]
  BY <1>2 DEF Frame, TypeInv, FrameTypeOK
<1>4. \/ UNCHANGED timers
      \/ \E tm : timers' = [timers EXCEPT ![task_timers(t)] = tm]
  BY DEF TaskStep, Entry, preempt_enable, WaitAgain, WaitEnd, signal_wait_return, PreemptDisable, mutex_lock_loop,
     mutex_lock_timeout_loop, AppStep, mutex_lock, mutex_lock_timeout, mutex_unlock, mutex_try_lock,
     signal_wait_set_call, signal_poll_set, signal_send, sleep, Fatal, timed_wait, timerVars
<1>5. \A u \in Tasks \ {t} : timers'[u] = timers[u]
  BY <1>4, TaskTimersOnly DEF TypeInv, TimerTypeOK
<1>6. \A u \in Tasks \ {t} : time_left'[u] = time_left[u]
  BY TimeLeftSteps DEF StartTimeout, EndTimeout, TimeLeftTypeOK
<1>7. QED
  BY <1>1, <1>3, <1>5, <1>6

\* A call computes its absolute timeout once and keeps it until it returns.
LEMMA ClockOwn ==
  ASSUME TypeInv, TimeLeftTypeOK, NEW t \in Tasks, ClockOK(t), TaskStep(t) \/ AppStep(t)
  PROVE  ClockOK(t)'
<1> SUFFICES ASSUME pc'[t] \in TimedLabels PROVE OnClock(t, arg[t])'
  BY DEF ClockOK
<1>p. UNCHANGED timer_current_ticks
  BY TicksKept
<1>k. ASSUME pc[t] \in TimedLabels, arg'[t] = arg[t], UNCHANGED time_left
      PROVE  OnClock(t, arg[t])'
  BY <1>k, <1>p DEF ClockOK, OnClock
<1>t. pc \in [Tasks -> Labels] /\ DOMAIN arg = Tasks
  BY DEF TypeInv, FrameTypeOK
<1>r. ~Finish(t)
  BY <1>t DEF Finish, Frame, TimedLabels
<1>1. CASE TaskStep(t)
  <2>1. CASE WaitAgain(t)
    BY <2>1, <1>k DEF WaitAgain, frameVars, timerVars
  <2>2. CASE WaitEnd(t)
    <3>1. /\ pc[t] \in Waits /\ pc'[t] = AfterWait[pc[t]] /\ arg'[t] = arg[t] /\ UNCHANGED time_left
      BY <2>2, <1>r, <1>t DEF WaitEnd, signal_wait_return, Frame
    <3>2. pc[t] \in TimedLabels
      BY <3>1 DEF Waits, TimerWaits, MutexWaits, AfterWait, TimedLabels
    <3>3. QED
      BY <3>1, <3>2, <1>k
  <2>3. CASE PreemptDisable(t)
    BY <2>3, <1>k DEF PreemptDisable, Running, TimedLabels, timerVars
  <2>4. CASE mutex_lock_timeout_loop(t)
    BY <2>4, <1>r, <1>k, <1>t DEF mutex_lock_timeout_loop, Running, Frame, TimedLabels
  <2>5. QED
    BY <1>1, <1>t, <1>r, <2>1, <2>2, <2>3, <2>4 DEF TaskStep, Entry, preempt_enable, mutex_lock_loop, Frame,
       TimedLabels
<1>2. CASE AppStep(t)
  <2>1. pc[t] = "app"
    BY <1>2 DEF AppStep, mutex_lock, mutex_lock_timeout, mutex_unlock, mutex_try_lock, signal_wait_set_call,
       signal_poll_set, signal_send, sleep, Disabling, Calling, Running
  <2>2. CASE mutex_lock_timeout(t)
    <3>1. PICK timeout \in Timeouts : /\ arg'[t] = (timer_current_ticks + timeout) % TicksAbsoluteMod
                                      /\ StartTimeout(t, timeout)
      BY <1>t, <2>1, <2>2 DEF mutex_lock_timeout, Fatal, frameVars, Frame, TimedLabels
    <3>2. timeout \in TicksRelative
      BY PhactAssumption
    <3>3. QED
      BY <3>1, <3>2, <1>p, ClockStarts DEF OnClock, TypeInv
  <2>3. QED
    BY <1>2, <1>r, <1>t, <2>1, <2>2 DEF AppStep, mutex_lock, mutex_unlock, mutex_try_lock, signal_wait_set_call,
       signal_poll_set, signal_send, sleep, Fatal, frameVars, Frame, TimedLabels
<1>3. QED
  BY <1>1, <1>2

\* timed_wait signals the task at once or starts its timer.
LEMMA TimedWaitStarts ==
  ASSUME TypeInv, NEW t \in Tasks, NEW timeout \in TicksRelative, timed_wait(t, timeout), OwnTimer(t)
  PROVE  /\ OwnTimer(t)' /\ requested_signals'[t] = {TASK_TIMER}
         /\ \/ TASK_TIMER \in PENDING_SIGNALS'[t]
            \/ timeout # 0 /\ timers'[t] = timer_start_oneshot(timers[t], timeout)
<1>1. /\ task_timers(t) = t /\ timers \in [Tasks -> TimerRecord] /\ timers[t] \in TimerRecord
      /\ 0 \in TicksRelative
  BY TaskTimersOnly, TimerAssumption DEF TypeInv, TimerTypeOK, TicksRelative
<1>2. requested_signals'[t] = {TASK_TIMER}
  BY DEF timed_wait, TypeInv, FrameTypeOK
<1>3. CASE timeout = 0
  <2> DEFINE tm == timer_process_one([timers[t] EXCEPT !.reload = 0], PENDING_SIGNALS[t])
             sends == [u \in {t} |-> {TASK_TIMER}]
  <2>1. timers' = [timers EXCEPT ![t] = tm] /\ signal_send_set({t}, sends) /\ sends[t] = {TASK_TIMER}
    BY <1>1, <1>3 DEF timed_wait
  <2>2. tm.task_id = timers[t].task_id /\ tm.signal_set = timers[t].signal_set
    <3> DEFINE r == [timers[t] EXCEPT !.reload = 0]
    <3>1. r \in TimerRecord /\ r.task_id = timers[t].task_id /\ r.signal_set = timers[t].signal_set
      BY <1>1 DEF TimerRecord
    <3> HIDE DEF r
    <3>2. LET p == timer_process_one(r, PENDING_SIGNALS[t])
          IN  p.task_id = r.task_id /\ p.signal_set = r.signal_set
      BY <3>1 DEF timer_process_one, TimerRecord
    <3>3. QED
      BY <3>1, <3>2 DEF r
  <2> HIDE DEF tm, sends
  <2>3. timers'[t] = tm
    BY <1>1, <2>1
  <2>4. TASK_TIMER \in PENDING_SIGNALS'[t]
    BY <2>1 DEF signal_send_set, signal_set_pending, TypeInv, SignalTypeOK
  <2>5. QED
    BY <1>2, <2>2, <2>3, <2>4 DEF OwnTimer
<1>4. CASE timeout # 0
  <2> DEFINE tm == timer_start_oneshot(timers[t], timeout)
  <2>1. timers' = [timers EXCEPT ![t] = tm]
    BY <1>1, <1>4 DEF timed_wait
  <2>2. tm.task_id = timers[t].task_id /\ tm.signal_set = timers[t].signal_set
    BY <1>1 DEF timer_start_oneshot, timer_start, TimerRecord
  <2> HIDE DEF tm
  <2>3. timers'[t] = tm
    BY <1>1, <2>1
  <2>4. QED
    BY <1>2, <1>4, <2>2, <2>3 DEF OwnTimer, tm
<1>5. QED
  BY <1>3, <1>4

\* The steps of a task, seen by the task itself.
LEMMA ArmOwn ==
  ASSUME TypeInv, TimeLeftTypeOK, NEW t \in Tasks, ClockOK(t), ArmOK(t), TaskStep(t) \/ AppStep(t)
  PROVE  ArmOK(t)'
<1>k. UNCHANGED timer_current_ticks
  BY TicksKept
<1>t. /\ task_timers(t) = t /\ timers \in [Tasks -> TimerRecord] /\ timers[t] \in TimerRecord
      /\ DOMAIN pc = Tasks /\ DOMAIN arg = Tasks
  BY TaskTimersOnly DEF TypeInv, TimerTypeOK, FrameTypeOK
<1>g. \A label, m, a : Frame(t, label, m, a) => pc'[t] = label /\ arg'[t] = a
  BY <1>t DEF Frame
<1>n. ASSUME OwnTimer(t)',
             pc'[t] \in {"entry", "app", "lock", "lock_timeout_call", "lock_timeout", "enable", "lock_wait",
                         "signal_wait"}
      PROVE  ArmOK(t)'
  BY <1>n DEF ArmOK, TimedWaits
<1>o. UNCHANGED timers => OwnTimer(t)'
  BY DEF ArmOK, OwnTimer
<1>f. ASSUME Finish(t), UNCHANGED timers PROVE ArmOK(t)'
  BY <1>f, <1>g, <1>n, <1>o DEF Finish
<1>1. CASE TaskStep(t)
  <2>1. CASE Entry(t)
    BY <1>f, <2>1 DEF Entry, timerVars
  <2>2. CASE preempt_enable(t)
    BY <1>g, <1>n, <1>o, <2>2 DEF preempt_enable, timerVars
  <2>3. CASE WaitAgain(t)
    BY <2>3 DEF WaitAgain, frameVars, timerVars, ArmOK, OwnTimer, ExpiresInTime
  <2>4. CASE WaitEnd(t)
    <3>1. OwnTimer(t)'
      <4>1. \/ timers' = [timers EXCEPT ![t].enabled = FALSE]
            \/ UNCHANGED timers
        BY <1>t, <2>4 DEF WaitEnd, signal_wait_return
      <4>2. QED
        BY <1>o, <1>t, <4>1 DEF ArmOK, OwnTimer, TimerRecord
    <3>2. pc'[t] \in {"enable", "lock", "lock_timeout"}
      BY <1>g, <2>4 DEF WaitEnd, signal_wait_return, Finish, Waits, TimerWaits, MutexWaits, AfterWait
    <3>3. QED
      BY <1>n, <3>1, <3>2
  <2>5. CASE PreemptDisable(t)
    <3>1. pc'[t] = "lock_timeout"
      BY <1>t, <2>5 DEF PreemptDisable
    <3>2. QED
      BY <1>n, <1>o, <2>5, <3>1 DEF PreemptDisable, timerVars
  <2>6. CASE mutex_lock_loop(t)
    BY <1>f, <1>g, <1>n, <1>o, <2>6 DEF mutex_lock_loop, timerVars
  <2>7. CASE mutex_lock_timeout_loop(t)
    <3>1. CASE Finish(t) /\ UNCHANGED timers
      BY <1>f, <3>1
    <3>2. CASE /\ arg[t] > timer_current_ticks /\ Frame(t, "lock_timeout_wait", obj[t], arg[t])
               /\ timed_wait(t, Remaining(t))
      <4>1. pc'[t] = "lock_timeout_wait" /\ pc[t] = "lock_timeout" /\ UNCHANGED time_left
        BY <1>g, <2>7, <3>2 DEF mutex_lock_timeout_loop, Running, Finish
      <4>2. OwnTimer(t)' /\ requested_signals'[t] = {TASK_TIMER}
        BY <3>2, RemainingTyped, TimedWaitStarts DEF ArmOK
      <4> DEFINE tm == timer_start_oneshot(timers[t], Remaining(t))
      <4>3. TASK_TIMER \in PENDING_SIGNALS'[t] \/ timers'[t] = tm
        BY <3>2, RemainingTyped, TimedWaitStarts DEF ArmOK
      <4>4. OnClock(t, arg[t]) /\ arg[t] \in TicksAbsolute /\ TimerTypeOK
        BY <4>1 DEF ClockOK, TimedLabels, TypeInv, FrameTypeOK
      <4>5. /\ tm.enabled
            /\ time_left[t] # WRAPPED =>
                  /\ time_left[t] > 0
                  /\ tm.expiry = (timer_current_ticks + time_left[t]) % TicksTimeoutMod
        BY <1>t, <3>2, <4>4, TimerInTime DEF Remaining
      <4> HIDE DEF tm
      <4>6. QED
        BY <1>k, <1>t, <4>1, <4>2, <4>3, <4>5 DEF ArmOK, ExpiresInTime
    <3>3. QED
      BY <2>7, <3>1, <3>2 DEF mutex_lock_timeout_loop
  <2>8. QED
    BY <1>1, <2>1, <2>2, <2>3, <2>4, <2>5, <2>6, <2>7 DEF TaskStep
<1>2. CASE AppStep(t)
  <2>0. pc[t] = "app"
    BY <1>2 DEF AppStep, mutex_lock, mutex_lock_timeout, mutex_unlock, mutex_try_lock, signal_wait_set_call,
       signal_poll_set, signal_send, sleep, Disabling, Calling, Running
  <2>1. CASE Fatal
    BY <1>n, <1>o, <2>0, <2>1 DEF Fatal, frameVars, timerVars
  <2>2. CASE ~Fatal /\ (mutex_lock(t) \/ mutex_lock_timeout(t) \/ signal_wait_set_call(t))
    BY <1>g, <1>n, <1>o, <2>2 DEF mutex_lock, mutex_lock_timeout, signal_wait_set_call, timerVars
  <2>3. CASE ~Fatal /\ (mutex_unlock(t) \/ mutex_try_lock(t) \/ signal_poll_set(t) \/ signal_send(t))
    BY <1>f, <2>3 DEF mutex_unlock, mutex_try_lock, signal_poll_set, signal_send, timerVars
  <2>4. CASE sleep(t)
    <3>1. PICK ticks \in Timeouts : /\ Frame(t, "sleep_wait", NoObject, 0) /\ timed_wait(t, ticks)
                                    /\ StartTimeout(t, ticks)
      BY <2>4 DEF sleep
    <3>2. ticks \in TicksRelative /\ pc'[t] = "sleep_wait" /\ time_left'[t] = ticks /\ TimerTypeOK
      BY <1>g, <3>1, PhactAssumption DEF StartTimeout, TimeLeftTypeOK, TypeInv
    <3>3. OwnTimer(t)' /\ requested_signals'[t] = {TASK_TIMER}
      BY <3>1, <3>2, TimedWaitStarts DEF ArmOK
    <3> DEFINE a == timer_current_ticks + ticks
               tm == timer_start_oneshot(timers[t], ticks)
    <3>4. TASK_TIMER \in PENDING_SIGNALS'[t] \/ (ticks # 0 /\ timers'[t] = tm)
      BY <3>1, <3>2, TimedWaitStarts DEF ArmOK
    <3>5. TicksTimeoutMod \in Nat \ {0} /\ timer_current_ticks \in Int /\ ticks \in Int /\ ticks >= 0
          /\ ticks < TicksTimeoutMod
      BY <3>2, TimerAssumption DEF TimerTypeOK, TicksAbsolute, TicksRelative
    <3>6. a \in Int /\ ticks = (a - timer_current_ticks) % TicksTimeoutMod
      BY <3>5
    <3>7. tm.enabled /\ tm.expiry = a % TicksTimeoutMod
      BY <1>t, <3>2, <3>6, OneshotExpiry
    <3> HIDE DEF tm
    <3>8. QED
      BY <1>k, <1>t, <3>2, <3>3, <3>4, <3>5, <3>7 DEF ArmOK, ExpiresInTime
  <2>5. QED
    BY <1>2, <2>1, <2>2, <2>3, <2>4 DEF AppStep
<1>3. QED
  BY <1>1, <1>2

\* A step of a task keeps the invariant of the timed waits.
LEMMA ArmTaskSide ==
  ASSUME TypeInv, WakeInv, ArmInv, NEW t \in Tasks, NEW u \in Tasks, TaskStep(t) \/ AppStep(t)
  PROVE  ClockOK(u)' /\ ArmOK(u)'
<1>1. CASE u = t
  BY <1>1, ClockOwn, ArmOwn DEF ArmInv
<1>2. CASE u # t
  <2>1. StepEffect(t)
    BY WakeTaskStep, WakeAppStep
  <2>2. /\ Quiet(u) /\ arg'[u] = arg[u] /\ timers'[u] = timers[u] /\ time_left'[u] = time_left[u]
        /\ UNCHANGED timer_current_ticks /\ ClockOK(u) /\ ArmOK(u) /\ task_timers(u) = u
    BY <1>2, <2>1, TicksKept, TaskTimersOnly DEF StepEffect, ArmInv
  <2>3. ClockOK(u)'
    BY <2>2 DEF Quiet, ClockOK, OnClock
  <2>4. ArmOK(u)'
    BY <2>2 DEF Quiet, ArmOK, OwnTimer, ExpiresInTime
  <2>5. QED
    BY <2>3, <2>4
<1>3. QED
  BY <1>1, <1>2

\* A tick signals the tasks whose timers expire; the timeouts of the others
\* are still to come.
LEMMA ArmTick ==
  ASSUME TypeInv, TimeLeftTypeOK, NEW u \in Tasks, ArmOK(u), UNCHANGED <<pc, requested_signals, holder>>,
         NEW ticks, ticks = (timer_current_ticks + 1) % TicksAbsoluteMod,
         NEW T, CountTick(ticks, T), timer_current_ticks' = ticks,
         timers' = TimersAfter(Expired(ticks)),
         signal_send_set(TimerTasks(Expired(ticks)), TimerSignals(Expired(ticks)))
  PROVE  ArmOK(u)'
<1> DEFINE K == Expired(ticks)
<1>1. /\ u \in TimerIds /\ timers[u].task_id = u /\ timers[u].signal_set = {TASK_TIMER}
      /\ timers[u] \in TimerRecord /\ task_timers(u) = u
  BY TaskTimersOnly DEF ArmOK, OwnTimer, TypeInv, TimerTypeOK
<1>2. PENDING_SIGNALS'[u] = IF u \in TimerTasks(K) THEN PENDING_SIGNALS[u] \cup TimerSignals(K)[u]
                            ELSE PENDING_SIGNALS[u]
  <2>1. K \in SUBSET TimerIds
    BY DEF Expired
  <2>2. TimerTasks(K) \in SUBSET Tasks /\ \A v \in TimerTasks(K) : TimerSignals(K)[v] \subseteq Signals
    BY <2>1, ExpiredTyped DEF TypeInv
  <2>3. QED
    BY <2>2, SendEffect
<1>3. OwnTimer(u)'
  <2>1. \A pending : LET p == timer_process_one(timers[u], pending)
                     IN  p.task_id = timers[u].task_id /\ p.signal_set = timers[u].signal_set
    BY <1>1 DEF timer_process_one, TimerRecord
  <2>2. timers'[u] = timers[u] \/ \E pending : timers'[u] = timer_process_one(timers[u], pending)
    BY <1>1 DEF TimersAfter
  <2>3. QED
    BY <1>1, <2>1, <2>2 DEF OwnTimer
<1>4. CASE u \in K
  <2>1. u \in TimerTasks(K) /\ TASK_TIMER \in TimerSignals(K)[u]
    BY <1>1, <1>4, TickEffect
  <2>2. QED
    BY <1>2, <1>3, <2>1 DEF ArmOK
<1>5. CASE u \notin K
  <2>1. timers'[u] = timers[u] /\ PENDING_SIGNALS[u] \subseteq PENDING_SIGNALS'[u]
    BY <1>1, <1>2, <1>5, TickEffect
  <2>2. ASSUME ExpiresInTime(u) PROVE ExpiresInTime(u)'
    <3>1. /\ timers[task_timers(u)].expiry # current_timeout(ticks) /\ TimerTypeOK
          /\ timers'[task_timers(u)] = timers[task_timers(u)]
      BY <1>1, <1>5, <2>1, <2>2 DEF Expired, ExpiresInTime, TypeInv
    <3>2. QED
      BY <2>2, <3>1, TickInTime
  <2>3. QED
    BY <1>3, <2>1, <2>2 DEF ArmOK
<1>6. QED
  BY <1>4, <1>5

\* A step of the scheduler or of a handler keeps the invariant of the timed
\* waits: the tick counter and the true time advance together.
LEMMA ArmCpuSide ==
  ASSUME TypeInv, ArmInv, NEW u \in Tasks, SchedStep \/ Interrupt
  PROVE  ClockOK(u)' /\ ArmOK(u)'
<1>1. UNCHANGED <<pc, arg, requested_signals, holder>> /\ ClockOK(u) /\ ArmOK(u)
  BY CpuStepSends DEF frameVars, mutexVars, ArmInv
<1>2. PENDING_SIGNALS[u] \subseteq PENDING_SIGNALS'[u]
  <2>1. CASE UNCHANGED PENDING_SIGNALS
    BY <2>1
  <2>2. CASE \E T \in SUBSET Tasks, sigs \in [Tasks -> SUBSET Signals] : signal_send_set(T, sigs)
    BY <2>2 DEF signal_send_set, signal_set_pending, TypeInv, SignalTypeOK
  <2>3. QED
    BY <2>1, <2>2, CpuStepSends
<1>3. CASE UNCHANGED timerVars
  BY <1>1, <1>2, <1>3 DEF timerVars, ClockOK, OnClock, ArmOK, OwnTimer, ExpiresInTime
<1>4. CASE ~UNCHANGED timerVars
  <2> DEFINE ticks == (timer_current_ticks + 1) % TicksAbsoluteMod
             T == {t \in Tasks : pc[t] \in TimedLabels}
  <2>1. /\ timer_current_ticks' = ticks /\ timers' = TimersAfter(Expired(ticks))
        /\ CountTick(ticks, T)
        /\ signal_send_set(TimerTasks(Expired(ticks)), TimerSignals(Expired(ticks)))
    BY <1>4 DEF SchedStep, Interrupt, interrupt_event_process, timer_tick_process, sched_pick, SchedPickFrame,
       timer_tick, interrupt_event_raise, HandlerReturns
  <2>2. ClockOK(u)'
    <3>1. SUFFICES ASSUME pc[u] \in TimedLabels PROVE OnClock(u, arg[u])'
      BY <1>1 DEF ClockOK
    <3>2. u \in Tasks \cap T /\ OnClock(u, arg[u]) /\ arg[u] \in TicksAbsolute
      BY <1>1, <3>1 DEF ClockOK, TypeInv, FrameTypeOK
    <3> HIDE DEF T
    <3>3. OnClock(u, arg[u])' <=> (\A a : a = arg[u] => OnClock(u, a)')
      BY <1>1 DEF OnClock
    <3>4. QED
      BY <2>1, <3>2, <3>3, ClockTicks DEF TypeInv, ArmInv
  <2> HIDE DEF ticks, T
  <2>3. QED
    BY <1>1, <2>1, <2>2, ArmTick DEF ticks, ArmInv
<1>5. QED
  BY <1>3, <1>4

LEMMA ArmNext == TypeInv /\ WakeInv /\ ArmInv /\ [Next]_vars => ArmInv'
<1> SUFFICES ASSUME TypeInv, WakeInv, ArmInv, [Next]_vars PROVE ArmInv'
  OBVIOUS
<1>1. CASE UNCHANGED vars
  BY <1>1 DEF vars, timerVars, frameVars, ArmInv, TimeLeftTypeOK, ClockOK, OnClock, ArmOK, OwnTimer,
     ExpiresInTime
<1>2. CASE Next
  <2>1. TimeLeftTypeOK'
    BY TimeLeftNext DEF ArmInv
  <2>2. QED
    BY <1>1, <1>2, <2>1, ArmTaskSide, ArmCpuSide DEF Next, Stopped, ArmInv
<1>3. QED
  BY <1>1, <1>2

LEMMA ArmInit == Init => ArmInv
<1>1. ASSUME Init, NEW u \in Tasks
      PROVE  ClockOK(u) /\ ArmOK(u)
  <2>1. pc[u] = "entry" /\ timers[u] = TaskTimer(u)
    BY <1>1, TaskTimersOnly DEF Init
  <2>2. QED
    BY <2>1 DEF ClockOK, TimedLabels, ArmOK, OwnTimer, TaskTimer, TimedWaits
<1>2. QED
  BY <1>1, TimeLeftInit DEF ArmInv

\* No task in a sleep or in mutex_lock_timeout sleeps without its timer, which
\* expires exactly when the time of the call is up, counted tick by tick: not
\* before, and not later, wherever the task was preempted and however often it
\* was woken, for any widths of the counters.  The one exception is a call
\* still under way when the tick counter wraps after its timeout.
THEOREM TimeoutsCorrect == Spec => []TimedWaitsArmed
<1>1. Spec => []ArmInv
  BY Invariants, ArmInit, ArmNext, PTL DEF Spec
<1>2. ArmInv => TimedWaitsArmed
  BY DEF ArmInv, ArmOK, TimedWaits, TimedWaitsArmed, Asleep, signal_peek
<1>3. QED
  BY <1>1, <1>2, PTL
=============================================================================
