----------------------- MODULE SchedPrioInheritProofs -----------------------
(***************************************************************************)
(* The loops of sched_get_next return the end of the walk of the most      *)
(* urgent task that can make progress, for any number of tasks and any     *)
(* state of the scheduler.                                                 *)
(***************************************************************************)
EXTENDS SchedPrioInheritLoop, SchedPrioInheritLemmas

\* The inductive invariant of the loops: every priority above idx has been
\* passed over, and task is on the walk that started at idx.
LoopInv ==
    /\ LoopTypeOK
    /\ \A u \in Tasks : u < idx => Passed(blocked_on, u)
    /\ ~returned => task \in Chain(blocked_on, idx)
    /\ returned => \/ task = TASK_ID_NONE /\ \A u \in Tasks : Passed(blocked_on, u)
                   \/ task \in Chain(blocked_on, idx) /\ blocked_on[task] = task

\* The loops of sched_get_next start at the highest priority, idx = 0.
LEMMA LoopInvInit == Init => LoopInv
<1> SUFFICES ASSUME Init PROVE LoopInv
  OBVIOUS
<1>1. 0 \in Tasks /\ \A u \in Tasks : ~(u < 0)
  BY NAssumption DEF Tasks
<1>2. LoopTypeOK
  BY <1>1 DEF Init, LoopTypeOK, TaskIdOption
<1>3. QED
  BY <1>1, <1>2, ChainLeast DEF Init, LoopInv

\* Every iteration of the loops of sched_get_next keeps their invariant.
LEMMA LoopInvNext == LoopInv /\ [Next]_vars => LoopInv'
<1> SUFFICES ASSUME LoopInv, [Next]_vars PROVE LoopInv'
  OBVIOUS
<1>t. /\ blocked_on \in [Tasks -> TaskIdOption]
      /\ idx \in Tasks
      /\ task \in TaskIdOption
      /\ returned \in BOOLEAN
  BY DEF LoopInv, LoopTypeOK, SchedTypeOK
<1>c. ~returned => task \in Tasks /\ task \in Chain(blocked_on, idx)
  BY <1>t, ChainLeast DEF LoopInv
<1>1. CASE GotoFound
  BY <1>1, <1>t, <1>c DEF GotoFound, LoopInv, LoopTypeOK, SchedTypeOK, Passed, Chain, Closed
<1>2. CASE Follow
  <2>1. task' = blocked_on[task] /\ task' \in Tasks /\ task' \in Chain(blocked_on, idx)
    BY <1>2, <1>t, <1>c, ChainStep DEF Follow
  <2>2. LoopTypeOK'
    BY <1>2, <1>t, <2>1 DEF Follow, LoopTypeOK, SchedTypeOK, TaskIdOption
  <2>3. QED
    BY <1>2, <2>1, <2>2 DEF Follow, LoopInv
<1>3. CASE NextIndex
  <2>1. Passed(blocked_on, idx)
    BY <1>3, <1>c DEF NextIndex, Passed
  <2>2. CASE idx < N - 1
    <3>1. idx' = idx + 1 /\ task' = idx' /\ idx' \in Tasks /\ blocked_on' = blocked_on /\ ~returned'
      BY <1>3, <2>2, <1>t, NAssumption DEF NextIndex, Tasks
    <3>2. \A u \in Tasks : u < idx' => u < idx \/ u = idx
      BY <3>1, <1>t, NAssumption DEF Tasks
    <3>3. \A u \in Tasks : u < idx' => Passed(blocked_on, u)
      BY <3>2, <2>1 DEF LoopInv
    <3>4. LoopTypeOK'
      BY <3>1, <1>t, <1>3 DEF LoopTypeOK, SchedTypeOK, TaskIdOption, NextIndex
    <3>5. QED
      BY <3>1, <3>3, <3>4, ChainLeast DEF LoopInv
  <2>3. CASE idx = N - 1
    <3>1. idx' = idx /\ task' = TASK_ID_NONE /\ blocked_on' = blocked_on /\ returned'
      BY <1>3, <2>3, <1>t, NAssumption DEF NextIndex, Tasks
    <3>2. \A u \in Tasks : u < idx \/ u = idx
      BY <2>3, <1>t, NAssumption DEF Tasks
    <3>3. \A u \in Tasks : Passed(blocked_on, u)
      BY <3>2, <2>1 DEF LoopInv
    <3>4. LoopTypeOK'
      BY <1>3, <3>1, <1>t DEF LoopTypeOK, SchedTypeOK, TaskIdOption, NextIndex
    <3>5. QED
      BY <3>1, <3>3, <3>4 DEF LoopInv
  <2>4. QED
    BY <2>2, <2>3, <1>3 DEF NextIndex
<1>4. CASE UNCHANGED vars
  BY <1>4 DEF vars, LoopInv, LoopTypeOK, SchedTypeOK
<1>5. QED
  BY <1>1, <1>2, <1>3, <1>4 DEF Next

\* When sched_get_next returns, the invariant of its loops gives the result.
LEMMA LoopInvCorrect == LoopInv => LoopImplements /\ LoopPicksEffectivePriority
<1> SUFFICES ASSUME LoopInv, returned
             PROVE  /\ task = sched_get_next(blocked_on)
                    /\ LoopPicksEffectivePriority
  BY DEF LoopImplements, LoopPicksEffectivePriority
<1>t. blocked_on \in [Tasks -> TaskIdOption] /\ idx \in Tasks
  BY DEF LoopInv, LoopTypeOK, SchedTypeOK
<1>1. CASE task = TASK_ID_NONE /\ \A u \in Tasks : Passed(blocked_on, u)
  BY <1>1 DEF sched_get_next, LoopPicksEffectivePriority
<1>2. CASE task \in Chain(blocked_on, idx) /\ blocked_on[task] = task
  <2>1. ~Passed(blocked_on, idx)
    BY <1>2, <1>t, FoundIsNotPassed
  <2>2. IsFirst(blocked_on, idx)
    BY <2>1, <1>t DEF IsFirst, LoopInv
  <2>5. task = sched_get_next(blocked_on)
    BY <2>2, <1>2, <1>t, FirstDecides
  <2>6. ASSUME NEW r \in Tasks, NEW b \in Tasks, blocked_on[r] = r, r \in Chain(blocked_on, b)
        PROVE  idx <= b
    <3>1. ~Passed(blocked_on, b)
      BY <2>6, <1>t, FoundIsNotPassed
    <3>2. ~(b < idx)
      BY <3>1 DEF LoopInv
    <3>3. QED
      BY <3>2, <1>t, NAssumption DEF Tasks
  <2>7. LoopPicksEffectivePriority
    BY <1>2, <1>t, <2>6 DEF LoopPicksEffectivePriority, Inherits
  <2>8. QED
    BY <2>5, <2>7
<1>3. QED
  BY <1>1, <1>2 DEF LoopInv

\* What the loops of sched_get_next return is sched_get_next as the rest of
\* the development uses it.
THEOREM SchedGetNextCorrect == Spec => []LoopImplements
<1>1. LoopInv => LoopImplements
  BY LoopInvCorrect
<1>2. QED
  BY <1>1, LoopInvInit, LoopInvNext, PTL DEF Spec

\* The loops return a runnable task of the highest effective priority, where
\* a task inherits the priority of every task blocked on it, transitively.
THEOREM SchedGetNextInherits == Spec => []LoopPicksEffectivePriority
<1>1. LoopInv => LoopPicksEffectivePriority
  BY LoopInvCorrect
<1>2. QED
  BY <1>1, LoopInvInit, LoopInvNext, PTL DEF Spec
=============================================================================
