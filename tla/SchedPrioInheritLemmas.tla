----------------------- MODULE SchedPrioInheritLemmas -----------------------
(***************************************************************************)
(* Facts about the walks of sched_get_next, for any number of tasks and    *)
(* any state of the scheduler.                                             *)
(*                                                                         *)
(* A chain is the least closed set around its start, so facts about the    *)
(* end of a walk are proved by exhibiting a closed set, with no induction. *)
(***************************************************************************)
EXTENDS SchedPrioInherit, TLAPS

\* TASK_ID_NONE, the end of a walk of sched_get_next, is not a task.
LEMMA NoneIsNoTask == TASK_ID_NONE \notin Tasks /\ TaskIdOption = Tasks \cup {TASK_ID_NONE}
  BY NAssumption DEF TASK_ID_NONE, Tasks, TaskIdOption

\* A chain contains its start and is contained in every closed set around it.
LEMMA ChainLeast ==
  ASSUME NEW bo, NEW t \in Tasks
  PROVE  /\ t \in Chain(bo, t)
         /\ Chain(bo, t) \subseteq Tasks
         /\ \A S \in SUBSET Tasks : (t \in S /\ Closed(bo, S)) => Chain(bo, t) \subseteq S
  BY DEF Chain

\* A chain is itself closed: the task that a member is blocked on belongs to it.
LEMMA ChainStep ==
  ASSUME NEW bo \in [Tasks -> TaskIdOption], NEW t \in Tasks, NEW r \in Chain(bo, t),
         bo[r] \in Tasks
  PROVE  bo[r] \in Chain(bo, t)
  BY NoneIsNoTask DEF Chain, Closed

\* So every walk of sched_get_next stays in its chain until TASK_ID_NONE.
LEMMA ChainClosed ==
  ASSUME NEW bo \in [Tasks -> TaskIdOption], NEW t \in Tasks
  PROVE  Closed(bo, Chain(bo, t))
  BY ChainStep, ChainLeast, NoneIsNoTask DEF Closed

\* The chain of a task that is runnable, or blocked on no task, is that task.
LEMMA ChainEnd ==
  ASSUME NEW bo \in [Tasks -> TaskIdOption], NEW x \in Tasks, bo[x] \in {x, TASK_ID_NONE}
  PROVE  Chain(bo, x) = {x}
<1>1. {x} \in SUBSET Tasks /\ x \in {x} /\ Closed(bo, {x})
  BY DEF Closed
<1>2. QED
  BY <1>1, ChainLeast

\* The chain of a blocked task is that task and the chain of its blocker.
LEMMA ChainSplit ==
  ASSUME NEW bo \in [Tasks -> TaskIdOption], NEW x \in Tasks, bo[x] \in Tasks
  PROVE  Chain(bo, x) \subseteq {x} \cup Chain(bo, bo[x])
<1> DEFINE S == {x} \cup Chain(bo, bo[x])
<1>1. S \in SUBSET Tasks /\ x \in S
  BY ChainLeast
<1>2. bo[x] \in S
  BY ChainLeast
<1>3. Closed(bo, S)
  BY <1>2, ChainClosed DEF Closed
<1>4. QED
  BY <1>1, <1>3, ChainLeast

\* A walk that reaches a runnable task reaches it from each of its members:
\* the walk has no other end.
LEMMA WalkHasOneEnd ==
  ASSUME NEW bo \in [Tasks -> TaskIdOption], NEW t \in Tasks,
         NEW r \in Chain(bo, t), bo[r] = r
  PROVE  \A q \in Chain(bo, t) : r \in Chain(bo, q)
<1> DEFINE S == {x \in Chain(bo, t) : r \in Chain(bo, x)}
<1>1. r \in Tasks /\ S \in SUBSET Tasks /\ t \in S
  BY ChainLeast
<1>2. ASSUME NEW x \in S
      PROVE  bo[x] \in S
  <2>1. x \in Tasks /\ x \in Chain(bo, t) /\ r \in Chain(bo, x)
    BY ChainLeast
  <2>2. bo[x] # TASK_ID_NONE
    <3>1. SUFFICES ASSUME bo[x] = TASK_ID_NONE PROVE FALSE
      OBVIOUS
    <3>2. Chain(bo, x) = {x}
      BY <2>1, <3>1, ChainEnd
    <3>3. r = x
      BY <2>1, <3>2
    <3>4. QED
      BY <3>1, <3>3, <1>1, NoneIsNoTask
  <2>3. bo[x] \in Tasks
    BY <2>1, <2>2, NoneIsNoTask
  <2>4. bo[x] \in Chain(bo, t)
    BY <2>1, <2>3, ChainStep
  <2>5. r \in Chain(bo, bo[x])
    <3>1. CASE x = r
      BY <3>1, <1>1, ChainLeast
    <3>2. CASE x # r
      BY <3>2, <2>1, <2>3, ChainSplit
    <3>3. QED
      BY <3>1, <3>2
  <2>6. QED
    BY <2>4, <2>5
<1>3. Closed(bo, S)
  BY <1>2 DEF Closed
<1>4. QED
  BY <1>1, <1>3, ChainLeast

\* Hence such a walk does not meet TASK_ID_NONE, and finds that task only.
LEMMA FoundIsNotPassed ==
  ASSUME NEW bo \in [Tasks -> TaskIdOption], NEW t \in Tasks,
         NEW r \in Chain(bo, t), bo[r] = r
  PROVE  /\ ~Passed(bo, t)
         /\ Found(bo, t) = {r}
<1>1. ASSUME NEW q \in Chain(bo, t), bo[q] \in {q, TASK_ID_NONE}
      PROVE  q = r
  <2>1. q \in Tasks
    BY ChainLeast
  <2>2. Chain(bo, q) = {q}
    BY <1>1, <2>1, ChainEnd
  <2>3. QED
    BY <2>2, WalkHasOneEnd
<1>2. r \in Tasks
  BY ChainLeast
<1>3. ~Passed(bo, t)
  BY <1>1, <1>2, NoneIsNoTask DEF Passed
<1>4. Found(bo, t) = {r}
  BY <1>1 DEF Found
<1>5. QED
  BY <1>3, <1>4

\* The first priority that is not passed over decides the result.
LEMMA FirstDecides ==
  ASSUME NEW bo \in [Tasks -> TaskIdOption], NEW f \in Tasks, IsFirst(bo, f),
         NEW r \in Chain(bo, f), bo[r] = r
  PROVE  sched_get_next(bo) = r
<1>1. ~Passed(bo, f) /\ Found(bo, f) = {r}
  BY FoundIsNotPassed
<1>2. ASSUME NEW t \in Tasks, IsFirst(bo, t)
      PROVE  t = f
  <2>1. ~(t < f) /\ ~(f < t)
    BY <1>2 DEF IsFirst
  <2>2. t \in Int /\ f \in Int
    BY NAssumption DEF Tasks
  <2>3. QED
    BY <2>1, <2>2
<1>3. FirstFound(bo) = {r}
  BY <1>1, <1>2, ChainLeast DEF FirstFound
<1>4. r = CHOOSE x \in {r} : TRUE
  OBVIOUS
<1>5. QED
  BY <1>1, <1>3, <1>4 DEF sched_get_next

\* Conversely a task that sched_get_next returns ends the walk of the first
\* priority that is not passed over, and is runnable.
LEMMA NextIsFound ==
  ASSUME NEW bo, NEW r \in Tasks, sched_get_next(bo) = r
  PROVE  \E f \in Tasks : IsFirst(bo, f) /\ r \in Chain(bo, f) /\ bo[r] = r
<1>1. r # TASK_ID_NONE /\ r # SCHED_DIVERGES
  BY NAssumption DEF Tasks, TASK_ID_NONE, SCHED_DIVERGES
<1>2. FirstFound(bo) # {} /\ r = CHOOSE x \in FirstFound(bo) : TRUE
  BY <1>1 DEF sched_get_next
<1>3. r \in FirstFound(bo)
  BY <1>2
<1>4. QED
  BY <1>3 DEF FirstFound, Found

\* When sched_get_next returns TASK_ID_NONE no task is runnable.
LEMMA NoneRunnable ==
  ASSUME NEW bo \in [Tasks -> TaskIdOption], sched_get_next(bo) = TASK_ID_NONE
  PROVE  \A t \in Tasks : bo[t] # t
<1>1. \A t \in Tasks : Passed(bo, t)
  <2>1. SUFFICES ASSUME ~\A t \in Tasks : Passed(bo, t) PROVE FALSE
    OBVIOUS
  <2>2. FirstFound(bo) = {} => sched_get_next(bo) = SCHED_DIVERGES
    BY <2>1 DEF sched_get_next
  <2>3. FirstFound(bo) # {} => sched_get_next(bo) \in FirstFound(bo)
    BY <2>1 DEF sched_get_next
  <2>4. FirstFound(bo) \subseteq Tasks
    BY DEF FirstFound
  <2>5. QED
    BY <2>2, <2>3, <2>4, NoneIsNoTask DEF TASK_ID_NONE, SCHED_DIVERGES
<1>2. QED
  BY <1>1, ChainLeast, FoundIsNotPassed

\* The walk from t depends only on the tasks it visits.
LEMMA ChainAgrees ==
  ASSUME NEW bo \in [Tasks -> TaskIdOption], NEW bo2 \in [Tasks -> TaskIdOption], NEW t \in Tasks,
         \A x \in Chain(bo, t) : bo2[x] = bo[x]
  PROVE  Chain(bo2, t) = Chain(bo, t)
<1>1. Closed(bo2, Chain(bo, t))
  BY ChainClosed DEF Closed
<1>2. Chain(bo2, t) \subseteq Chain(bo, t)
  BY <1>1, ChainLeast
<1>3. Closed(bo, Chain(bo2, t))
  <2>1. Closed(bo2, Chain(bo2, t))
    BY ChainClosed
  <2>2. QED
    BY <1>2, <2>1 DEF Closed
<1>4. Chain(bo, t) \subseteq Chain(bo2, t)
  BY <1>3, ChainLeast
<1>5. QED
  BY <1>2, <1>4

\* Rewriting the entries of tasks that are runnable, other than the one that
\* sched_get_next returns, does not change what it returns.
LEMMA NextIgnoresOthers ==
  ASSUME NEW bo \in [Tasks -> TaskIdOption], NEW bo2 \in [Tasks -> TaskIdOption], NEW r \in Tasks,
         sched_get_next(bo) = r, bo2[r] = r,
         \A x \in Tasks : bo[x] # x => bo2[x] = bo[x]
  PROVE  sched_get_next(bo2) = r
<1>1. PICK f \in Tasks : IsFirst(bo, f) /\ r \in Chain(bo, f) /\ bo[r] = r
  BY NextIsFound
<1>2. Chain(bo2, f) = Chain(bo, f)
  <2>1. Found(bo, f) = {r}
    BY <1>1, FoundIsNotPassed
  <2>2. \A x \in Chain(bo, f) : bo2[x] = bo[x]
    BY <1>1, <2>1, ChainLeast DEF Found
  <2>3. QED
    BY <2>2, ChainAgrees
<1>3. ~Passed(bo2, f)
  BY <1>1, <1>2, FoundIsNotPassed
<1>4. ASSUME NEW u \in Tasks, u < f
      PROVE  Passed(bo2, u)
  <2>1. Passed(bo, u)
    BY <1>1, <1>4 DEF IsFirst
  <2>2. \A x \in Chain(bo, u) : bo[x] # x
    BY <2>1, FoundIsNotPassed
  <2>3. \A x \in Chain(bo, u) : bo2[x] = bo[x]
    BY <2>2, ChainLeast
  <2>4. Chain(bo2, u) = Chain(bo, u)
    BY <2>3, ChainAgrees
  <2>5. QED
    BY <2>1, <2>3, <2>4 DEF Passed
<1>5. IsFirst(bo2, f)
  BY <1>3, <1>4 DEF IsFirst
<1>6. QED
  BY <1>1, <1>2, <1>5, FirstDecides

\* When sched_get_next does not return, the walk of the first priority that is
\* not passed over stays among tasks that are blocked on other tasks.
LEMMA DivergesInCycle ==
  ASSUME NEW bo \in [Tasks -> TaskIdOption], sched_get_next(bo) = SCHED_DIVERGES, NEW f, IsFirst(bo, f)
  PROVE  /\ Chain(bo, f) # {}
         /\ Chain(bo, f) \subseteq Tasks
         /\ \A r \in Chain(bo, f) : bo[r] \in Chain(bo, f) /\ bo[r] # r
<1>1. f \in Tasks /\ ~Passed(bo, f)
  BY DEF IsFirst
<1>2. f \in Chain(bo, f) /\ Chain(bo, f) \subseteq Tasks
  BY <1>1, ChainLeast
<1>3. FirstFound(bo) = {}
  <2>1. SUFFICES ASSUME FirstFound(bo) # {} PROVE FALSE
    OBVIOUS
  <2>2. sched_get_next(bo) \in FirstFound(bo)
    BY <1>1, <2>1 DEF sched_get_next
  <2>3. SCHED_DIVERGES \in Tasks
    BY <2>2 DEF FirstFound
  <2>4. QED
    BY <2>3, NAssumption DEF Tasks, SCHED_DIVERGES
<1>4. \A r \in Chain(bo, f) : bo[r] # r
  BY <1>1, <1>2, <1>3 DEF FirstFound, Found
<1>5. \A r \in Chain(bo, f) : bo[r] \in Chain(bo, f)
  BY <1>1, ChainClosed DEF Closed, Passed
<1>6. QED
  BY <1>2, <1>4, <1>5
=============================================================================
