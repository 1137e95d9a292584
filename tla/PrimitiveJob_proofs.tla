------------------------ MODULE PrimitiveJob_proofs ------------------------
(***************************************************************************)
(* A primitive's job, for any number of executables, any limit of a task,  *)
(* any device, threads and tasks that refuse: result() is whole and stays, *)
(* and a job once told to be over is over in every later answer.           *)
(***************************************************************************)
EXTENDS PrimitiveJob, TaskStatus_proofs

(* States a task that has come to its end, or is sure to, can be in.       *)
Settled == {"CANCELLING", "CANCELLED", "COMPLETED", "FAILED"}

LEMMA TasksNumbered == NTasks \in Nat \ {0} /\ Task = 1..NTasks
<1>1. CASE HasIndexMap
  <2>1. (NExecutables + Limit - 1) \div Limit \in Nat
    BY SizeAssumption
  <2>2. (NExecutables + Limit - 1) \div Limit >= 1
    BY SizeAssumption
  <2> QED
    BY <1>1, <2>1, <2>2 DEF NTasks, Task
<1>2. CASE ~HasIndexMap
  BY <1>2 DEF NTasks, Task
<1> QED
  BY <1>1, <1>2

(* ProgramSet.split leaves no executable out: each is some task's.         *)
LEMMA EveryExecutableHasATask ==
  ASSUME NEW e \in Executable
  PROVE  \E t \in Task : e \in ExecutablesOf(t)
<1>1. CASE HasIndexMap
  <2> DEFINE k == (e - 1) \div Limit
             m == (NExecutables + Limit - 1) \div Limit
  <2>1. /\ NExecutables \in Nat /\ Limit \in Nat /\ Limit > 0
        /\ e \in Nat /\ e >= 1 /\ e <= NExecutables
    BY SizeAssumption DEF Executable
  <2>2. k \in Nat /\ m \in Nat
    BY <2>1
  <2>3. k + 1 <= m
    <3>1. e - 1 >= Limit * k
      BY <2>1
    <3>2. NExecutables + Limit - 1 < Limit * (m + 1)
      BY <2>1
    <3>3. Limit * k + Limit < Limit * (m + 1)
      BY <2>1, <2>2, <3>1, <3>2
    <3> QED
      BY <2>1, <2>2, <3>3
  <2>4. k + 1 \in Task
    BY <1>1, <2>2, <2>3 DEF Task, NTasks
  <2>5. e \in ExecutablesOf(k + 1)
    BY <1>1, <2>2 DEF ExecutablesOf
  <2> QED
    BY <2>4, <2>5
<1>2. CASE ~HasIndexMap
  BY <1>2, TasksNumbered DEF ExecutablesOf
<1> QED
  BY <1>1, <1>2

(* An aggregate is final just when every state it is made of is settled.   *)
LEMMA FinalIsSettled ==
  ASSUME NEW A \in SUBSET TaskState
  PROVE  Aggregate(A) \in FinalStatus <=> A # {} /\ A \subseteq Settled
<1>1. Ended(A) <=> A # {} /\ A \subseteq Settled
  BY DEF Ended, Settled
<1>2. Ended(A) => Aggregate(A) \in FinalStatus
  BY AggregateCases DEF FinalStatus
<1>3. ~Ended(A) => Aggregate(A) \notin FinalStatus
  BY AggregateCases DEF FinalStatus, Ended, Started, Unmapped
<1> QED
  BY <1>1, <1>2, <1>3

-----------------------------------------------------------------------------
LEMMA AnswerType ==
  ASSUME NEW q \in Question, NEW A \in SUBSET TaskState
  PROVE  AnswerTo(q, Aggregate(A)) \in Answer \cup {"yes", "no", NoAnswer}
BY AggregateType DEF AnswerTo, YesOrNo

LEMMA InitTypes == Init => TypeOK
<1>1. 1 \in 1..(NTasks + 1)
  BY TasksNumbered
<1>2. Nothing \in [Task -> {"waiting", "data", "none"}]
  BY DEF Nothing
<1>3. /\ "QUEUED" \in TaskState /\ None \in SUBSET Executable
      /\ NoAnswer \in Answer \cup {"yes", "no", NoAnswer}
  BY DEF TaskState, None
<1> SUFFICES ASSUME Init PROVE TypeOK
  OBVIOUS
<1>4. state \in [Task -> TaskState] /\ got \in [Thread -> [Task -> {"waiting", "data", "none"}]]
  BY <1>2, <1>3 DEF Init
<1>5. /\ pc \in [Thread -> {"idle", "gather", "cancel"} \cup Question]
      /\ pos \in [Thread -> 1..(NTasks + 1)]
      /\ seen \in [Thread -> SUBSET TaskState]
  BY <1>1 DEF Init
<1>6. /\ translated \in SUBSET Executable /\ over \in BOOLEAN /\ late \subseteq Thread
      /\ outcome \in [Thread -> (SUBSET Executable) \cup {Raised}]
  BY <1>3 DEF Init
<1>7. answer \in [Thread -> Answer \cup {"yes", "no", NoAnswer}]
  BY <1>3 DEF Init
<1> QED
  BY <1>4, <1>5, <1>6, <1>7 DEF TypeOK

(* The types are kept by the service and by every call.                    *)
LEMMA StepKeepsTypes == TypeOK /\ [Next]_vars => TypeOK'
<1> SUFFICES ASSUME TypeOK, [Next]_vars PROVE TypeOK'
  OBVIOUS
<1>0. NTasks \in Nat \ {0} /\ Task = 1..NTasks
  BY TasksNumbered
<1>1. ASSUME NEW t \in Task, ServiceStep(t) PROVE TypeOK'
  BY <1>1 DEF ServiceStep, TypeOK, TaskState, TerminalState
<1>2. ASSUME NEW th \in Thread, NEW q \in Question, Ask(th, q) PROVE TypeOK'
  BY <1>0, <1>2 DEF Ask, Goto, SeenAtStart, TypeOK
<1>3. ASSUME NEW th \in Thread, FetchState(th) PROVE TypeOK'
  BY <1>0, <1>3 DEF FetchState, TypeOK
<1>4. ASSUME NEW th \in Thread, AnswerQuestion(th) PROVE TypeOK'
  <2>1. AnswerTo(pc[th], Aggregate(seen[th])) \in Answer \cup {"yes", "no", NoAnswer}
    BY <1>4, AnswerType DEF AnswerQuestion, TypeOK
  <2>2. over' \in BOOLEAN
    BY <1>4 DEF AnswerQuestion, TypeOK, SaysOver
  <2> QED
    BY <1>0, <1>4, <2>1, <2>2 DEF AnswerQuestion, Goto, TypeOK
<1>5. ASSUME NEW th \in Thread, StartResult(th) PROVE TypeOK'
  <2>1. CASE translated # None
    <3>1. outcome' = [outcome EXCEPT ![th] = translated] /\ UNCHANGED <<pc, pos>>
      BY <1>5, <2>1 DEF StartResult
    <3>2. outcome' \in [Thread -> (SUBSET Executable) \cup {Raised}]
      BY <3>1 DEF TypeOK
    <3> QED
      BY <1>5, <3>1, <3>2 DEF StartResult, TypeOK
  <2>2. CASE ~(translated # None)
    <3>1. Goto(th, "gather") /\ UNCHANGED outcome
      BY <1>5, <2>2 DEF StartResult
    <3> QED
      BY <1>0, <1>5, <3>1 DEF StartResult, Goto, TypeOK
  <2> QED
    BY <2>1, <2>2
<1>6. ASSUME NEW th \in Thread, NEW r \in {"data", "none"}, Gather(th, r)
      PROVE  TypeOK'
  BY <1>0, <1>6 DEF Gather, TypeOK
<1>7. ASSUME NEW th \in Thread, Translate(th) PROVE TypeOK'
  <2>1. Values(th) \in SUBSET Executable
    BY DEF Values, ExecutablesOf
  <2>2. Nothing \in [Task -> {"waiting", "data", "none"}]
    BY DEF Nothing
  <2> QED
    BY <1>0, <1>7, <2>1, <2>2 DEF Translate, Goto, TypeOK
<1>8. ASSUME NEW th \in Thread, StartCancel(th) PROVE TypeOK'
  BY <1>0, <1>8 DEF StartCancel, Goto, TypeOK
<1>9. ASSUME NEW th \in Thread, CancelTask(th) PROVE TypeOK'
  <2>1. state' \in [Task -> TaskState]
    BY <1>9 DEF CancelTask, CancelRequest, TypeOK, TaskState, TerminalState
  <2>2. pos' \in [Thread -> 1..(NTasks + 1)]
    BY <1>0, <1>9 DEF CancelTask, AfterCancelOf, TypeOK
  <2> QED
    BY <1>9, <2>1, <2>2 DEF CancelTask, TypeOK
<1>10. ASSUME NEW th \in Thread, CancelReturns(th) PROVE TypeOK'
  BY <1>0, <1>10 DEF CancelReturns, Goto, TypeOK
<1>11. CASE UNCHANGED vars
  BY <1>11 DEF vars, TypeOK
<1> QED
  BY <1>1, <1>2, <1>3, <1>4, <1>5, <1>6, <1>7, <1>8, <1>9, <1>10, <1>11
     DEF Next, Continue, GatherResult, GiveUp

(* A task that is settled stays so, one that has completed stays that.     *)
LEMMA TasksStaySettled ==
  ASSUME TypeOK, [Next]_vars, NEW t \in Task
  PROVE  /\ state[t] \in Settled => state'[t] \in Settled
         /\ state[t] = "COMPLETED" => state'[t] = "COMPLETED"
<1>1. ASSUME NEW u \in Task, ServiceStep(u)
      PROVE  /\ state[t] \in Settled => state'[t] \in Settled
             /\ state[t] = "COMPLETED" => state'[t] = "COMPLETED"
  BY <1>1 DEF ServiceStep, Settled, TypeOK
<1>2. ASSUME NEW th \in Thread, CancelTask(th)
      PROVE  /\ state[t] \in Settled => state'[t] \in Settled
             /\ state[t] = "COMPLETED" => state'[t] = "COMPLETED"
  BY <1>2 DEF CancelTask, CancelRequest, Settled, TypeOK, TerminalState
<1>3. CASE UNCHANGED state
  BY <1>3
<1> QED
  BY <1>1, <1>2, <1>3
     DEF Next, Continue, Ask, FetchState, AnswerQuestion, StartResult, GatherResult,
         GiveUp, Gather, Translate, StartCancel, CancelReturns, vars

-----------------------------------------------------------------------------
(* What a thread holds is from completed tasks, so that what is translated *)
(* and what was given has a value of every executable.                     *)
AllCompleted == \A t \in Task : state[t] = "COMPLETED"
IsWhole(values) == values = Executable /\ AllCompleted

WholeInv ==
  /\ \A th \in Thread : \A t \in Task : got[th][t] = "data" => state[t] = "COMPLETED"
  /\ translated # None => IsWhole(translated)
  /\ \A th \in Thread : outcome[th] \notin {None, Raised} => IsWhole(outcome[th])

LEMMA AllDataIsEverything ==
  ASSUME NEW th \in Thread, CanTranslate(th)
  PROVE  /\ \A t \in Task : got[th][t] = "data"
         /\ Values(th) = Executable
<1>1. \A t \in Task : got[th][t] = "data"
  BY TasksNumbered DEF CanTranslate, NTasks
<1>2. Values(th) = UNION {ExecutablesOf(t) : t \in Task}
  BY <1>1 DEF Values
<1>3. \A t \in Task : ExecutablesOf(t) \subseteq Executable
  BY DEF ExecutablesOf
<1> QED
  BY <1>1, <1>2, <1>3, EveryExecutableHasATask

LEMMA StepKeepsWhole == TypeOK /\ WholeInv /\ [Next]_vars => WholeInv'
<1> SUFFICES ASSUME TypeOK, WholeInv, [Next]_vars PROVE WholeInv'
  OBVIOUS
<1>1. \A t \in Task : state[t] = "COMPLETED" => state'[t] = "COMPLETED"
  BY TasksStaySettled
<1>2. AllCompleted => AllCompleted'
  BY <1>1 DEF AllCompleted
<1>3. CASE UNCHANGED <<got, translated, outcome>>
  BY <1>1, <1>2, <1>3 DEF WholeInv, IsWhole
<1>4. ASSUME NEW th \in Thread, StartResult(th) PROVE WholeInv'
  <2>1. UNCHANGED <<got, translated, state>>
    BY <1>4 DEF StartResult
  <2>2. \A u \in Thread : \/ outcome'[u] = outcome[u]
                          \/ outcome'[u] = translated /\ translated # None
    <3>1. CASE translated # None
      BY <1>4, <3>1 DEF StartResult, TypeOK
    <3>2. CASE ~(translated # None)
      <4>1. outcome' = outcome
        BY <1>4, <3>2 DEF StartResult
      <4> QED
        BY <4>1
    <3> QED
      BY <3>1, <3>2
  <2> QED
    BY <1>2, <2>1, <2>2 DEF WholeInv, IsWhole
<1>5. ASSUME NEW th \in Thread, NEW r \in {"data", "none"}, Gather(th, r),
             r = "data" => state[pos[th]] = "COMPLETED"
      PROVE  WholeInv'
  <2>1. UNCHANGED <<state, translated, outcome>>
    BY <1>5 DEF Gather
  <2>2. \A u \in Thread : \A t \in Task :
          got'[u][t] = "data" => got[u][t] = "data" \/ state[t] = "COMPLETED"
    BY <1>5 DEF Gather, TypeOK
  <2> QED
    BY <1>2, <2>1, <2>2 DEF WholeInv, IsWhole
<1>6. ASSUME NEW th \in Thread, Translate(th) PROVE WholeInv'
  <2>1. UNCHANGED state
    BY <1>6 DEF Translate
  <2>2. \A u \in Thread : \A t \in Task : got'[u][t] = "data" => got[u][t] = "data"
    BY <1>6 DEF Translate, Nothing, TypeOK
  <2>3. CASE CanTranslate(th)
    <3>1. AllCompleted /\ Values(th) = Executable
      BY <2>3, AllDataIsEverything DEF WholeInv, AllCompleted
    <3>2. translated' = Executable
      BY <1>6, <2>3, <3>1 DEF Translate
    <3>3. \A u \in Thread : outcome'[u] \in {outcome[u], Executable}
      BY <1>6, <2>3, <3>2 DEF Translate, TypeOK
    <3> QED
      BY <1>2, <2>1, <2>2, <3>1, <3>2, <3>3 DEF WholeInv, IsWhole
  <2>4. CASE ~CanTranslate(th)
    <3>1. UNCHANGED translated
      BY <1>6, <2>4 DEF Translate
    <3>2. \A u \in Thread : outcome'[u] \in {outcome[u], Raised}
      BY <1>6, <2>4 DEF Translate, TypeOK
    <3> QED
      BY <1>2, <2>1, <2>2, <3>1, <3>2 DEF WholeInv, IsWhole
  <2> QED
    BY <2>3, <2>4
<1>7. ASSUME NEW th \in Thread, GatherResult(th) PROVE WholeInv'
  BY <1>5, <1>7 DEF GatherResult
<1>8. ASSUME NEW th \in Thread, GiveUp(th) PROVE WholeInv'
  BY <1>5, <1>8 DEF GiveUp
<1> QED
  BY <1>3, <1>4, <1>6, <1>7, <1>8
     DEF Next, Continue, ServiceStep, Ask, FetchState, AnswerQuestion, StartCancel,
         CancelTask, CancelReturns, vars

-----------------------------------------------------------------------------
(* A question that read settled states only has passed settled tasks only; *)
(* once a thread was told that the job is over every task is settled, and  *)
(* what a later question reads is.                                         *)
OverInv ==
  /\ \A th \in Thread : pc[th] \in Question =>
       /\ pos[th] > 1 => seen[th] # {}
       /\ seen[th] \subseteq Settled =>
            \A t \in Task : t < pos[th] => state[t] \in Settled
  /\ over => \A t \in Task : state[t] \in Settled
  /\ \A th \in late : over /\ (pc[th] \in Question => seen[th] \subseteq Settled)

LEMMA StepKeepsOver == TypeOK /\ OverInv /\ [Next]_vars => OverInv'
<1> SUFFICES ASSUME TypeOK, OverInv, [Next]_vars PROVE OverInv'
  OBVIOUS
<1>1. \A t \in Task : state[t] \in Settled => state'[t] \in Settled
  BY TasksStaySettled
<1>2. CASE UNCHANGED <<pc, pos, seen, over, late>>
  BY <1>1, <1>2 DEF OverInv
<1>3. ASSUME NEW th \in Thread, NEW to \in {"idle", "gather", "cancel"},
             Goto(th, to), UNCHANGED <<seen, over, late>>
      PROVE  OverInv'
  <2>1. pc'[th] \notin Question
    BY <1>3 DEF Goto, Question, TypeOK
  <2>2. \A u \in Thread \ {th} : pc'[u] = pc[u] /\ pos'[u] = pos[u]
    BY <1>3 DEF Goto, TypeOK
  <2> QED
    BY <1>1, <1>3, <2>1, <2>2 DEF OverInv, TypeOK
<1>4. ASSUME NEW th \in Thread, UNCHANGED <<pc, seen, over, late>>,
             pc[th] \notin Question,
             \A u \in Thread \ {th} : pos'[u] = pos[u]
      PROVE  OverInv'
  BY <1>1, <1>4 DEF OverInv, TypeOK
<1>5. ASSUME NEW th \in Thread, NEW q \in Question, Ask(th, q) PROVE OverInv'
  <2>1. /\ pos'[th] = 1 /\ seen'[th] = {} /\ UNCHANGED <<state, over>>
        /\ \A u \in Thread \ {th} :
             pc'[u] = pc[u] /\ pos'[u] = pos[u] /\ seen'[u] = seen[u]
        /\ late' \subseteq late \cup {th} /\ (late' # late => over)
    BY <1>5 DEF Ask, Goto, SeenAtStart, TypeOK
  <2>2. \A t \in Task : ~(t < 1)
    BY TasksNumbered
  <2>3. \A u \in late' : u \in Thread /\ over
    BY <2>1 DEF OverInv, TypeOK
  <2>4. \A u \in late' : u = th \/ u \in late
    BY <2>1
  <2>5. ~(pos'[th] > 1) /\ \A t \in Task : ~(t < pos'[th])
    BY <2>1, <2>2
  <2>6. \A u \in Thread : pc'[u] \in Question =>
          /\ pos'[u] > 1 => seen'[u] # {}
          /\ seen'[u] \subseteq Settled =>
               \A t \in Task : t < pos'[u] => state'[t] \in Settled
    <3> SUFFICES ASSUME NEW u \in Thread, pc'[u] \in Question
                 PROVE  /\ pos'[u] > 1 => seen'[u] # {}
                        /\ seen'[u] \subseteq Settled =>
                             \A t \in Task : t < pos'[u] => state'[t] \in Settled
      OBVIOUS
    <3>1. CASE u = th
      BY <2>5, <3>1
    <3>2. CASE u # th
      BY <2>1, <3>2 DEF OverInv
    <3> QED
      BY <3>1, <3>2
  <2>7. \A u \in late' : pc'[u] \in Question => seen'[u] \subseteq Settled
    BY <2>1, <2>3, <2>4 DEF OverInv
  <2> QED
    BY <2>1, <2>3, <2>6, <2>7 DEF OverInv
<1>6. ASSUME NEW th \in Thread, FetchState(th) PROVE OverInv'
  <2>1. /\ pc[th] \in Question /\ pos[th] \in Task
        /\ pos'[th] = pos[th] + 1 /\ seen'[th] = seen[th] \cup {state[pos[th]]}
        /\ UNCHANGED <<state, pc, over, late>>
        /\ \A u \in Thread \ {th} : pos'[u] = pos[u] /\ seen'[u] = seen[u]
    BY <1>6 DEF FetchState, TypeOK
  <2>2. \A t \in Task : t < pos'[th] => t < pos[th] \/ t = pos[th]
    BY <2>1, TasksNumbered
  <2>3. seen'[th] \subseteq Settled =>
          \A t \in Task : t < pos'[th] => state[t] \in Settled
    BY <2>1, <2>2 DEF OverInv
  <2>4. th \in late' => seen'[th] \subseteq Settled
    BY <2>1 DEF OverInv
  <2> QED
    BY <2>1, <2>3, <2>4 DEF OverInv, TypeOK
<1>7. ASSUME NEW th \in Thread, AnswerQuestion(th) PROVE OverInv'
  <2>1. /\ pc[th] \in Question /\ pos[th] = NTasks + 1 /\ pc'[th] = "idle"
        /\ UNCHANGED <<state, seen>> /\ late' = late \ {th}
        /\ over' = (over \/ SaysOver(pc[th], AnswerTo(pc[th], Aggregate(seen[th]))))
        /\ \A u \in Thread \ {th} : pc'[u] = pc[u] /\ pos'[u] = pos[u]
    BY <1>7 DEF AnswerQuestion, Goto, TypeOK
  <2>2. ASSUME SaysOver(pc[th], AnswerTo(pc[th], Aggregate(seen[th])))
        PROVE  \A t \in Task : state[t] \in Settled
    <3>1. Aggregate(seen[th]) \in FinalStatus
      BY <2>1, <2>2 DEF SaysOver, AnswerTo, YesOrNo, Affirms, FinalStatus
    <3>2. seen[th] \subseteq Settled
      BY <3>1, FinalIsSettled DEF TypeOK
    <3>3. \A t \in Task : t < pos[th]
      BY <2>1, TasksNumbered
    <3> QED
      BY <2>1, <3>2, <3>3 DEF OverInv
  <2>3. over' => \A t \in Task : state'[t] \in Settled
    BY <2>1, <2>2 DEF OverInv
  <2>4. "idle" \notin Question
    BY DEF Question
  <2> QED
    BY <2>1, <2>3, <2>4 DEF OverInv, TypeOK
<1>8. ASSUME NEW th \in Thread, StartResult(th) PROVE OverInv'
  BY <1>2, <1>3, <1>8 DEF StartResult
<1>9. ASSUME NEW th \in Thread, NEW r \in {"data", "none"}, Gather(th, r)
      PROVE  OverInv'
  BY <1>4, <1>9 DEF Gather, Question, TypeOK
<1>10. ASSUME NEW th \in Thread, CancelTask(th) PROVE OverInv'
  BY <1>4, <1>10 DEF CancelTask, Question, TypeOK
<1>11. ASSUME NEW th \in Thread,
              Translate(th) \/ StartCancel(th) \/ CancelReturns(th)
       PROVE  OverInv'
  BY <1>3, <1>11 DEF Translate, StartCancel, CancelReturns
<1> QED
  BY <1>2, <1>5, <1>6, <1>7, <1>8, <1>9, <1>10, <1>11
     DEF Next, Continue, ServiceStep, GatherResult, GiveUp, vars

-----------------------------------------------------------------------------
JobInv == TypeOK /\ WholeInv /\ OverInv

LEMMA InitJob == Init => JobInv
<1> SUFFICES ASSUME Init PROVE JobInv
  OBVIOUS
<1>1. WholeInv
  BY DEF Init, WholeInv, Nothing, None
<1>2. OverInv
  BY DEF Init, OverInv, Question
<1> QED
  BY <1>1, <1>2, InitTypes DEF JobInv

LEMMA StepKeepsJob == JobInv /\ [Next]_vars => JobInv'
BY StepKeepsTypes, StepKeepsWhole, StepKeepsOver DEF JobInv

(* The job keeps its types (braket_primitive_task.py).                     *)
THEOREM JobTyping == Spec => []TypeOK
<1>1. JobInv => TypeOK
  BY DEF JobInv
<1> QED
  BY <1>1, InitJob, StepKeepsJob, PTL DEF Spec

(* result() gives a value of every executable, of completed tasks, however *)
(* the program set was split (result and merge).                           *)
THEOREM ResultIsAlwaysWhole == Spec => []ResultIsWhole
<1>1. JobInv => ResultIsWhole
  BY DEF JobInv, WholeInv, IsWhole, AllCompleted, ResultIsWhole
<1> QED
  BY <1>1, InitJob, StepKeepsJob, PTL DEF Spec

(* A result once there is the one every later result() gives, although the *)
(* cache is checked and set without a lock.                                *)
THEOREM ResultAlwaysStays == Spec => ResultStays
<1>1. JobInv /\ JobInv' /\ [Next]_vars =>
        [translated # None => translated' = translated]_vars
  <2> SUFFICES ASSUME JobInv, JobInv', [Next]_vars, translated # None
               PROVE  translated' = translated
    OBVIOUS
  <2>1. translated = Executable /\ Executable # None
    BY DEF JobInv, WholeInv, IsWhole
  <2>2. ASSUME NEW th \in Thread, Translate(th) PROVE translated' = translated
    <3>1. CASE CanTranslate(th)
      BY <2>1, <2>2, <3>1, AllDataIsEverything DEF Translate
    <3>2. CASE ~CanTranslate(th)
      BY <2>2, <3>2 DEF Translate
    <3> QED
      BY <3>1, <3>2
  <2> QED
    BY <2>2 DEF Next, Continue, ServiceStep, Ask, FetchState, AnswerQuestion,
                StartResult, GatherResult, GiveUp, Gather, StartCancel, CancelTask,
                CancelReturns, vars
<1> QED
  BY <1>1, InitJob, StepKeepsJob, PTL DEF Spec, ResultStays

(* Once a thread was told that the job is over no question that begins     *)
(* later is answered as if it were not (done, cancelled, running,          *)
(* in_final_state and status, each of which asks every task anew).         *)
THEOREM OverIsAlwaysForGood == Spec => OverIsForGood
<1> DEFINE Stays ==
      \A th \in late :
        pc[th] \in Question /\ pc'[th] = "idle" => ~SaysNotOver(pc[th], answer'[th])
<1>1. JobInv /\ [Next]_vars => [Stays]_vars
  <2> SUFFICES ASSUME JobInv, [Next]_vars, vars' # vars,
                      NEW th \in late, pc[th] \in Question, pc'[th] = "idle"
               PROVE  ~SaysNotOver(pc[th], answer'[th])
    OBVIOUS
  <2>1. th \in Thread /\ TypeOK
    BY DEF JobInv, TypeOK
  <2>2. pc[th] \notin {"idle", "gather", "cancel"} /\ pc'[th] # pc[th]
    BY DEF Question
  <2>3. AnswerQuestion(th)
    <3>1. UNCHANGED pc => FALSE
      BY <2>2
    <3>2. ASSUME NEW u \in Thread, u # th, NEW where, Goto(u, where) PROVE FALSE
      BY <2>1, <2>2, <3>2 DEF Goto, TypeOK
    <3> QED
      BY <2>1, <2>2, <3>1, <3>2
         DEF Next, Continue, ServiceStep, Ask, FetchState, AnswerQuestion,
             StartResult, GatherResult, GiveUp, Gather, Translate, StartCancel,
             CancelTask, CancelReturns, vars
  <2>4. /\ seen[th] \subseteq Settled /\ seen[th] # {} /\ seen[th] \in SUBSET TaskState
        /\ answer'[th] = AnswerTo(pc[th], Aggregate(seen[th]))
    BY <2>1, <2>3, TasksNumbered DEF AnswerQuestion, JobInv, OverInv, TypeOK
  <2>5. Aggregate(seen[th]) \in FinalStatus
    BY <2>4, FinalIsSettled
  <2> QED
    BY <2>4, <2>5 DEF SaysNotOver, AnswerTo, YesOrNo, Affirms, FinalStatus, Question
<1> QED
  BY <1>1, InitJob, StepKeepsJob, PTL DEF Spec, OverIsForGood
=============================================================================
