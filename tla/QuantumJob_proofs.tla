------------------------- MODULE QuantumJob_proofs -------------------------
(***************************************************************************)
(* Proofs about QuantumJob, for any number of tasks and of threads: it     *)
(* keeps its types, it implements the abstract JobLifecycle, and what a    *)
(* Result says of its tasks is so although its items, the states its       *)
(* handles remember and the states themselves are read at different times, *)
(* between the steps of other threads and the service.                     *)
(***************************************************************************)
EXTENDS QuantumJob, TaskStatus_proofs

USE NTasksAssumption, KindAssumption, FirstAssumption, MayAssumption,
    GiveUpsAssumption

(* A program set's only task is task 1.                                    *)
LEMMA TaskOne == Kind = "programset" => 1 \in Task
  BY DEF Task

(* The job's status, of any states of the tasks, is one a caller can get.  *)
LEMMA JobStatusType ==
  ASSUME NEW u \in [Task -> TaskState]
  PROVE  JobStatusOf(u) \in Answer
<1>1. Aggregate({u[t] : t \in Task}) \in Answer
  BY AggregateType
<1>2. Kind = "programset" => StatusOf(u[1]) \in Answer
  BY TaskOne
     DEF StatusOf, MappedState, TaskStatusMap, Answer, JobStatus
<1>3. QED
  BY <1>1, <1>2 DEF JobStatusOf

(* A program set's job is the list job of its one task.                    *)
LEMMA JobStatusIsAggregate ==
  ASSUME NEW u \in [Task -> TaskState]
  PROVE  JobStatusOf(u) = Aggregate({u[t] : t \in Task})
<1>1. CASE Kind = "programset"
  <2>1. Task = {1}
    BY <1>1 DEF Task
  <2>2. {u[t] : t \in Task} = {u[1]} /\ u[1] \in TaskState
    BY <2>1
  <2>3. QED
    BY <1>1, <2>2, AggregateOfOne DEF JobStatusOf
<1>2. QED
  BY <1>1 DEF JobStatusOf

(* The job's status follows its status of earlier states of the tasks.     *)
LEMMA JobStatusMonotone ==
  ASSUME NEW u \in [Task -> TaskState], NEW v \in [Task -> TaskState],
         \A t \in Task : Precedes(u[t], v[t])
  PROVE  Follows(JobStatusOf(u), JobStatusOf(v))
<1>1. Follows(Aggregate({u[t] : t \in Task}), Aggregate({v[t] : t \in Task}))
  BY AggregateMonotone
<1>2. QED
  BY <1>1, JobStatusIsAggregate

(* What the answers are computed from has the answers' type.               *)
LEMMA AggregateAnswer ==
  ASSUME NEW S
  PROVE  /\ Aggregate(S) \in Answer
         /\ Aggregate(S) # "KeyError" => Aggregate(S) \in JobStatus
  BY DEF Aggregate, Combine, Answer, JobStatus

(* A service step or an accepted cancel request leads to a later state.    *)
LEMMA ServiceMovesForward ==
  ASSUME TypeOK, [Next]_vars
  PROVE  \A t \in Task : Precedes(state[t], state'[t])
<1>1. ASSUME NEW t \in Task, ServiceStep(t)
      PROVE  \A t1 \in Task : Precedes(state[t1], state'[t1])
  <2>1. \A s \in TaskState : \A s1 \in After[s] : Precedes(s, s1)
    BY DEF After, Precedes, Phase, TaskState, TerminalState
  <2>2. QED
    BY <1>1, <2>1 DEF ServiceStep, TypeOK, Precedes
<1>2. ASSUME NEW th \in Thread, CancelTask(th)
      PROVE  \A t1 \in Task : Precedes(state[t1], state'[t1])
  <2>1. \A s \in TaskState \ TerminalState :
          Precedes(s, "CANCELLING") \/ s = "CANCELLING"
    BY DEF Precedes, Phase, TaskState, TerminalState
  <2>2. \A s \in TaskState \ TerminalState : Precedes(s, "CANCELLED")
    BY DEF Precedes, Phase, TaskState, TerminalState
  <2>3. QED
    BY <1>2, <2>1, <2>2 DEF CancelTask, CancelRequest, TypeOK, Precedes
<1>3. CASE UNCHANGED state
  BY <1>3 DEF Precedes
<1>4. QED
  BY <1>1, <1>2, <1>3
     DEF Next, vars, StatusCall, CancelCall, ResultCall, QueuePosition,
         StartStatus, FetchState, AnswerStatus, StartCancel, CancelRaises,
         CancelReturns, StartResult, StartResultStatus, GetItem, GiveUp,
         ReadCached, ProgramSetResult, ListResult

-----------------------------------------------------------------------------
(* Before a Result is put together every item is there.                    *)
ItemsThere ==
  \A th \in Thread : pc[th] = "resultStatus" =>
    \A t \in Task : item[th][t] # "waiting"

TypeInv == TypeOK /\ ItemsThere

(* The types hold at first ...                                             *)
LEMMA InitTypeInv == Init => TypeInv
<1> SUFFICES ASSUME Init PROVE TypeInv
  OBVIOUS
<1>1. /\ NoStates \in [Task -> TaskState \cup {NoState}]
      /\ Waiting \in [Task -> Item]
      /\ 1 \in 1..(NTasks + 1)
  BY DEF NoStates, Waiting, Item
<1>2. /\ "idle" \in PC
      /\ NoResult \in Results
      /\ "none" \in Place
      /\ NoAnswer \in Answer \cup {NoAnswer}
  BY DEF PC, Results, Place
<1>3. TypeOK
  BY <1>1, <1>2 DEF Init, TypeOK
<1>4. ItemsThere
  BY DEF Init, ItemsThere
<1>5. QED
  BY <1>3, <1>4 DEF TypeInv

(* ... and are kept by the steps of status(),                              *)
LEMMA StatusCallKeepsTypes ==
  ASSUME TypeInv, NEW th \in Thread, StatusCall(th)
  PROVE  TypeInv'
<1> USE DEF TypeInv, TypeOK, ItemsThere, Goto, Task
<1>1. CASE StartStatus(th)
  <2>1. state \in [Task -> TaskState \cup {NoState}]
    OBVIOUS
  <2>2. QED
    BY <1>1, <2>1 DEF StartStatus, PC
<1>2. CASE FetchState(th)
  BY <1>2 DEF FetchState, StateAsked, Remember
<1>3. CASE AnswerStatus(th)
  <2>1. JobStatusSeen(th) \in Answer
    BY AggregateAnswer DEF JobStatusSeen, StatusOf, MappedState,
                           TaskStatusMap, Answer, JobStatus
  <2>2. NoStates \in [Task -> TaskState \cup {NoState}]
    BY DEF NoStates
  <2>3. QED
    BY <1>3, <2>1, <2>2 DEF AnswerStatus, PC
<1>4. QED
  BY <1>1, <1>2, <1>3 DEF StatusCall

(* of cancel(),                                                            *)
LEMMA CancelCallKeepsTypes ==
  ASSUME TypeInv, NEW th \in Thread, CancelCall(th)
  PROVE  TypeInv'
<1> USE DEF TypeInv, TypeOK, ItemsThere, Goto, Task
<1>1. CASE StartCancel(th)
  <2>1. pc' \in [Thread -> PC] /\ pos' \in [Thread -> 1..(NTasks + 1)]
    BY <1>1 DEF StartCancel, PC
  <2>2. ItemsThere'
    BY <1>1 DEF StartCancel
  <2>3. QED
    BY <1>1, <2>1, <2>2 DEF StartCancel
<1>2. CASE CancelTask(th)
  <2>1. {"CANCELLING", "CANCELLED"} \subseteq TaskState
    BY DEF TaskState, TerminalState
  <2>2. state' \in [Task -> TaskState]
    <3>1. CASE state' = state
      BY <3>1
    <3>2. CASE \E s \in {"CANCELLING", "CANCELLED"} :
                 state' = [state EXCEPT ![pos[th]] = s]
      BY <3>2, <2>1
    <3>3. QED
      BY <1>2, <3>1, <3>2 DEF CancelTask, CancelRequest
  <2>3. pos' \in [Thread -> 1..(NTasks + 1)]
    BY <1>2 DEF CancelTask
  <2>4. QED
    BY <1>2, <2>2, <2>3 DEF CancelTask
<1>3. CASE CancelRaises(th)
  BY <1>3 DEF CancelRaises, PC
<1>4. CASE CancelReturns(th)
  BY <1>4 DEF CancelReturns, PC
<1>5. QED
  BY <1>1, <1>2, <1>3, <1>4 DEF CancelCall

(* Give puts down a Result and goes back to where the thread was.          *)
LEMMA GiveKeepsTypes ==
  ASSUME TypeInv, NEW th \in Thread, NEW r \in Results, Give(th, r)
  PROVE  /\ pc' \in [Thread -> PC] /\ pos' \in [Thread -> 1..(NTasks + 1)]
         /\ seen' \in [Thread -> [Task -> TaskState \cup {NoState}]]
         /\ item' \in [Thread -> [Task -> Item]]
         /\ result' \in [Thread -> Results]
         /\ ItemsThere'
<1>1. /\ NoStates \in [Task -> TaskState \cup {NoState}]
      /\ Waiting \in [Task -> Item]
  BY DEF NoStates, Waiting, Item
<1>2. QED
  BY <1>1 DEF TypeInv, TypeOK, ItemsThere, Give, Goto, PC

(* of result(),                                                            *)
LEMMA ResultCallKeepsTypes ==
  ASSUME TypeInv, NEW th \in Thread, ResultCall(th)
  PROVE  TypeInv'
<1> USE DEF TypeInv, TypeOK, ItemsThere, Task
<1>1. CASE StartResult(th)
  BY <1>1 DEF StartResult, Goto, PC
<1>2. ASSUME NEW t \in Task, GetItem(th, t)
      PROVE  TypeInv'
  BY <1>2 DEF GetItem, ItemOf, Item, Got
<1>3. ASSUME NEW t \in Task, GiveUp(th, t)
      PROVE  TypeInv'
  BY <1>3 DEF GiveUp, Item, Got
<1>4. CASE StartResultStatus(th)
  BY <1>4 DEF StartResultStatus, AllItems, Goto, PC
<1>5. CASE ReadCached(th)
  BY <1>5 DEF ReadCached
<1>6. CASE ProgramSetResult(th)
  <2>1. item[th] \in [Task -> Got]
    BY <1>6 DEF ProgramSetResult, AllItems, Item, Got
  <2>2. state[1] \in TaskState
    BY <1>6, TaskOne DEF ProgramSetResult
  <2>3. ASSUME NEW s \in JobStatus \cup TaskState, NEW b \in BOOLEAN
        PROVE  [kind |-> "result", status |-> s, success |-> b,
                items |-> item[th]] \in Results
    BY <2>1 DEF Results
  <2>4. [kind |-> "raised"] \in Results
    BY DEF Results
  <2>5. PICK r \in Results : Give(th, r)
    BY <1>6, <2>2, <2>3, <2>4 DEF ProgramSetResult
  <2>6. QED
    BY <1>6, <2>2, <2>5, GiveKeepsTypes DEF ProgramSetResult
<1>7. CASE ListResult(th)
  <2>1. item[th] \in [Task -> Got]
    BY <1>7 DEF ListResult, Item, Got
  <2>2. ASSUME NEW s \in JobStatus
        PROVE  [kind |-> "result", status |-> s, success |-> TRUE,
                items |-> item[th]] \in Results
    BY <2>1 DEF Results
  <2>3. [kind |-> "raised"] \in Results
    BY DEF Results
  <2>4. PICK r \in Results : Give(th, r)
    BY <1>7, <2>2, <2>3, AggregateAnswer DEF ListResult
  <2>5. QED
    BY <1>7, <2>4, GiveKeepsTypes DEF ListResult
<1>8. QED
  BY <1>1, <1>2, <1>3, <1>4, <1>5, <1>6, <1>7 DEF ResultCall

(* and by every other step.                                                *)
LEMMA StepKeepsTypes == TypeInv /\ [Next]_vars => TypeInv'
<1> SUFFICES ASSUME TypeInv, [Next]_vars PROVE TypeInv'
  OBVIOUS
<1>1. ASSUME NEW t \in Task, ServiceStep(t)
      PROVE  TypeInv'
  <2>1. \A s \in TaskState : After[s] \subseteq TaskState
    BY DEF After, TaskState, TerminalState
  <2>2. state' \in [Task -> TaskState]
    BY <1>1, <2>1 DEF ServiceStep, TypeInv, TypeOK
  <2>3. QED
    BY <1>1, <2>2 DEF ServiceStep, TypeInv, TypeOK, ItemsThere
<1>2. ASSUME NEW th \in Thread, QueuePosition(th)
      PROVE  TypeInv'
  BY <1>2 DEF QueuePosition, PlaceGiven, Place, TypeInv, TypeOK, ItemsThere
<1>3. CASE UNCHANGED vars
  BY <1>3 DEF vars, TypeInv, TypeOK, ItemsThere
<1>4. QED
  BY <1>1, <1>2, <1>3, StatusCallKeepsTypes, CancelCallKeepsTypes,
     ResultCallKeepsTypes DEF Next

(* Type correctness of the job.                                            *)
THEOREM Typing == Spec => []TypeOK
<1>1. TypeInv => TypeOK
  BY DEF TypeInv
<1>2. QED
  BY <1>1, InitTypeInv, StepKeepsTypes, PTL DEF Spec

-----------------------------------------------------------------------------
(* What the status loop has read lies, task by task, between the task's    *)
(* state when the call began and its state now.                            *)
ReadsOf(th) ==
  /\ began[th] \in [Task -> TaskState]
  /\ \A t \in Task :
       /\ Precedes(began[th][t], state[t])
       /\ t < pos[th] => /\ seen[th][t] \in TaskState
                         /\ Precedes(began[th][t], seen[th][t])
                         /\ Precedes(seen[th][t], state[t])

ReadsInOrder == \A th \in Thread : pc[th] = "status" => ReadsOf(th)

(* A later state of a later state is a later state.                        *)
LEMMA PrecedesTransitive ==
  \A a, b, c \in TaskState : Precedes(a, b) /\ Precedes(b, c) => Precedes(a, c)
  BY DEF Precedes, Phase, TaskState, TerminalState

(* A thread's reads stay in order while the service moves.                 *)
LEMMA ReadsStayInOrder ==
  ASSUME TypeOK, TypeOK', [Next]_vars, NEW th \in Thread, ReadsOf(th),
         UNCHANGED <<began[th], pos[th], seen[th]>>
  PROVE  ReadsOf(th)'
<1>1. \A t \in Task : Precedes(state[t], state'[t])
  BY ServiceMovesForward
<1>2. QED
  BY <1>1, PrecedesTransitive DEF ReadsOf, TypeOK

(* A status loop's reads stay between the tasks' states at its start and   *)
(* their states now, whatever step is taken.                               *)
LEMMA ReadsInOrderStep ==
  TypeOK /\ TypeOK' /\ ReadsInOrder /\ [Next]_vars => ReadsInOrder'
<1> SUFFICES ASSUME TypeOK, TypeOK', ReadsInOrder, [Next]_vars,
                    NEW th \in Thread, pc'[th] = "status"
             PROVE  ReadsOf(th)'
  BY DEF ReadsInOrder
<1>1. CASE StartStatus(th)
  <2>1. state' = state /\ began'[th] = state /\ pos'[th] = 1
    BY <1>1 DEF StartStatus, Goto, TypeOK
  <2>2. QED
    BY <2>1 DEF ReadsOf, Precedes, TypeOK, Task
<1>2. CASE FetchState(th)
  <2> DEFINE t == pos[th]
  <2>1. ReadsOf(th) /\ t \in Task
    BY <1>2 DEF FetchState, ReadsInOrder, ReadsOf
  <2>2. /\ UNCHANGED <<state, began>> /\ pos'[th] = t + 1
        /\ seen'[th] = [seen[th] EXCEPT ![t] = state[t]]
    BY <1>2 DEF FetchState, StateAsked, TypeOK
  <2>3. \A t1 \in Task : t1 < t + 1 => t1 < t \/ t1 = t
    BY <2>1 DEF Task
  <2>4. seen[th] \in [Task -> TaskState \cup {NoState}] /\ state \in [Task -> TaskState]
    BY DEF TypeOK
  <2>5. QED
    BY <2>1, <2>2, <2>3, <2>4 DEF ReadsOf, Precedes
<1>3. CASE ~StartStatus(th) /\ ~FetchState(th)
  <2>1. pc[th] = "status" /\ UNCHANGED <<began[th], pos[th], seen[th]>>
    <3>1. ASSUME NEW u \in Thread, StatusCall(u)
          PROVE  pc[th] = "status" /\ UNCHANGED <<began[th], pos[th], seen[th]>>
      BY <1>3, <3>1 DEF StatusCall, StartStatus, FetchState, AnswerStatus, Goto,
                        TypeOK
    <3>2. ASSUME NEW u \in Thread, CancelCall(u)
          PROVE  pc[th] = "status" /\ UNCHANGED <<began[th], pos[th], seen[th]>>
      BY <3>2 DEF CancelCall, StartCancel, CancelTask, CancelRaises,
                  CancelReturns, Goto, TypeOK
    <3>3. ASSUME NEW u \in Thread, ResultCall(u)
          PROVE  pc[th] = "status" /\ UNCHANGED <<began[th], pos[th], seen[th]>>
      BY <3>3 DEF ResultCall, StartResult, StartResultStatus, GetItem, GiveUp,
                  AllItems, ReadCached, ProgramSetResult, ListResult, Give,
                  Goto, TypeOK
    <3>4. QED
      BY <3>1, <3>2, <3>3 DEF Next, vars, ServiceStep, QueuePosition
  <2>2. ReadsOf(th)
    BY <2>1 DEF ReadsInOrder
  <2>3. QED
    BY <2>1, <2>2, ReadsStayInOrder
<1>4. QED
  BY <1>1, <1>2, <1>3

(* The inductive invariant of the refinement.                              *)
LEMMA Invariants == Spec => [](TypeOK /\ ReadsInOrder)
<1>1. Init => ReadsInOrder
  BY DEF Init, ReadsInOrder
<1>2. QED
  BY <1>1, Typing, ReadsInOrderStep, PTL DEF Spec

-----------------------------------------------------------------------------
(* JobLifecycle's TaskStatus is this module's.                             *)
LEMMA SameStatuses ==
  /\ Lifecycle!Answer = Answer /\ Lifecycle!NoAnswer = NoAnswer
  /\ Lifecycle!Stage = Stage
  /\ \A a, b : Lifecycle!Follows(a, b) <=> Follows(a, b)
  BY DEF Lifecycle!Answer, Answer, Lifecycle!JobStatus, JobStatus,
         Lifecycle!NoAnswer, NoAnswer, Lifecycle!Stage, Stage,
         Lifecycle!Follows, Follows, Lifecycle!FinalStatus, FinalStatus

(* A job that follows another and is not the same is further along.        *)
LEMMA FollowsIsAdvance ==
  ASSUME NEW a \in Answer, NEW b \in Answer, Follows(a, b), a # b
  PROVE  Stage[a] < Stage[b]
  BY DEF Follows, Stage, Answer, JobStatus, FinalStatus

(* A step that starts or ends no status() call is the job moving on, or    *)
(* nothing.                                                                *)
LEMMA QuietStep ==
  ASSUME TypeOK, TypeOK', [Next]_vars, UNCHANGED <<answer, began>>,
         \A th \in Thread : pc'[th] = "status" <=> pc[th] = "status"
  PROVE  [Lifecycle!Next]_Lifecycle!vars
<1>1. /\ JobStatusNow \in Answer /\ JobStatusNow' \in Answer
      /\ Follows(JobStatusNow, JobStatusNow')
  BY ServiceMovesForward, JobStatusType, JobStatusMonotone
     DEF JobStatusNow, TypeOK
<1>2. JobStatusBefore' = JobStatusBefore
  BY DEF JobStatusBefore, JobStatusOf
<1>3. CASE JobStatusNow' = JobStatusNow
  BY <1>2, <1>3 DEF Lifecycle!vars
<1>4. CASE JobStatusNow' # JobStatusNow
  <2>1. Lifecycle!Advance
    BY <1>1, <1>2, <1>4, FollowsIsAdvance, SameStatuses
       DEF Lifecycle!Advance
  <2>2. QED
    BY <2>1 DEF Lifecycle!Next
<1>5. QED
  BY <1>3, <1>4

(* A call of status() that starts is a poll that begins ...                *)
LEMMA StartStatusIsBeginPoll ==
  ASSUME TypeOK, NEW th \in Thread, StartStatus(th)
  PROVE  Lifecycle!BeginPoll(th)
<1>1. JobStatusBefore[th] = NoAnswer
  BY DEF JobStatusBefore, StartStatus
<1>2. JobStatusBefore' = [JobStatusBefore EXCEPT ![th] = JobStatusNow]
  <2>1. \A u \in Thread : /\ (pc'[u] = "status") <=> (u = th \/ pc[u] = "status")
                         /\ began'[u] = IF u = th THEN state ELSE began[u]
    BY DEF StartStatus, Goto, TypeOK
  <2>2. \A u \in Thread : JobStatusBefore'[u] =
                           IF u = th THEN JobStatusNow ELSE JobStatusBefore[u]
    BY <2>1 DEF JobStatusBefore, JobStatusNow
  <2>3. QED
    BY <2>2 DEF JobStatusBefore
<1>3. UNCHANGED <<JobStatusNow, answer>>
  BY DEF JobStatusNow, JobStatusOf, StartStatus
<1>4. QED
  BY <1>1, <1>2, <1>3, SameStatuses DEF Lifecycle!BeginPoll

(* ... and the answer it gets one the abstract job may give.               *)
LEMMA AnswerStatusIsEndPoll ==
  ASSUME TypeOK, ReadsInOrder, NEW th \in Thread, AnswerStatus(th)
  PROVE  Lifecycle!EndPoll(th)
<1> DEFINE a == JobStatusSeen(th)
<1>1. /\ seen[th] \in [Task -> TaskState] /\ began[th] \in [Task -> TaskState]
      /\ state \in [Task -> TaskState]
      /\ \A t \in Task : /\ Precedes(began[th][t], seen[th][t])
                         /\ Precedes(seen[th][t], state[t])
  <2>1. \A t \in Task : t < pos[th]
    BY DEF AnswerStatus, Task
  <2>2. QED
    BY <2>1 DEF AnswerStatus, ReadsInOrder, ReadsOf, TypeOK
<1>2. a = JobStatusOf(seen[th])
  BY DEF JobStatusSeen, JobStatusOf, StatesSeen
<1>3. a \in Answer /\ JobStatusOf(began[th]) \in Answer
  BY <1>1, <1>2, JobStatusType
<1>4. JobStatusBefore[th] = JobStatusOf(began[th])
  BY DEF JobStatusBefore, AnswerStatus
<1>5. Follows(JobStatusBefore[th], a) /\ Follows(a, JobStatusNow)
  BY <1>1, <1>2, <1>4, JobStatusMonotone DEF JobStatusNow
<1>6. JobStatusBefore[th] # NoAnswer
  BY <1>3, <1>4 DEF Answer, JobStatus, NoAnswer
<1>7. answer' = [answer EXCEPT ![th] = a]
  BY DEF AnswerStatus
<1>8. JobStatusBefore' = [JobStatusBefore EXCEPT ![th] = NoAnswer]
  <2>1. \A u \in Thread :
          /\ (pc'[u] = "status") <=> (u # th /\ pc[u] = "status")
          /\ u # th => began'[u] = began[u]
    BY DEF AnswerStatus, Goto, TypeOK
  <2>2. \A u \in Thread : JobStatusBefore'[u] =
                           IF u = th THEN NoAnswer ELSE JobStatusBefore[u]
    BY <2>1 DEF JobStatusBefore, JobStatusOf
  <2>3. QED
    BY <2>2 DEF JobStatusBefore
<1>9. UNCHANGED JobStatusNow
  BY DEF JobStatusNow, JobStatusOf, AnswerStatus
<1> HIDE DEF a
<1>10. QED
  BY <1>3, <1>5, <1>6, <1>7, <1>8, <1>9, SameStatuses
     DEF Lifecycle!EndPoll

(* Every step of the job is a step of the abstract job, or none.           *)
LEMMA StepRefines ==
  TypeOK /\ TypeOK' /\ ReadsInOrder /\ [Next]_vars
    => [Lifecycle!Next]_Lifecycle!vars
<1> SUFFICES ASSUME TypeOK, TypeOK', ReadsInOrder, [Next]_vars
             PROVE  [Lifecycle!Next]_Lifecycle!vars
  OBVIOUS
<1>1. ASSUME NEW th \in Thread, StartStatus(th)
      PROVE  [Lifecycle!Next]_Lifecycle!vars
  BY <1>1, StartStatusIsBeginPoll DEF Lifecycle!Next
<1>2. ASSUME NEW th \in Thread, AnswerStatus(th)
      PROVE  [Lifecycle!Next]_Lifecycle!vars
  BY <1>2, AnswerStatusIsEndPoll DEF Lifecycle!Next
<1>3. ASSUME \A th \in Thread : ~StartStatus(th) /\ ~AnswerStatus(th)
      PROVE  [Lifecycle!Next]_Lifecycle!vars
  <2>1. /\ UNCHANGED <<answer, began>>
        /\ \A th \in Thread : pc'[th] = "status" <=> pc[th] = "status"
    <3>1. ASSUME NEW u \in Thread, CancelCall(u)
          PROVE  /\ UNCHANGED <<answer, began>>
                 /\ \A th \in Thread : pc'[th] = "status" <=> pc[th] = "status"
      BY <3>1 DEF CancelCall, StartCancel, CancelTask, CancelRaises,
                  CancelReturns, Goto, TypeOK
    <3>2. ASSUME NEW u \in Thread, ResultCall(u)
          PROVE  /\ UNCHANGED <<answer, began>>
                 /\ \A th \in Thread : pc'[th] = "status" <=> pc[th] = "status"
      BY <3>2 DEF ResultCall, StartResult, StartResultStatus, GetItem, GiveUp,
                  AllItems, ReadCached, ProgramSetResult, ListResult, Give,
                  Goto, TypeOK
    <3>3. QED
      BY <1>3, <3>1, <3>2 DEF Next, vars, StatusCall, FetchState, ServiceStep,
                              QueuePosition
  <2>2. QED
    BY <2>1, QuietStep
<1>4. QED
  BY <1>1, <1>2, <1>3

(* ImplementsLifecycle: the job, where a call reads the tasks one after    *)
(* the other, behaves as one that has a single status at every moment.     *)
THEOREM JobImplementsLifecycle == Spec => ImplementsLifecycle
<1>1. Init => Lifecycle!Init
  <2> SUFFICES ASSUME Init PROVE Lifecycle!Init
    OBVIOUS
  <2>1. state \in [Task -> TaskState]
    BY DEF Init
  <2>2. JobStatusNow \in Answer
    BY <2>1, JobStatusType DEF JobStatusNow
  <2>3. JobStatusBefore = [th \in Thread |-> NoAnswer]
    BY DEF Init, JobStatusBefore
  <2>4. QED
    BY <2>2, <2>3, SameStatuses DEF Init, Lifecycle!Init
<1>2. QED
  BY <1>1, Invariants, StepRefines, PTL
     DEF Spec, Lifecycle!Spec, ImplementsLifecycle

-----------------------------------------------------------------------------
(* What is proved of the abstract job holds of this one.                   *)
Abstract == INSTANCE JobLifecycle_proofs
              WITH status <- JobStatusNow, since <- JobStatusBefore,
                   told <- answer

(* The two instances of JobLifecycle are one.                              *)
LEMMA SameLifecycle ==
  /\ Lifecycle!Init => Abstract!Init
  /\ [Lifecycle!Next]_Lifecycle!vars => [Abstract!Next]_Abstract!vars
  /\ Abstract!FinalAnswersAgree => FinalAnswersAgree
  /\ [\A th \in Thread : Abstract!Follows(answer[th], answer'[th])]_Abstract!vars
       => [\A th \in Thread : Lifecycle!Follows(answer[th], answer'[th])]_Lifecycle!vars
<1>1. /\ Lifecycle!Answer = Abstract!Answer
      /\ Lifecycle!NoAnswer = Abstract!NoAnswer
      /\ Lifecycle!Stage = Abstract!Stage
      /\ Lifecycle!FinalStatus = Abstract!FinalStatus
      /\ \A a, b : Lifecycle!Follows(a, b) <=> Abstract!Follows(a, b)
  BY DEF Lifecycle!Answer, Abstract!Answer, Lifecycle!JobStatus,
         Abstract!JobStatus, Lifecycle!NoAnswer, Abstract!NoAnswer,
         Lifecycle!Stage, Abstract!Stage, Lifecycle!Follows, Abstract!Follows,
         Lifecycle!FinalStatus, Abstract!FinalStatus
<1>2. Lifecycle!Init => Abstract!Init
  BY <1>1 DEF Lifecycle!Init, Abstract!Init
<1>3. Lifecycle!vars = Abstract!vars /\ Lifecycle!vars' = Abstract!vars'
  BY DEF Lifecycle!vars, Abstract!vars
<1>4. Lifecycle!Advance => Abstract!Advance
  BY <1>1 DEF Lifecycle!Advance, Abstract!Advance
<1>5. \A th \in Thread : Lifecycle!BeginPoll(th) => Abstract!BeginPoll(th)
  BY <1>1 DEF Lifecycle!BeginPoll, Abstract!BeginPoll
<1>6. \A th \in Thread : Lifecycle!EndPoll(th) => Abstract!EndPoll(th)
  BY <1>1 DEF Lifecycle!EndPoll, Abstract!EndPoll
<1>7. Abstract!FinalAnswersAgree => FinalAnswersAgree
  BY <1>1 DEF Abstract!FinalAnswersAgree, Lifecycle!FinalAnswersAgree,
              FinalAnswersAgree
<1>8. [Lifecycle!Next]_Lifecycle!vars => [Abstract!Next]_Abstract!vars
  BY <1>3, <1>4, <1>5, <1>6 DEF Lifecycle!Next, Abstract!Next
<1>9. QED
  BY <1>1, <1>2, <1>3, <1>7, <1>8

(* FinalAnswersAgree, of the job with its tasks.                           *)
THEOREM FinalAnswersAgreeAlways == Spec => []FinalAnswersAgree
<1>1. Abstract!Spec => []Abstract!FinalAnswersAgree
  BY Abstract!FinalAnswersAgreeAlways
<1>2. QED
  BY <1>1, SameLifecycle, JobImplementsLifecycle, PTL
     DEF ImplementsLifecycle, Lifecycle!Spec, Abstract!Spec

(* AnswersNeverRegress, of the job with its tasks.                         *)
THEOREM AnswersNeverRegressAlways == Spec => AnswersNeverRegress
<1>1. Abstract!Spec => Abstract!AnswersNeverRegress
  BY Abstract!AnswersNeverRegressAlways
<1>2. QED
  BY <1>1, SameLifecycle, JobImplementsLifecycle, PTL
     DEF ImplementsLifecycle, Lifecycle!Spec, Abstract!Spec,
         AnswersNeverRegress, Lifecycle!AnswersNeverRegress,
         Abstract!AnswersNeverRegress

-----------------------------------------------------------------------------
(* The result of the job.                                                  *)
Gotten(i) == i \in {"data", "none"}

(* What a handle remembers is the task's state, or one it had before.      *)
Remembers == \A t \in Task : cached[t] # NoState => Precedes(cached[t], state[t])

(* A task whose result a thread has, has ended, and its handle knows.      *)
ItemsFit ==
  \A th \in Thread : \A t \in Task :
    Gotten(item[th][t]) =>
      /\ state[t] \in TerminalState /\ cached[t] = state[t]
      /\ item[th][t] = "data" <=> state[t] = "COMPLETED"

(* The states result() has read from the handles are states the tasks had; *)
(* of a task whose result it has, the last one.                            *)
ReadFits ==
  \A th \in Thread :
    pc[th] = "resultStatus" =>
      /\ Kind # "programset"
      /\ \A t \in Task :
           t < pos[th] =>
             /\ seen[th][t] \in TaskState /\ Precedes(seen[th][t], state[t])
             /\ Gotten(item[th][t]) => seen[th][t] = state[t]

(* What status() has read, the handles know.                               *)
StatusRemembered ==
  \A th \in Thread : \A t \in Task :
    pc[th] = "status" /\ t < pos[th] =>
      /\ seen[th][t] \in TaskState /\ cached[t] # NoState
      /\ Precedes(seen[th][t], cached[t])

(* A thread's last answer was of states behind which neither the handles   *)
(* are, nor what its result() has read from them since.                    *)
Behind(th, u) ==
  /\ u \in [Task -> TaskState]
  /\ answer[th] = Aggregate({u[t] : t \in Task})
  /\ \A t \in Task :
       /\ cached[t] # NoState /\ Precedes(u[t], cached[t])
       /\ pc[th] = "resultStatus" /\ t < pos[th] => Precedes(u[t], seen[th][t])

AnswerRemembered ==
  Kind # "programset" =>
    \A th \in Thread : answer[th] # NoAnswer => \E u : Behind(th, u)

ResultsFit == ResultItemsFitStatus /\ ResultIsComplete /\ ProgramSetResultIsWhole

ResultInv ==
  /\ Remembers /\ ItemsFit /\ ReadFits
  /\ StatusRemembered /\ AnswerRemembered /\ ResultsFit
-----------------------------------------------------------------------------
(* A task that has ended stays as it is.                                   *)
LEMMA EndedStays ==
  \A a \in TerminalState : \A b \in TaskState : Precedes(a, b) => b = a
  BY DEF Precedes, Phase, TaskState, TerminalState

(* A handle's state changes to the task's present one only.                *)
LEMMA HandlesAreTold ==
  ASSUME TypeOK, [Next]_vars, NEW t \in Task
  PROVE  \/ cached'[t] = cached[t]
         \/ cached'[t] = state[t] /\ state' = state
<1>1. ASSUME NEW th \in Thread, StatusCall(th)
      PROVE  \/ cached'[t] = cached[t]
             \/ cached'[t] = state[t] /\ state' = state
  BY <1>1 DEF StatusCall, StartStatus, FetchState, Remember, StateAsked,
              AnswerStatus, TypeOK
<1>2. ASSUME NEW th \in Thread, ResultCall(th)
      PROVE  \/ cached'[t] = cached[t]
             \/ cached'[t] = state[t] /\ state' = state
  <2>1. CASE ProgramSetResult(th)
    BY <2>1, TaskOne DEF ProgramSetResult, TypeOK
  <2>2. CASE ReadCached(th)
    BY <2>2 DEF ReadCached, TypeOK
  <2>3. CASE \E t1 \in Task : GetItem(th, t1) \/ GiveUp(th, t1)
    BY <2>3 DEF GetItem, GiveUp, TypeOK
  <2>4. QED
    BY <1>2, <2>1, <2>2, <2>3
       DEF ResultCall, StartResult, StartResultStatus, ListResult
<1>3. QED
  BY <1>1, <1>2
     DEF Next, vars, CancelCall, StartCancel, CancelTask, CancelRaises,
         CancelReturns, ServiceStep, QueuePosition

(* So it stays behind the task, and only moves forward.                    *)
LEMMA RemembersStep ==
  ASSUME TypeOK, TypeOK', [Next]_vars, Remembers
  PROVE  /\ Remembers'
         /\ \A t \in Task : cached[t] # NoState =>
              cached'[t] # NoState /\ Precedes(cached[t], cached'[t])
<1> SUFFICES ASSUME NEW t \in Task
             PROVE  /\ cached'[t] # NoState => Precedes(cached'[t], state'[t])
                    /\ cached[t] # NoState =>
                         cached'[t] # NoState /\ Precedes(cached[t], cached'[t])
  BY DEF Remembers
<1>1. Precedes(state[t], state'[t])
  BY ServiceMovesForward
<1>2. /\ state[t] \in TaskState /\ state'[t] \in TaskState
      /\ cached[t] \in TaskState \cup {NoState}
      /\ cached[t] # NoState => Precedes(cached[t], state[t])
  BY DEF TypeOK, Remembers
<1>3. NoState \notin TaskState /\ \A s : Precedes(s, s)
  BY DEF NoState, TaskState, TerminalState, Precedes
<1>4. CASE cached'[t] = cached[t]
  BY <1>1, <1>2, <1>3, <1>4, PrecedesTransitive
<1>5. CASE cached'[t] = state[t]
  BY <1>1, <1>2, <1>3, <1>5
<1>6. QED
  BY <1>4, <1>5, HandlesAreTold

-----------------------------------------------------------------------------
(* An item changes when a task's result comes in, a wait is given up, or a *)
(* Result is put together.                                                 *)
LEMMA ItemSteps ==
  ASSUME TypeOK, [Next]_vars, NEW th \in Thread, NEW t \in Task,
         Gotten(item'[th][t])
  PROVE  \/ item'[th][t] = item[th][t]
         \/ /\ state[t] \in TerminalState /\ state' = state
            /\ cached'[t] = state[t]
            /\ item'[th][t] = "data" <=> state[t] = "COMPLETED"
            /\ pc' = pc /\ pc[th] = "fetch"
<1> USE DEF Gotten, TypeOK
<1>1. ASSUME NEW u \in Thread, NEW t1 \in Task, GetItem(u, t1)
      PROVE  \/ item'[th][t] = item[th][t]
             \/ /\ state[t] \in TerminalState /\ state' = state
                /\ cached'[t] = state[t]
                /\ item'[th][t] = "data" <=> state[t] = "COMPLETED"
                /\ pc' = pc /\ pc[th] = "fetch"
  BY <1>1 DEF GetItem, ItemOf, ResultReady
<1>2. ASSUME NEW u \in Thread, NEW t1 \in Task, GiveUp(u, t1)
      PROVE  item'[th][t] = item[th][t]
  BY <1>2 DEF GiveUp
<1>3. ASSUME NEW u \in Thread, NEW r, Give(u, r)
      PROVE  item'[th][t] = item[th][t]
  BY <1>3 DEF Give, Waiting
<1>4. ASSUME NEW u \in Thread, ResultCall(u)
      PROVE  \/ item'[th][t] = item[th][t]
             \/ /\ state[t] \in TerminalState /\ state' = state
                /\ cached'[t] = state[t]
                /\ item'[th][t] = "data" <=> state[t] = "COMPLETED"
                /\ pc' = pc /\ pc[th] = "fetch"
  <2>1. CASE ProgramSetResult(u) \/ ListResult(u)
    BY <2>1, <1>3 DEF ProgramSetResult, ListResult
  <2>2. QED
    BY <1>1, <1>2, <1>4, <2>1
       DEF ResultCall, StartResult, StartResultStatus, ReadCached
<1>5. QED
  BY <1>4
     DEF Next, vars, StatusCall, StartStatus, FetchState, AnswerStatus,
         CancelCall, StartCancel, CancelTask, CancelRaises, CancelReturns,
         ServiceStep, QueuePosition

(* The results a thread has stay those of ended tasks its handles know.    *)
LEMMA ItemsFitStep ==
  ASSUME TypeOK, TypeOK', [Next]_vars, ItemsFit
  PROVE  ItemsFit'
<1> SUFFICES ASSUME NEW th \in Thread, NEW t \in Task, Gotten(item'[th][t])
             PROVE  /\ state'[t] \in TerminalState /\ cached'[t] = state'[t]
                    /\ item'[th][t] = "data" <=> state'[t] = "COMPLETED"
  BY DEF ItemsFit
<1>1. CASE item'[th][t] = item[th][t]
  <2>1. /\ state[t] \in TerminalState /\ cached[t] = state[t]
        /\ item[th][t] = "data" <=> state[t] = "COMPLETED"
    BY <1>1 DEF ItemsFit
  <2>2. state'[t] = state[t]
    BY <2>1, ServiceMovesForward, EndedStays DEF TypeOK
  <2>3. QED
    BY <1>1, <2>1, <2>2, HandlesAreTold
<1>2. CASE item'[th][t] # item[th][t]
  BY <1>2, ItemSteps
<1>3. QED
  BY <1>1, <1>2

(* Where a thread's loop of result() is, and what it has read, changes by  *)
(* its own steps only.                                                     *)
LEMMA ReadSteps ==
  ASSUME TypeOK, [Next]_vars, NEW th \in Thread, pc'[th] = "resultStatus"
  PROVE  \/ pc[th] = "resultStatus" /\ UNCHANGED <<pos[th], seen[th], item[th]>>
         \/ pc[th] = "fetch" /\ pos'[th] = 1 /\ Kind # "programset"
         \/ ReadCached(th)
<1> DEFINE Fine == \/ /\ pc[th] = "resultStatus"
                      /\ UNCHANGED <<pos[th], seen[th], item[th]>>
                   \/ pc[th] = "fetch" /\ pos'[th] = 1 /\ Kind # "programset"
                   \/ ReadCached(th)
<1> USE DEF TypeOK, Goto
<1>1. ASSUME NEW u \in Thread, StatusCall(u) PROVE Fine
  BY <1>1 DEF StatusCall, StartStatus, FetchState, AnswerStatus
<1>2. ASSUME NEW u \in Thread, CancelCall(u) PROVE Fine
  BY <1>2 DEF CancelCall, StartCancel, CancelTask, CancelRaises, CancelReturns
<1>3. ASSUME NEW u \in Thread, ResultCall(u) PROVE Fine
  <2>1. ASSUME NEW r, Give(u, r) PROVE Fine
    BY <2>1 DEF Give
  <2>2. CASE ProgramSetResult(u) \/ ListResult(u)
    BY <2>1, <2>2 DEF ProgramSetResult, ListResult
  <2>3. CASE ReadCached(u)
    BY <2>3 DEF ReadCached
  <2>4. CASE \E t \in Task : GetItem(u, t) \/ GiveUp(u, t)
    BY <2>4 DEF GetItem, GiveUp
  <2>5. CASE StartResult(u) \/ StartResultStatus(u)
    BY <2>5 DEF StartResult, StartResultStatus, AllItems
  <2>6. QED
    BY <1>3, <2>2, <2>3, <2>4, <2>5 DEF ResultCall
<1>4. QED
  BY <1>1, <1>2, <1>3 DEF Next, vars, ServiceStep, QueuePosition

(* What result() has read stays behind the tasks, and right about those    *)
(* whose result it has.                                                    *)
LEMMA ReadFitsStep ==
  ASSUME TypeOK, TypeOK', [Next]_vars, Remembers, ItemsFit, ReadFits
  PROVE  ReadFits'
<1>0. \A th \in Thread : pc'[th] = "resultStatus" => Kind # "programset"
  BY ReadSteps DEF ReadFits, ReadCached
<1> SUFFICES ASSUME NEW th \in Thread, NEW t \in Task,
                    pc'[th] = "resultStatus", t < pos'[th]
             PROVE  /\ seen'[th][t] \in TaskState
                    /\ Precedes(seen'[th][t], state'[t])
                    /\ Gotten(item'[th][t]) => seen'[th][t] = state'[t]
  BY <1>0 DEF ReadFits
<1>1. Precedes(state[t], state'[t]) /\ state[t] \in TaskState
      /\ state'[t] \in TaskState
  BY ServiceMovesForward DEF TypeOK
<1>2. CASE pc[th] = "resultStatus" /\ UNCHANGED <<pos[th], seen[th], item[th]>>
  <2>1. /\ seen[th][t] \in TaskState /\ Precedes(seen[th][t], state[t])
        /\ Gotten(item[th][t]) => seen[th][t] = state[t]
    BY <1>2 DEF ReadFits
  <2>2. Gotten(item[th][t]) => state'[t] = state[t]
    BY <1>1, EndedStays DEF ItemsFit
  <2>3. QED
    BY <1>1, <1>2, <2>1, <2>2, PrecedesTransitive
<1>3. CASE pc[th] = "fetch" /\ pos'[th] = 1 /\ Kind # "programset"
  BY <1>3 DEF Task
<1>4. CASE ReadCached(th)
  <2>1. CASE t = pos[th]
    <3>1. /\ seen'[th][t] = IF Kind = "local" \/ cached[t] = NoState
                              THEN state[t] ELSE cached[t]
          /\ state' = state /\ item' = item
      BY <1>4, <2>1 DEF ReadCached, TypeOK
    <3>2. cached[t] # NoState =>
            cached[t] \in TaskState /\ Precedes(cached[t], state[t])
      BY DEF Remembers, TypeOK
    <3>3. Gotten(item[th][t]) => cached[t] = state[t]
      BY DEF ItemsFit
    <3>4. QED
      BY <1>1, <3>1, <3>2, <3>3 DEF Precedes
  <2>2. CASE t # pos[th]
    <3>1. /\ pos'[th] = pos[th] + 1 /\ seen'[th][t] = seen[th][t]
          /\ state' = state /\ item' = item /\ pc[th] = "resultStatus"
      BY <1>4, <2>2 DEF ReadCached, TypeOK
    <3>2. t < pos[th]
      BY <2>2, <3>1 DEF Task, TypeOK
    <3>3. QED
      BY <3>1, <3>2 DEF ReadFits
  <2>3. QED
    BY <2>1, <2>2
<1>5. QED
  BY <1>2, <1>3, <1>4, ReadSteps

-----------------------------------------------------------------------------
(* Likewise for the loop of status() ...                                   *)
LEMMA StatusSteps ==
  ASSUME TypeOK, [Next]_vars, NEW th \in Thread, pc'[th] = "status"
  PROVE  \/ pc[th] = "status" /\ UNCHANGED <<pos[th], seen[th]>>
         \/ pos'[th] = 1
         \/ FetchState(th)
<1> DEFINE Fine == \/ pc[th] = "status" /\ UNCHANGED <<pos[th], seen[th]>>
                   \/ pos'[th] = 1
                   \/ FetchState(th)
<1> USE DEF TypeOK, Goto
<1>1. ASSUME NEW u \in Thread, StatusCall(u) PROVE Fine
  BY <1>1 DEF StatusCall, StartStatus, FetchState, AnswerStatus
<1>2. ASSUME NEW u \in Thread, CancelCall(u) PROVE Fine
  BY <1>2 DEF CancelCall, StartCancel, CancelTask, CancelRaises, CancelReturns
<1>3. ASSUME NEW u \in Thread, ResultCall(u) PROVE Fine
  <2>1. ASSUME NEW r, Give(u, r) PROVE Fine
    BY <2>1 DEF Give
  <2>2. CASE ProgramSetResult(u) \/ ListResult(u)
    BY <2>1, <2>2 DEF ProgramSetResult, ListResult
  <2>3. QED
    BY <1>3, <2>2 DEF ResultCall, StartResult, StartResultStatus, ReadCached,
                      GetItem, GiveUp, AllItems
<1>4. QED
  BY <1>1, <1>2, <1>3 DEF Next, vars, ServiceStep, QueuePosition

(* What status() has read stays known to the handles.                      *)
LEMMA StatusRememberedStep ==
  ASSUME TypeOK, TypeOK', [Next]_vars, Remembers, StatusRemembered
  PROVE  StatusRemembered'
<1> SUFFICES ASSUME NEW th \in Thread, NEW t \in Task,
                    pc'[th] = "status", t < pos'[th]
             PROVE  /\ seen'[th][t] \in TaskState /\ cached'[t] # NoState
                    /\ Precedes(seen'[th][t], cached'[t])
  BY DEF StatusRemembered
<1>1. cached[t] # NoState => cached'[t] # NoState /\ Precedes(cached[t], cached'[t])
  BY RemembersStep
<1>2. \A t1 \in Task : cached[t1] # NoState => cached[t1] \in TaskState
  BY DEF TypeOK
<1>3. cached'[t] # NoState => cached'[t] \in TaskState
  BY DEF TypeOK
<1>4. CASE pc[th] = "status" /\ UNCHANGED <<pos[th], seen[th]>>
  <2>1. /\ seen[th][t] \in TaskState /\ cached[t] # NoState
        /\ Precedes(seen[th][t], cached[t])
    BY <1>4 DEF StatusRemembered
  <2>2. QED
    BY <1>1, <1>2, <1>3, <1>4, <2>1, PrecedesTransitive
<1>5. CASE pos'[th] = 1
  BY <1>5 DEF Task
<1>6. CASE FetchState(th)
  <2>1. CASE t = pos[th]
    <3>1. seen'[th][t] = state[t] /\ cached'[t] = state[t]
      BY <1>6, <2>1 DEF FetchState, StateAsked, Remember, TypeOK
    <3>2. state[t] \in TaskState /\ NoState \notin TaskState
      BY DEF TypeOK, NoState, TaskState, TerminalState
    <3>3. QED
      BY <3>1, <3>2 DEF Precedes
  <2>2. CASE t # pos[th]
    <3>1. /\ pos'[th] = pos[th] + 1 /\ seen'[th][t] = seen[th][t]
          /\ pc[th] = "status"
      BY <1>6, <2>2 DEF FetchState, TypeOK
    <3>2. t < pos[th]
      BY <2>2, <3>1 DEF Task, TypeOK
    <3>3. /\ seen[th][t] \in TaskState /\ cached[t] # NoState
          /\ Precedes(seen[th][t], cached[t])
      BY <3>1, <3>2 DEF StatusRemembered
    <3>4. QED
      BY <1>1, <1>2, <1>3, <3>1, <3>3, PrecedesTransitive
  <2>3. QED
    BY <2>1, <2>2
<1>7. QED
  BY <1>4, <1>5, <1>6, StatusSteps

(* ... and for the answers.                                                *)
LEMMA AnswerSteps ==
  ASSUME TypeOK, [Next]_vars, NEW th \in Thread
  PROVE  answer'[th] = answer[th] \/ AnswerStatus(th)
<1> USE DEF TypeOK
<1>1. ASSUME NEW u \in Thread, StatusCall(u)
      PROVE  answer'[th] = answer[th] \/ AnswerStatus(th)
  BY <1>1 DEF StatusCall, StartStatus, FetchState, AnswerStatus
<1>2. QED
  BY <1>1 DEF Next, vars, ServiceStep, QueuePosition, CancelCall, StartCancel,
              CancelTask, CancelRaises, CancelReturns, ResultCall, StartResult,
              StartResultStatus, ReadCached, GetItem, GiveUp, ProgramSetResult,
              ListResult

(* What an answer was of stays behind the handles and the loop of result().*)
LEMMA BehindStays ==
  ASSUME TypeOK, TypeOK', [Next]_vars, Remembers, NEW th \in Thread,
         NEW u, Behind(th, u), answer'[th] = answer[th]
  PROVE  Behind(th, u)'
<1>1. ASSUME NEW t \in Task
      PROVE  cached'[t] # NoState /\ Precedes(u[t], cached'[t])
  <2>1. cached[t] # NoState /\ Precedes(u[t], cached[t]) /\ u[t] \in TaskState
    BY DEF Behind
  <2>2. cached'[t] # NoState /\ Precedes(cached[t], cached'[t])
    BY <2>1, RemembersStep
  <2>3. cached[t] \in TaskState /\ cached'[t] \in TaskState
    BY <2>1, <2>2 DEF TypeOK
  <2>4. QED
    BY <2>1, <2>2, <2>3, PrecedesTransitive
<1>2. ASSUME NEW t \in Task, pc'[th] = "resultStatus", t < pos'[th]
      PROVE  Precedes(u[t], seen'[th][t])
  <2>1. CASE pc[th] = "resultStatus" /\ UNCHANGED <<pos[th], seen[th], item[th]>>
    BY <1>2, <2>1 DEF Behind
  <2>2. CASE pc[th] = "fetch" /\ pos'[th] = 1 /\ Kind # "programset"
    BY <1>2, <2>2 DEF Task
  <2>3. CASE ReadCached(th)
    <3>1. CASE t = pos[th]
      <4>1. seen'[th][t] \in {state[t], cached[t]}
        BY <2>3, <3>1 DEF ReadCached, TypeOK
      <4>2. /\ cached[t] # NoState /\ Precedes(u[t], cached[t])
            /\ u[t] \in TaskState
        BY DEF Behind
      <4>3. /\ cached[t] \in TaskState /\ state[t] \in TaskState
            /\ Precedes(cached[t], state[t])
        BY <4>2 DEF TypeOK, Remembers
      <4>4. QED
        BY <4>1, <4>2, <4>3, PrecedesTransitive
    <3>2. CASE t # pos[th]
      <4>1. /\ pos'[th] = pos[th] + 1 /\ seen'[th][t] = seen[th][t]
            /\ pc[th] = "resultStatus"
        BY <2>3, <3>2 DEF ReadCached, TypeOK
      <4>2. t < pos[th]
        BY <1>2, <3>2, <4>1 DEF Task, TypeOK
      <4>3. QED
        BY <4>1, <4>2 DEF Behind
    <3>3. QED
      BY <3>1, <3>2
  <2>4. QED
    BY <1>2, <2>1, <2>2, <2>3, ReadSteps
<1>3. QED
  BY <1>1, <1>2 DEF Behind

(* Every answer of status() was of states the handles have not gone back   *)
(* behind.                                                                 *)
LEMMA AnswerRememberedStep ==
  ASSUME TypeOK, TypeOK', [Next]_vars, Remembers, StatusRemembered,
         AnswerRemembered
  PROVE  AnswerRemembered'
<1> SUFFICES ASSUME Kind # "programset", NEW th \in Thread,
                    answer'[th] # NoAnswer
             PROVE  \E u : Behind(th, u)'
  BY DEF AnswerRemembered
<1>1. CASE answer'[th] = answer[th]
  BY <1>1, BehindStays DEF AnswerRemembered
<1>2. CASE AnswerStatus(th)
  <2>1. /\ answer'[th] = Aggregate({seen[th][t] : t \in Task})
        /\ cached' = cached /\ pc'[th] = "idle"
    BY <1>2 DEF AnswerStatus, JobStatusSeen, StatesSeen, Goto, TypeOK
  <2>2. \A t \in Task : /\ seen[th][t] \in TaskState /\ cached[t] # NoState
                        /\ Precedes(seen[th][t], cached[t])
    <3>1. pc[th] = "status" /\ pos[th] = NTasks + 1
      BY <1>2 DEF AnswerStatus
    <3>2. \A t \in Task : t < pos[th]
      BY <3>1 DEF Task
    <3>3. QED
      BY <3>1, <3>2 DEF StatusRemembered
  <2>3. seen[th] \in [Task -> TaskState]
    BY <2>2 DEF TypeOK
  <2>4. PICK u : u = seen[th]
    OBVIOUS
  <2>5. Behind(th, u)'
    BY <2>1, <2>2, <2>3, <2>4 DEF Behind
  <2>6. QED
    BY <2>5
<1>3. QED
  BY <1>1, <1>2, AnswerSteps

-----------------------------------------------------------------------------
(* The aggregate of tasks that have ended is final.                        *)
LEMMA AggregateOfEnded ==
  ASSUME NEW A \in SUBSET TerminalState, A # {}
  PROVE  Aggregate(A) \in FinalStatus
<1> DEFINE S == {TaskStatusMap[s] : s \in A}
<1>1. A \subseteq MappedState /\ S \subseteq FinalStatus
  BY DEF FinalStatus, TerminalState, MappedState, TaskStatusMap
<1>2. \E s \in S : TRUE
  OBVIOUS
<1>3. Aggregate(A) = Combine(S)
  BY <1>1 DEF Aggregate
<1> HIDE DEF S
<1>4. "DONE" \notin S => S \subseteq {"ERROR", "CANCELLED"}
  BY <1>1 DEF FinalStatus
<1>5. "DONE" \notin S /\ "ERROR" \notin S => "CANCELLED" \in S /\ S = {"CANCELLED"}
  BY <1>2, <1>4
<1>6. QED
  BY <1>1, <1>3, <1>4, <1>5 DEF Combine, FinalStatus

(* A list with a task that completed is done or runs on, if it has a       *)
(* status.                                                                 *)
LEMMA AggregateWithDone ==
  ASSUME NEW A \in SUBSET TaskState, "COMPLETED" \in A,
         Aggregate(A) # "KeyError"
  PROVE  Aggregate(A) \in {"RUNNING", "DONE"}
<1>1. A \subseteq MappedState
  BY DEF Aggregate
<1>2. "DONE" \in {TaskStatusMap[s] : s \in A}
  BY <1>1 DEF TaskStatusMap, MappedState
<1>3. QED
  BY <1>1, <1>2 DEF Aggregate, Combine

(* The Result a list's job gives, at the step that gives it.               *)
LEMMA ListResultFits ==
  ASSUME TypeInv, ItemsFit, ReadFits, NEW th \in Thread,
         ListResult(th), result'[th].kind = "result"
  PROVE  LET r == result'[th]
         IN /\ r.status = Aggregate({seen[th][t] : t \in Task})
            /\ seen[th] \in [Task -> TaskState]
            /\ r.items = item[th]
            /\ (\E t \in Task : r.items[t] = "data")
                 => r.status \in {"RUNNING", "DONE"}
            /\ r.status \in FinalStatus => r.status = JobStatusNow
            /\ NTasks > 0 /\ (\A t \in Task : r.items[t] # "early")
                 => r.status \in FinalStatus
<1>0. TypeOK
  BY DEF TypeInv
<1> DEFINE r == result'[th]
           A == {seen[th][t] : t \in Task}
<1>1. /\ r.status = Aggregate(A) /\ Aggregate(A) # "KeyError"
      /\ r.items = item[th]
  <2>1. result'[th] = IF Aggregate(A) = "KeyError"
                        THEN [kind |-> "raised"]
                        ELSE [kind |-> "result", status |-> Aggregate(A),
                              success |-> TRUE, items |-> item[th]]
    BY <1>0 DEF ListResult, Give, StatesSeen, TypeOK
  <2>2. QED
    BY <2>1
<1>2. \A t \in Task :
        /\ seen[th][t] \in TaskState /\ Precedes(seen[th][t], state[t])
        /\ Gotten(item[th][t]) => seen[th][t] = state[t]
  <2>1. pc[th] = "resultStatus" /\ pos[th] = NTasks + 1
    BY DEF ListResult
  <2>2. \A t \in Task : t < pos[th]
    BY <2>1 DEF Task
  <2>3. QED
    BY <2>1, <2>2 DEF ReadFits
<1>3. seen[th] \in [Task -> TaskState] /\ state \in [Task -> TaskState]
  BY <1>0, <1>2 DEF TypeOK
<1>4. A \in SUBSET TaskState
  BY <1>3
<1>5. ASSUME NEW t \in Task, r.items[t] = "data"
      PROVE  r.status \in {"RUNNING", "DONE"}
  <2>1. seen[th][t] = "COMPLETED"
    BY <1>1, <1>2, <1>5 DEF Gotten, ItemsFit
  <2>2. "COMPLETED" \in A
    BY <2>1
  <2>3. QED
    BY <1>1, <1>4, <2>2, AggregateWithDone
<1>6. r.status \in FinalStatus => r.status = JobStatusNow
  <2>1. Follows(Aggregate(A), Aggregate({state[t] : t \in Task}))
    BY <1>2, <1>3, AggregateMonotone
  <2>2. Kind # "programset"
    BY DEF ListResult, ReadFits
  <2>3. QED
    BY <1>1, <2>1, <2>2 DEF Follows, JobStatusNow, JobStatusOf
<1>7. ASSUME NTasks > 0, \A t \in Task : r.items[t] # "early"
      PROVE  r.status \in FinalStatus
  <2>1. \A t \in Task : Gotten(item[th][t])
    <3>1. \A t \in Task : item[th][t] \in Item \ {"waiting", "early"}
      BY <1>0, <1>1, <1>7 DEF TypeInv, TypeOK, ItemsThere, ListResult
    <3>2. QED
      BY <3>1 DEF Gotten, Item, Got
  <2>2. \A t \in Task : seen[th][t] \in TerminalState
    BY <1>2, <2>1 DEF ItemsFit
  <2>3. 1 \in Task
    BY <1>7 DEF Task
  <2>4. A \in SUBSET TerminalState /\ A # {}
    BY <2>2, <2>3
  <2>5. QED
    BY <1>1, <2>4, AggregateOfEnded
<1>8. QED
  BY <1>1, <1>3, <1>5, <1>6, <1>7

(* A program set's Result.                                                 *)
LEMMA ProgramSetResultFits ==
  ASSUME TypeInv, ItemsFit, NEW th \in Thread, ProgramSetResult(th),
         result'[th].kind = "result"
  PROVE  LET r == result'[th]
         IN r.items[1] = "data" /\ r.status = "COMPLETED" /\ r.success
<1>1. Kind = "programset" /\ 1 \in Task
  BY TaskOne DEF ProgramSetResult
<1>2. result'[th] = IF ~Iterable(item[th][1])
                      THEN [kind |-> "raised"]
                      ELSE [kind |-> "result", status |-> state[1],
                            success |-> state[1] \notin {"FAILED", "CANCELLED"},
                            items |-> item[th]]
  BY DEF ProgramSetResult, Give, TypeInv, TypeOK
<1>3. item[th][1] = "data"
  BY <1>2 DEF Iterable
<1>4. state[1] = "COMPLETED"
  BY <1>1, <1>3 DEF ItemsFit, Gotten
<1>5. result'[th].items = item[th] /\ result'[th].status = state[1]
  BY <1>2, <1>3 DEF Iterable
<1>6. (state[1] \notin {"FAILED", "CANCELLED"}) = TRUE
  BY <1>4
<1>7. result'[th].success
  <2>1. result'[th] = [kind |-> "result", status |-> state[1],
                       success |-> state[1] \notin {"FAILED", "CANCELLED"},
                       items |-> item[th]]
    BY <1>2, <1>3 DEF Iterable
  <2>2. result'[th] = [kind |-> "result", status |-> state[1],
                       success |-> TRUE, items |-> item[th]]
    BY <1>6, <2>1, Zenon
  <2>3. QED
    BY <2>2
<1>8. QED
  BY <1>3, <1>4, <1>5, <1>7

(* A thread's Result changes when it is given one.                         *)
LEMMA ResultSteps ==
  ASSUME TypeOK, [Next]_vars, NEW th \in Thread
  PROVE  \/ result'[th] = result[th]
         \/ ListResult(th) \/ ProgramSetResult(th)
<1> USE DEF TypeOK
<1>1. ASSUME NEW u \in Thread, NEW r, Give(u, r), u # th
      PROVE  result'[th] = result[th]
  BY <1>1 DEF Give
<1>2. ASSUME NEW u \in Thread, ListResult(u) \/ ProgramSetResult(u), u # th
      PROVE  result'[th] = result[th]
  BY <1>1, <1>2 DEF ListResult, ProgramSetResult
<1>3. ASSUME NEW u \in Thread, ResultCall(u)
      PROVE  \/ result'[th] = result[th]
             \/ ListResult(th) \/ ProgramSetResult(th)
  BY <1>2, <1>3 DEF ResultCall, StartResult, StartResultStatus, ReadCached,
                    GetItem, GiveUp
<1>4. QED
  BY <1>3 DEF Next, vars, ServiceStep, QueuePosition, StatusCall, StartStatus,
              FetchState, AnswerStatus, CancelCall, StartCancel, CancelTask,
              CancelRaises, CancelReturns

(* A Result that fits its tasks goes on to fit them, as tasks that have    *)
(* ended, and jobs that are final, stay.                                   *)
LEMMA ResultsFitStep ==
  ASSUME TypeInv, TypeInv', [Next]_vars, ItemsFit, ReadFits, ResultsFit
  PROVE  ResultsFit'
<1> DEFINE Fits(r, st, now) ==
      /\ Kind # "programset" =>
           /\ (\E t \in Task : r.items[t] = "data")
                => r.status \in {"RUNNING", "DONE"}
           /\ r.status \in FinalStatus => r.status = now
      /\ Kind # "programset" /\ NTasks > 0 =>
           /\ \A t \in Task :
                r.items[t] # "early" =>
                  /\ st[t] \in TerminalState
                  /\ r.items[t] = "data" <=> st[t] = "COMPLETED"
           /\ (\A t \in Task : r.items[t] # "early") => r.status \in FinalStatus
      /\ Kind = "programset" =>
           /\ r.items[1] = "data"
           /\ r.status = "COMPLETED" /\ r.success
<1>0. /\ TypeOK /\ TypeOK'
      /\ state \in [Task -> TaskState] /\ state' \in [Task -> TaskState]
  BY DEF TypeInv, TypeOK
<1>1. \A th \in Thread :
        result[th].kind = "result" => Fits(result[th], state, JobStatusNow)
  BY DEF ResultsFit, ResultItemsFitStatus, ResultIsComplete,
         ProgramSetResultIsWhole
<1>2. ASSUME NEW th \in Thread, result'[th].kind = "result"
      PROVE  Fits(result'[th], state', JobStatusNow')
  <2>1. CASE result'[th] = result[th]
    <3>1. Fits(result[th], state, JobStatusNow)
      BY <1>1, <1>2, <2>1
    <3>2. \A t \in Task : state[t] \in TerminalState => state'[t] = state[t]
      BY <1>0, ServiceMovesForward, EndedStays
    <3>3. JobStatusNow \in FinalStatus => JobStatusNow' = JobStatusNow
      BY <1>0, ServiceMovesForward, JobStatusMonotone DEF Follows, JobStatusNow
    <3>4. QED
      BY <2>1, <3>1, <3>2, <3>3
  <2>2. CASE ListResult(th)
    <3>1. Kind # "programset" /\ state' = state
      BY <2>2 DEF ListResult, ReadFits
    <3>2. JobStatusNow' = JobStatusNow
      BY <3>1 DEF JobStatusNow, JobStatusOf
    <3>3. result'[th].items = item[th]
      BY <1>2, <2>2, ListResultFits
    <3>4. item[th] \in [Task -> Got]
      BY <1>0, <2>2 DEF TypeInv, TypeOK, ItemsThere, ListResult, Item
    <3>5. \A t \in Task :
            item[th][t] # "early" =>
              /\ state[t] \in TerminalState
              /\ item[th][t] = "data" <=> state[t] = "COMPLETED"
      BY <3>4 DEF ItemsFit, Gotten, Got
    <3>6. QED
      BY <1>2, <2>2, <3>1, <3>2, <3>3, <3>5, ListResultFits
  <2>3. CASE ProgramSetResult(th)
    BY <1>2, <2>3, ProgramSetResultFits DEF ProgramSetResult
  <2>4. QED
    BY <1>0, <2>1, <2>2, <2>3, ResultSteps
<1>3. QED
  BY <1>2 DEF ResultsFit, ResultItemsFitStatus, ResultIsComplete,
              ProgramSetResultIsWhole

-----------------------------------------------------------------------------
(* The whole invariant: it holds at first and is kept.                     *)
LEMMA ResultInvariant == Spec => [](TypeInv /\ ResultInv)
<1>1. Init => ResultInv
  <2> SUFFICES ASSUME Init PROVE ResultInv
    OBVIOUS
  <2>1. Remembers /\ ItemsFit
    BY DEF Init, Remembers, ItemsFit, NoStates, Waiting, Gotten
  <2>2. ReadFits /\ StatusRemembered /\ AnswerRemembered
    BY DEF Init, ReadFits, StatusRemembered, AnswerRemembered
  <2>3. ResultsFit
    BY DEF Init, ResultsFit, ResultItemsFitStatus, ResultIsComplete,
           ProgramSetResultIsWhole, NoResult
  <2>4. QED
    BY <2>1, <2>2, <2>3 DEF ResultInv
<1>2. TypeInv /\ TypeInv' /\ ResultInv /\ [Next]_vars => ResultInv'
  BY RemembersStep, ItemsFitStep, ReadFitsStep, StatusRememberedStep,
     AnswerRememberedStep, ResultsFitStep DEF ResultInv, TypeInv
<1>3. QED
  BY <1>1, <1>2, InitTypeInv, StepKeepsTypes, PTL DEF Spec

(* ResultItemsFitStatus: a Result that has a task's counts says that the   *)
(* job is done or runs on, and one that is final says what the job is.     *)
THEOREM ResultItemsAlwaysFitStatus == Spec => []ResultItemsFitStatus
<1>1. ResultInv => ResultItemsFitStatus
  BY DEF ResultInv, ResultsFit
<1>2. QED
  BY <1>1, ResultInvariant, PTL

(* ResultIsComplete: only a wait that ended early leaves a task that       *)
(* completed out of a Result.                                              *)
THEOREM ResultIsAlwaysComplete == Spec => []ResultIsComplete
<1>1. ResultInv => ResultIsComplete
  BY DEF ResultInv, ResultsFit
<1>2. QED
  BY <1>1, ResultInvariant, PTL

(* ProgramSetResultIsWhole: a program set's Result has its counts and says *)
(* that it completed.                                                      *)
THEOREM ProgramSetResultIsAlwaysWhole == Spec => []ProgramSetResultIsWhole
<1>1. ResultInv => ProgramSetResultIsWhole
  BY DEF ResultInv, ResultsFit
<1>2. QED
  BY <1>1, ResultInvariant, PTL

(* ResultNotBehindAnswer: the status a Result takes from what the handles  *)
(* remember is not behind what its thread was told before.                 *)
THEOREM ResultNeverBehindAnswer == Spec => ResultNotBehindAnswer
<1> DEFINE NotBehind ==
      \A th \in Thread :
        result'[th] # result[th] /\ result'[th].kind = "result"
          /\ Kind # "programset" => Follows(answer[th], result'[th].status)
<1>1. TypeInv /\ ResultInv /\ [Next]_vars => [NotBehind]_vars
  <2> SUFFICES ASSUME TypeInv, ResultInv, [Next]_vars, NEW th \in Thread,
                      result'[th] # result[th], result'[th].kind = "result",
                      Kind # "programset"
               PROVE  Follows(answer[th], result'[th].status)
    OBVIOUS
  <2> USE DEF ResultInv
  <2>1. ListResult(th)
    BY ResultSteps DEF TypeInv, ProgramSetResult
  <2>2. /\ result'[th].status = Aggregate({seen[th][t] : t \in Task})
        /\ seen[th] \in [Task -> TaskState]
    BY <2>1, ListResultFits
  <2>3. CASE answer[th] = NoAnswer
    <3>1. Aggregate({seen[th][t] : t \in Task}) \in Answer
      BY <2>2, AggregateType
    <3>2. QED
      BY <2>2, <2>3, <3>1
         DEF Follows, Stage, NoAnswer, Answer, JobStatus, FinalStatus
  <2>4. CASE answer[th] # NoAnswer
    <3>1. PICK u : Behind(th, u)
      BY <2>4 DEF AnswerRemembered
    <3>2. pc[th] = "resultStatus" /\ pos[th] = NTasks + 1
      BY <2>1 DEF ListResult
    <3>3. \A t \in Task : t < pos[th]
      BY <3>2 DEF Task
    <3>4. \A t \in Task : Precedes(u[t], seen[th][t])
      BY <3>1, <3>2, <3>3 DEF Behind
    <3>5. u \in [Task -> TaskState] /\ answer[th] = Aggregate({u[t] : t \in Task})
      BY <3>1 DEF Behind
    <3>6. QED
      BY <2>2, <3>4, <3>5, AggregateMonotone
  <2>5. QED
    BY <2>3, <2>4
<1>2. QED
  BY <1>1, ResultInvariant, PTL DEF Spec, ResultNotBehindAnswer
=============================================================================
