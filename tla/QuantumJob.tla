----------------------------- MODULE QuantumJob -----------------------------
(***************************************************************************)
(* BraketQuantumTask (providers/braket_quantum_task.py): the job over the  *)
(* tasks that one BraketBackend.run created, called by several threads.    *)
(* Its calls are loops over the tasks, each turn a request to the service, *)
(* and the service moves between any two of them.                          *)
(*                                                                         *)
(* The Braket service and the SDK's task handles are external: a task      *)
(* moves through its lifecycle on its own, a handle remembers the state it *)
(* fetched last, a cancel request may be refused, and a wait for a result  *)
(* may end with nothing (poll timeout, or its future was cancelled).       *)
(***************************************************************************)
EXTENDS TaskStatus

CONSTANTS NTasks,  \* how many tasks the job has
          Kind,    \* what _tasks holds: "aws" or "local" for a list of such
                   \* tasks, "programset" for one AwsQuantumTask
          Thread,  \* the caller's threads
          First,   \* the states in which a thread may first find a task
          May,     \* thread -> the calls it makes
          GiveUps  \* whether a wait for a task's result may end early

Call == {"status", "cancel", "result", "queue_position"}

ASSUME NTasksAssumption == NTasks \in Nat
ASSUME KindAssumption ==
  /\ Kind \in {"aws", "local", "programset"}
  /\ Kind = "programset" => NTasks = 1
ASSUME FirstAssumption == First \subseteq TaskState
ASSUME MayAssumption == May \in [Thread -> SUBSET Call]
ASSUME GiveUpsAssumption == GiveUps \in BOOLEAN

Task == 1..NTasks

VARIABLES state,  \* service: task -> its state
          cached, \* handle: task -> the state it fetched last
          pc,     \* thread -> the call it is in
          pos,    \* thread -> the task its loop is at
          seen,   \* thread -> task -> the state its status loop has read
          item,   \* thread -> task -> what the task's result() gave
          answer, \* thread -> the last answer of status()
          result, \* thread -> the last answer of result()
          place,  \* thread -> the last answer of queue_position()
          began   \* history: thread -> the tasks' states when its call of
                  \* status() began

vars == <<state, cached, pc, pos, seen, item, answer, result, place, began>>

NoState == "unfetched"
NoStates == [t \in Task |-> NoState]
PC == {"idle", "status", "cancel", "fetch", "resultStatus"}
Got == {"data", "none", "early"}  \* "early" is None, too: the wait gave up
Item == Got \cup {"waiting"}
Waiting == [t \in Task |-> "waiting"]
NoResult == [kind |-> "none"]
Place == {"none", "position", "NotImplementedError", "unknown task"}

Results ==
  {NoResult, [kind |-> "raised"]}
    \cup [kind : {"result"}, status : JobStatus \cup TaskState,
          success : BOOLEAN, items : [Task -> Got]]

TypeOK ==
  /\ state \in [Task -> TaskState]
  /\ cached \in [Task -> TaskState \cup {NoState}]
  /\ pc \in [Thread -> PC]
  /\ pos \in [Thread -> 1..(NTasks + 1)]
  /\ seen \in [Thread -> [Task -> TaskState \cup {NoState}]]
  /\ item \in [Thread -> [Task -> Item]]
  /\ answer \in [Thread -> Answer \cup {NoAnswer}]
  /\ result \in [Thread -> Results]
  /\ place \in [Thread -> Place]
  /\ began \in [Thread -> [Task -> TaskState \cup {NoState}]]

(* __init__; the service has the tasks, the handles fetched nothing yet.   *)
Init ==
  /\ state \in [Task -> First]
  /\ cached = NoStates
  /\ pc = [th \in Thread |-> "idle"]
  /\ pos = [th \in Thread |-> 1]
  /\ seen = [th \in Thread |-> NoStates]
  /\ item = [th \in Thread |-> Waiting]
  /\ answer = [th \in Thread |-> NoAnswer]
  /\ result = [th \in Thread |-> NoResult]
  /\ place = [th \in Thread |-> "none"]
  /\ began = [th \in Thread |-> NoStates]

-----------------------------------------------------------------------------
(* External: one step of a task's lifecycle.                               *)
After ==
  [CREATED |-> {"QUEUED"}, INITIALIZED |-> {"QUEUED"}, QUEUED |-> {"RUNNING"},
   RUNNING |-> {"COMPLETED", "FAILED"}, CANCELLING |-> {"CANCELLED"},
   COMPLETED |-> {}, FAILED |-> {}, CANCELLED |-> {}]

ServiceStep(t) ==
  /\ \E s \in After[state[t]] : state' = [state EXCEPT ![t] = s]
  /\ UNCHANGED <<cached, pc, pos, seen, item, answer, result, place,
                 began>>

Goto(th, where) ==
  /\ pc' = [pc EXCEPT ![th] = where]
  /\ pos' = [pos EXCEPT ![th] = 1]

-----------------------------------------------------------------------------
(* status()                                                                *)
StartStatus(th) ==
  /\ pc[th] = "idle" /\ "status" \in May[th]
  /\ Goto(th, "status")
  /\ began' = [began EXCEPT ![th] = state]
  /\ UNCHANGED <<state, cached, seen, item, answer, result, place>>

(* task.state() asks the service; the handle keeps what it is told.        *)
(* Mutants: every call gets the state the handle has; the state is asked   *)
(* of a new handle, as queue_position() does, and this one never knows.    *)
StateAsked_Cached(t) ==
  IF cached[t] = NoState THEN state[t] ELSE cached[t]
StateAsked(t) == state[t]

Remember_NewHandle(t, s) == UNCHANGED cached
Remember(t, s) == cached' = [cached EXCEPT ![t] = s]

(* One turn of the set comprehension.                                      *)
FetchState(th) ==
  LET t == pos[th]
  IN /\ pc[th] = "status" /\ t \in Task
     /\ seen' = [seen EXCEPT ![th][t] = StateAsked(t)]
     /\ Remember(t, StateAsked(t))
     /\ pos' = [pos EXCEPT ![th] = t + 1]
     /\ UNCHANGED <<state, pc, item, answer, result, place, began>>

StatesSeen(th) == {seen[th][t] : t \in Task}

(* The answer: the map's value for a program set's one task, the aggregate *)
(* of the set of states for a list.                                        *)
JobStatusSeen(th) ==
  IF Kind = "programset" THEN StatusOf(seen[th][1])
                         ELSE Aggregate(StatesSeen(th))

AnswerStatus(th) ==
  /\ pc[th] = "status" /\ pos[th] = NTasks + 1
  /\ answer' = [answer EXCEPT ![th] = JobStatusSeen(th)]
  /\ seen' = [seen EXCEPT ![th] = NoStates]
  /\ began' = [began EXCEPT ![th] = NoStates]
  /\ Goto(th, "idle")
  /\ UNCHANGED <<state, cached, item, result, place>>

-----------------------------------------------------------------------------
(* cancel(): task.cancel() for one task after the other, nothing caught.   *)
StartCancel(th) ==
  /\ pc[th] = "idle" /\ "cancel" \in May[th]
  /\ Goto(th, "cancel")
  /\ UNCHANGED <<state, cached, seen, item, answer, result, place, began>>

(* External: an accepted request moves an unfinished task towards its end. *)
(* Mutant: only tasks that run are asked to stop.                          *)
CancelRequest_OnlyRunning(t) ==
  IF state[t] # "RUNNING"
    THEN UNCHANGED state
    ELSE state' = [state EXCEPT ![t] = "CANCELLING"]
CancelRequest(t) ==
  IF state[t] \in TerminalState
    THEN UNCHANGED state
    ELSE \E s \in {"CANCELLING", "CANCELLED"} :
           state' = [state EXCEPT ![t] = s]

CancelTask(th) ==
  LET t == pos[th]
  IN /\ pc[th] = "cancel" /\ t \in Task
     /\ CancelRequest(t)
     /\ pos' = [pos EXCEPT ![th] = t + 1]
     /\ UNCHANGED <<cached, pc, seen, item, answer, result, place, began>>

(* The request is refused: the exception leaves the loop where it is.      *)
CancelRaises(th) ==
  /\ pc[th] = "cancel" /\ pos[th] \in Task
  /\ Goto(th, "idle")
  /\ UNCHANGED <<state, cached, seen, item, answer, result, place, began>>

CancelReturns(th) ==
  /\ pc[th] = "cancel" /\ pos[th] = NTasks + 1
  /\ Goto(th, "idle")
  /\ UNCHANGED <<state, cached, seen, item, answer, result, place, began>>

-----------------------------------------------------------------------------
(* result(): first every task's own result, in whatever order the pool of  *)
(* _retrieve_results gets them ...                                         *)
StartResult(th) ==
  /\ pc[th] = "idle" /\ "result" \in May[th]
  /\ Goto(th, "fetch")
  /\ UNCHANGED <<state, cached, seen, item, answer, result, place, began>>

(* _result_from_circuit_task: a task that ended without a result gives     *)
(* None.  Mutants: the result is never looked at; only a completed task's  *)
(* wait comes to an end.                                                   *)
ItemOf_Unchecked(s) == "data"
ItemOf(s) == IF s = "COMPLETED" THEN "data" ELSE "none"

ResultReady_OnlyCompleted(t) == state[t] = "COMPLETED"
ResultReady(t) == state[t] \in TerminalState

GetItem(th, t) ==
  /\ pc[th] = "fetch" /\ item[th][t] = "waiting"
  /\ ResultReady(t)
  /\ item' = [item EXCEPT ![th][t] = ItemOf(state[t])]
  /\ cached' = [cached EXCEPT ![t] = state[t]]
  /\ UNCHANGED <<state, pc, pos, seen, answer, result, place, began>>

(* External: the wait ends with nothing; the handle may or may not have    *)
(* asked for the state before.                                             *)
GiveUp(th, t) ==
  /\ GiveUps /\ Kind # "local"
  /\ pc[th] = "fetch" /\ item[th][t] = "waiting"
  /\ item' = [item EXCEPT ![th][t] = "early"]
  /\ \/ UNCHANGED cached
     \/ cached' = [cached EXCEPT ![t] = state[t]]
  /\ UNCHANGED <<state, pc, pos, seen, answer, result, place, began>>

AllItems(th) ==
  pc[th] = "fetch" /\ \A t \in Task : item[th][t] # "waiting"

Give(th, r) ==
  /\ result' = [result EXCEPT ![th] = r]
  /\ item' = [item EXCEPT ![th] = Waiting]
  /\ seen' = [seen EXCEPT ![th] = NoStates]
  /\ Goto(th, "idle")

(* ... for a program set the only task's, which raises when it is None,    *)
(* and the task's own state as it is then ...                              *)
(* Mutant: None is taken for a result without executables.                 *)
Iterable_None(i) == TRUE
Iterable(i) == i = "data"

ProgramSetResult(th) ==
  /\ Kind = "programset" /\ AllItems(th)
  /\ IF ~Iterable(item[th][1])
       THEN Give(th, [kind |-> "raised"]) /\ UNCHANGED cached
       ELSE /\ Give(th, [kind |-> "result", status |-> state[1],
                         success |-> state[1] \notin {"FAILED", "CANCELLED"},
                         items |-> item[th]])
            /\ cached' = [cached EXCEPT ![1] = state[1]]
  /\ UNCHANGED <<state, answer, place, began>>

(* ... and for a list the job's status from the states the handles know    *)
(* (the status loop with use_cached_value=True; a local task has no cache  *)
(* and a handle that never fetched asks the service).                      *)
StartResultStatus(th) ==
  /\ Kind # "programset" /\ AllItems(th)
  /\ Goto(th, "resultStatus")
  /\ UNCHANGED <<state, cached, seen, item, answer, result, place, began>>

ReadCached(th) ==
  LET t == pos[th]
      fresh == Kind = "local" \/ cached[t] = NoState
  IN /\ pc[th] = "resultStatus" /\ t \in Task
     /\ seen' = [seen EXCEPT ![th][t] = IF fresh THEN state[t] ELSE cached[t]]
     /\ cached' = IF fresh THEN [cached EXCEPT ![t] = state[t]] ELSE cached
     /\ pos' = [pos EXCEPT ![th] = t + 1]
     /\ UNCHANGED <<state, pc, item, answer, result, place, began>>

(* A JobStatus is never one of the strings it is compared with, so success *)
(* is True whatever the status.                                            *)
ListResult(th) ==
  LET status == Aggregate(StatesSeen(th))
  IN /\ pc[th] = "resultStatus" /\ pos[th] = NTasks + 1
     /\ Give(th, IF status = "KeyError"
                   THEN [kind |-> "raised"]
                   ELSE [kind |-> "result", status |-> status,
                         success |-> TRUE, items |-> item[th]])
     /\ UNCHANGED <<state, cached, answer, place, began>>

-----------------------------------------------------------------------------
(* queue_position(): of a list, the SDK is asked about a task whose id is  *)
(* the job's whole id, the tasks' ids joined by ";".                       *)
PlaceGiven ==
  IF Kind = "programset" THEN "position"
  ELSE IF NTasks = 0 THEN "none"
  ELSE IF Kind = "local" THEN "NotImplementedError"
  ELSE IF NTasks = 1 THEN "position" ELSE "unknown task"

QueuePosition(th) ==
  /\ pc[th] = "idle" /\ "queue_position" \in May[th]
  /\ place' = [place EXCEPT ![th] = PlaceGiven]
  /\ UNCHANGED <<state, cached, pc, pos, seen, item, answer, result, began>>

-----------------------------------------------------------------------------
StatusCall(th) == StartStatus(th) \/ FetchState(th) \/ AnswerStatus(th)

CancelCall(th) ==
  \/ StartCancel(th) \/ CancelTask(th) \/ CancelRaises(th)
  \/ CancelReturns(th)

ResultCall(th) ==
  \/ StartResult(th) \/ StartResultStatus(th)
  \/ \E t \in Task : GetItem(th, t) \/ GiveUp(th, t)
  \/ ReadCached(th) \/ ProgramSetResult(th) \/ ListResult(th)

Next ==
  \/ \E t \in Task : ServiceStep(t)
  \/ \E th \in Thread :
       StatusCall(th) \/ CancelCall(th) \/ ResultCall(th) \/ QueuePosition(th)

Spec == Init /\ [][Next]_vars

(* A thread that is in a call goes on with it.  The service finishes what  *)
(* it runs and what it cancels, but a task may stay queued for ever: the   *)
(* device may be offline.  Nothing makes a thread start a call, nor a wait *)
(* end early.                                                              *)
Continue(th) ==
  \/ FetchState(th) \/ AnswerStatus(th)
  \/ CancelTask(th) \/ CancelRaises(th) \/ CancelReturns(th)
  \/ StartResultStatus(th) \/ ReadCached(th)
  \/ ProgramSetResult(th) \/ ListResult(th)
  \/ \E t \in Task : GetItem(th, t)

Finish(t) == state[t] \in {"RUNNING", "CANCELLING"} /\ ServiceStep(t)

Fairness ==
  /\ \A th \in Thread : WF_vars(Continue(th))
  /\ \A t \in Task : WF_vars(Finish(t))

FairSpec == Spec /\ Fairness

-----------------------------------------------------------------------------
(* The job that the tasks' states make, at this moment and when a thread's *)
(* call of status() began.                                                 *)
JobStatusOf(states) ==
  IF Kind = "programset" THEN StatusOf(states[1])
                         ELSE Aggregate({states[t] : t \in Task})

JobStatusNow == JobStatusOf(state)
JobStatusBefore ==
  [th \in Thread |->
     IF pc[th] = "status" THEN JobStatusOf(began[th]) ELSE NoAnswer]

Lifecycle == INSTANCE JobLifecycle
               WITH status <- JobStatusNow, since <- JobStatusBefore,
                    told <- answer

(* A call of status(), which asks for one task's state after the other     *)
(* while the tasks move on and other threads cancel them, answers with     *)
(* something the job can have been between the call's start and its end.   *)
ImplementsLifecycle == Lifecycle!Spec

(* Two threads that were both told a final status were told the same.      *)
FinalAnswersAgree == Lifecycle!FinalAnswersAgree

(* No thread is told a status behind the one it was told before; a final   *)
(* one is never taken back.                                                *)
AnswersNeverRegress == Lifecycle!AnswersNeverRegress

(* A Result of a list that carries a task's counts says that the job is    *)
(* done or runs on; one that says the job failed or was cancelled carries  *)
(* none: result() and the cached status it reports fit together although   *)
(* they are read one after the other.                                      *)
ResultItemsFitStatus ==
  \A th \in Thread :
    result[th].kind = "result" /\ Kind # "programset" =>
      /\ (\E t \in Task : result[th].items[t] = "data")
           => result[th].status \in {"RUNNING", "DONE"}
      /\ result[th].status \in FinalStatus => result[th].status = JobStatusNow

(* The status in a Result, taken from what the handles remember, is not    *)
(* behind the answer of status() its thread had before.                    *)
ResultNotBehindAnswer ==
  [][\A th \in Thread :
       result'[th] # result[th] /\ result'[th].kind = "result"
         /\ Kind # "programset" =>
           Follows(answer[th], result'[th].status)]_vars

(* A Result of a list is complete but for the waits that ended early: it   *)
(* has the counts of exactly the other tasks that completed, and without   *)
(* such a wait its status is final.                                        *)
ResultIsComplete ==
  \A th \in Thread :
    result[th].kind = "result" /\ Kind # "programset" /\ NTasks > 0 =>
      LET items == result[th].items
      IN /\ \A t \in Task :
              items[t] # "early" =>
                /\ state[t] \in TerminalState
                /\ items[t] = "data" <=> state[t] = "COMPLETED"
         /\ (\A t \in Task : items[t] # "early")
              => result[th].status \in FinalStatus

(* A Result of a program set has its counts and calls itself successful    *)
(* and completed, whoever cancels the task or gives up while it is         *)
(* fetched; otherwise result() raises.                                     *)
ProgramSetResultIsWhole ==
  \A th \in Thread :
    result[th].kind = "result" /\ Kind = "programset" =>
      /\ result[th].items[1] = "data"
      /\ result[th].status = "COMPLETED" /\ result[th].success

(* Once a thread's cancel() has gone through all the tasks, every task     *)
(* ends, also those that would have stayed queued, and with them every     *)
(* result() that waits for them.                                           *)
Cancelled(th) == pc[th] = "cancel" /\ pos[th] = NTasks + 1

CancelEndsJob ==
  \A th \in Thread :
    Cancelled(th) ~> \A t \in Task : state[t] \in TerminalState

CancelReleasesResult ==
  \A a, b \in Thread :
    Cancelled(a) /\ pc[b] \in {"fetch", "resultStatus"} ~> pc[b] = "idle"
=============================================================================
