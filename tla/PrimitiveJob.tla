---------------------------- MODULE PrimitiveJob ----------------------------
(***************************************************************************)
(* BraketPrimitiveTask (providers/braket_primitive_task.py): the job of an *)
(* estimator or sampler run, over the tasks that run_split_program_set     *)
(* made of one program set.  result() keeps what it has translated; done() *)
(* and its like each ask every task for its state again; cancel() goes on  *)
(* when a task refuses.  Several threads share the job.                    *)
(*                                                                         *)
(* External: the tasks' lifecycles (TaskStatus), task.result(), cancel and *)
(* ProgramSet.split, which spreads the executables over the tasks.         *)
(***************************************************************************)
EXTENDS TaskStatus, FiniteSets

CONSTANTS NExecutables, \* executables of the program set
          Limit,        \* executables a task may have (the device's limit)
          Device,       \* "local", "emulator" or "aws"
          Stubborn,     \* tasks whose cancel raises
          Thread,       \* the caller's threads
          May           \* thread -> the calls it makes

Question == {"status", "done", "running", "cancelled", "in_final_state"}

ASSUME SizeAssumption == NExecutables \in Nat \ {0} /\ Limit \in Nat \ {0}
ASSUME DeviceAssumption == Device \in {"local", "emulator", "aws"}
ASSUME MayAssumption ==
  May \in [Thread -> SUBSET (Question \cup {"result", "cancel"})]

(* run_split_program_set: the local simulator runs the program set whole   *)
(* and without an index map, any other device gets it split.               *)
Executable == 1..NExecutables
HasIndexMap == Device # "local"
NTasks == IF HasIndexMap THEN (NExecutables + Limit - 1) \div Limit ELSE 1
Task == 1..NTasks

(* Mutant: the local simulator's task, too, is taken for a part.           *)
ExecutablesOf_Part(t) == {e \in Executable : (e - 1) \div Limit = t - 1}
ExecutablesOf(t) ==
  IF HasIndexMap THEN {e \in Executable : (e - 1) \div Limit = t - 1}
                 ELSE Executable

ASSUME StubbornAssumption == Stubborn \subseteq Task

VARIABLES state,      \* service: task -> its state
          pc,         \* thread -> the call it is in
          pos,        \* thread -> the task its loop is at
          seen,       \* thread -> the states its question's loop has read
          got,        \* thread -> task -> what task.result() gave
          translated, \* _result: the executables it has values of
          answer,     \* thread -> the last answer to a question
          outcome,    \* thread -> what its last result() gave
          over,       \* history: a question was answered "the job is over"
          late        \* history: threads in a question begun after that

vars == <<state, pc, pos, seen, got, translated, answer, outcome, over, late>>

None == {}
Nothing == [t \in Task |-> "waiting"]
Raised == {0}

TypeOK ==
  /\ state \in [Task -> TaskState]
  /\ pc \in [Thread -> {"idle", "gather", "cancel"} \cup Question]
  /\ pos \in [Thread -> 1..(NTasks + 1)]
  /\ seen \in [Thread -> SUBSET TaskState]
  /\ got \in [Thread -> [Task -> {"waiting", "data", "none"}]]
  /\ translated \in SUBSET Executable
  /\ answer \in [Thread -> Answer \cup {"yes", "no", NoAnswer}]
  /\ outcome \in [Thread -> (SUBSET Executable) \cup {Raised}]
  /\ over \in BOOLEAN /\ late \subseteq Thread

(* __init__ with the tasks of run_split_program_set. *)
Init ==
  /\ state = [t \in Task |-> "QUEUED"]
  /\ pc = [th \in Thread |-> "idle"]
  /\ pos = [th \in Thread |-> 1]
  /\ seen = [th \in Thread |-> {}]
  /\ got = [th \in Thread |-> Nothing]
  /\ translated = None
  /\ answer = [th \in Thread |-> NoAnswer]
  /\ outcome = [th \in Thread |-> None]
  /\ over = FALSE /\ late = {}

(* External: one step of a task's lifecycle. *)
ServiceStep(t) ==
  /\ \/ state[t] = "QUEUED" /\ state' = [state EXCEPT ![t] = "RUNNING"]
     \/ /\ state[t] = "RUNNING"
        /\ \E s \in {"COMPLETED", "FAILED"} : state' = [state EXCEPT ![t] = s]
     \/ state[t] = "CANCELLING" /\ state' = [state EXCEPT ![t] = "CANCELLED"]
  /\ UNCHANGED <<pc, pos, seen, got, translated, answer, outcome, over, late>>

Goto(th, where) ==
  /\ pc' = [pc EXCEPT ![th] = where]
  /\ pos' = [pos EXCEPT ![th] = 1]

-----------------------------------------------------------------------------
(* status(), done(), running(), cancelled(), in_final_state(): each asks   *)
(* every task anew.  Mutant: the set of an earlier question is added to.   *)
SeenAtStart_Kept(th) == seen[th]
SeenAtStart(th) == {}

Ask(th, q) ==
  /\ pc[th] = "idle" /\ q \in May[th]
  /\ Goto(th, q)
  /\ seen' = [seen EXCEPT ![th] = SeenAtStart(th)]
  /\ late' = IF over THEN late \cup {th} ELSE late
  /\ UNCHANGED <<state, got, translated, answer, outcome, over>>

FetchState(th) ==
  LET t == pos[th]
  IN /\ pc[th] \in Question /\ t \in Task
     /\ seen' = [seen EXCEPT ![th] = @ \cup {state[t]}]
     /\ pos' = [pos EXCEPT ![th] = t + 1]
     /\ UNCHANGED <<state, pc, got, translated, answer, outcome, over, late>>

YesOrNo(b) == IF b THEN "yes" ELSE "no"

Affirms == [done |-> {"DONE"}, running |-> {"RUNNING"},
            cancelled |-> {"CANCELLED"}, in_final_state |-> FinalStatus]

AnswerTo(q, a) == IF q = "status" THEN a ELSE YesOrNo(a \in Affirms[q])

SaysOver(q, a) ==
  \/ q = "status" /\ a \in FinalStatus
  \/ q \in {"done", "cancelled", "in_final_state"} /\ a = "yes"

SaysNotOver(q, a) ==
  \/ q = "status" /\ a \notin FinalStatus
  \/ q = "in_final_state" /\ a = "no"
  \/ q = "running" /\ a = "yes"

AnswerQuestion(th) ==
  LET a == AnswerTo(pc[th], Aggregate(seen[th]))
  IN /\ pc[th] \in Question /\ pos[th] = NTasks + 1
     /\ answer' = [answer EXCEPT ![th] = a]
     /\ over' = (over \/ SaysOver(pc[th], a))
     /\ late' = late \ {th}
     /\ Goto(th, "idle")
     /\ UNCHANGED <<state, seen, got, translated, outcome>>

-----------------------------------------------------------------------------
(* result(): at once when there is one, else the tasks' results in turn.   *)
StartResult(th) ==
  /\ pc[th] = "idle" /\ "result" \in May[th]
  /\ IF translated # None
       THEN /\ outcome' = [outcome EXCEPT ![th] = translated]
            /\ UNCHANGED <<pc, pos>>
       ELSE Goto(th, "gather") /\ UNCHANGED outcome
  /\ UNCHANGED <<state, seen, got, translated, answer, over, late>>

Gather(th, r) ==
  /\ pc[th] = "gather" /\ pos[th] \in Task
  /\ got' = [got EXCEPT ![th][pos[th]] = r]
  /\ pos' = [pos EXCEPT ![th] = @ + 1]
  /\ UNCHANGED <<state, pc, seen, translated, answer, outcome, over, late>>

GatherResult(th) ==
  /\ pos[th] \in Task /\ state[pos[th]] \in TerminalState
  /\ Gather(th, IF state[pos[th]] = "COMPLETED" THEN "data" ELSE "none")

(* External: the wait for a task ends early and with nothing. *)
GiveUp(th) == Device = "aws" /\ Gather(th, "none")

(* ProgramSetQuantumTaskResult.merge needs every part, the translator of a *)
(* program set run whole needs its task's; either raises on None.  Mutant: *)
(* the parts that are there are merged.                                    *)
CanTranslate_WhatIsThere(th) == \E t \in Task : got[th][t] = "data"
CanTranslate(th) ==
  IF HasIndexMap THEN \A t \in Task : got[th][t] = "data"
                 ELSE got[th][1] = "data"

Values(th) == UNION {ExecutablesOf(t) : t \in {u \in Task : got[th][u] = "data"}}

Translate(th) ==
  /\ pc[th] = "gather" /\ pos[th] = NTasks + 1
  /\ IF CanTranslate(th)
       THEN /\ translated' = Values(th)
            /\ outcome' = [outcome EXCEPT ![th] = translated']
       ELSE /\ outcome' = [outcome EXCEPT ![th] = Raised]
            /\ UNCHANGED translated
  /\ got' = [got EXCEPT ![th] = Nothing]
  /\ Goto(th, "idle")
  /\ UNCHANGED <<state, seen, answer, over, late>>

-----------------------------------------------------------------------------
(* cancel(): a task that refuses is warned about, and the next one asked.  *)
StartCancel(th) ==
  /\ pc[th] = "idle" /\ "cancel" \in May[th]
  /\ Goto(th, "cancel")
  /\ UNCHANGED <<state, seen, got, translated, answer, outcome, over, late>>

(* External: an accepted request moves an unfinished task towards its end. *)
CancelRequest(t) ==
  IF t \in Stubborn \/ state[t] \in TerminalState
    THEN UNCHANGED state
    ELSE \E s \in {"CANCELLING", "CANCELLED"} :
           state' = [state EXCEPT ![t] = s]

(* Mutant: the exception of a task that refuses ends the loop.             *)
AfterCancelOf_Raises(t) == IF t \in Stubborn THEN NTasks + 1 ELSE t + 1
AfterCancelOf(t) == t + 1

CancelTask(th) ==
  /\ pc[th] = "cancel" /\ pos[th] \in Task
  /\ CancelRequest(pos[th])
  /\ pos' = [pos EXCEPT ![th] = AfterCancelOf(pos[th])]
  /\ UNCHANGED <<pc, seen, got, translated, answer, outcome, over, late>>

CancelReturns(th) ==
  /\ pc[th] = "cancel" /\ pos[th] = NTasks + 1
  /\ Goto(th, "idle")
  /\ UNCHANGED <<state, seen, got, translated, answer, outcome, over, late>>

-----------------------------------------------------------------------------
Continue(th) ==
  \/ FetchState(th) \/ AnswerQuestion(th)
  \/ GatherResult(th) \/ Translate(th)
  \/ CancelTask(th) \/ CancelReturns(th)

Next ==
  \/ \E t \in Task : ServiceStep(t)
  \/ \E th \in Thread :
       \/ \E q \in Question : Ask(th, q)
       \/ StartResult(th) \/ StartCancel(th) \/ GiveUp(th) \/ Continue(th)

Spec == Init /\ [][Next]_vars

(* A thread goes on with its call; the service finishes what it runs and   *)
(* what it cancels, but need not ever take a task from the queue.          *)
Finish(t) == state[t] \in {"RUNNING", "CANCELLING"} /\ ServiceStep(t)

FairSpec ==
  /\ Spec
  /\ \A th \in Thread : WF_vars(Continue(th))
  /\ \A t \in Task : WF_vars(Finish(t))

-----------------------------------------------------------------------------
(* Whatever result() gives has a value of every executable, however the    *)
(* program set was split, and every task has completed; a job some task of *)
(* which failed gives none, also when done() is true of it.                *)
ResultIsWhole ==
  \A th \in Thread :
    outcome[th] \notin {None, Raised} =>
      /\ outcome[th] = Executable
      /\ \A t \in Task : state[t] = "COMPLETED"

(* Threads that translate at the same time do not take from each other: a  *)
(* result once there stays the one every later result() gives.             *)
ResultStays == [][translated # None => translated' = translated]_vars

(* Once a thread was told that the job is over, no question that begins    *)
(* afterwards, by whichever thread, is answered as if it were not.         *)
OverIsForGood ==
  [][\A th \in late :
       pc[th] \in Question /\ pc'[th] = "idle" => ~SaysNotOver(pc[th], answer'[th])]_vars

(* cancel() ends every task that does not refuse, whatever other tasks do, *)
(* also one that would have stayed in the queue.                           *)
CancelEndsOtherTasks ==
  \A th \in Thread :
    pc[th] = "cancel" ~> \A t \in Task \ Stubborn : state[t] \in TerminalState
=============================================================================
