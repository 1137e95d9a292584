----------------------------- MODULE TaskStatus -----------------------------
(***************************************************************************)
(* How a job of several Braket tasks turns the states of its tasks into    *)
(* one Qiskit JobStatus: _TASK_STATUS_MAP and _aggregate_task_status of    *)
(* providers/braket_quantum_task.py, used by BraketQuantumTask.status and  *)
(* BraketPrimitiveTask._get_task_status; and, of the Braket service (an    *)
(* external system), the states a task goes through.                       *)
(***************************************************************************)
EXTENDS Naturals

(* The states the service reports for a task.  "CREATED" is the one the    *)
(* tests name (test_braket_quantum_task.py, _get_mock_aws_quantum_task)    *)
(* and the map below lacks.                                                *)
TerminalState == {"COMPLETED", "FAILED", "CANCELLED"}
TaskState == {"CREATED", "INITIALIZED", "QUEUED", "RUNNING", "CANCELLING"}
               \cup TerminalState

JobStatus ==
  {"INITIALIZING", "QUEUED", "RUNNING", "DONE", "ERROR", "CANCELLED"}
FinalStatus == {"DONE", "ERROR", "CANCELLED"}

(* _TASK_STATUS_MAP *)
TaskStatusMap ==
  [INITIALIZED |-> "INITIALIZING",
   QUEUED      |-> "QUEUED",
   FAILED      |-> "ERROR",
   CANCELLING  |-> "CANCELLED",
   CANCELLED   |-> "CANCELLED",
   COMPLETED   |-> "DONE",
   RUNNING     |-> "RUNNING"]
MappedState == DOMAIN TaskStatusMap

(* The branches of _aggregate_task_status, on the set of mapped statuses.  *)
(* Mutants: a failure, or a cancellation, decides before the other tasks   *)
(* have ended, but not over one that is done; a task's own name is let     *)
(* through.                                                                *)
Combine_ErrorEarly(S) ==
  IF "DONE" \in S
    THEN IF S \subseteq FinalStatus THEN "DONE" ELSE "RUNNING"
  ELSE IF "ERROR" \in S THEN "ERROR"
  ELSE IF "CANCELLED" \in S
    THEN IF S = {"CANCELLED"} THEN "CANCELLED" ELSE "RUNNING"
  ELSE IF "RUNNING" \in S THEN "RUNNING" ELSE "QUEUED"

Combine_CancelledEarly(S) ==
  IF "DONE" \in S
    THEN IF S \subseteq FinalStatus THEN "DONE" ELSE "RUNNING"
  ELSE IF "CANCELLED" \in S THEN "CANCELLED"
  ELSE IF "ERROR" \in S THEN IF S = {"ERROR"} THEN "ERROR" ELSE "RUNNING"
  ELSE IF "RUNNING" \in S THEN "RUNNING" ELSE "QUEUED"

Combine_RawState(S) == IF S = {"DONE"} THEN "COMPLETED" ELSE "RUNNING"

Combine(S) ==
  IF "DONE" \in S
    THEN IF S \subseteq FinalStatus THEN "DONE" ELSE "RUNNING"
  ELSE IF "ERROR" \in S
    THEN IF S \subseteq {"ERROR", "CANCELLED"} THEN "ERROR" ELSE "RUNNING"
  ELSE IF "CANCELLED" \in S
    THEN IF S = {"CANCELLED"} THEN "CANCELLED" ELSE "RUNNING"
  ELSE IF "RUNNING" \in S THEN "RUNNING"
  ELSE IF S = {"INITIALIZING"} THEN "INITIALIZING"
  ELSE "QUEUED"

(* What the caller of _aggregate_task_status gets: a status, or the        *)
(* KeyError of the map's subscript when a state is not one of its keys.    *)
Answer == JobStatus \cup {"KeyError"}
Aggregate(states) ==
  IF states \subseteq MappedState
    THEN Combine({TaskStatusMap[s] : s \in states})
    ELSE "KeyError"

(* What one task's state maps to, or the KeyError. *)
StatusOf(state) ==
  IF state \in MappedState THEN TaskStatusMap[state] ELSE "KeyError"

-----------------------------------------------------------------------------
(* The service's side: a task only moves forward through its lifecycle,    *)
(* and one that is being cancelled can only become cancelled.              *)
Phase ==
  [CREATED |-> 0, INITIALIZED |-> 1, QUEUED |-> 2, RUNNING |-> 3,
   CANCELLING |-> 4, CANCELLED |-> 4, COMPLETED |-> 4, FAILED |-> 4]

Precedes(s, t) ==
  \/ s = t
  \/ Phase[s] < Phase[t]
  \/ s = "CANCELLING" /\ t = "CANCELLED"

(* How far along a job with that answer is.  The final statuses are one    *)
(* stage: a job that reaches one of them has nowhere further to go.        *)
NoAnswer == "none"
Stage ==
  [none |-> 0, KeyError |-> 0, INITIALIZING |-> 1, QUEUED |-> 2, RUNNING |-> 3,
   DONE |-> 4, ERROR |-> 4, CANCELLED |-> 4]

(* b may be what a job answers after it answered a.                        *)
Follows(a, b) ==
  /\ Stage[a] <= Stage[b]
  /\ a \in FinalStatus => b = a
=============================================================================
