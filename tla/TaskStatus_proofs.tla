-------------------------- MODULE TaskStatus_proofs --------------------------
(***************************************************************************)
(* What _aggregate_task_status makes of a set of task states, and that it  *)
(* is monotone: tasks that moved forward never make a job that moved back. *)
(***************************************************************************)
EXTENDS TaskStatus, TLAPS

(* Sets of states by what they are made of.                                *)
Unmapped(A) == "CREATED" \in A
Ended(A) == A # {} /\ A \subseteq {"CANCELLING", "CANCELLED", "COMPLETED", "FAILED"}
Started(A) == A \cap {"RUNNING", "CANCELLING", "CANCELLED", "COMPLETED", "FAILED"} # {}

(* The mapped statuses of a set of states, member by member.               *)
LEMMA MappedStatuses ==
  ASSUME NEW A \in SUBSET TaskState, ~Unmapped(A),
         NEW M, M = {TaskStatusMap[s] : s \in A}
  PROVE  /\ A \subseteq MappedState
         /\ M \subseteq JobStatus
         /\ "DONE" \in M <=> "COMPLETED" \in A
         /\ "ERROR" \in M <=> "FAILED" \in A
         /\ "CANCELLED" \in M <=> "CANCELLED" \in A \/ "CANCELLING" \in A
         /\ "RUNNING" \in M <=> "RUNNING" \in A
         /\ "QUEUED" \in M <=> "QUEUED" \in A
         /\ "INITIALIZING" \in M <=> "INITIALIZED" \in A
<1>1. A \subseteq MappedState
  BY DEF Unmapped, TaskState, TerminalState, MappedState, TaskStatusMap
<1>2. \A s \in A : \/ s = "INITIALIZED" /\ TaskStatusMap[s] = "INITIALIZING"
                   \/ s = "QUEUED" /\ TaskStatusMap[s] = "QUEUED"
                   \/ s = "FAILED" /\ TaskStatusMap[s] = "ERROR"
                   \/ s = "CANCELLING" /\ TaskStatusMap[s] = "CANCELLED"
                   \/ s = "CANCELLED" /\ TaskStatusMap[s] = "CANCELLED"
                   \/ s = "COMPLETED" /\ TaskStatusMap[s] = "DONE"
                   \/ s = "RUNNING" /\ TaskStatusMap[s] = "RUNNING"
  BY <1>1 DEF MappedState, TaskStatusMap
<1>3. QED
  BY <1>1, <1>2 DEF JobStatus

(* The five kinds of answer, each with the states that lead to it.         *)
LEMMA AggregateCases ==
  ASSUME NEW A \in SUBSET TaskState
  PROVE  /\ Unmapped(A) => Aggregate(A) = "KeyError"
         /\ ~Unmapped(A) /\ Started(A) /\ ~Ended(A) => Aggregate(A) = "RUNNING"
         /\ Ended(A) =>
              Aggregate(A) = IF "COMPLETED" \in A THEN "DONE"
                             ELSE IF "FAILED" \in A THEN "ERROR"
                             ELSE "CANCELLED"
         /\ ~Unmapped(A) /\ ~Started(A) =>
              Aggregate(A) = IF A = {"INITIALIZED"} THEN "INITIALIZING"
                                                    ELSE "QUEUED"
<1> DEFINE M == {TaskStatusMap[s] : s \in A}
<1>1. CASE Unmapped(A)
  BY <1>1 DEF Unmapped, Ended, Aggregate, MappedState, TaskStatusMap
<1>2. CASE ~Unmapped(A)
  <2>1. /\ A \subseteq MappedState
        /\ M \subseteq JobStatus
        /\ "DONE" \in M <=> "COMPLETED" \in A
        /\ "ERROR" \in M <=> "FAILED" \in A
        /\ "CANCELLED" \in M <=> "CANCELLED" \in A \/ "CANCELLING" \in A
        /\ "RUNNING" \in M <=> "RUNNING" \in A
        /\ "QUEUED" \in M <=> "QUEUED" \in A
        /\ "INITIALIZING" \in M <=> "INITIALIZED" \in A
    BY <1>2, MappedStatuses
  <2>2. Aggregate(A) = Combine(M)
    BY <2>1 DEF Aggregate
  <2> HIDE DEF M
  <2>3. CASE Started(A) /\ ~Ended(A)
    <3>1. \E s \in A : s \in {"RUNNING", "QUEUED", "INITIALIZED"}
      BY <1>2, <2>3 DEF Ended, Started, Unmapped, TaskState, TerminalState
    <3>2. \E m \in M : m \in {"RUNNING", "QUEUED", "INITIALIZING"}
      BY <2>1, <3>1
    <3>3. Combine(M) = "RUNNING"
      BY <2>1, <2>3, <3>2 DEF Combine, FinalStatus, Started
    <3>4. QED
      BY <1>2, <2>2, <2>3, <3>3
  <2>4. CASE Ended(A)
    <3>1. M # {} /\ M \subseteq FinalStatus
      BY <2>1, <2>4 DEF Ended, FinalStatus, JobStatus
    <3>2. Combine(M) = IF "COMPLETED" \in A THEN "DONE"
                       ELSE IF "FAILED" \in A THEN "ERROR"
                       ELSE "CANCELLED"
      BY <2>1, <3>1 DEF Combine, FinalStatus
    <3>3. Started(A)
      BY <2>4 DEF Ended, Started
    <3>4. QED
      BY <1>2, <2>2, <2>4, <3>2, <3>3
  <2>5. CASE ~Started(A)
    <3>1. M \subseteq {"QUEUED", "INITIALIZING"}
      BY <2>1, <2>5 DEF Started, JobStatus
    <3>2. M = {"INITIALIZING"} <=> A = {"INITIALIZED"}
      BY <1>2, <2>1, <2>5, <3>1
         DEF Started, Unmapped, TaskState, TerminalState
    <3>3. Combine(M) = IF A = {"INITIALIZED"} THEN "INITIALIZING" ELSE "QUEUED"
      BY <3>1, <3>2 DEF Combine, FinalStatus
    <3>4. ~Ended(A)
      BY <2>5 DEF Ended, Started
    <3>5. QED
      BY <1>2, <2>2, <2>5, <3>3, <3>4
  <2>6. QED
    BY <2>3, <2>4, <2>5
<1>3. QED
  BY <1>1, <1>2

(* An aggregate is a JobStatus or the KeyError.                            *)
LEMMA AggregateType ==
  ASSUME NEW A \in SUBSET TaskState
  PROVE  Aggregate(A) \in Answer
  BY DEF Aggregate, Combine, Answer, JobStatus

(* A program set's one task has the status a list of one task would have.  *)
THEOREM AggregateOfOne ==
  \A s \in TaskState : Aggregate({s}) = StatusOf(s)
<1> SUFFICES ASSUME NEW s \in TaskState
             PROVE  Aggregate({s}) = StatusOf(s)
  OBVIOUS
<1>1. s \in MappedState \/ s = "CREATED"
  BY DEF TaskState, TerminalState, MappedState, TaskStatusMap
<1>2. QED
  BY <1>1, AggregateCases
     DEF StatusOf, Unmapped, Started, Ended, MappedState, TaskStatusMap

(* Where the state of every task precedes its later state, the aggregate   *)
(* of the later states follows that of the earlier ones.                   *)
THEOREM AggregateMonotone ==
  ASSUME NEW T, NEW u \in [T -> TaskState], NEW v \in [T -> TaskState],
         \A t \in T : Precedes(u[t], v[t])
  PROVE  Follows(Aggregate({u[t] : t \in T}), Aggregate({v[t] : t \in T}))
<1> DEFINE U == {u[t] : t \in T}
           V == {v[t] : t \in T}
<1> SUFFICES Follows(Aggregate(U), Aggregate(V))
  OBVIOUS
<1>1. U \in SUBSET TaskState /\ V \in SUBSET TaskState
  OBVIOUS
<1>2. /\ \A a \in U : \E b \in V : Precedes(a, b)
      /\ \A b \in V : \E a \in U : Precedes(a, b)
  OBVIOUS
<1> HIDE DEF U, V
<1>3. /\ Unmapped(V) => Unmapped(U)
      /\ Started(U) => Started(V)
      /\ Ended(U) => Ended(V)
      /\ Ended(U) => ("COMPLETED" \in U <=> "COMPLETED" \in V)
      /\ Ended(U) => ("FAILED" \in U <=> "FAILED" \in V)
      /\ V = {"INITIALIZED"} => Unmapped(U) \/ U = {"INITIALIZED"}
  <2>1. \A a, b \in TaskState :
          Precedes(a, b) =>
            /\ b = "CREATED" => a = "CREATED"
            /\ b = "INITIALIZED" => a \in {"CREATED", "INITIALIZED"}
            /\ a \in {"RUNNING", "CANCELLING", "CANCELLED", "COMPLETED", "FAILED"}
                 => b \in {"RUNNING", "CANCELLING", "CANCELLED", "COMPLETED",
                           "FAILED"}
            /\ a \in {"CANCELLING", "CANCELLED"} => b \in {"CANCELLING", "CANCELLED"}
            /\ a = "COMPLETED" => b = "COMPLETED"
            /\ a = "FAILED" => b = "FAILED"
    BY DEF Precedes, Phase, TaskState, TerminalState
  <2>2. Unmapped(V) => Unmapped(U)
    BY <1>1, <1>2, <2>1 DEF Unmapped
  <2>3. Started(U) => Started(V)
    BY <1>1, <1>2, <2>1 DEF Started
  <2>4. ASSUME Ended(U)
        PROVE  /\ Ended(V)
               /\ "COMPLETED" \in U <=> "COMPLETED" \in V
               /\ "FAILED" \in U <=> "FAILED" \in V
    <3>1. V # {}
      BY <1>2, <2>4 DEF Ended
    <3>2. \A b \in V : \E a \in U :
            /\ Precedes(a, b) /\ a \in TaskState /\ b \in TaskState
            /\ a \in {"CANCELLING", "CANCELLED", "COMPLETED", "FAILED"}
      BY <1>1, <1>2, <2>4 DEF Ended
    <3>3. V \subseteq {"CANCELLING", "CANCELLED", "COMPLETED", "FAILED"}
      BY <2>1, <3>2
    <3>4. /\ "COMPLETED" \in V => "COMPLETED" \in U
          /\ "FAILED" \in V => "FAILED" \in U
      <4>1. \A a, b \in TaskState :
              /\ Precedes(a, b)
              /\ a \in {"CANCELLING", "CANCELLED", "COMPLETED", "FAILED"}
              => /\ b = "COMPLETED" => a = "COMPLETED"
                 /\ b = "FAILED" => a = "FAILED"
        BY DEF Precedes, Phase, TaskState, TerminalState
      <4>2. QED
        BY <3>2, <4>1
    <3>5. /\ "COMPLETED" \in U => "COMPLETED" \in V
          /\ "FAILED" \in U => "FAILED" \in V
      BY <1>1, <1>2, <2>1
    <3>6. QED
      BY <3>1, <3>3, <3>4, <3>5 DEF Ended
  <2>5. ASSUME V = {"INITIALIZED"}
        PROVE  Unmapped(U) \/ U = {"INITIALIZED"}
    <3>1. \A a \in U : a \in {"CREATED", "INITIALIZED"}
      BY <1>1, <1>2, <2>1, <2>5
    <3>2. \E a \in U : TRUE
      BY <1>2, <2>5
    <3>3. QED
      BY <3>1, <3>2 DEF Unmapped
  <2>6. QED
    BY <2>2, <2>3, <2>4, <2>5
<1>4. CASE Unmapped(U)
  <2>1. Aggregate(U) = "KeyError"
    BY <1>1, <1>4, AggregateCases
  <2>2. Aggregate(V) \in Answer
    BY <1>1, AggregateType
  <2>3. QED
    BY <2>1, <2>2 DEF Follows, Stage, Answer, JobStatus, FinalStatus
<1>5. CASE ~Unmapped(U) /\ Ended(U)
  <2>1. Ended(V)
    BY <1>3, <1>5
  <2>2. Aggregate(U) = Aggregate(V)
    BY <1>1, <1>3, <1>5, <2>1, AggregateCases
  <2>3. Aggregate(U) \in Answer
    BY <1>1, AggregateType
  <2>4. QED
    BY <2>2, <2>3 DEF Follows, Stage, Answer, JobStatus, FinalStatus
<1>6. CASE ~Unmapped(U) /\ Started(U) /\ ~Ended(U)
  <2>1. Aggregate(U) = "RUNNING"
    BY <1>1, <1>6, AggregateCases
  <2>2. Aggregate(V) \in FinalStatus \cup {"RUNNING"}
    BY <1>1, <1>3, <1>6, AggregateCases DEF FinalStatus
  <2>3. QED
    BY <2>1, <2>2 DEF Follows, Stage, FinalStatus
<1>7. CASE ~Unmapped(U) /\ ~Started(U)
  <2>1. Aggregate(U) = IF U = {"INITIALIZED"} THEN "INITIALIZING" ELSE "QUEUED"
    BY <1>1, <1>7, AggregateCases
  <2>2. ~Unmapped(V)
    BY <1>3, <1>7
  <2>3. /\ Aggregate(V) \in FinalStatus \cup {"RUNNING", "QUEUED", "INITIALIZING"}
        /\ Aggregate(V) = "INITIALIZING" => V = {"INITIALIZED"}
    <3>1. CASE Started(V) /\ ~Ended(V)
      BY <1>1, <2>2, <3>1, AggregateCases
    <3>2. CASE Ended(V)
      BY <1>1, <3>2, AggregateCases DEF FinalStatus
    <3>3. CASE ~Started(V)
      BY <1>1, <2>2, <3>3, AggregateCases
    <3>4. QED
      BY <3>1, <3>2, <3>3
  <2>4. CASE U = {"INITIALIZED"}
    BY <2>1, <2>3, <2>4 DEF Follows, Stage, FinalStatus
  <2>5. CASE U # {"INITIALIZED"}
    <3>1. Aggregate(V) # "INITIALIZING"
      BY <1>3, <1>7, <2>3, <2>5
    <3>2. QED
      BY <2>1, <2>3, <2>5, <3>1 DEF Follows, Stage, FinalStatus
  <2>6. QED
    BY <2>4, <2>5
<1>8. QED
  BY <1>4, <1>5, <1>6, <1>7 DEF Ended, Started
=============================================================================
