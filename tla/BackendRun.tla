----------------------------- MODULE BackendRun -----------------------------
(***************************************************************************)
(* How a backend turns a run of several programs into tasks and one job:   *)
(* BraketLocalBackend.run (a loop with a cleanup), BraketAwsBackend.run    *)
(* (one program set or one batch) and BraketAwsBackend.retrieve_job, all   *)
(* of providers/braket_backend.py.  Which programs' results a job's        *)
(* result() gives depends on the shape of what it was built with.          *)
(* External: the device, whose run may raise, and each task's cancel.      *)
(***************************************************************************)
EXTENDS Naturals, Sequences

CONSTANT MaxPrograms  \* bound on the programs of one run

ASSUME MaxProgramsAssumption == MaxPrograms \in Nat

VARIABLES input,     \* the call: backend, programs, shots, program set limit
          pc,        \* where run() is
          next,      \* the program or the task its loop is at
          tasks,     \* task -> the programs it runs, in the order of creation
          asked,     \* tasks asked to cancel by the cleanup
          job,       \* the job that run() returned
          retrieved  \* the job that retrieve_job() returned for its id

runVars == <<input, pc, next, tasks, asked, job, retrieved>>

Inputs == [backend : {"local", "aws"}, programs : 0..MaxPrograms,
           shots : {"default", "zero", "some"}, programSets : BOOLEAN]
Shape == {"list", "single"}
NoTask == 0
Jobs == [shape : Shape, ids : Seq(Nat)]
NoJob == [shape |-> "none", ids |-> <<>>]

RunTypeOK ==
  /\ input \in Inputs
  /\ pc \in {"start", "submit", "cleanup", "returned", "raised", "lost"}
  /\ next \in 1..(MaxPrograms + 1)
  /\ tasks \in Seq(Seq(1..MaxPrograms))
  /\ asked \subseteq DOMAIN tasks
  /\ {job, retrieved} \subseteq Jobs \cup {NoJob}

RunInit ==
  /\ input \in Inputs
  /\ pc = "start" /\ next = 1
  /\ tasks = <<>> /\ asked = {}
  /\ job = NoJob /\ retrieved = NoJob

Finished == pc \in {"returned", "raised", "lost"}

(* Before any task exists: compilation or the measurement level refused.   *)
StartRaises ==
  /\ pc = "start"
  /\ pc' = "raised"
  /\ UNCHANGED <<input, next, tasks, asked, job, retrieved>>

-----------------------------------------------------------------------------
(* BraketLocalBackend.run                                                  *)
StartLocal ==
  /\ pc = "start" /\ input.backend = "local"
  /\ pc' = "submit"
  /\ UNCHANGED <<input, next, tasks, asked, job, retrieved>>

Submit ==
  /\ pc = "submit" /\ next <= input.programs
  /\ tasks' = Append(tasks, <<next>>)
  /\ next' = next + 1
  /\ UNCHANGED <<input, pc, asked, job, retrieved>>

SubmitRaises ==
  /\ pc = "submit" /\ next <= input.programs
  /\ pc' = "cleanup" /\ next' = 1
  /\ UNCHANGED <<input, tasks, asked, job, retrieved>>

(* Mutants: the cleanup takes the last task for the one that failed; it    *)
(* goes on past the last.                                                  *)
CleanupGoesOn_SkipsLast(t) == t < Len(tasks)
CleanupGoesOn_PastLast(t) == t <= Len(tasks) + 1
CleanupGoesOn(t) == t <= Len(tasks)

CleanupCancel ==
  /\ pc = "cleanup" /\ CleanupGoesOn(next)
  /\ asked' = asked \cup {next}
  /\ next' = next + 1
  /\ UNCHANGED <<input, pc, tasks, job, retrieved>>

(* A task's cancel, or its state that is logged, raises: that exception    *)
(* replaces the one the cleanup is for.                                    *)
CleanupRaises ==
  /\ pc = "cleanup" /\ CleanupGoesOn(next)
  /\ asked' = asked \cup {next}
  /\ pc' = "lost"
  /\ UNCHANGED <<input, next, tasks, job, retrieved>>

CleanupDone ==
  /\ pc = "cleanup" /\ ~CleanupGoesOn(next)
  /\ pc' = "raised"
  /\ UNCHANGED <<input, next, tasks, asked, job, retrieved>>

(* ";".join over the tasks.  Mutant: the newest task first.                *)
Ids_NewestFirst(ts) == [t \in DOMAIN ts |-> Len(ts) + 1 - t]
Ids(ts) == [t \in DOMAIN ts |-> t]

LocalReturns ==
  /\ pc = "submit" /\ next > input.programs
  /\ job' = [shape |-> "list", ids |-> Ids(tasks)]
  /\ pc' = "returned"
  /\ UNCHANGED <<input, next, tasks, asked, retrieved>>

-----------------------------------------------------------------------------
(* BraketAwsBackend.run                                                    *)
UseProgramSet(in) ==
  in.programSets /\ in.shots # "zero" /\ in.programs > 1

AllPrograms == [p \in 1..input.programs |-> p]

RunProgramSet ==
  /\ pc = "start" /\ input.backend = "aws" /\ UseProgramSet(input)
  /\ tasks' = <<AllPrograms>>
  /\ job' = [shape |-> "single", ids |-> <<1>>]
  /\ pc' = "returned"
  /\ UNCHANGED <<input, next, asked, retrieved>>

RunBatch ==
  /\ pc = "start" /\ input.backend = "aws" /\ ~UseProgramSet(input)
  /\ tasks' = [p \in 1..input.programs |-> <<p>>]
  /\ job' = [shape |-> "list", ids |-> Ids(tasks')]
  /\ pc' = "returned"
  /\ UNCHANGED <<input, next, asked, retrieved>>

(* retrieve_job() with the id the job shows: the ids joined by ";" and     *)
(* split there again, where the empty string splits into one empty id.     *)
SplitJoined(ids) == IF ids = <<>> THEN <<NoTask>> ELSE ids

RetrieveJob ==
  /\ pc = "returned" /\ input.backend = "aws"
  /\ retrieved' = [shape |-> "list", ids |-> SplitJoined(job.ids)]
  /\ UNCHANGED <<input, pc, next, tasks, asked, job>>

-----------------------------------------------------------------------------
RunNext ==
  \/ StartRaises
  \/ StartLocal \/ Submit \/ SubmitRaises \/ LocalReturns
  \/ CleanupCancel \/ CleanupRaises \/ CleanupDone
  \/ RunProgramSet \/ RunBatch \/ RetrieveJob

RunSpec == RunInit /\ [][RunNext]_runVars

-----------------------------------------------------------------------------
(* The programs whose results result() of a job gives, in order.  A task   *)
(* of a program set read as a circuit's task has no counts to give.        *)
Unreadable == <<0>>
ProgramsOf(j) ==
  IF j.shape = "single" THEN tasks[j.ids[1]]
  ELSE IF \A i \in DOMAIN j.ids :
            j.ids[i] # NoTask /\ Len(tasks[j.ids[i]]) = 1
         THEN [i \in DOMAIN j.ids |-> tasks[j.ids[i]][1]]
         ELSE Unreadable

(* Whichever way the backend submits a run, the job's result() gives one   *)
(* result per program, in the order of the programs; so does a job that is *)
(* retrieved by its id.  Left out of the latter, as the code does not do   *)
(* it: the job of a program set, and the empty job, whose id is no id.     *)
ResultsInProgramOrder ==
  /\ pc = "returned" => ProgramsOf(job) = AllPrograms
  /\ retrieved # NoJob /\ job.shape = "list" /\ tasks # <<>> =>
       ProgramsOf(retrieved) = AllPrograms

(* A run that raises has asked every task it started to cancel, and one    *)
(* that returns has cancelled nothing.  When the cleanup itself raises the *)
(* tasks up to the one it raised at have been asked, and those after it    *)
(* have not: they, and no others, are left behind.                         *)
NothingLeftBehind ==
  /\ pc = "raised" => asked = DOMAIN tasks
  /\ pc = "lost" => next \in DOMAIN tasks /\ asked = 1..next
  /\ pc = "returned" => asked = {}
=============================================================================
