---------------------------- MODULE JobLifecycle ----------------------------
(***************************************************************************)
(* What a job promises the threads that ask it for its status: the job has *)
(* one status, it only moves forward, and each call of status() answers    *)
(* with something the job can have been between the call's start and its   *)
(* end.  A final answer is the job's status and stays it.  QuantumJob,     *)
(* where a call reads the tasks one after the other, implements this.      *)
(***************************************************************************)
EXTENDS TaskStatus

CONSTANT Thread

VARIABLES status, \* what the job is
          since,  \* thread -> what the job was when the thread's call began
          told    \* thread -> the last answer the thread got

vars == <<status, since, told>>

TypeOK ==
  /\ status \in Answer
  /\ since \in [Thread -> Answer \cup {NoAnswer}]
  /\ told \in [Thread -> Answer \cup {NoAnswer}]

Init ==
  /\ status \in Answer
  /\ since = [th \in Thread |-> NoAnswer]
  /\ told = [th \in Thread |-> NoAnswer]

Advance ==
  /\ \E a \in Answer : Stage[status] < Stage[a] /\ status' = a
  /\ UNCHANGED <<since, told>>

BeginPoll(th) ==
  /\ since[th] = NoAnswer
  /\ since' = [since EXCEPT ![th] = status]
  /\ UNCHANGED <<status, told>>

EndPoll(th) ==
  /\ since[th] # NoAnswer
  /\ \E a \in Answer :
       /\ Follows(since[th], a)
       /\ Follows(a, status)
       /\ told' = [told EXCEPT ![th] = a]
  /\ since' = [since EXCEPT ![th] = NoAnswer]
  /\ UNCHANGED status

Next == Advance \/ \E th \in Thread : BeginPoll(th) \/ EndPoll(th)

Spec == Init /\ [][Next]_vars

-----------------------------------------------------------------------------
(* Two threads that were both given a final status were given the same     *)
(* one, whichever tasks each of them saw finish first.                     *)
FinalAnswersAgree ==
  \A a, b \in Thread :
    told[a] \in FinalStatus /\ told[b] \in FinalStatus => told[a] = told[b]

(* No answer a thread gets is behind the answer it got before, and a final *)
(* answer is never taken back.                                             *)
AnswersNeverRegress == [][\A th \in Thread : Follows(told[th], told'[th])]_vars
=============================================================================
