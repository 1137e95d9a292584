------------------------ MODULE JobLifecycle_proofs ------------------------
(***************************************************************************)
(* Proofs about the abstract job: whatever the threads and whenever they   *)
(* ask, final answers agree and no thread's answers go back.               *)
(***************************************************************************)
EXTENDS JobLifecycle, TLAPS

(* Every answer, and none, has a stage.                                    *)
LEMMA StageType ==
  \A a \in Answer \cup {NoAnswer} : Stage[a] \in Nat
  BY DEF Stage, Answer, JobStatus, NoAnswer, FinalStatus

(* What follows an answer that follows another follows that one.           *)
LEMMA FollowsTransitive ==
  ASSUME NEW a \in Answer \cup {NoAnswer}, NEW b \in Answer \cup {NoAnswer},
         NEW c \in Answer \cup {NoAnswer}, Follows(a, b), Follows(b, c)
  PROVE  Follows(a, c)
  BY StageType DEF Follows

(* Nothing that is further along leads away from a final status.           *)
LEMMA AdvanceFollows ==
  ASSUME NEW a \in Answer, NEW b \in Answer, Stage[a] < Stage[b]
  PROVE  Follows(a, b)
  BY DEF Follows, Stage, Answer, JobStatus, NoAnswer, FinalStatus

(* What a thread was told, and what the job was when the thread's call     *)
(* began, are at or behind what the job is; while a call is under way, the *)
(* last answer is at or behind the job at the call's start.                *)
ToldFollows ==
  \A th \in Thread :
    /\ Follows(told[th], status)
    /\ since[th] # NoAnswer => /\ Follows(told[th], since[th])
                               /\ Follows(since[th], status)

(* Anything may be the first answer.                                       *)
LEMMA NoAnswerFollows ==
  \A a \in Answer : Follows(NoAnswer, a)
  BY DEF Follows, Stage, Answer, JobStatus, NoAnswer, FinalStatus

(* An answer may be given again.                                           *)
LEMMA FollowsReflexive ==
  \A a \in Answer \cup {NoAnswer} : Follows(a, a)
  BY StageType DEF Follows

(* Type correctness of the abstract job.                                   *)
THEOREM Typing == Spec => []TypeOK
<1>1. Init => TypeOK
  BY DEF Init, TypeOK
<1>2. TypeOK /\ [Next]_vars => TypeOK'
  BY DEF TypeOK, Next, vars, Advance, BeginPoll, EndPoll
<1>3. QED
  BY <1>1, <1>2, PTL DEF Spec

(* The inductive step: the job only advances, and an answer lies between   *)
(* what the job was at the call's start and what it is at its end.         *)
LEMMA ToldFollowsStep ==
  TypeOK /\ TypeOK' /\ ToldFollows /\ [Next]_vars => ToldFollows'
<1> SUFFICES ASSUME TypeOK, TypeOK', ToldFollows, [Next]_vars,
                    NEW th \in Thread
             PROVE  /\ Follows(told'[th], status')
                    /\ since'[th] # NoAnswer =>
                         /\ Follows(told'[th], since'[th])
                         /\ Follows(since'[th], status')
  BY DEF ToldFollows
<1>0. /\ Follows(told[th], status)
      /\ since[th] # NoAnswer => /\ Follows(told[th], since[th])
                                 /\ Follows(since[th], status)
  BY DEF ToldFollows
<1>1. CASE Advance
  <2>1. Follows(status, status')
    BY <1>1, AdvanceFollows DEF Advance, TypeOK
  <2>2. QED
    BY <1>0, <1>1, <2>1, FollowsTransitive DEF Advance, TypeOK
<1>2. ASSUME NEW u \in Thread, BeginPoll(u)
      PROVE  /\ Follows(told'[th], status')
             /\ since'[th] # NoAnswer =>
                  /\ Follows(told'[th], since'[th])
                  /\ Follows(since'[th], status')
  BY <1>0, <1>2, FollowsReflexive DEF BeginPoll, TypeOK
<1>3. ASSUME NEW u \in Thread, EndPoll(u)
      PROVE  /\ Follows(told'[th], status')
             /\ since'[th] # NoAnswer =>
                  /\ Follows(told'[th], since'[th])
                  /\ Follows(since'[th], status')
  BY <1>0, <1>3 DEF EndPoll, TypeOK
<1>4. CASE UNCHANGED vars
  BY <1>0, <1>4 DEF vars
<1>5. QED
  BY <1>1, <1>2, <1>3, <1>4 DEF Next

(* What was told, what the job was when a call began and what it is now    *)
(* follow each other, always.                                              *)
LEMMA ToldFollowsInv == Spec => []ToldFollows
<1>1. Init => ToldFollows
  BY NoAnswerFollows DEF Init, ToldFollows
<1>2. QED
  BY <1>1, Typing, ToldFollowsStep, PTL DEF Spec

(* FinalAnswersAgree: both threads were told what the job is.              *)
THEOREM FinalAnswersAgreeAlways == Spec => []FinalAnswersAgree
<1>1. ToldFollows => FinalAnswersAgree
  BY DEF ToldFollows, FinalAnswersAgree, Follows
<1>2. QED
  BY <1>1, ToldFollowsInv, PTL

(* AnswersNeverRegress: a call answers at or beyond the job at its start,  *)
(* which was at or beyond the last answer.                                 *)
THEOREM AnswersNeverRegressAlways == Spec => AnswersNeverRegress
<1>1. TypeOK /\ TypeOK' /\ ToldFollows /\ [Next]_vars
        => [\A th \in Thread : Follows(told[th], told'[th])]_vars
  <2> SUFFICES ASSUME TypeOK, TypeOK', ToldFollows, Next, NEW th \in Thread
               PROVE  Follows(told[th], told'[th])
    BY DEF ToldFollows
  <2>1. CASE Advance
    BY <2>1, FollowsReflexive DEF Advance, TypeOK
  <2>2. ASSUME NEW u \in Thread, BeginPoll(u)
        PROVE  Follows(told[th], told'[th])
    BY <2>2, FollowsReflexive DEF BeginPoll, TypeOK
  <2>3. ASSUME NEW u \in Thread, EndPoll(u)
        PROVE  Follows(told[th], told'[th])
    <3>1. CASE th = u
      <4>1. PICK a \in Answer : /\ Follows(since[u], a)
                                /\ told' = [told EXCEPT ![u] = a]
        BY <2>3 DEF EndPoll
      <4>2. Follows(told[u], since[u])
        BY <2>3 DEF EndPoll, ToldFollows
      <4>3. QED
        BY <3>1, <4>1, <4>2, FollowsTransitive DEF TypeOK
    <3>2. CASE th # u
      BY <2>3, <3>2, FollowsReflexive DEF EndPoll, TypeOK
    <3>3. QED
      BY <3>1, <3>2
  <2>4. QED
    BY <2>1, <2>2, <2>3 DEF Next
<1>2. QED
  BY <1>1, Typing, ToldFollowsInv, PTL DEF Spec, AnswersNeverRegress
=============================================================================
