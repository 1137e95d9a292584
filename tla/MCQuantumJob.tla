---------------------------- MODULE MCQuantumJob ----------------------------
(* Instances of QuantumJob for TLC: who calls what. *)
EXTENDS QuantumJob

MayPollAndCancel ==
  [th \in Thread |-> IF th = 1 THEN {"status"} ELSE {"status", "cancel"}]
MayGetResult ==
  [th \in Thread |-> IF th = 1 THEN {"status", "result"} ELSE {"cancel"}]
MayDoAll == [th \in Thread |-> Call]
=============================================================================
