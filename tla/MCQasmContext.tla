---------------------------- MODULE MCQasmContext ----------------------------
(* Instances of QasmContext for TLC: the statements a program may hold.     *)
EXTENDS QasmContext

MCSize == [a |-> 1, b |-> 2]

Gates == {[do |-> "gate", q |-> q] : q \in 0..1}
Ends == {[do |-> "end"], [do |-> "barrier"]}
Bit(n) == [do |-> "bit", name |-> n, q |-> 0]
MeasureInto(n) == [do |-> "measure", name |-> n, q |-> 0]
Conditionals == {[do |-> d, name |-> "a"] : d \in {"if", "while"}}
Loops == {[do |-> "for", n |-> n] : n \in {1, 2}}
Assignments == {[do |-> "assign", to |-> t] : t \in {"zero", "next", "index"}}

Programs ==
  Gates \cup Ends \cup {Bit("a"), Bit("b"), MeasureInto("b")} \cup Conditionals
    \cup Loops \cup Assignments \cup {[do |-> "box"]}

(* The loops alone open a scope of their own in the code itself.           *)
Redeclared ==
  {Bit("a"), MeasureInto("a"), [do |-> "end"], [do |-> "for", n |-> 2]}
=============================================================================
