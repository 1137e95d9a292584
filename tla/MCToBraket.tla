----------------------------- MODULE MCToBraket -----------------------------
(* Instances of ToBraket for TLC: circuits and arguments.                   *)
EXTENDS ToBraket

MCLabels == <<2, 5>>

Instr(op, qs, cs) ==
  [op |-> op, qs |-> qs, cs |-> cs, label |-> NoLabel, body |-> << >>]
Gate(qs) == Instr("gate", qs, << >>)
Measurement(q, c) == Instr("measure", <<q>>, <<c>>)
Barrier(l) == [Instr("barrier", <<1, 2>>, << >>) EXCEPT !.label = l]
Box(qs, cs, body) ==
  [op |-> "box", qs |-> qs, cs |-> cs, label |-> VerbatimBoxName, body |-> body]

(* One box has its qubits the other way round, one measures.                *)
Boxes ==
  {Box(<<1>>, << >>, <<Gate(<<1>>), Gate(<<1>>)>>),
   Box(<<2>>, << >>, <<Gate(<<1>>)>>),
   Box(<<2, 1>>, <<1>>, <<Gate(<<1, 2>>), Measurement(1, 1)>>)}

Circuits ==
  {Gate(<<1>>), Gate(<<2>>), Instr("unitary", <<1>>, << >>),
   Instr("reset", <<2>>, << >>), Instr("if_else", <<1>>, <<1>>),
   Barrier(VerbatimBoxName),
   Barrier(NoLabel), Barrier(IndexedLabel(0))}
    \cup {Measurement(q, c) : q \in 1..2, c \in 1..2}
    \cup Boxes

Given(target, basis, pass_manager, device, verbatim, labels) ==
  [target |-> target, basis |-> basis, pass_manager |-> pass_manager,
   device |-> device, verbatim |-> verbatim, labels |-> labels]

Default == Given("none", "none", FALSE, "none", FALSE, FALSE)

Arguments ==
  {Default,
   [Default EXCEPT !.verbatim = TRUE, !.labels = TRUE],
   [Default EXCEPT !.basis = "covers"],
   [Default EXCEPT !.pass_manager = TRUE],
   [Default EXCEPT !.target = "qpu", !.labels = TRUE],
   [Default EXCEPT !.device = "qpu"],
   [Default EXCEPT !.device = "qpu", !.labels = TRUE]}

OneUnitary ==
  {Gate(<<1>>), Instr("unitary", <<1>>, << >>), Measurement(1, 1)}
=============================================================================
