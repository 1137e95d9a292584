---------------------------- MODULE MCTranslation ----------------------------
(* Instance of Translation for TLC: circuits of two qubits with labels out  *)
(* of order, delimited boxes, and one operation of every kind.              *)
EXTENDS Translation, MCToBraket

BraketInstr(op, control, state, target) ==
  [op |-> op, target |-> target, control |-> control, state |-> state]

ThreeLabels == <<2, 5, 4>>

Start == BraketInstr("start", << >>, << >>, << >>)
End == BraketInstr("end", << >>, << >>, << >>)
On1(op, q) == BraketInstr(op, << >>, << >>, <<q>>)

Operations ==
  {On1("gate", 7), On1("gate", 3), On1("measure", 7), On1("measure", 3),
   BraketInstr("gate", <<7>>, <<0>>, <<3>>),
   BraketInstr("unitary", << >>, << >>, <<7, 3>>),
   BraketInstr("barrier", << >>, << >>, << >>)}

(* Two controls with different states, a Kraus operation and a barrier.     *)
Others ==
  {<<On1("gate", 7), BraketInstr("gate", <<9, 3>>, <<0, 1>>, <<7>>)>>,
   <<On1("kraus", 3), BraketInstr("barrier", << >>, << >>, <<7>>), On1("gate", 7)>>,
   <<Start, On1("gate", 3), Start>>}

(* Braket has no operation on a measured qubit.                             *)
Legal(c) ==
  \A i, j \in DOMAIN c :
    i < j /\ c[i].op = "measure" =>
      Range(c[i].target) \cap Range(c[j].target \o c[j].control) = {}

Bodies == {c \in UNION {[1..n -> Operations] : n \in 1..2} : Legal(c)}
Boxed(c, i, j) == SubSeq(c, 1, i) \o <<Start>> \o SubSeq(c, i + 1, j) \o <<End>>
                    \o SubSeq(c, j + 1, Len(c))
WithIds(c) ==
  [i \in DOMAIN c |-> [op |-> c[i].op, target |-> c[i].target, id |-> i,
                       control |-> c[i].control, state |-> c[i].state]]

MCBraketCircuits ==
  {WithIds(c) : c \in Bodies \cup Others
                        \cup UNION {{Boxed(b, i, j) : i \in 0..1, j \in 1..Len(b)} : b \in Bodies}}
=============================================================================
