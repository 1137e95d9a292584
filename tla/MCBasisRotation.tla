--------------------------- MODULE MCBasisRotation ---------------------------
EXTENDS BasisRotation

(* A is a matrix of two rows, B one of four, C one of three.               *)
MCArity == [i |-> 1, x |-> 1, z |-> 1, A |-> 1, B |-> 2, C |-> -1]

On1(f, q) == [kind |-> "observable", observable |-> <<f>>, targets |-> <<q>>]
Pair(f, g, q, r) ==
  [kind |-> "observable", observable |-> <<f, g>>, targets |-> <<q, r>>]
Both(q, r) ==
  [kind |-> "observable", observable |-> <<"B">>, targets |-> <<q, r>>]
Shared ==
  {On1(f, q) : f \in {"i", "x", "A"}, q \in {0, 1}}
    \cup {[kind |-> "observable", observable |-> <<f>>, targets |-> <<>>] :
            f \in {"i", "z"}}
    \cup {[kind |-> "probability", targets |-> t] : t \in {<<2, 0>>, <<>>}}
    \cup {Pair("x", "i", 2, 0), Pair("A", "z", 1, 2), Pair("x", "x", 1, 1),
          On1("C", 2), On1("B", 0), [kind |-> "invariant"]}

(* The matrix of two qubits is on qubits in their order, or anywhere.      *)
InOrder == Shared \cup {Both(0, 1), Both(1, 2)}
AnyPlace == {Both(q, r) : q, r \in 0..2} \cup {On1("i", 1)}
MCAllQubits == <<0, 1, 2>>
=============================================================================
