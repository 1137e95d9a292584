----------------------------- MODULE PubArrays -----------------------------
(***************************************************************************)
(* What an estimator's pub holds: Pauli labels, observables over them, and *)
(* arrays of observables and of parameter values that numpy broadcasts.    *)
(* Arrays have two dimensions; an index is a pair that counts from 1.      *)
(***************************************************************************)
EXTENDS Integers, Sequences, FiniteSets, Bags

CONSTANT NQubits
ASSUME NQubitsAssumption == NQubits \in Nat

Qubit == 0..(NQubits - 1)
Label == [Qubit -> {"I", "X", "Y", "Z"}]

(* _pauli_support                                                          *)
Support(label) == {q \in Qubit : label[q] # "I"}

(* _group_basis_label, by the x and z bits of the group's labels.          *)
HasX(group, q) == \E l \in group : l[q] \in {"X", "Y"}
HasZ(group, q) == \E l \in group : l[q] \in {"Z", "Y"}

BasisLabel(group) ==
  [q \in Qubit |-> IF HasX(group, q)
                     THEN IF HasZ(group, q) THEN "Y" ELSE "X"
                     ELSE IF HasZ(group, q) THEN "Z" ELSE "I"]

(* External: SparsePauliOp.group_commuting(qubit_wise=True) gives some     *)
(* partition of the labels into groups that agree on every qubit.          *)
Commute(group) ==
  \A a, b \in group : \A q \in Qubit : "I" \in {a[q], b[q]} \/ a[q] = b[q]

Groupings(labels) ==
  {p \in {{{l \in labels : f[l] = i} : i \in {f[m] : m \in labels}} :
            f \in [labels -> 1..Cardinality(labels)]} :
     \A group \in p : Commute(group)}

(* grouped_colmap: the column that a qubit of the basis is measured in.    *)
(* Mutant: a column for every qubit, not only for those that are measured. *)
Column_All(basis, q) == q
Column(basis, q) == Cardinality({r \in Support(basis) : r < q})

(* External: outcomes are in the columns in the order of their qubits.  The *)
(* parity of some columns is that of the basis on those columns' qubits.   *)
Measures(basis, c, q) ==
  basis[q] # "I" /\ Cardinality({r \in Qubit : basis[r] # "I" /\ r < q}) = c

ParityOf(basis, columns) ==
  [q \in Qubit |->
     IF \E c \in columns : Measures(basis, c, q) THEN basis[q] ELSE "I"]

-----------------------------------------------------------------------------
(* An observable: label -> coefficient.  A value of it is kept by what it  *)
(* is a sum of, coefficient times the expectation of a label under a       *)
(* parameter set; that of the identity depends on no parameters.           *)
NoParam == <<>>
Term(label, param) ==
  <<label, IF \A q \in Qubit : label[q] = "I" THEN NoParam ELSE param>>

ValueOf(observable, param) ==
  LET terms == {Term(l, param) : l \in DOMAIN observable}
  IN [t \in terms |-> observable[t[1]]]

(* translate_sparse_pauli_op makes a Sum of more than one term.            *)
IsSum(observable) == Cardinality(DOMAIN observable) > 1

-----------------------------------------------------------------------------
(* numpy's broadcasting, with or without parameter values.                 *)
Larger(a, b) == IF a > b THEN a ELSE b
Shape(pub) ==
  IF pub.pshape = <<>> THEN pub.oshape
  ELSE <<Larger(pub.oshape[1], pub.pshape[1]),
         Larger(pub.oshape[2], pub.pshape[2])>>

Indices(shape) == (1..shape[1]) \X (1..shape[2])
Size(shape) == shape[1] * shape[2]

(* np.unravel_index and flatten: row after row.                            *)
Unravel(shape, n) == <<((n - 1) \div shape[2]) + 1, ((n - 1) % shape[2]) + 1>>

Clip(shape, ij) ==
  <<IF shape[1] = 1 THEN 1 ELSE ij[1], IF shape[2] = 1 THEN 1 ELSE ij[2]>>

ObservableAt(pub, ij) == pub.observables[Clip(pub.oshape, ij)]
ParamAt(pub, ij) == IF pub.pshape = <<>> THEN NoParam ELSE Clip(pub.pshape, ij)
=============================================================================
