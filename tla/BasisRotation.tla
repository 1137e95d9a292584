---------------------------- MODULE BasisRotation ----------------------------
(***************************************************************************)
(* AddBasisRotationAndMeasurement (providers/passes/basis_rotation_pass.py)*)
(* goes through the result pragmas of a circuit, commits each qubit they   *)
(* target to one measurement basis, and appends the rotations into these   *)
(* bases and one measurement per qubit.  A step is one pragma of the loop  *)
(* of run(), whichever comes next.                                         *)
(*                                                                         *)
(* An observable's factor is a letter, or a matrix that is one value here: *)
(* two matrices with the same elements are the same factor.                *)
(***************************************************************************)
EXTENDS Integers, FiniteSets, SequencesExt, Functions

CONSTANTS Pragmas,     \* the pragmas the circuit's metadata may hold
          Arity,       \* factor -> its qubits; -1: not a power of 2 rows
          AllQubits,   \* the qubits "all" stands for, in order
          OldClbits,   \* how many clbits the circuit has
          Measured,    \* whether the circuit measures already
          MaxPragmas   \* bound on the pragmas of one circuit

Letter == {"i", "x", "y", "z", "h"}
Factor == DOMAIN Arity

ASSUME ArityAssumption ==
  /\ Arity \in [Factor -> Int] /\ "z" \in Factor
  /\ \A f \in Factor \cap Letter : Arity[f] = 1
ASSUME PragmasAssumption ==
  /\ AllQubits \in Seq(Nat)
  /\ \A p \in Pragmas :
       /\ p.kind \in {"observable", "probability", "invariant"}
       /\ p.kind # "invariant" => p.targets \in Seq(Nat)
       /\ p.kind = "observable" => p.observable \in Seq(Factor)
ASSUME BoundAssumption == {OldClbits, MaxPragmas} \subseteq Nat

VARIABLES pc,          \* where run() is; "unchanged": it returned the dag
          bases,       \* all_qubit_bases: committed qubit -> its factor
          rotations,   \* all_rotation_ops: for each observable, by the
                       \* place in its plan, those of its [gate, on] added
          eigenvalues, \* all_eigenvalues: group of qubits -> the matrix
          circuit,     \* the operations appended to the dag: the rotations,
                       \* then the measurements by their qubit
          clbitOf,     \* metadata: qubit -> the clbit it is measured into
          done         \* history: the pragmas so far

vars == <<pc, bases, rotations, eigenvalues, circuit, clbitOf, done>>

Empty == [x \in {} |-> x]

Init ==
  /\ pc = "start"
  /\ bases = Empty /\ rotations = <<>> /\ eigenvalues = Empty
  /\ circuit = <<>> /\ clbitOf = Empty
  /\ done = <<>>

(* No pragmas: the dag is returned as it is, whether measured or not.      *)
NoPragmas ==
  /\ pc = "start" /\ pc' = "unchanged"
  /\ UNCHANGED <<bases, rotations, eigenvalues, circuit, clbitOf, done>>

StartLoop ==
  /\ pc = "start" /\ pc' = IF Measured THEN "measured" ELSE "loop"
  /\ UNCHANGED <<bases, rotations, eigenvalues, circuit, clbitOf, done>>

-----------------------------------------------------------------------------
(* _plan_for_observable_type: which factor goes to which qubits.  One      *)
(* letter is repeated for each target; otherwise each factor takes the     *)
(* next of the targets, obs_idx of which are taken before it.  A pragma    *)
(* without targets is one on all qubits.                                   *)
Targets(p) == IF p.targets = <<>> THEN AllQubits ELSE p.targets

Repeats(p) == Len(p.observable) = 1 /\ p.observable[1] \in Letter

ObsIdx(factors) ==
  LET idx[i \in 0..Len(factors)] ==
        IF i = 0 THEN 0 ELSE idx[i - 1] + Arity[factors[i]]
  IN idx

ValidPlan(p) ==
  /\ IsInjective(Targets(p))
  /\ \A i \in DOMAIN p.observable : Arity[p.observable[i]] >= 0
  /\ Repeats(p) \/ ObsIdx(p.observable)[Len(p.observable)] = Len(Targets(p))

Op(factor, group) == [gate |-> factor, on |-> group]

Plan(p) ==
  IF Repeats(p)
    THEN [i \in DOMAIN Targets(p) |-> Op(p.observable[1], <<Targets(p)[i]>>)]
    ELSE LET idx == ObsIdx(p.observable)
         IN [i \in DOMAIN p.observable |->
               Op(p.observable[i], SubSeq(Targets(p), idx[i - 1] + 1, idx[i]))]

On(op) == ToSet(op.on)

(* The basis the plan asks of each qubit; "z" for a probability's.         *)
AskedBasis(ops) ==
  [q \in UNION {On(op) : op \in ToSet(ops)} |->
     (CHOOSE op \in ToSet(ops) : q \in On(op)).gate]

(* _check_basis_conflict.  Mutants: a qubit that only the identity has been*)
(* asked of counts as committed; the identity conflicts.                   *)
NewlyCommitted_NoUpgrade(asked) == DOMAIN asked \ DOMAIN bases
NewlyCommitted(asked) ==
  {q \in DOMAIN asked :
     q \in DOMAIN bases => bases[q] = "i" /\ asked[q] # "i"}

Conflict_Identity(asked) ==
  \E q \in DOMAIN asked \cap DOMAIN bases : bases[q] \notin {"i", asked[q]}
Conflict(asked) ==
  \E q \in DOMAIN asked \cap DOMAIN bases :
    asked[q] # "i" /\ bases[q] \notin {"i", asked[q]}

Committed(asked) ==
  [q \in DOMAIN bases \cup DOMAIN asked |->
     IF q \in NewlyCommitted(asked) THEN asked[q] ELSE bases[q]]

-----------------------------------------------------------------------------
(* The turns of run()'s loop.  StateVector, DensityMatrix and Amplitude    *)
(* are skipped.                                                            *)
Raise(error, p) ==
  /\ pc' = error /\ done' = Append(done, p)
  /\ UNCHANGED <<bases, rotations, eigenvalues, circuit, clbitOf>>

Turn(p) == pc = "loop" /\ Len(done) < MaxPragmas /\ p \in Pragmas

SkipInvariant(p) ==
  /\ Turn(p) /\ p.kind = "invariant"
  /\ done' = Append(done, p)
  /\ UNCHANGED <<pc, bases, rotations, eigenvalues, circuit, clbitOf>>

AddProbability(p) ==
  LET asked == [q \in ToSet(Targets(p)) |-> "z"]
  IN /\ Turn(p) /\ p.kind = "probability"
     /\ IF Conflict(asked)
          THEN Raise("conflict", p)
          ELSE /\ bases' = Committed(asked) /\ done' = Append(done, p)
               /\ UNCHANGED <<pc, rotations, eigenvalues, circuit, clbitOf>>

(* Z and I have no gates; a rotation is added when its qubits are new.     *)
(* Mutant: it is added again.                                              *)
HasGates(op) == op.gate \notin {"z", "i"}
Kept_All(op, new) == TRUE
Kept(op, new) == On(op) \subseteq new

Overlaps(op, new) == ~(On(op) \subseteq new) /\ On(op) \cap new # {}

(* The first matrix of a group stays.                                      *)
FirstKept(old, ops) ==
  LET matrices == {op \in ToSet(ops) : op.gate \notin Letter}
  IN [g \in DOMAIN old \cup {op.on : op \in matrices} |->
        IF g \in DOMAIN old
          THEN old[g] ELSE (CHOOSE op \in matrices : op.on = g).gate]

AddObservable(p) ==
  LET ops == Plan(p)
      asked == AskedBasis(ops)
      new == NewlyCommitted(asked)
      gates == {i \in DOMAIN ops : HasGates(ops[i])}
  IN /\ Turn(p) /\ p.kind = "observable"
     /\ IF ~ValidPlan(p) THEN Raise("invalid", p)
        ELSE IF \/ Conflict(asked)
                \/ \E i \in gates : Overlaps(ops[i], new)
          THEN Raise("conflict", p)
        ELSE /\ bases' = Committed(asked)
             /\ rotations' =
                  Append(rotations, Restrict(ops, {i \in gates : Kept(ops[i], new)}))
             /\ eigenvalues' = FirstKept(eigenvalues, ops)
             /\ done' = Append(done, p)
             /\ UNCHANGED <<pc, circuit, clbitOf>>

-----------------------------------------------------------------------------
(* After the loop: the rotations, then the measurements in the order of    *)
(* the qubits, into new clbits.                                            *)
ClbitOf(q) == OldClbits + Cardinality({r \in DOMAIN bases : r < q})
Measure(q) == [gate |-> "measure", on |-> <<q>>, clbit |-> ClbitOf(q)]

AppendOperations ==
  /\ pc = "loop" /\ done # <<>>
  /\ circuit' = Append(rotations, [q \in DOMAIN bases |-> Measure(q)])
  /\ clbitOf' = [q \in DOMAIN bases |-> ClbitOf(q)]
  /\ pc' = "added"
  /\ UNCHANGED <<bases, rotations, eigenvalues, done>>

Next ==
  \/ NoPragmas \/ StartLoop \/ AppendOperations
  \/ \E p \in Pragmas : SkipInvariant(p) \/ AddProbability(p) \/ AddObservable(p)

Spec == Init /\ [][Next]_vars

-----------------------------------------------------------------------------
(* What the pragmas ask for: factors on groups of qubits.                  *)
PlacesOf(p) ==
  CASE p.kind = "observable"  -> IF ValidPlan(p) THEN ToSet(Plan(p)) ELSE {}
    [] p.kind = "probability" -> {Op("z", <<q>>) : q \in ToSet(Targets(p))}
    [] OTHER                  -> {}

Places == UNION {PlacesOf(done[i]) : i \in DOMAIN done}

Clash(a, b) ==
  On(a) \cap On(b) # {} /\ a # b /\ a.gate # "i" /\ b.gate # "i"

TypeOK ==
  /\ pc \in {"start", "loop", "added", "unchanged", "measured", "conflict",
             "invalid"}
  /\ \A q \in DOMAIN bases : bases[q] \in Factor
  /\ \A k \in DOMAIN rotations : \A i \in DOMAIN rotations[k] :
       HasGates(rotations[k][i])
  /\ \A g \in DOMAIN eigenvalues : eigenvalues[g] \in Factor \ Letter
  /\ done \in Seq(Pragmas)

(* A circuit that the pass returns measures what every pragma asks for,    *)
(* in whatever order they come and identities among them: on a place's     *)
(* qubits act the rotation of that place and no other, once, and then one  *)
(* measurement each, into a clbit of its own that the metadata names.      *)
At(k, q) == {i \in DOMAIN circuit[k] : q \in On(circuit[k][i])}

OneRotation(a, q) ==
  \E k \in 1..Len(rotations) :
    /\ \E i \in DOMAIN circuit[k] : At(k, q) = {i} /\ circuit[k][i] = a
    /\ \A j \in 1..Len(rotations) : j # k => At(j, q) = {}

EveryPlaceIsMeasured ==
  pc = "added" =>
    \A a \in Places : \A q \in On(a) :
      /\ a.gate # "i" =>
           IF HasGates(a) THEN OneRotation(a, q)
           ELSE \A k \in 1..Len(rotations) : At(k, q) = {}
      /\ Len(circuit) = Len(rotations) + 1 /\ At(Len(circuit), q) = {q}
      /\ circuit[Len(circuit)][q] =
           [gate |-> "measure", on |-> <<q>>, clbit |-> clbitOf[q]]
      /\ clbitOf[q] >= OldClbits
      /\ \A r \in DOMAIN clbitOf : clbitOf[r] = clbitOf[q] => r = q

(* The pass refuses pragmas as conflicting only when two places on one     *)
(* qubit differ, neither of them the identity's.                           *)
RefusalHasAReason == pc = "conflict" => \E a, b \in Places : Clash(a, b)

(* Two different observables that target the same qubit are refused.       *)
DifferentObservablesRaise ==
  pc = "added" => ~\E a, b \in Places : Clash(a, b)

(* The eigenvalues kept for a group of qubits are those of the matrix whose*)
(* rotation acts on that group.                                            *)
EigenvaluesFitRotation ==
  pc = "added" =>
    \A g \in DOMAIN eigenvalues : \E k \in DOMAIN rotations :
      Op(eigenvalues[g], g) \in Range(rotations[k])
=============================================================================
