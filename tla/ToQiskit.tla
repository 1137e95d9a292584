------------------------------ MODULE ToQiskit ------------------------------
(***************************************************************************)
(* to_qiskit of a Braket Circuit (providers/adapter.py): one instruction   *)
(* after the other becomes a Qiskit instruction, on the qubits' places     *)
(* among the sorted qubits, and the instructions between the delimiters of *)
(* a verbatim box become the body of one.  Programs and OpenQASM sources   *)
(* go through the interpreter instead (QasmContext).                       *)
(***************************************************************************)
EXTENDS Integers, FiniteSets, SequencesExt, Functions, FiniteSetsExt

CONSTANT BraketCircuits  \* the circuits given

VARIABLES braket,   \* the circuit given: instructions with target, control
                    \* and the control qubits' state
          reading,  \* "no", "yes", "done" or "raised"
          at,       \* the instruction the loop is at
          buffer,   \* <<verbatim_buffer>>, or NoBuffer
          read,     \* qiskit_circuit
          cbit      \* the next classical bit

readVars == <<braket, reading, at, buffer, read, cbit>>

NoBuffer == << >>

QubitsOf(c) == UNION {Range(x.target) \cup Range(x.control) : x \in Range(c)}

(* qubit_map, counted from 1.  Mutant: as they come.                       *)
QubitMap_First(c, q) ==
  Cardinality(UNION {QubitsOf(SubSeq(c, 1, i)) :
                       i \in {j \in DOMAIN c : q \notin QubitsOf(SubSeq(c, 1, j))}}) + 1
QubitMap(c, q) == Cardinality({p \in QubitsOf(c) : p <= q})
Mapped(c, qs) == [k \in DOMAIN qs |-> QubitMap(c, qs[k])]

NumMeasurements(c) == Cardinality({i \in DOMAIN c : c[i].op = "measure"})

ReadInit ==
  /\ braket \in BraketCircuits
  /\ reading = "yes" /\ at = 1
  /\ buffer = NoBuffer /\ read = << >> /\ cbit = 1

-----------------------------------------------------------------------------
(* The operation: Qiskit reads the control state's string from its end,    *)
(* and a matrix with its qubits the other way round.  Mutants: neither is  *)
(* turned.                                                                 *)
CtrlState_AsGiven(state) == state
CtrlState(state) == Reverse(state)

MatrixOrder_AsGiven(target) == target
MatrixOrder(target) == Reverse(target)

HasMatrix(x) == x.op \in {"unitary", "kraus"}

Converted(x) ==
  [op |-> x.op, id |-> x.id, cs |-> << >>, body |-> << >>,
   qs |-> Mapped(braket, x.control \o x.target),
   ctrl |-> CtrlState(x.state),
   matrix |-> IF HasMatrix(x) THEN MatrixOrder(Mapped(braket, x.target)) ELSE << >>]

Everything == [q \in 1..Cardinality(QubitsOf(braket)) |-> q]

(* A barrier without qubits is on all of the circuit it is put in.         *)
BarrierOf(x) ==
  [Converted(x) EXCEPT !.qs = IF x.target = << >> THEN Everything ELSE @]

PutIn(x) ==
  IF buffer # NoBuffer
    THEN buffer' = <<Append(buffer[1], x)>> /\ UNCHANGED read
    ELSE read' = Append(read, x) /\ UNCHANGED buffer

Current == braket[at]
Reads == reading = "yes" /\ at <= Len(braket)
GoOn == at' = at + 1 /\ UNCHANGED <<braket, reading>>

ReadOperation ==
  /\ Reads /\ Current.op \in {"gate", "unitary", "kraus"}
  /\ PutIn(Converted(Current))
  /\ GoOn /\ UNCHANGED cbit

ReadBarrier ==
  /\ Reads /\ Current.op = "barrier"
  /\ PutIn(BarrierOf(Current))
  /\ GoOn /\ UNCHANGED cbit

(* A measurement is put on the outer circuit, in a box or not.             *)
(* Mutant: into the bit of its qubit.                                      *)
BitOf_Qubit(x) == QubitMap(braket, x.target[1])
BitOf(x) == cbit

ReadMeasure ==
  /\ Reads /\ Current.op = "measure"
  /\ read' = Append(read, [Converted(Current) EXCEPT !.cs = <<BitOf(Current)>>])
  /\ cbit' = cbit + 1
  /\ GoOn /\ UNCHANGED buffer

StartVerbatimBox ==
  /\ Reads /\ Current.op = "start"
  /\ IF buffer # NoBuffer
       THEN reading' = "raised" /\ UNCHANGED <<at, buffer>>
       ELSE buffer' = << << >> >> /\ at' = at + 1 /\ UNCHANGED reading
  /\ UNCHANGED <<braket, read, cbit>>

(* BraketVerbatimBox over all qubits and bits, always labelled "verbatim". *)
EndVerbatimBox ==
  /\ Reads /\ Current.op = "end"
  /\ read' = Append(read,
       [op |-> "box", id |-> Current.id, body |-> buffer[1], ctrl |-> << >>,
        qs |-> Everything, matrix |-> << >>,
        cs |-> [b \in 1..NumMeasurements(braket) |-> b]])
  /\ buffer' = NoBuffer
  /\ GoOn /\ UNCHANGED cbit

(* measure_all, when nothing is measured.                                  *)
MeasureAll ==
  <<[Converted([op |-> "barrier", id |-> 0, target |-> << >>, control |-> << >>,
                state |-> << >>]) EXCEPT !.qs = Everything]>>
    \o [q \in DOMAIN Everything |->
          [op |-> "measure", id |-> -q, cs |-> <<q>>, body |-> << >>,
           qs |-> <<q>>, ctrl |-> << >>, matrix |-> << >>]]

EndReading ==
  /\ reading = "yes" /\ at > Len(braket)
  /\ read' = IF NumMeasurements(braket) = 0 THEN read \o MeasureAll ELSE read
  /\ reading' = "done"
  /\ UNCHANGED <<braket, at, buffer, cbit>>

ReadNext ==
  \/ ReadOperation \/ ReadBarrier \/ ReadMeasure
  \/ StartVerbatimBox \/ EndVerbatimBox \/ EndReading

ReadSpec == ReadInit /\ [][ReadNext]_readVars

-----------------------------------------------------------------------------
IsDone(x) == x.op \in {"gate", "unitary", "kraus"}

(* The circuit read, with the contents of its boxes in their place.        *)
ReadFlat == FlattenSeq([i \in DOMAIN read |->
                          IF read[i].op = "box" THEN read[i].body ELSE <<read[i]>>])
On(c, q) == SelectSeq(c, LAMBDA x : IsDone(x) /\ q \in Range(x.qs))
GivenOn(c, q) ==
  SelectSeq(c, LAMBDA x : IsDone(x) /\ q \in Range(x.target \o x.control))
IdsOf(c) == [i \in DOMAIN c |-> c[i].id]

InBox(i) ==
  \E j \in 1..i : braket[j].op = "start" /\ \A k \in j..i : braket[k].op # "end"
MeasureAt(k) ==
  CHOOSE i \in DOMAIN braket :
    braket[i].op = "measure" /\ NumMeasurements(SubSeq(braket, 1, i)) = k

(* External: the value a controlled gate asks of its k-th control qubit.   *)
Asked(x, k) == x.ctrl[Len(x.ctrl) + 1 - k]

(* The Qiskit circuit does what the Braket circuit does: on every qubit,   *)
(* named by its place among the qubits, the same operations in the same    *)
(* order; every control with the value it is given; every matrix on its    *)
(* qubits; the k-th measurement into the k-th bit, after the operations it *)
(* comes after.  Left out: a measurement in a verbatim box, which is put   *)
(* before the box.                                                         *)
ReadsTheCircuit ==
  reading = "done" =>
    LET sorted == SetToSortSeq(QubitsOf(braket), LAMBDA a, b : a < b)
    IN /\ \A n \in DOMAIN sorted :
            IdsOf(On(ReadFlat, n)) = IdsOf(GivenOn(braket, sorted[n]))
       /\ \A x \in Range(ReadFlat), y \in Range(braket) :
            x.id = y.id /\ IsDone(y) =>
              /\ [k \in DOMAIN x.qs |-> sorted[x.qs[k]]] = y.control \o y.target
              /\ \A k \in DOMAIN y.state : Asked(x, k) = y.state[k]
              /\ HasMatrix(y) =>
                   [k \in DOMAIN x.matrix |-> sorted[x.matrix[k]]] = Reverse(y.target)
       /\ \A k \in 1..NumMeasurements(braket) :
            \E m \in DOMAIN ReadFlat :
              LET x == ReadFlat[m]
                  q == braket[MeasureAt(k)].target[1]
              IN /\ x.op = "measure" /\ x.cs = <<k>> /\ sorted[x.qs[1]] = q
                 /\ ~InBox(MeasureAt(k)) =>
                      IdsOf(On(SubSeq(ReadFlat, 1, m), x.qs[1]))
                        = IdsOf(GivenOn(SubSeq(braket, 1, MeasureAt(k)), q))
=============================================================================
