---------------------------- MODULE Translation ----------------------------
(***************************************************************************)
(* to_braket of what _get_circuits accepts: a Qiskit circuit as it is      *)
(* (ToBraket), or a Braket circuit that to_qiskit reads first (ToQiskit).  *)
(***************************************************************************)
EXTENDS ToBraket, ToQiskit

translationVars == <<vars, readVars>>

StartsWithQiskit ==
  /\ Init
  /\ braket = << >> /\ reading = "no" /\ at = 1
  /\ buffer = NoBuffer /\ read = << >> /\ cbit = 1

StartsWithBraket ==
  /\ ReadInit
  /\ source = << >> /\ circuit = << >>
  /\ options \in Options /\ others = FALSE
  /\ phase = "read"
  /\ stash = << >> /\ measured = << >>
  /\ layout = [q \in Qubit |-> q] /\ lost = FALSE
  /\ out = << >> /\ ends = << >>

TranslationInit == StartsWithQiskit \/ StartsWithBraket

(* The circuit read, as ToBraket has it: controls and matrices are on the  *)
(* same qubits, and a Kraus operation is treated as a unitary is.          *)
OpOf(x) == IF x.op = "kraus" THEN "unitary" ELSE x.op
AsStatement(x) ==
  [op |-> OpOf(x), qs |-> x.qs, cs |-> x.cs,
   label |-> IF x.op = "box" THEN VerbatimBoxName ELSE NoLabel,
   body |-> [j \in DOMAIN x.body |->
               [op |-> OpOf(x.body[j]), qs |-> x.body[j].qs, cs |-> x.body[j].cs,
                label |-> NoLabel, body |-> << >>]]]

Reading ==
  /\ phase = "read" /\ reading = "yes"
  /\ ReadNext
  /\ UNCHANGED <<given, phase, circuit, stash, layout, lost, emitted>>

HandOver ==
  /\ phase = "read" /\ reading = "done"
  /\ source' = Numbered([i \in DOMAIN read |-> AsStatement(read[i])])
  /\ circuit' = source'
  /\ phase' = "check"
  /\ UNCHANGED <<readVars, options, others, stash, layout, lost, emitted>>

Translating == Next /\ UNCHANGED readVars

TranslationNext == Reading \/ HandOver \/ Translating

TranslationSpec == TranslationInit /\ [][TranslationNext]_translationVars

-----------------------------------------------------------------------------
(* What the instruction of an id in ToBraket was in the Braket circuit.    *)
Origin(id) == IF id[2] = 0 THEN read[id[1]].id ELSE read[id[1]].body[id[2]].id

(* A Braket circuit that is read and written again has on every qubit the  *)
(* operations it had there, in their order, through the reading, the boxes *)
(* taken out and put back, the transpiler and the translation.             *)
RoundTripKeepsTheOrder ==
  phase = "done" /\ reading = "done" =>
    LET sorted == SetToSortSeq(QubitsOf(braket), LAMBDA a, b : a < b)
    IN \A n \in DOMAIN sorted :
         LET there == On(out, LabelOf(layout[n]))
         IN [k \in DOMAIN there |-> Origin(there[k].id)]
              = IdsOf(GivenOn(braket, sorted[n]))
=============================================================================
