------------------------------ MODULE ToBraket ------------------------------
(***************************************************************************)
(* to_braket of one circuit (providers/adapter.py, compilation.py,         *)
(* passes/verbatim_passes.py): the arguments are checked, the verbatim     *)
(* boxes taken out, the transpiler run, the boxes put back, and the result *)
(* translated instruction by instruction, measurements last.               *)
(*                                                                         *)
(* External: the transpiler.  It keeps the order on every wire and may     *)
(* exchange what shares none, lay qubits out when it is free to, and lose  *)
(* a placeholder; what it rewrites is outside the boxes and left out.      *)
(***************************************************************************)
EXTENDS Integers, FiniteSets, SequencesExt

CONSTANTS Statements, \* the instructions a circuit may hold
          MaxLength,  \* how many it holds
          Options,    \* the arguments to_braket may be given
          Labels      \* the device's labels of the qubits, in order

ASSUME MaxLengthAssumption == MaxLength \in Nat
ASSUME LabelsAssumption == Labels \in Seq(Int) /\ IsInjective(Labels)

Qubit == DOMAIN Labels

(* A body is on its box's qubits and clbits, by their place; placeholders  *)
(* are made by the extraction only.                                        *)
IsInstruction(x, qubits, clbits) ==
  /\ x.qs \in Seq(qubits) /\ x.cs \in Seq(clbits)
  /\ x.op = "measure" => Len(x.qs) = 1 /\ Len(x.cs) = 1

IsStatement(s) ==
  /\ IsInstruction(s, Qubit, Nat) /\ s.op # "placeholder"
  /\ s.body \in Seq(Range(s.body))
  /\ \A x \in Range(s.body) : IsInstruction(x, DOMAIN s.qs, DOMAIN s.cs)

ASSUME StatementsAssumption == \A s \in Statements : IsStatement(s)

(* Labels of barriers and boxes: _indexed_label, _is_verbatim_label.       *)
NoLabel == [name |-> "none", index |-> -1]
VerbatimBoxName == [name |-> "verbatim", index |-> -1]
IndexedLabel(i) == [name |-> "verbatim", index |-> i]
IsVerbatimLabel(l) == l.name = "verbatim"

VARIABLES source,   \* the circuit given, every instruction with an id
          options,  \* the arguments given with it
          others,   \* whether another circuit of the call has a box
          phase,    \* what is done next
          circuit,  \* the circuit as it is now
          stash,    \* property_set["verbatim_boxes"]: label -> body
          layout,   \* qubit -> where the transpiler has put it
          lost,     \* history: the transpiler lost a placeholder
          measured, \* measured_qubits: clbit -> label of the qubit
          out,      \* braket_circuit before its measurements
          ends      \* the measurements at its end

vars == <<source, options, others, phase, circuit, stash, layout, lost,
          measured, out, ends>>

given == <<source, options, others>>
emitted == <<measured, out, ends>>

(* An instruction of a body is known by its box and its place there.       *)
Numbered(c) ==
  [i \in DOMAIN c |->
     [op |-> c[i].op, qs |-> c[i].qs, cs |-> c[i].cs, label |-> c[i].label,
      id |-> <<i, 0>>,
      body |-> [j \in DOMAIN c[i].body |->
                  [op |-> c[i].body[j].op, qs |-> c[i].body[j].qs,
                   cs |-> c[i].body[j].cs, label |-> NoLabel,
                   id |-> <<i, j>>, body |-> << >>]]]]

IsOperation(x) == x.op \in {"gate", "unitary"}

(* qubit_labels: given, or a QPU's; without them a qubit's index.          *)
HasLabels == options.labels \/ options.device = "qpu"
LabelOf(q) == IF HasLabels THEN Labels[q] ELSE q - 1

Phase == {"read", "check", "extract", "transpile", "restore", "inline",
          "translate", "done", "raised"}

TypeOK ==
  /\ phase \in Phase
  /\ others \in BOOLEAN /\ lost \in BOOLEAN
  /\ layout \in [Qubit -> Qubit] /\ IsInjective(layout)
  /\ \A l \in DOMAIN stash : IsVerbatimLabel(l)
  /\ Range(measured) \cup Range(ends) \subseteq
       IF HasLabels THEN Range(Labels) ELSE 0..(Len(Labels) - 1)
  /\ Len(ends) <= Len(Labels)

Init ==
  /\ \E n \in 0..MaxLength, c \in [1..MaxLength -> Statements] :
       source = Numbered(SubSeq(c, 1, n))
  /\ options \in Options
  /\ others \in BOOLEAN
  /\ phase = "check"
  /\ circuit = source
  /\ stash = << >> /\ measured = << >>
  /\ layout = [q \in Qubit |-> q]
  /\ lost = FALSE
  /\ out = << >> /\ ends = << >>

-----------------------------------------------------------------------------
(* to_braket, _validate_arguments and the first checks of _compile.        *)
ContainsControlFlow(c) ==
  \E x \in Range(c) : \/ x.op = "if_else"
                      \/ \E y \in Range(x.body) : y.op = "if_else"

HasBarrierNamedVerbatim(c) ==
  \E x \in Range(c) : x.op = "barrier" /\ x.label = VerbatimBoxName

IsVerbatimBox(x) == x.op = "box" /\ x.label = VerbatimBoxName
HasVerbatimBoxes == others \/ \E x \in Range(source) : IsVerbatimBox(x)

TooManyArguments(o) ==
  Cardinality({a \in {"target", "basis", "pass_manager", "device"} :
                 \/ a = "target" /\ o.target # "none"
                 \/ a = "basis" /\ o.basis # "none"
                 \/ a = "pass_manager" /\ o.pass_manager
                 \/ a = "device" /\ o.device # "none"}) > 1

Refused(c, o) ==
  \/ ContainsControlFlow(c)
  \/ TooManyArguments(o)
  \/ HasBarrierNamedVerbatim(c)
  \/ o.pass_manager /\ HasVerbatimBoxes
  \/ o.device # "none" /\ o.labels

(* _compile's branches; whether a circuit without a given target or basis  *)
(* gates is transpiled is never in doubt: there is a default target.       *)
PathOf(o) ==
  IF o.pass_manager THEN "transpile"
  ELSE IF o.verbatim \/ o.basis = "covers" THEN "inline"
  ELSE IF HasVerbatimBoxes THEN "extract" ELSE "transpile"

CheckArguments ==
  /\ phase = "check"
  /\ phase' = IF Refused(source, options) THEN "raised" ELSE PathOf(options)
  /\ UNCHANGED <<given, circuit, stash, layout, lost, emitted>>

-----------------------------------------------------------------------------
(* ExtractVerbatimBoxes.run.  Mutant: boxes get the same label.            *)
BoxesBefore(c, i) == {j \in 1..(i - 1) : IsVerbatimBox(c[j])}

PlaceholderLabel_Same(c, i) == VerbatimBoxName
PlaceholderLabel(c, i) == IndexedLabel(Cardinality(BoxesBefore(c, i)))

Placeholder(c, i) ==
  [c[i] EXCEPT !.op = "placeholder", !.label = PlaceholderLabel(c, i),
               !.body = << >>]

Extract ==
  /\ phase = "extract"
  /\ IF \E x \in Range(circuit) : x.op = "barrier" /\ IsVerbatimLabel(x.label)
       THEN phase' = "raised" /\ UNCHANGED <<circuit, stash>>
       ELSE LET boxes == {i \in DOMAIN circuit : IsVerbatimBox(circuit[i])}
            IN /\ phase' = "transpile"
               /\ stash' =
                    [l \in {PlaceholderLabel(circuit, i) : i \in boxes} |->
                       circuit[CHOOSE i \in boxes :
                                 /\ PlaceholderLabel(circuit, i) = l
                                 /\ \A j \in boxes :
                                      PlaceholderLabel(circuit, j) = l => j <= i].body]
               /\ circuit' = [i \in DOMAIN circuit |->
                                IF i \in boxes THEN Placeholder(circuit, i)
                                               ELSE circuit[i]]
  /\ UNCHANGED <<given, layout, lost, emitted>>

-----------------------------------------------------------------------------
(* External: the transpiler.  The layout is left to it only when no        *)
(* circuit of the call has a verbatim box ("trivial" else).  Mutant: it is *)
(* always left to it.                                                      *)
FreeLayout_Always == TRUE
FreeLayout == ~HasVerbatimBoxes

LayOut ==
  /\ phase = "transpile" /\ FreeLayout /\ layout = [q \in Qubit |-> q]
  /\ layout' \in {l \in [Qubit -> Qubit] : IsInjective(l)}
  /\ circuit' = [i \in DOMAIN circuit |->
                   [circuit[i] EXCEPT !.qs = [k \in DOMAIN @ |-> layout'[@[k]]]]]
  /\ UNCHANGED <<given, phase, stash, lost, emitted>>

Independent(x, y) ==
  Range(x.qs) \cap Range(y.qs) = {} /\ Range(x.cs) \cap Range(y.cs) = {}

Exchange ==
  /\ phase = "transpile"
  /\ \E i \in 1..(Len(circuit) - 1) :
       /\ Independent(circuit[i], circuit[i + 1])
       /\ circuit' = [circuit EXCEPT ![i] = circuit[i + 1],
                                     ![i + 1] = circuit[i]]
  /\ UNCHANGED <<given, phase, stash, layout, lost, emitted>>

LosePlaceholder ==
  /\ phase = "transpile" /\ ~lost
  /\ \E i \in DOMAIN circuit :
       /\ circuit[i].op = "placeholder"
       /\ circuit' = RemoveAt(circuit, i)
  /\ lost' = TRUE
  /\ UNCHANGED <<given, phase, stash, layout, emitted>>

EndTranspiler ==
  /\ phase = "transpile"
  /\ phase' = IF ~options.pass_manager /\ HasVerbatimBoxes THEN "restore"
                                                           ELSE "translate"
  /\ UNCHANGED <<given, circuit, stash, layout, lost, emitted>>

-----------------------------------------------------------------------------
(* The body of a box on the wires of the node it is put in for.            *)
Placed(x, body) ==
  [j \in DOMAIN body |->
     [body[j] EXCEPT !.qs = [k \in DOMAIN @ |-> x.qs[@[k]]],
                     !.cs = [k \in DOMAIN @ |-> x.cs[@[k]]]]]

(* RestoreVerbatimBoxes.run: by label, each box once, none left over.      *)
(* Mutants: the n-th placeholder gets the n-th box; what is left over is   *)
(* not looked at.                                                          *)
IsPlaceholder(x) == x.op = "placeholder" /\ IsVerbatimLabel(x.label)
Placeholders(c) == {i \in DOMAIN c : IsPlaceholder(c[i])}

LabelAt_Count(c, i) ==
  IndexedLabel(Cardinality({j \in Placeholders(c) : j < i}))
LabelAt(c, i) == c[i].label

LeftOver_Ignored(c) == {}
LeftOver(c) == DOMAIN stash \ {LabelAt(c, i) : i \in Placeholders(c)}

CanRestore(c) ==
  /\ \A i \in Placeholders(c) : LabelAt(c, i) \in DOMAIN stash
  /\ \A i, j \in Placeholders(c) : LabelAt(c, i) = LabelAt(c, j) => i = j
  /\ LeftOver(c) = {}

Restored(c) ==
  FlattenSeq([i \in DOMAIN c |->
                IF IsPlaceholder(c[i])
                  THEN Placed(c[i], stash[LabelAt(c, i)]) ELSE <<c[i]>>])

Restore ==
  /\ phase = "restore"
  /\ IF DOMAIN stash = {} THEN phase' = "translate" /\ UNCHANGED <<circuit, stash>>
     ELSE IF CanRestore(circuit)
       THEN /\ phase' = "translate"
            /\ circuit' = Restored(circuit)
            /\ stash' = << >>
       ELSE phase' = "raised" /\ UNCHANGED <<circuit, stash>>
  /\ UNCHANGED <<given, layout, lost, emitted>>

(* _inline_verbatim_boxes.                                                 *)
Inlined(c) ==
  FlattenSeq([i \in DOMAIN c |->
                IF IsVerbatimBox(c[i]) THEN Placed(c[i], c[i].body) ELSE <<c[i]>>])

Inline ==
  /\ phase = "inline"
  /\ circuit' = Inlined(circuit)
  /\ phase' = "translate"
  /\ UNCHANGED <<given, stash, layout, lost, emitted>>

-----------------------------------------------------------------------------
(* _translate_to_braket: one instruction a step, from the circuit's head.  *)
(* Mutants: nothing is held against the qubits measured; the measurements  *)
(* come in the wrong order.                                                *)
LabelsOf(x) == [k \in DOMAIN x.qs |-> LabelOf(x.qs[k])]

ActsOnMeasured_Never(x) == FALSE
ActsOnMeasured(x) == Range(LabelsOf(x)) \cap Range(measured) # {}

TranslateMeasure(x) ==
  IF ActsOnMeasured(x)
    THEN phase' = "raised" /\ UNCHANGED measured
    ELSE /\ measured' = [c \in DOMAIN measured \cup {x.cs[1]} |->
                           IF c = x.cs[1] THEN LabelOf(x.qs[1]) ELSE measured[c]]
         /\ UNCHANGED phase

(* The case of "unitary" and "kraus" does not ask.                         *)
TranslateOperation(x) ==
  IF x.op = "gate" /\ ActsOnMeasured(x)
    THEN phase' = "raised" /\ UNCHANGED out
    ELSE /\ out' = Append(out, [x EXCEPT !.qs = LabelsOf(x)])
         /\ UNCHANGED phase

Translate ==
  /\ phase = "translate" /\ circuit # << >>
  /\ LET x == Head(circuit)
     IN \/ x.op = "measure" /\ TranslateMeasure(x) /\ UNCHANGED out
        \/ x.op = "barrier" /\ UNCHANGED <<phase, measured, out>>
        \/ x.op = "reset" /\ phase' = "raised" /\ UNCHANGED <<measured, out>>
        \/ IsOperation(x) /\ TranslateOperation(x) /\ UNCHANGED measured
  /\ circuit' = Tail(circuit)
  /\ UNCHANGED <<given, stash, layout, lost, ends>>

FinalOrder_Down(cs) ==
  [k \in 1..Cardinality(cs) |->
     CHOOSE c \in cs : Cardinality({d \in cs : d >= c}) = k]
FinalOrder(cs) ==
  [k \in 1..Cardinality(cs) |->
     CHOOSE c \in cs : Cardinality({d \in cs : d <= c}) = k]

Finish ==
  /\ phase = "translate" /\ circuit = << >>
  /\ ends' = [k \in 1..Cardinality(DOMAIN measured) |->
                measured[FinalOrder(DOMAIN measured)[k]]]
  /\ phase' = "done"
  /\ UNCHANGED <<given, circuit, stash, layout, lost, measured, out>>

Next ==
  \/ CheckArguments \/ Extract
  \/ LayOut \/ Exchange \/ LosePlaceholder \/ EndTranspiler
  \/ Restore \/ Inline \/ Translate \/ Finish

Spec == Init /\ [][Next]_vars

-----------------------------------------------------------------------------
(* The source with the contents of its boxes in their place.               *)
Flat == Inlined(source)
GatesOn(c, q) == {i \in DOMAIN c : IsOperation(c[i]) /\ q \in Range(c[i].qs)}
IdsOn(c, q) == {c[i].id : i \in GatesOn(c, q)}

(* Ids are places in the source, those in a box after the box's.           *)
Before(a, b) == a[1] < b[1] \/ (a[1] = b[1] /\ a[2] < b[2])

(* What comes out has, on every qubit, the gates the circuit had there, in *)
(* and out of its verbatim boxes, each once and in their order, whatever   *)
(* the transpiler exchanged; a box that got lost is never passed over.     *)
GatesKeepTheirOrder ==
  phase = "done" =>
    \A q \in Qubit :
      LET there == LabelOf(layout[q])
      IN /\ IdsOn(out, there) = IdsOn(Flat, q)
         /\ \A i, k \in GatesOn(out, there) :
              i < k => Before(out[i].id, out[k].id)

(* The gates of a verbatim box are on the qubits the program put them on.  *)
BoxesStayOnTheirQubits ==
  phase = "done" =>
    \A x \in Range(out), y \in Range(Flat) :
      x.id = y.id /\ x.id[2] > 0 => x.qs = LabelsOf(y)

(* The k-th measurement at the end is of the k-th bit the circuit writes,  *)
(* and finds its qubit as the last measurement into that bit found it:     *)
(* nothing acted on the qubit in between.  A circuit with a unitary on a   *)
(* qubit after its measurement is left to NothingActsOnMeasured.           *)
Writes(c) == {i \in DOMAIN Flat : Flat[i].op = "measure" /\ Flat[i].cs[1] = c}
WrittenBits == {Flat[i].cs[1] : i \in {j \in DOMAIN Flat : Flat[j].op = "measure"}}

After(ops) ==
  \E i, j \in DOMAIN Flat :
    /\ i < j /\ Flat[i].op = "measure" /\ Flat[j].op \in ops
    /\ Range(Flat[i].qs) \cap Range(Flat[j].qs) # {}

MeasuresWhatTheBitHolds ==
  phase = "done" /\ ~After({"unitary"}) =>
    /\ Len(ends) = Cardinality(WrittenBits)
    /\ \A c \in WrittenBits :
         LET last == CHOOSE i \in Writes(c) : \A j \in Writes(c) : j <= i
             q == Flat[last].qs[1]
             k == Cardinality({d \in WrittenBits : d <= c})
         IN /\ ends[k] = LabelOf(layout[q])
            /\ IdsOn(out, ends[k]) = IdsOn(SubSeq(Flat, 1, last), q)

(* A circuit is refused for something the caller can see: its arguments,   *)
(* a barrier named like a box, an instruction Braket has not, a qubit used *)
(* after it was measured, or a placeholder the transpiler lost.            *)
RefusalHasAReason ==
  phase = "raised" =>
    \/ Refused(source, options)
    \/ /\ PathOf(options) = "extract"
       /\ \E x \in Range(source) : x.op = "barrier" /\ IsVerbatimLabel(x.label)
    \/ \E x \in Range(Flat) : x.op = "reset"
    \/ After({"measure", "gate"})
    \/ lost

(* No operation is put on a qubit that was measured.                       *)
NothingActsOnMeasured ==
  [][out' # out =>
       Range(out'[Len(out')].qs) \cap Range(measured) = {}]_vars
=============================================================================
