------------------------------- MODULE ToOQ3 -------------------------------
(***************************************************************************)
(* How a compiled circuit becomes an OpenQASM 3 program for Braket         *)
(* (_compile_to_oq3 after _compile, and to_oq3, of providers/adapter.py;   *)
(* passes/braket_formatting_passes.py; providers/braket_annotations.py).   *)
(*                                                                         *)
(* A circuit is one sequence of its innermost instructions, each with the  *)
(* path of the blocks it is in, outermost first: an "if" on a bit, or a    *)
(* "box".  So what the code does by recursion is done to every element.    *)
(* An instruction has an op (its Qiskit name), an id, a param, qubits q    *)
(* and bits c by index.  A program is the same with names, references to   *)
(* qubits and to bits, its declarations, and the gates it has to define.   *)
(*                                                                         *)
(* External: RemoveBarriers, and qasm3.dumps, which writes qubits as $n    *)
(* when the circuit has a layout, as a register's when it has one and as   *)
(* _qubit<n> otherwise, and defines gates that are not in basis_gates.     *)
(***************************************************************************)
EXTENDS GateTables, Integers, FiniteSets, SequencesExt

CONSTANT EndsWith(_, _)  \* does a register's name end with another's name

(* _QISKIT_TO_OQ3_NAMES.keys() - {global_phase}: to_oq3 without basis gates*)
DefaultBasis == DOMAIN QiskitToOQ3Names \ {"global_phase"}

PragmaOps == {"unitary", "kraus"}
NotGates == {"measure", "barrier", "reset", "kraus", "CCPRx", "MeasureFF"}

AtTop(x) == x.path = << >>
Insts(c) == Range(c.insts)

(* The elements of a sequence at some of its places, in their order.       *)
Those(s, places) ==
  FlattenSeq([i \in DOMAIN s |-> IF i \in places THEN <<s[i]>> ELSE << >>])

-----------------------------------------------------------------------------
(* Barriers a target has not are removed, everywhere.                      *)
WithoutBarriers(c) ==
  [c EXCEPT !.insts = Those(@, {i \in DOMAIN @ : @[i].op # "barrier"})]

(* External: Qiskit's DAG.  Every pass manager of to_oq3 takes the circuit  *)
(* to a DAG and back, WrapInVerbatimBox does it once more, and what comes  *)
(* back keeps the order on each qubit and bit, with a block a node of its  *)
(* own: instructions that share none come in any.  One order, chosen before*)
(* the passes, stands for all of these: the last to count is the one that  *)
(* WrapInVerbatimBox sees, what it leaves outside are measurements, and the*)
(* numbers of placeholders given before are names and no more.  A block of *)
(* the code also holds the qubits it is given and does not use.            *)
BitsBesides(x, y) ==
  Range(x.c) \cup ({b.bit : b \in Range(x.path) \ Range(y.path)} \ {-1})

Tied(x, y) ==
  \/ Range(x.q) \cap Range(y.q) # {}
  \/ BitsBesides(x, y) \cap BitsBesides(y, x) # {}

BlocksInOnePiece(insts) ==
  \A i, j, m \in DOMAIN insts :
    i <= m /\ m <= j =>
      Range(insts[i].path) \cap Range(insts[j].path) \subseteq Range(insts[m].path)

InOrder(c, order) == [c EXCEPT !.insts = [i \in DOMAIN @ |-> @[order[i]]]]

IsRemoved(x, o) == x.op = "barrier" /\ ~o.keepsBarriers

DagOrders(c, o) ==
  {order \in Bijection(DOMAIN c.insts, DOMAIN c.insts) :
     /\ \A i, j \in DOMAIN c.insts :
          LET x == c.insts[order[i]]
              y == c.insts[order[j]]
          IN i < j /\ Tied(x, y) /\ ~IsRemoved(x, o) /\ ~IsRemoved(y, o)
               => order[i] < order[j]
     /\ BlocksInOnePiece(InOrder(c, order).insts)}

(* _validate_circuit_angles: of every gate; a free parameter has none.     *)
AnglesAllowed(c, restrictions) ==
  \A x \in Insts(c) :
    x.op \in DOMAIN restrictions /\ x.param # "free" =>
      x.param \in restrictions[x.op]

(* _has_control_flow: it does not look into boxes.                         *)
HasControlFlow(c) ==
  \E x \in Insts(c) : ~AtTop(x) /\ x.path[1].kind = "if"

RefusedByIQM(c, o) ==
  ~o.verbatim /\ o.nativePath /\ HasControlFlow(c) /\ o.iqm
ShouldWrap(o) == o.verbatim \/ o.nativePath

(* circ_qubit_labels: not more of them than the circuit has qubits.        *)
NoLabels == << >>
PhysicalQubits(c) == IF c.qregs = << >> THEN c.physical ELSE NoLabels

FirstOf(labels, n) == SubSeq(labels, 1, IF n < Len(labels) THEN n ELSE Len(labels))

CircuitLabels(c, o) ==
  IF ~o.labelsGiven /\ PhysicalQubits(c) # NoLabels THEN NoLabels
  ELSE IF o.labels = NoLabels /\ ShouldWrap(o)
         THEN [k \in 1..c.width |-> k - 1]
         ELSE FirstOf(o.labels, c.width)

-----------------------------------------------------------------------------
(* _fold_global_phase_gates: the gates of a block go to the block's phase, *)
(* which no program shows.                                                 *)
FoldGlobalPhaseGates(c, recurse) ==
  LET folded(x) == x.op = "global_phase" /\ (recurse \/ AtTop(x))
  IN [c EXCEPT
        !.insts = Those(@, {i \in DOMAIN @ : ~folded(@[i])}),
        !.phase = @ \cup {x.id : x \in {y \in Insts(c) : folded(y) /\ AtTop(y)}}]

(* _reject_pragma_ops_in_blocks, _replace_pragma_ops: placeholders are     *)
(* counted from 0.                                                         *)
PragmaInBlock(c) == \E x \in Insts(c) : ~AtTop(x) /\ x.op \in PragmaOps

PragmasOf(basis) == IF "unitary" \in basis THEN PragmaOps ELSE {"kraus"}

PragmaAt(c, i, ops) == Cardinality({j \in 1..(i - 1) : c.insts[j].op \in ops})

WithName(x, name) ==
  [op |-> x.op, param |-> x.param, id |-> x.id, q |-> x.q, c |-> x.c,
   path |-> x.path, name |-> name]

Named(c, ops) ==
  [c EXCEPT !.insts =
     [i \in DOMAIN @ |->
        WithName(@[i], IF @[i].op \in ops THEN PragmaPlaceholder(PragmaAt(c, i, ops))
                                          ELSE Plain(@[i].op))]]

(* The check before RenameGates.  Mutant: blocks are not looked into.      *)
Checked_AtTop(x) == AtTop(x) /\ x.op \notin NotGates
Checked(x) == x.op \notin NotGates

Unsupported(c, basis, ops) ==
  {x.op : x \in {y \in Insts(c) : Checked(y) /\ y.op \notin ops}}
    \ (basis \cup NonGateTargetOps
         \cup (IF "u" \in basis THEN AdditionalUGates ELSE {}))

-----------------------------------------------------------------------------
(* ConsolidateClbits.  Mutants: the name is not looked up in what is       *)
(* taken; the bits of output registers are taken in too.                   *)
PlainNames == <<"b", "b0", "b1", "b2">>

PlainRegisterName_Fixed(taken) == "b"
PlainRegisterName(taken) ==
  PlainNames[CHOOSE i \in DOMAIN PlainNames :
               /\ PlainNames[i] \notin taken
               /\ \A j \in 1..(i - 1) : PlainNames[j] \in taken]

PlainBits_All(c, kept) == [i \in 1..c.bits |-> i - 1]
PlainBits(c, kept) ==
  Those(PlainBits_All(c, kept),
        {i \in 1..c.bits : \A r \in Range(kept) : i - 1 \notin Range(r.bits)})

ConsolidateClbits(c) ==
  LET kept == Those(c.cregs, {i \in DOMAIN c.cregs : c.cregs[i].name \in c.outputs})
      plain == PlainBits(c, kept)
      taken == c.outputs \cup {r.name : r \in Range(c.qregs)}
  IN IF c.bits = 0 THEN c
     ELSE [c EXCEPT !.cregs =
             kept \o (IF plain = << >> THEN << >>
                      ELSE <<[name |-> PlainRegisterName(taken), bits |-> plain]>>)]

(* WrapInVerbatimBox, of the circuit in the order the DAG gives it: which  *)
(* measurements are at its end is a matter of that order.  Mutant: all of  *)
(* them leave the box.                                                     *)
VerbatimBox == [kind |-> "verbatim", id |-> 0, bit |-> -1]
IsMeasure(x) == AtTop(x) /\ x.op = "measure"

LeavesBox_Measurements(c, i, include) == ~include /\ IsMeasure(c.insts[i])
LeavesBox(c, i, include) ==
  ~include /\ \A j \in i..Len(c.insts) : IsMeasure(c.insts[j])

InVerbatimBox(x) == [x EXCEPT !.path = <<VerbatimBox>> \o @]

WrapInVerbatimBox(c, include) ==
  [c EXCEPT !.insts =
     [i \in DOMAIN @ |->
        IF LeavesBox(c, i, include) THEN @[i] ELSE InVerbatimBox(@[i])]]

(* RenameGates, _braket_op: u1, u2 and u3 are U.  qiskit-ionq's gates keep *)
(* their names, with their angles in radians.                              *)
Renamed3(x) ==
  IF x.name.kind # "gate" THEN x
  ELSE IF x.op \in AdditionalUGates THEN [x EXCEPT !.name = Plain("U")]
  ELSE [x EXCEPT !.name = Shim(x.op)]

RenameGates(c) == [c EXCEPT !.insts = [i \in DOMAIN @ |-> Renamed3(@[i])]]

-----------------------------------------------------------------------------
(* External: qasm3.dumps.  U needs no definition.                          *)
Register(c, b) == CHOOSE r \in Range(c.cregs) : b \in Range(r.bits)
BitRef(c, b) ==
  [register |-> Register(c, b).name,
   at |-> (CHOOSE m \in DOMAIN Register(c, b).bits : Register(c, b).bits[m] = b) - 1]

QubitKind(c) ==
  IF c.layout THEN "$" ELSE IF c.qregs # << >> THEN "register" ELSE "_qubit"

QubitRef(kind, n) == [kind |-> kind, at |-> n]

Line(c, x) ==
  [name |-> x.name, param |-> x.param, id |-> x.id,
   q |-> [k \in DOMAIN x.q |-> QubitRef(QubitKind(c), x.q[k])],
   c |-> [k \in DOMAIN x.c |-> BitRef(c, x.c[k])],
   path |-> [k \in DOMAIN x.path |->
               [kind |-> x.path[k].kind, id |-> x.path[k].id,
                on |-> IF x.path[k].bit < 0 THEN << >>
                       ELSE <<BitRef(c, x.path[k].bit)>>]]]

Dumps(c, names) ==
  [qubits |-> IF c.layout THEN << >> ELSE c.qregs,
   bits |-> {r.name : r \in Range(c.cregs)},
   lines |-> [i \in DOMAIN c.insts |-> Line(c, c.insts[i])],
   defines |-> {x.name : x \in {y \in Insts(c) : y.op \notin NotGates}}
                 \ (names \cup {Plain("U")})]

GlobalPhaseLine(ids) ==
  [name |-> GPhasePlaceholder, param |-> "free", id |-> ids, q |-> << >>,
   c |-> << >>, path |-> << >>]

-----------------------------------------------------------------------------
(* _remap_qubits.  Mutant: one label after the other in the whole text.    *)
Label_InTurn(labels, n) ==
  IF labels[n + 1] > n /\ labels[n + 1] < Len(labels)
    THEN labels[labels[n + 1] + 1] ELSE labels[n + 1]
Label(labels, n) == labels[n + 1]

Relabelled(lines, labels) ==
  [i \in DOMAIN lines |->
     [lines[i] EXCEPT !.q = [k \in DOMAIN @ |->
                               QubitRef("$", Label(labels, @[k].at))]]]

(* The register's references are replaced in the text: a bit of a register *)
(* whose name ends with that name is hit as well.                          *)
Hit(ref, name, n) ==
  IF ref.at < n /\ EndsWith(ref.register, name)
    THEN [ref EXCEPT !.register = "garbled"] ELSE ref
HitIn(refs, name, n) == [k \in DOMAIN refs |-> Hit(refs[k], name, n)]
BlockHit(block, name, n) == [block EXCEPT !.on = HitIn(@, name, n)]

BitsHit(lines, name, n) ==
  [i \in DOMAIN lines |->
     [lines[i] EXCEPT
        !.c = HitIn(@, name, n),
        !.path = [k \in DOMAIN @ |-> BlockHit(@[k], name, n)]]]

CannotRemap(p, c, labels) ==
  \/ Len(p.qubits) > 1
  \/ /\ PhysicalQubits(c) = NoLabels /\ labels # NoLabels
     /\ IF p.qubits # << >> THEN Len(labels) # p.qubits[1].size
        ELSE \E x \in Range(p.lines) : \E r \in Range(x.q) :
               r.kind = "$" /\ r.at >= Len(labels)

RemapQubits(p, c, labels) ==
  IF PhysicalQubits(c) # NoLabels
    THEN [p EXCEPT !.lines = Relabelled(@, PhysicalQubits(c))]
  ELSE IF labels = NoLabels \/ QubitKind(c) = "_qubit" THEN p
  ELSE IF p.qubits # << >>
    THEN [p EXCEPT
            !.qubits = << >>,
            !.lines = BitsHit(Relabelled(@, labels), p.qubits[1].name,
                              p.qubits[1].size)]
    ELSE [p EXCEPT !.lines = Relabelled(@, labels)]

(* _normalize_formatting.  Mutants: the qubits of a pragma stay as they    *)
(* are; the placeholders of control modifiers do.                          *)
PragmaQubits_AsTheyAre(q) == q
PragmaQubits(q) == Reverse(q)

FinalName(name) ==
  CASE name.kind = "ctrl_placeholder" -> Controlled(name.n, name.name)
    [] name.kind = "gphase_placeholder" -> Plain("gphase")
    [] name.kind = "pragma_placeholder" -> [name EXCEPT !.kind = "pragma"]
    [] OTHER -> name

NormalLine(x) ==
  [x EXCEPT !.name = FinalName(x.name),
            !.q = IF x.name.kind = "pragma_placeholder" THEN PragmaQubits(@) ELSE @]

NormalizeFormatting(p) ==
  [p EXCEPT !.lines = [i \in DOMAIN @ |-> NormalLine(@[i])]]

-----------------------------------------------------------------------------
(* What a circuit is: its instructions are on its qubits and bits, only a  *)
(* global phase is on no qubit, a controlled gate is on as many as it has, *)
(* and blocks are paths, no instructions.  They are numbered from 1.       *)
IsInstruction(x, c) ==
  /\ DOMAIN x = {"op", "param", "id", "q", "c", "path"}
  /\ x.q \in Seq(0..(c.width - 1)) /\ x.c \in Seq(0..(c.bits - 1))
  /\ x.op = "global_phase" <=> x.q = << >>
  /\ x.op \in ControlShims => Len(x.q) = ControlledQubits(x.op)
  /\ x.op \notin {"box", "if_else"}
  /\ x.path \in Seq([kind : {"if", "box"}, id : Nat \ {0}, bit : -1..(c.bits - 1)])

(* One register has all of the qubits, and qubits without a register are   *)
(* physical ones: the provider makes no circuit with loose qubits that are *)
(* none of the device's.  Registers have names of their own, and one of    *)
(* the names of the register of loose bits is free.  No two instructions   *)
(* have one id, and what a block has comes together.                       *)
IsCircuit(c) ==
  /\ c \in [width : Nat, qregs : Seq(Range(c.qregs)), physical : Seq(Int),
            layout : BOOLEAN, bits : Nat, cregs : Seq(Range(c.cregs)),
            outputs : SUBSET STRING, phase : SUBSET Nat, insts : Seq(Insts(c))]
  /\ \A r \in Range(c.cregs) : r.bits \in Seq(Nat)
  /\ \A x \in Insts(c) : IsInstruction(x, c)
  /\ \A i, j \in DOMAIN c.insts : c.insts[i].id = c.insts[j].id => i = j
  /\ BlocksInOnePiece(c.insts)
  /\ Len(c.qregs) = 1 => c.qregs[1].size = c.width
  /\ c.qregs = << >> => c.physical # << >> /\ Len(c.physical) = c.width
  /\ \A i, j \in DOMAIN c.cregs : c.cregs[i].name = c.cregs[j].name => i = j
  /\ \E n \in Range(PlainNames) :
       n \notin c.outputs \cup {r.name : r \in Range(c.qregs)}
  /\ \A n \in Range(PlainNames) : \A r \in Range(c.qregs) :
       EndsWith(n, r.name) => n = r.name

-----------------------------------------------------------------------------
(* to_oq3, with its refusals, and _compile_to_oq3 around it, of a circuit  *)
(* in an order of its DAG.                                                 *)
Prepared(c, o) ==
  LET kept == IF o.keepsBarriers THEN c ELSE WithoutBarriers(c)
  IN FoldGlobalPhaseGates(kept, "global_phase" \notin o.basis)

Consolidated(c, o) ==
  ConsolidateClbits(Named(Prepared(c, o), PragmasOf(o.basis)))

Emittable(c, o) ==
  LET prepared == Prepared(c, o)
  IN /\ AnglesAllowed(c, o.restrictions)
     /\ ~RefusedByIQM(c, o)
     /\ ~PragmaInBlock(prepared)
     /\ Unsupported(prepared, o.basis, PragmasOf(o.basis)) = {}
     /\ ~CannotRemap(Dumps(Consolidated(c, o), {}), c, CircuitLabels(c, o))

Passed(c, o) ==
  RenameGates(IF ShouldWrap(o) THEN WrapInVerbatimBox(Consolidated(c, o), o.iqm)
              ELSE Consolidated(c, o))

KnownNames(c, o) ==
  {OQ3Name(g) : g \in o.basis \ NonGateTargetOps}
    \cup {PragmaPlaceholder(i) : i \in 0..Len(c.insts)}

Dumped(c, o) ==
  LET passed == Passed(c, o)
      dumped == Dumps(passed, KnownNames(c, o))
  IN IF "global_phase" \in o.basis /\ passed.phase # {}
       THEN [dumped EXCEPT !.lines = <<GlobalPhaseLine(passed.phase)>> \o @]
       ELSE dumped

Emitted(c, o) ==
  NormalizeFormatting(RemapQubits(Dumped(c, o), c, CircuitLabels(c, o)))
=============================================================================
