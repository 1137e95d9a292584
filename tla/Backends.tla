------------------------------ MODULE Backends ------------------------------
(***************************************************************************)
(* A backend from its device to the tasks it submits                       *)
(* (providers/braket_provider.py, braket_backend.py): the provider finds   *)
(* the device, its target is built (Targets), run() decides from its       *)
(* arguments what the circuits are compiled for, each one is compiled and  *)
(* written as a program (ToOQ3), and the programs are submitted            *)
(* (BackendRun).                                                           *)
(*                                                                         *)
(* External: the transpiler.  For a target it gives any one gate of the    *)
(* target on the qubits it is there for, and a measurement; for basis      *)
(* gates, any gate of these.  The circuits that are not transpiled are     *)
(* given, and as rich as the instance makes them.                          *)
(***************************************************************************)
EXTENDS Targets, ToOQ3, BackendRun

CONSTANT Scenarios  \* devices, calls and inputs that come together

VARIABLES call,      \* what is asked: the other devices found, the mode of
                     \* run(), and the circuit of the modes without transpiler
          place,     \* "provider", then "backend"
          compiled,  \* the circuits compiled so far
          programs   \* their programs

vars == <<targetVars, runVars, call, place, compiled, programs>>

Modes == {"verbatim", "native", "pass_manager", "plain", "local",
          "local_verbatim"}

ASSUME ScenariosAssumption ==
  \A s \in Scenarios : s.call.mode \in Modes /\ IsCircuit(s.call.circuit)

ASSUME EndsWithAssumption == \A n \in Range(PlainNames) : ~EndsWith(n, "q")

Init ==
  /\ \E s \in Scenarios :
       device = s.device /\ call = s.call /\ input = s.input
  /\ TargetInit /\ RunInit
  /\ place = "provider"
  /\ compiled = << >> /\ programs = << >>

-----------------------------------------------------------------------------
(* BraketProvider.backends leaves the analog devices out, get_backend wants*)
(* exactly one.                                                            *)
IsGateModel(type) == type # "analog"

GetBackend ==
  /\ place = "provider"
  /\ place' = "backend"
  /\ IF IsGateModel(device.type) /\ \A t \in call.others : ~IsGateModel(t)
       THEN UNCHANGED pc ELSE pc' = "raised"
  /\ UNCHANGED <<targetVars, call, compiled, programs,
                 input, next, tasks, asked, job, retrieved>>

(* BraketAwsBackend, BraketLocalBackend and emulator() build the target; a *)
(* device that cannot be described raises.                                 *)
Configure ==
  /\ place = "backend" /\ pc = "start" /\ stage # "built"
  /\ BuildTarget
  /\ IF stage' = "refused" THEN pc' = "raised" ELSE UNCHANGED pc
  /\ UNCHANGED <<call, place, compiled, programs,
                 input, next, tasks, asked, job, retrieved>>

(* qubit_labels: the sorted nodes of the topology, which simulators have   *)
(* not.  Mutant: they are not sorted.                                      *)
QubitLabels_Down ==
  IF device.type = "simulator" THEN NoLabels
  ELSE [k \in 1..Cardinality(device.nodes) |->
          LabelOfIndex(device, Cardinality(device.nodes) - k)]
QubitLabels ==
  IF device.type = "simulator" THEN NoLabels
  ELSE [k \in 1..Cardinality(device.nodes) |-> LabelOfIndex(device, k - 1)]

-----------------------------------------------------------------------------
(* What run() compiles for: _resolve_compilation_args and its caller, with *)
(* the options that _compile_to_oq3 derives.                               *)
TargetIsQpu == \E n \in DOMAIN entries : entries[n] # Anywhere

ForTarget ==
  [basis |-> (DOMAIN entries \ NonGateTargetOps) \cup SubstitutedGateNames,
   keepsBarriers |-> "barrier" \in DOMAIN entries,
   nativePath |-> TargetIsQpu, iqm |-> device.provider = "iqm",
   verbatim |-> FALSE, labels |-> QubitLabels,
   labelsGiven |-> QubitLabels # NoLabels, restrictions |-> << >>]

ForPassManager ==
  [ForTarget EXCEPT !.basis = DefaultBasis, !.keepsBarriers = FALSE,
                    !.nativePath = TRUE, !.iqm = FALSE]

ForService ==
  [ForTarget EXCEPT !.basis = GatesetFromProperties(device),
                    !.keepsBarriers = FALSE, !.nativePath = FALSE,
                    !.iqm = FALSE, !.labels = NoLabels, !.labelsGiven = FALSE]

ResolvedArgs ==
  IF call.mode \in {"verbatim", "local_verbatim"}
    THEN [ForTarget EXCEPT !.verbatim = TRUE]
  ELSE IF call.mode = "pass_manager" THEN ForPassManager
  ELSE IF call.mode = "native"
    THEN [ForTarget EXCEPT !.restrictions = NativeAngleRestrictions(device)]
  ELSE IF call.mode = "local" \/ device.type = "simulator" THEN ForTarget
  ELSE ForService

IsTranspiled == call.mode \notin {"verbatim", "local_verbatim", "pass_manager"}
ForBasisGates == call.mode = "plain" /\ device.type = "qpu"

(* _basis_gates_target: a basis gate that neither Qiskit nor Braket has.   *)
UnknownBasisGate ==
  \E g \in GatesetFromProperties(device) \ StandardGates :
    BraketName(g) \notin QiskitGates

-----------------------------------------------------------------------------
(* External: what the transpiler may give.                                 *)
Inst(op, param, id, q, c) ==
  [op |-> op, param |-> param, id |-> id, q |-> q, c |-> c, path |-> << >>]

Width == IF device.type = "simulator" THEN 4 ELSE Cardinality(device.nodes)

OneGate(op, param, q, layout) ==
  [width |-> Width, qregs |-> <<[name |-> "q", size |-> Width]>>,
   physical |-> NoLabels, layout |-> layout, bits |-> 1,
   cregs |-> <<[name |-> "meas", bits |-> <<0>>]>>, outputs |-> {},
   phase |-> {},
   insts |-> <<Inst(op, param, 1, q, << >>), Inst("measure", "none", 2, <<0>>, <<0>>)>>]

ParamsAt(n, i) ==
  IF device.calibrations = {} \/ n \in DOMAIN substitutes THEN {"free"}
  ELSE {c.param : c \in {d \in device.calibrations :
                           /\ d.gate \in OneQubitGates \cup TwoQubitGates
                           /\ GateName(d.gate) = n /\ d.at = LabelsAt(i)}}

Wires(n) ==
  IF n = "global_phase" THEN << >>
  ELSE IF n \in Classes THEN <<0>>
  ELSE IF n \in DOMAIN ControlledGates
    THEN FirstOf(<<0, 1, 2, 3>>, ControlledQubits(n))
  ELSE IF n \in AdditionalUGates THEN <<0>>
  ELSE FirstOf(<<0, 1, 2>>, NumQubits(BraketName(n)))

NotTranspiled == NonGateTargetOps \cup {"CCPRx", "MeasureFF"}

Fits(q) == {0} \cup Range(q) \subseteq 0..(Width - 1)

GatesAt(n, i) ==
  {OneGate(n, p, IF i = << >> THEN Wires(n) ELSE i, TargetIsQpu) :
     p \in IF i = << >> THEN {"free"} ELSE ParamsAt(n, i)}

Transpiled ==
  IF ForBasisGates
    THEN {OneGate(g, "free", Wires(g), FALSE) :
            g \in {h \in GatesetFromProperties(device) : Fits(Wires(h))}}
    ELSE UNION {UNION {GatesAt(n, i) : i \in DOMAIN entries[n]} :
                  n \in DOMAIN entries \ NotTranspiled}

(* A target of a device has its substitutions made after transpilation.    *)
Substituted(c) == [c EXCEPT !.insts = [i \in DOMAIN @ |-> Substitute(@[i])]]

Compiled ==
  IF IsTranspiled
    THEN {IF ForBasisGates THEN c ELSE Substituted(c) : c \in Transpiled}
    ELSE {IF call.mode = "pass_manager" THEN call.circuit
          ELSE Substituted(call.circuit)}

(* _with_state_vector_result: without shots nothing is measured.           *)
StateVector ==
  input.backend = "local" /\ input.shots = "zero" /\ device.type = "simulator"
HasMeasure(c) == \E x \in Insts(c) : x.op = "measure"

CompileNext ==
  /\ place = "backend" /\ stage = "built" /\ pc = "start"
  /\ Len(programs) < input.programs
  /\ \E c \in Compiled : \E order \in DagOrders(c, ResolvedArgs) :
       LET d == InOrder(c, order)
       IN IF (ForBasisGates /\ UnknownBasisGate) \/ ~Emittable(d, ResolvedArgs)
               \/ (StateVector /\ HasMeasure(c))
            THEN pc' = "raised" /\ UNCHANGED <<compiled, programs>>
            ELSE /\ compiled' = Append(compiled, c)
                 /\ programs' = Append(programs, Emitted(d, ResolvedArgs))
                 /\ UNCHANGED pc
  /\ UNCHANGED <<targetVars, call, place, input, next, tasks, asked, job, retrieved>>

Submission ==
  /\ place = "backend" /\ stage = "built" /\ Len(programs) = input.programs
  /\ RunNext
  /\ UNCHANGED <<targetVars, call, place, compiled, programs>>

Next == GetBackend \/ Configure \/ CompileNext \/ Submission

Spec == Init /\ [][Next]_vars

-----------------------------------------------------------------------------
TypeOK ==
  /\ RunTypeOK
  /\ place \in {"provider", "backend"} /\ call.mode \in Modes
  /\ stage \in {"read", "calibrated", "native", "finish", "built", "refused"}
  /\ \A n \in DOMAIN substitutes : n \in DOMAIN entries
  /\ \A n \in DOMAIN entries : \A i \in DOMAIN entries[n] :
       entries[n][i] \in Nat \cup {NoError}
  /\ Len(compiled) = Len(programs) /\ Len(programs) <= input.programs

(* What a program has to show of a circuit: no barriers the target has not,*)
(* and no global phases but those left in blocks.                          *)
Kept(c) ==
  Those(c.insts, {i \in DOMAIN c.insts :
    /\ c.insts[i].op = "barrier" => ResolvedArgs.keepsBarriers
    /\ c.insts[i].op = "global_phase" =>
         c.insts[i].path # << >> /\ "global_phase" \in ResolvedArgs.basis})
Lines(p) ==
  Those(p.lines, {i \in DOMAIN p.lines :
                    p.lines[i].q # << >> \/ p.lines[i].path # << >>})

(* The circuit's instructions in the order of the lines they became.       *)
Written(c, p) ==
  [k \in DOMAIN Lines(p) |->
     CHOOSE x \in Range(Kept(c)) : x.id = Lines(p)[k].id]

(* The qubit of the device that the circuit's q-th qubit has to be.        *)
QubitOf(c, q) ==
  IF PhysicalQubits(c) # NoLabels THEN QubitRef("$", c.physical[q + 1])
  ELSE IF ResolvedArgs.labelsGiven THEN QubitRef("$", QubitLabels[q + 1])
  ELSE IF ShouldWrap(ResolvedArgs) THEN QubitRef("$", q)
  ELSE QubitRef("register", q)

Wrapped(x) == x.path # << >> /\ x.path[1].kind = "verbatim" /\ x.path[1].id = 0
Unwrapped(x) == IF Wrapped(x) THEN Tail(x.path) ELSE x.path
BlocksOf(path) == [k \in DOMAIN path |-> <<path[k].kind, path[k].id>>]

(* A line is of an instruction: in its blocks and on the qubits it was laid*)
(* on; a matrix, which Braket reads the other way round, has them reversed.*)
Shows(l, x, c) ==
  LET qubits == [j \in DOMAIN x.q |-> QubitOf(c, x.q[j])]
  IN /\ l.id = x.id
     /\ l.q = IF x.op \in PragmaOps THEN Reverse(qubits) ELSE qubits
     /\ BlocksOf(Unwrapped(l)) = BlocksOf(x.path)

(* A program has the circuit's instructions, each once, in its blocks and  *)
(* on the qubits of the device the circuit was laid on, and two of them    *)
(* with a qubit or a bit in common in their order.                         *)
ProgramKeepsTheCircuit ==
  \A p \in DOMAIN programs :
    LET c == compiled[p]
        lines == Lines(programs[p])
        insts == Kept(c)
    IN \E at \in Bijection(DOMAIN lines, DOMAIN insts) :
         /\ \A k \in DOMAIN lines : Shows(lines[k], insts[at[k]], c)
         /\ \A k, l \in DOMAIN lines :
              k < l /\ Tied(insts[at[k]], insts[at[l]]) => at[k] < at[l]

(* What a name in a program is to Braket, as the gate Qiskit has for it.   *)
Means(name, op) ==
  IF name.kind = "ctrl"
    THEN /\ op \in DOMAIN ControlledGates
         /\ ControlledGates[op] = <<name.n, BraketToQiskitNames[name.name]>>
  ELSE IF name.kind = "pragma" THEN op \in PragmaOps
  ELSE IF name = Plain("U") THEN op \in AdditionalUGates \cup {"u"}
  ELSE IF name.name \in DOMAIN BraketToQiskitNames
    THEN BraketToQiskitNames[name.name] = op
  ELSE name = Plain(op) /\ op \in NotGates

(* The name is that of what to_braket would make of the gate.              *)
AsToBraket(name, x) ==
  LET b == BraketOperation(x.op, Len(x.q))
  IN name = IF b.controls > 0 THEN Controlled(b.controls, b.gate)
            ELSE IF b.gate = "u" THEN Plain("U") ELSE Plain(b.gate)

(* Every name in a program is one Braket knows, for the very gate of the   *)
(* circuit: no placeholder is left, no gate has to be defined, and the     *)
(* tables of names, shims and controls agree with each other and with the  *)
(* table by which to_braket makes a gate, under as many controls.          *)
EachNameMeansItsGate ==
  \A p \in DOMAIN programs :
    /\ programs[p].defines = {}
    /\ \A k \in DOMAIN Lines(programs[p]) :
         LET name == Lines(programs[p])[k].name
             x == Written(compiled[p], programs[p])[k]
         IN Means(name, x.op) /\ (x.op \in NotGates \cup PragmaOps \/ AsToBraket(name, x))

(* Two bits of a circuit are two bits of its program, in measurements and  *)
(* in conditions, and a register the source declared as output keeps its   *)
(* name and its order.  Left out: an output register whose name ends with  *)
(* the name of the quantum register, which _remap_qubits writes over.      *)
RefsOf(x) == x.c \o FlattenSeq([k \in DOMAIN x.path |-> x.path[k].on])
BitsOf(x) ==
  x.c \o FlattenSeq([k \in DOMAIN x.path |->
                       IF x.path[k].bit < 0 THEN << >> ELSE <<x.path[k].bit>>])

Named2(c, b) ==
  UNION {{[register |-> r.name, at |-> m - 1] :
             m \in {k \in DOMAIN r.bits : r.bits[k] = b}} :
           r \in {s \in Range(c.cregs) : s.name \in c.outputs}}

BitsStayApart ==
  \A p \in DOMAIN programs :
    LET c == compiled[p]
        insts == Written(c, programs[p])
        bits == FlattenSeq([k \in DOMAIN insts |-> BitsOf(insts[k])])
        refs == FlattenSeq([k \in DOMAIN Lines(programs[p]) |->
                              RefsOf(Lines(programs[p])[k])])
    IN ~(\E o \in c.outputs : \E r \in Range(c.qregs) : EndsWith(o, r.name)) =>
         /\ Len(bits) = Len(refs)
         /\ \A i, j \in DOMAIN bits : bits[i] = bits[j] <=> refs[i] = refs[j]
         /\ \A i \in DOMAIN bits :
              IF Named2(c, bits[i]) # {} THEN refs[i] \in Named2(c, bits[i])
              ELSE refs[i].register \notin
                     c.outputs \cup {r.name : r \in Range(c.qregs)}

(* What is wrapped is wrapped as a whole: one verbatim box with all gates  *)
(* on physical qubits, and outside it nothing but the measurements the     *)
(* program ends with, which IQM's devices have inside.  What is outside is *)
(* followed in the circuit, on its qubit and its bit, by measurements only.*)
(* A program the service compiles has no box.                              *)
BoxHoldsTheProgram ==
  \A p \in DOMAIN programs :
    LET lines == Lines(programs[p])
        written == Written(compiled[p], programs[p])
        insts == Kept(compiled[p])
        isEnd(k) == \A j \in k..Len(written) : IsMeasure(written[j])
    IN \A k \in DOMAIN lines :
         IF ~ShouldWrap(ResolvedArgs) THEN ~Wrapped(lines[k])
         ELSE /\ Wrapped(lines[k]) <=> ~isEnd(k) \/ ResolvedArgs.iqm
              /\ \A r \in Range(lines[k].q) : r.kind = "$"
              /\ ~Wrapped(lines[k]) =>
                   \A i, j \in DOMAIN insts :
                     /\ insts[i].id = lines[k].id /\ i < j
                     /\ Tied(insts[i], insts[j])
                     => IsMeasure(insts[j])

(* A gate the transpiler chose is one the device has: one of its native    *)
(* gates on connected qubits, or a calibrated one with its angle on those  *)
(* qubits, by the device's own labels; and in a program the service or a   *)
(* simulator compiles, one of the operations, under as many controls as    *)
(* the device allows.                                                      *)
BraketGate(name) == IF name = Plain("U") THEN "u" ELSE name.name

IsNative(x, labels) ==
  IF device.calibrations = {}
    THEN /\ BraketGate(x.name) \in device.native
         /\ Range(labels) \subseteq device.nodes
         /\ Len(labels) = 2 => Connected(device, labels)
    ELSE \E c \in device.calibrations :
           c.gate = BraketGate(x.name) /\ c.at = labels /\ c.param = x.param

IsSupported(name) ==
  /\ name.n <= device.controls \/ name.kind # "ctrl"
  /\ BraketGate(name) \in device.operations

RunsOnlyWhatTheDeviceHas ==
  IsTranspiled =>
    \A p \in DOMAIN programs : \A x \in Range(programs[p].lines) :
      x.name \notin {Plain("measure"), Plain("barrier")} =>
        IF device.type = "qpu" /\ ~ForBasisGates
          THEN IsNative(x, [k \in DOMAIN x.q |-> x.q[k].at])
          ELSE \/ x.name.kind = "pragma" /\ Kept(compiled[p])[1].op \in device.operations
               \/ IsSupported(x.name)
=============================================================================
