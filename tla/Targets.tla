------------------------------ MODULE Targets ------------------------------
(***************************************************************************)
(* How a device's properties become the transpiler's target                *)
(* (providers/target.py): labels with gaps become indices, error rates are *)
(* read per qubit and per pair, the gates are added, one calibrated angle  *)
(* after the other where the device has calibrations, and a calibrated     *)
(* angle is offered to the transpiler as the gate it stands for, to be     *)
(* replaced again on that qubit after transpilation.                       *)
(*                                                                         *)
(* External: the device's record, and Qiskit's Target, which refuses an    *)
(* instruction it already has.  Error rates are small numbers.  u1, u2 and *)
(* u3 are Qiskit's: Braket has U alone, and no device lists them.          *)
(***************************************************************************)
EXTENDS GateTables, Integers, FiniteSets, SequencesExt, FiniteSetsExt

CONSTANT Devices  \* the device records a target may be asked of

ASSUME DevicesAssumption ==
  \A d \in Devices :
    /\ IsFiniteSet(d.nodes) /\ d.nodes \subseteq Int
    /\ d.edges \subseteq d.nodes \X d.nodes
    /\ \A c \in d.calibrations : c.at \in Seq(Int)
    /\ AdditionalUGates \cap (d.native \cup {c.gate : c \in d.calibrations}) = {}
    /\ DOMAIN d.twos \subseteq Int \X Int
    /\ \A q \in DOMAIN d.ones :
         IsFiniteSet(d.ones[q]) /\ \A f \in d.ones[q] : f.error \in Nat
    /\ \A e \in DOMAIN d.twos :
         IsFiniteSet(d.twos[e]) /\ \A f \in d.twos[e] : f.error \in Nat

VARIABLES device,      \* the device given
          stage,       \* what is done next
          known,       \* the errors read: readout, one and two qubits
          left,        \* the calibrated angles that are not in the target yet
          adding,      \* the gate whose calibrated angles are being added
          entries,     \* the target: gate -> indices -> error
          substitutes  \* _gate_substitutes: gate -> indices -> calibrated gate

targetVars == <<device, stage, known, left, adding, entries, substitutes>>

(* InstructionProperties are their error; an entry may have none, and a    *)
(* gate may be on all qubits, {None: None}.                                *)
NoError == -1
Anywhere == [i \in {<< >>} |-> NoError]

-----------------------------------------------------------------------------
(* indices: the place of a label among the sorted labels.                  *)
Index(dev, q) == Cardinality({p \in dev.nodes : p < q})
Indices(dev, labels) == [k \in DOMAIN labels |-> Index(dev, labels[k])]
LabelOfIndex(dev, i) == CHOOSE q \in dev.nodes : Index(dev, q) = i

(* The highest known error.                                                *)
Highest(errors) == Max(errors \cup {0})

(* The loop over oneQubitProperties.  Fidelities are "readout", some kind  *)
(* of readout error, or a gate's.                                          *)
Errors(fidelities, kind) == {f.error : f \in {g \in fidelities : g.kind = kind}}

Read1q(dev, kind) ==
  LET qubits == {q \in dev.nodes \cap DOMAIN dev.ones :
                   Errors(dev.ones[q], kind) # {}}
      at(i) == Errors(dev.ones[LabelOfIndex(dev, i[1])], kind)
  IN [i \in {<<Index(dev, q)>> : q \in qubits} |-> Highest(at(i))]

(* _build_instruction_props_2q: only pairs of the topology, in either      *)
(* order; then every pair's error is also that of the pair reversed.       *)
(* Mutant: it is not.                                                      *)
Connected(dev, e) == e \in dev.edges \/ Reverse(e) \in dev.edges

Stated(dev, gate) ==
  {e \in DOMAIN dev.twos :
     /\ Range(e) \subseteq dev.nodes /\ Connected(dev, e)
     /\ \E f \in dev.twos[e] : gate \in QiskitNames({f.kind})}

ErrorsOf(dev, gate, e) ==
  {f.error : f \in {g \in dev.twos[e] : gate \in QiskitNames({g.kind})}}

BothWays_AsStated(props) == props
BothWays(props) ==
  Over([e \in {Reverse(d) : d \in DOMAIN props} |-> props[Reverse(e)]], props)

Read2q(dev) ==
  [gate \in {g \in Range(BraketToQiskitNames) : Stated(dev, g) # {}} |->
     LET pairs == Stated(dev, gate)
         labels(i) == <<LabelOfIndex(dev, i[1]), LabelOfIndex(dev, i[2])>>
     IN BothWays([i \in {Indices(dev, e) : e \in pairs} |->
                    Highest(ErrorsOf(dev, gate, labels(i)))])]

Default1q(dev) == [i \in {<<Index(dev, q)>> : q \in dev.nodes} |-> NoError]
Default2q(dev) == [i \in {Indices(dev, e) : e \in dev.edges} |-> NoError]
OrElse(props, default) == IF props = << >> THEN default ELSE props

Properties(b) ==
  IF NumQubits(b) = 1 THEN known.one
  ELSE IF GateName(b) \in DOMAIN known.two THEN known.two[GateName(b)]
  ELSE Default2q(device)

-----------------------------------------------------------------------------
NothingKnown == [readout |-> << >>, one |-> << >>, two |-> << >>]

TargetInit ==
  /\ device \in Devices
  /\ stage = "read"
  /\ known = NothingKnown
  /\ left = {} /\ adding = "none"
  /\ entries = << >> /\ substitutes = << >>

(* _get_parameter_restrictions: a label the topology has not is a KeyError.*)
Restrictions(dev) ==
  {[gate |-> c.gate, param |-> c.param,
    at |-> {Indices(dev, d.at) :
              d \in {e \in dev.calibrations : e.gate = c.gate /\ e.param = c.param}}] :
     c \in dev.calibrations}

ReadDevice ==
  /\ stage = "read" /\ device.type = "qpu"
  /\ known' =
       [readout |-> OrElse(Read1q(device, "readout"), Default1q(device)),
        one |-> OrElse(Read1q(device, "gate"), Default1q(device)),
        two |-> Read2q(device)]
  /\ IF \A c \in device.calibrations : Range(c.at) \subseteq device.nodes
       THEN /\ left' = Restrictions(device)
            /\ stage' = IF left' = {} THEN "native" ELSE "calibrated"
       ELSE stage' = "refused" /\ UNCHANGED left
  /\ UNCHANGED <<device, adding, entries, substitutes>>

(* Target.add_instruction.                                                 *)
CanAdd(name) == name \notin DOMAIN entries

(* _add_instructions_parameter_restrictions, an angle a step: the angles   *)
(* of one gate follow each other.  A gate Braket has and Qiskit not, or of *)
(* more qubits, is passed over.                                            *)
Turn(r) ==
  /\ stage = "calibrated" /\ r \in left
  /\ (\E s \in left : s.gate = adding) => r.gate = adding
  /\ left' = left \ {r} /\ adding' = r.gate
  /\ UNCHANGED <<device, known>>

PropertiesAt(r) ==
  LET props == Properties(r.gate) IN Restrict(props, DOMAIN props \cap r.at)

SkipCalibrated(r) ==
  /\ Turn(r)
  /\ r.gate \notin OneQubitGates \cup TwoQubitGates
  /\ UNCHANGED <<stage, entries, substitutes>>

AddsAs(r) ==
  IF <<r.gate, r.param>> \in DOMAIN Substitutes
    THEN Substitutes[<<r.gate, r.param>>] ELSE GateName(r.gate)

Calibrated(r) == [gate |-> r.gate, param |-> r.param]
Everywhere(places, r) == [i \in places |-> Calibrated(r)]

(* A gate, or the first angle a substitute stands for; target.get() gives  *)
(* nothing for a substitute that is on no qubit either.                    *)
AddFirst(r) ==
  LET name == AddsAs(r)
  IN /\ Turn(r)
     /\ r.gate \in OneQubitGates \cup TwoQubitGates
     /\ name \in DOMAIN entries => name = GateName(r.gate) \/ entries[name] = << >>
     /\ IF CanAdd(name)
          THEN /\ entries' = Over(entries, [n \in {name} |-> PropertiesAt(r)])
               /\ substitutes' =
                    IF name = GateName(r.gate) THEN substitutes
                    ELSE Over(substitutes,
                              [n \in {name} |-> Everywhere(DOMAIN PropertiesAt(r), r)])
               /\ UNCHANGED stage
          ELSE stage' = "refused" /\ UNCHANGED <<entries, substitutes>>

(* Another angle for a substitute the target has: where it has none, or a  *)
(* worse one.  A calibrated gate of that name has no table to write to.    *)
(* Mutant: the substitute is added, and what it stands for is not.         *)
Better(name, props) ==
  {i \in DOMAIN props :
     i \notin DOMAIN entries[name] \/ entries[name][i] = NoError
       \/ entries[name][i] > props[i]}

StandsFor_First(name, places, r) == substitutes[name]
StandsFor(name, places, r) == Over(Everywhere(places, r), substitutes[name])

AddAnother(r) ==
  LET name == AddsAs(r)
      props == PropertiesAt(r)
      places == Better(name, props)
  IN /\ Turn(r)
     /\ name # GateName(r.gate)
     /\ name \in DOMAIN entries /\ entries[name] # << >>
     /\ IF places = {} THEN UNCHANGED <<stage, entries, substitutes>>
        ELSE IF name \in DOMAIN substitutes
          THEN /\ entries' = [entries EXCEPT ![name] = Over(Restrict(props, places), @)]
               /\ substitutes' =
                    [substitutes EXCEPT ![name] = StandsFor(name, places, r)]
               /\ UNCHANGED stage
          ELSE stage' = "refused" /\ UNCHANGED <<entries, substitutes>>

EndCalibrated ==
  /\ stage = "calibrated" /\ left = {}
  /\ stage' = "finish"
  /\ UNCHANGED <<device, known, left, adding, entries, substitutes>>

(* _add_instructions_no_parameter_restrictions.                            *)
AddNative ==
  /\ stage = "native"
  /\ LET gates == device.native \cap (OneQubitGates \cup TwoQubitGates)
     IN entries' = [n \in {GateName(b) : b \in gates} |->
                      Properties(CHOOSE b \in gates : GateName(b) = n)]
  /\ stage' = "finish"
  /\ UNCHANGED <<device, known, left, adding, substitutes>>

(* The end of _qpu_target.                                                 *)
IfElse(dev) == IF "if" \in dev.operations THEN {"if_else"} ELSE {}

FinishTarget ==
  /\ stage = "finish"
  /\ entries' =
       Over(entries,
            [n \in {"measure"} \cup IfElse(device)
                     \cup (IF "barrier" \in device.native THEN {"barrier"} ELSE {}) |->
               IF n = "measure" THEN known.readout ELSE Anywhere])
  /\ stage' = "built"
  /\ UNCHANGED <<device, known, left, adding, substitutes>>

(* _simulator_target: every gate on all qubits.  JAQCD has no modifiers.   *)
SimulatorGates(dev) ==
  {BraketToQiskitNames[o] :
     o \in dev.operations \cap QiskitGates \cap DOMAIN BraketToQiskitNames}

SimulatorTarget ==
  /\ stage = "read" /\ device.type = "simulator"
  /\ LET gates == SimulatorGates(device)
         controlled == IF device.openqasm
                         THEN ControlledGateset(gates, device.controls)
                                \cap StandardGates ELSE {}
         if == IF device.openqasm THEN IfElse(device) ELSE {}
     IN entries' = [n \in gates \cup controlled \cup if \cup {"measure", "barrier"} |->
                      Anywhere]
  /\ stage' = "built"
  /\ UNCHANGED <<device, known, left, adding, substitutes>>

(* aws_device_to_target of anything else.                                  *)
RefuseDevice ==
  /\ stage = "read" /\ device.type \notin {"qpu", "simulator"}
  /\ stage' = "refused"
  /\ UNCHANGED <<device, known, left, adding, entries, substitutes>>

BuildTarget ==
  \/ ReadDevice \/ AddNative \/ EndCalibrated \/ FinishTarget
  \/ \E r \in left : SkipCalibrated(r) \/ AddFirst(r) \/ AddAnother(r)
  \/ SimulatorTarget \/ RefuseDevice

TargetSpec == TargetInit /\ [][BuildTarget]_targetVars

-----------------------------------------------------------------------------
(* native_gate_set, gateset_from_properties.  Mutant: the names of Braket. *)
NativeGateSet(dev) == QiskitNames(dev.native)

GatesetFromProperties(dev) ==
  LET named == QiskitNames(dev.operations)
      gates == named \cup (IF "u" \in named THEN AdditionalUGates ELSE {})
  IN gates \cup ControlledGateset(gates, dev.controls)

(* native_angle_restrictions, by the class of the device's properties: a   *)
(* set of angles, or a range whose ends are two of the angles.             *)
NativeAngleRestrictions(dev) ==
  CASE dev.provider = "rigetti" -> "rx" :> {"pi", "-pi", "pi/2", "-pi/2"}
    [] dev.provider = "ionq" -> "ms" :> {"0", "in range"}
    [] OTHER -> << >>

(* _SubstituteGates: at the top level of a circuit only.  Mutant: by the   *)
(* gate's name alone.                                                      *)
Substitute_Anywhere(x) ==
  IF x.path = << >> /\ x.op \in DOMAIN substitutes /\ substitutes[x.op] # << >>
    THEN LET by == CHOOSE c \in Range(substitutes[x.op]) : TRUE
         IN [x EXCEPT !.op = GateName(by.gate), !.param = by.param]
    ELSE x
Substitute(x) ==
  IF x.path = << >> /\ x.op \in DOMAIN substitutes /\ x.q \in DOMAIN substitutes[x.op]
    THEN LET by == substitutes[x.op][x.q]
         IN [x EXCEPT !.op = GateName(by.gate), !.param = by.param]
    ELSE x

SubstitutedGateNames ==
  UNION {{GateName(by.gate) : by \in Range(substitutes[n])} : n \in DOMAIN substitutes}

-----------------------------------------------------------------------------
LabelsAt(i) == [k \in DOMAIN i |-> LabelOfIndex(device, i[k])]

(* What the device says, at its own labels, of a gate of the target.       *)
Highest1q(q, kind) ==
  {e \in Errors(device.ones[q], kind) : \A f \in Errors(device.ones[q], kind) : e >= f}
Highest2q(gate, e) ==
  {x \in ErrorsOf(device, gate, e) : \A y \in ErrorsOf(device, gate, e) : x >= y}

(* The gates that are added one by one: the calibrated ones, if any.       *)
GateNames ==
  {GateName(b) : b \in IF device.calibrations = {} THEN device.native
                       ELSE {c.gate : c \in device.calibrations}}

Kind(n) == IF n = "measure" /\ n \notin GateNames THEN "readout" ELSE "gate"

StatedAt(n, i, error) ==
  LET e == LabelsAt(i)
  IN \/ Len(i) = 1 /\ error \in Highest1q(e[1], Kind(n))
     \/ \E d \in {e, Reverse(e)} \cap DOMAIN device.twos :
          Len(i) = 2 /\ error \in Highest2q(n, d)

(* The places the device states errors of a gate for, if it is offered     *)
(* there: qubits of the topology, and its pairs, either way round.  Errors *)
(* of other places are passed over.                                        *)
PlacesStated(b) ==
  IF b \in OneQubitGates
    THEN {<<Index(device, q)>> :
            q \in {p \in device.nodes \cap DOMAIN device.ones :
                     Errors(device.ones[p], "gate") # {}}}
    ELSE UNION {{Indices(device, e), Reverse(Indices(device, e))} :
                  e \in Stated(device, GateName(b))}

(* The names a gate is offered under at a place: its own everywhere, or    *)
(* what its angles calibrated there are added as.                          *)
OfferedAs(b, i) ==
  IF device.calibrations = {} THEN {GateName(g) : g \in {b} \cap device.native}
  ELSE {AddsAs(c) : c \in {d \in device.calibrations :
                             d.gate = b /\ Indices(device, d.at) = i}}

HasError(n, i) ==
  n \in DOMAIN entries /\ i \in DOMAIN entries[n] /\ entries[n][i] # NoError

NoErrorIsDropped ==
  /\ \A b \in OneQubitGates \cup TwoQubitGates :
       \A i \in PlacesStated(b) : \A n \in OfferedAs(b, i) : HasError(n, i)
  /\ "measure" \notin GateNames =>
       \A q \in device.nodes \cap DOMAIN device.ones :
         Errors(device.ones[q], "readout") # {} =>
           HasError("measure", <<Index(device, q)>>)

(* An error rate in the target is one the device states for those very     *)
(* qubits, by their labels, and the highest it states there; a pair's may  *)
(* be that of the pair the other way round.  And none is dropped: where a  *)
(* QPU offers a gate and states an error of it, on a qubit or a pair of    *)
(* the topology, the target has one.  Noise-aware layout reads it.         *)
(* (A device that has measure among the gates it lists, or calibrates, gets*)
(* a gate's errors.)                                                       *)
ErrorIsOfItsPlace ==
  stage = "built" =>
    /\ \A n \in DOMAIN entries : \A i \in DOMAIN entries[n] :
         entries[n][i] # NoError => StatedAt(n, i, entries[n][i])
    /\ device.type = "qpu" => NoErrorIsDropped

(* A gate offered in place of a calibrated angle stands, on every qubit it *)
(* is offered on, for an angle the device has calibrated on that very      *)
(* qubit, and for an angle that is that gate.                              *)
SubstitutesAreCalibrated ==
  stage = "built" =>
    \A n \in DOMAIN substitutes :
      /\ DOMAIN substitutes[n] = DOMAIN entries[n]
      /\ \A i \in DOMAIN substitutes[n] :
           LET by == substitutes[n][i]
           IN /\ \E c \in device.calibrations :
                   c.gate = by.gate /\ c.param = by.param /\ c.at = LabelsAt(i)
              /\ <<by.param, n>> \in {<<"pi", "x">>, <<"-pi", "x">>,
                                      <<"pi/2", "sx">>, <<"-pi/2", "sxdg">>}
=============================================================================
