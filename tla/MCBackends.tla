----------------------------- MODULE MCBackends -----------------------------
(* Instances of Backends for TLC: devices rich in what a target reads,      *)
(* circuits rich in what a program writes, and runs of several programs.    *)
EXTENDS Backends

MCEndsWith(name, suffix) == name = suffix \/ <<name, suffix>> = <<"seq", "q">>

Fidelity(kind, error) == [kind |-> kind, error |-> error]
Calibration(gate, param, at) == [gate |-> gate, param |-> param, at |-> at]

Nothing ==
  [type |-> "qpu", provider |-> "other", nodes |-> {}, edges |-> {},
   ones |-> << >>, twos |-> << >>, native |-> {}, calibrations |-> {},
   operations |-> {}, controls |-> 0, openqasm |-> TRUE]

(* Labels with gaps, a qubit and a pair the topology has not, several       *)
(* errors of one kind, a pair stated against its edge's order.              *)
Lattice ==
  [Nothing EXCEPT
     !.nodes = {0, 2, 5}, !.edges = {<<0, 2>>, <<2, 5>>},
     !.ones = 0 :> {Fidelity("gate", 1), Fidelity("gate", 3), Fidelity("readout", 2)}
                @@ 2 :> {Fidelity("readout", 4), Fidelity("readout_error", 9)}
                @@ 5 :> {Fidelity("gate", 2), Fidelity("readout", 1)}
                @@ 7 :> {Fidelity("gate", 8)},
     !.twos = <<2, 0>> :> {Fidelity("cz", 3), Fidelity("cz", 5), Fidelity("other", 9)}
                @@ <<2, 5>> :> {Fidelity("cz", 1), Fidelity("iswap", 2)}
                @@ <<5, 2>> :> {Fidelity("cz", 2)}
                @@ <<0, 5>> :> {Fidelity("cz", 8)}
                @@ <<5, 7>> :> {Fidelity("cz", 8)},
     !.native = {"rx", "cz", "iswap", "ccnot", "measure_ff", "barrier", "other"},
     !.operations = {"rx", "cz", "cnot", "u", "h", "v", "swap", "if"},
     !.controls = 2]

Calibrated0 ==
  [Lattice EXCEPT
     !.provider = "rigetti",
     !.calibrations =
       {Calibration("rx", "pi", <<0>>), Calibration("rx", "-pi", <<0>>),
        Calibration("rx", "-pi", <<5>>), Calibration("rx", "pi/2", <<5>>),
        Calibration("rx", "-pi/2", <<0>>), Calibration("cz", "none", <<2, 5>>),
        Calibration("cz", "none", <<2, 0>>), Calibration("gphase", "free", <<0>>)}]

Others ==
  {[Calibrated0 EXCEPT !.calibrations = {Calibration("rx", "pi", <<5>>),
                                         Calibration("x", "none", <<0>>)}],
   [Calibrated0 EXCEPT !.calibrations = {Calibration("rx", "pi", <<2>>),
                                         Calibration("rx", "-pi", <<0>>)}],
   [Calibrated0 EXCEPT !.calibrations = {Calibration("rx", "free", <<0>>)}],
   [Calibrated0 EXCEPT !.calibrations = {Calibration("rx", "free", <<9>>)}],
   [Nothing EXCEPT !.type = "analog"],
   [Nothing EXCEPT !.type = "unknown"],
   [Calibrated0 EXCEPT !.native = {"rx", "measure"}],
   [Calibrated0 EXCEPT !.calibrations = {Calibration("measure", "none", <<5>>)}],
   [Lattice EXCEPT !.ones = << >>, !.twos = << >>, !.native = {"cz", "gpi", "measure"}],
   [Lattice EXCEPT !.controls = Unlimited]}

Simulator ==
  [Nothing EXCEPT
     !.type = "simulator", !.controls = 3,
     !.operations = {"h", "cnot", "cz", "s", "si", "v", "vi", "rx", "phaseshift",
                     "gphase", "unitary", "kraus", "ms", "xy", "prx", "if", "ti"}]

Simulators ==
  {Simulator, [Simulator EXCEPT !.controls = Unlimited],
   [Simulator EXCEPT !.openqasm = FALSE]}

Small == [Nothing EXCEPT !.type = "simulator", !.operations = {"gphase"}]

(* An IQM device, and one that any circuit fits on.                         *)
Star ==
  [Nothing EXCEPT
     !.nodes = {1, 3}, !.edges = {<<1, 3>>}, !.provider = "iqm",
     !.native = {"prx", "cz", "cnot", "sx", "barrier", "gphase"},
     !.operations = {"prx", "cz", "cnot", "if"}]
Wide ==
  [Star EXCEPT !.nodes = {1, 3, 4}, !.provider = "rigetti", !.calibrations = {},
               !.native = @ \cup {"x", "h", "rx", "u", "vi"}]
AllGates ==
  [Simulator EXCEPT !.operations = @ \cup {"x", "u"}]

-----------------------------------------------------------------------------
If(id, bit) == [kind |-> "if", id |-> id, bit |-> bit]
Box == [kind |-> "box", id |-> 4, bit |-> -1]

I(op, param, q, c, path) ==
  [op |-> op, param |-> param, id |-> 0, q |-> q, c |-> c, path |-> path]

Measures == {I("measure", "none", <<0>>, <<0>>, << >>),
             I("measure", "none", <<1>>, <<1>>, << >>)}

Statements ==
  Measures \cup
  {I("x", "none", <<0>>, << >>, << >>), I("cx", "none", <<1, 0>>, << >>, << >>),
   I("rx", "pi", <<0>>, << >>, <<If(1, 1)>>), I("rx", "other", <<1>>, << >>, <<Box>>),
   I("u2", "free", <<1>>, << >>, <<Box, If(2, 0)>>),
   I("unitary", "free", <<0, 1>>, << >>, << >>), I("kraus", "free", <<0>>, << >>, <<Box>>),
   I("barrier", "none", <<0, 1>>, << >>, << >>),
   I("global_phase", "free", << >>, << >>, << >>),
   I("global_phase", "free", << >>, << >>, <<If(3, 0)>>)}

Identified(insts) == [i \in DOMAIN insts |-> [insts[i] EXCEPT !.id = i]]

Bits(name, b) == [name |-> name, bits |-> b]
Plain0 ==
  [width |-> 2, qregs |-> <<[name |-> "q", size |-> 2]>>, physical |-> NoLabels,
   layout |-> FALSE, bits |-> 2, cregs |-> <<Bits("c", <<1, 0>>)>>, outputs |-> {},
   phase |-> {}, insts |-> << >>]

Registers ==
  {[Plain0 EXCEPT !.cregs = <<Bits("c", <<0>>), Bits("out", <<1>>)>>, !.outputs = {"out"}],
   [Plain0 EXCEPT !.cregs = <<Bits("b", <<1>>)>>, !.outputs = {"b"}, !.layout = TRUE],
   [Plain0 EXCEPT !.qregs = << >>, !.physical = <<4, 1>>, !.phase = {9}],
   [Plain0 EXCEPT !.qregs = <<[name |-> "b", size |-> 2]>>],
   [Plain0 EXCEPT !.cregs = <<Bits("seq", <<1, 0>>)>>, !.outputs = {"seq"}],
   [Plain0 EXCEPT !.qregs = <<[name |-> "q", size |-> 1], [name |-> "r", size |-> 1]>>]}

MCCircuits ==
  {[r EXCEPT !.insts = Identified(s)] : r \in Registers,
     s \in UNION {[1..n -> Statements] : n \in 0..2}}
    \cup {[r EXCEPT !.insts = Identified(s)] : r \in Registers,
            s \in [1..3 -> Measures \cup {I("x", "none", <<1>>, << >>, << >>)}]}

-----------------------------------------------------------------------------
Call(mode, circuit) == [mode |-> mode, others |-> {}, circuit |-> circuit]

Run(on, n, shots, sets) ==
  [backend |-> on, programs |-> n, shots |-> shots,
   programSets |-> sets]
OneProgram == Run("aws", 1, "some", FALSE)

DeviceScenarios ==
  {[device |-> d, call |-> [Call(m, Plain0) EXCEPT !.others = o], input |-> OneProgram] :
     d \in {Lattice, Calibrated0} \cup Others \cup Simulators,
     m \in {"plain", "native"}, o \in {{}, {"analog"}}}
    \cup {[device |-> Lattice, input |-> OneProgram,
           call |-> [Call("plain", Plain0) EXCEPT !.others = {"qpu"}]]}
    \cup {[device |-> d, call |-> Call("local", Plain0),
           input |-> Run("local", 1, s, FALSE)] :
            d \in {Calibrated0, Simulator}, s \in {"zero", "default"}}

CircuitScenarios ==
  {[device |-> d, call |-> Call(m, c), input |-> OneProgram] :
     d \in {Star, Wide, AllGates}, m \in {"verbatim", "pass_manager"},
     c \in MCCircuits}

RunScenarios ==
  {[device |-> Small, call |-> Call(IF in.backend = "aws" THEN "plain" ELSE "local", Plain0),
    input |-> in] : in \in Inputs}

MCScenarios == DeviceScenarios \cup CircuitScenarios \cup RunScenarios
MCDevices == {s.device : s \in MCScenarios}
=============================================================================
