----------------------------- MODULE GateTables -----------------------------
(***************************************************************************)
(* The tables of providers/gate_mappings.py: what Braket's gates are       *)
(* called in Qiskit and back, which Qiskit gates Braket writes with a      *)
(* control modifier, what a calibrated angle stands for, and the names a   *)
(* program is written with.  A name in a program is a record, so that a    *)
(* placeholder and the text that replaces it are told apart.               *)
(***************************************************************************)
EXTENDS Naturals, Functions

(* One table laid over another: its entries hide the other's.              *)
Over(f, g) ==
  [x \in DOMAIN f \cup DOMAIN g |-> IF x \in DOMAIN f THEN f[x] ELSE g[x]]

(* max_qubits = None, and the key inf of the table of controlled gates.    *)
Unlimited == 99

(* _BRAKET_TO_QISKIT_NAMES; the gates of SameName keep their names.        *)
Renamed ==
  [phaseshift |-> "p", cnot |-> "cx", ti |-> "tdg", si |-> "sdg", v |-> "sx",
   vi |-> "sxdg", xx |-> "rxx", yy |-> "ryy", zz |-> "rzz", i |-> "id",
   ccnot |-> "ccx", cphaseshift |-> "cp", prx |-> "r",
   gphase |-> "global_phase"]

SameName ==
  {"u", "x", "y", "z", "t", "s", "swap", "iswap", "rx", "ry", "rz", "xy", "h",
   "cy", "cz", "cswap", "cphaseshift00", "cphaseshift01", "cphaseshift10",
   "pswap", "cv", "ecr", "gpi", "gpi2", "ms", "unitary", "kraus"}

BraketToQiskitNames ==
  [g \in DOMAIN Renamed \cup SameName |-> IF g \in SameName THEN g ELSE Renamed[g]]
QiskitToBraketNames == AntiFunction(BraketToQiskitNames)

BraketName(g) ==
  IF g \in DOMAIN QiskitToBraketNames THEN QiskitToBraketNames[g] ELSE g

(* The names of those of the operations that Qiskit has a name for.        *)
QiskitNames(operations) ==
  {BraketToQiskitNames[o] : o \in operations \cap DOMAIN BraketToQiskitNames}

NonGateTargetOps == {"measure", "barrier", "box", "if_else"}
AdditionalUGates == {"u1", "u2", "u3"}

(* _CONTROLLED_GATES_BY_QUBIT_COUNT, by gate: its row and its base.        *)
ControlledGates ==
  [ch |-> <<1, "h">>, cs |-> <<1, "s">>, csdg |-> <<1, "sdg">>,
   csx |-> <<1, "sx">>, crx |-> <<1, "rx">>, cry |-> <<1, "ry">>,
   crz |-> <<1, "rz">>, ccz |-> <<1, "cz">>, c3sx |-> <<3, "sx">>,
   mcx |-> <<Unlimited, "cx">>]

(* _get_controlled_gateset.  Mutant: one control more than the device has. *)
ControlledGateset_OneMore(gates, max) ==
  {c \in DOMAIN ControlledGates :
     ControlledGates[c][1] <= max + 1 /\ ControlledGates[c][2] \in gates}
ControlledGateset(gates, max) ==
  {c \in DOMAIN ControlledGates :
     ControlledGates[c][1] <= max /\ ControlledGates[c][2] \in gates}

(* _BRAKET_GATE_NAME_TO_QISKIT_GATE: the name the Qiskit gate carries and  *)
(* its qubits.  "unitary" and "kraus" are classes, which have neither.     *)
OneQubitGates ==
  {"u", "u1", "u2", "u3", "h", "i", "phaseshift", "rx", "ry", "rz", "s", "si",
   "t", "ti", "v", "vi", "x", "y", "z", "prx", "gpi", "gpi2", "measure",
   "cc_prx", "measure_ff"}
TwoQubitGates ==
  {"cnot", "cphaseshift", "cy", "cz", "swap", "xx", "xy", "yy", "zz",
   "cphaseshift00", "cphaseshift01", "cphaseshift10", "pswap", "cv", "ecr",
   "iswap", "ms"}
OtherGates == {"ccnot", "cswap", "gphase"}
Classes == {"unitary", "kraus"}
QiskitGates == OneQubitGates \cup TwoQubitGates \cup OtherGates \cup Classes

GateName(b) ==
  CASE b = "cc_prx" -> "CCPRx"
    [] b = "measure_ff" -> "MeasureFF"
    [] b \in DOMAIN BraketToQiskitNames -> BraketToQiskitNames[b]
    [] OTHER -> b

NumQubits(b) ==
  IF b \in OneQubitGates THEN 1 ELSE IF b \in TwoQubitGates THEN 2 ELSE 3

(* _QISKIT_GATE_NAME_TO_BRAKET_GATE: the class to_braket makes an          *)
(* instruction of, by its name in OpenQASM.                                *)
QiskitGateNameToBraketGate ==
  Over([u1 |-> "u", u2 |-> "u", u3 |-> "u", p |-> "phaseshift",
        cp |-> "cphaseshift", cx |-> "cnot", tdg |-> "ti", sdg |-> "si",
        sx |-> "v", sxdg |-> "vi", rzz |-> "zz", zz |-> "zz", rxx |-> "xx",
        ryy |-> "yy", id |-> "i", ccx |-> "ccnot", r |-> "prx",
        global_phase |-> "gphase", CCPRx |-> "cc_prx", MeasureFF |-> "measure_ff"],
       [g \in SameName |-> g])

(* _QISKIT_CONTROLLED_GATE_NAMES_TO_BRAKET_GATES, and what to_braket makes *)
(* of a gate on n qubits: the last ones are the gate's, the rest control.  *)
QiskitControlledGateNamesToBraketGates ==
  [c \in DOMAIN ControlledGates |-> QiskitGateNameToBraketGate[ControlledGates[c][2]]]

BraketOperation(g, n) ==
  IF g \in DOMAIN ControlledGates
    THEN LET b == QiskitControlledGateNamesToBraketGates[g]
         IN [gate |-> b, controls |-> n - NumQubits(b)]
    ELSE [gate |-> QiskitGateNameToBraketGate[g], controls |-> 0]

(* _TRANSPILER_GATE_SUBSTITUTES.  Mutant: a rotation back is one forth.    *)
Substitutes_Forth ==
  [c \in {"rx"} \X {"pi", "-pi", "pi/2", "-pi/2"} |->
     IF c[2] \in {"pi/2", "-pi/2"} THEN "sx" ELSE "x"]
Substitutes ==
  [c \in {"rx"} \X {"pi", "-pi", "pi/2", "-pi/2"} |->
     IF c[2] = "pi/2" THEN "sx" ELSE IF c[2] = "-pi/2" THEN "sxdg" ELSE "x"]

(* External: the qubits of Qiskit's gate, its controls and its base's.     *)
ControlledQubits(c) ==
  ControlledGates[c][1] + NumQubits(BraketName(ControlledGates[c][2]))

-----------------------------------------------------------------------------
(* Names in a program: a gate, a gate under n controls, and what a         *)
(* placeholder stands for before and after it is replaced.                 *)
Plain(g) == [kind |-> "gate", name |-> g, n |-> 0]
Controlled(n, g) == [kind |-> "ctrl", name |-> g, n |-> n]
ControlPlaceholder(n, g) == [kind |-> "ctrl_placeholder", name |-> g, n |-> n]
GPhasePlaceholder == [kind |-> "gphase_placeholder", name |-> "gphase", n |-> 0]
PragmaPlaceholder(i) == [kind |-> "pragma_placeholder", name |-> "pragma", n |-> i]

(* _QISKIT_TO_CONTROL_PLACEHOLDER: mcx, whose controls have no number, is  *)
(* not in it.                                                              *)
QiskitToControlPlaceholder ==
  [c \in {g \in DOMAIN ControlledGates : ControlledGates[g][1] # Unlimited} |->
     ControlPlaceholder(ControlledGates[c][1], BraketName(ControlledGates[c][2]))]

(* _QISKIT_TO_OQ3_NAMES; a name it does not have is left as it is.         *)
QiskitToOQ3Names ==
  Over([u |-> Plain("U"), global_phase |-> GPhasePlaceholder],
       Over(QiskitToControlPlaceholder,
            [g \in DOMAIN QiskitToBraketNames |-> Plain(QiskitToBraketNames[g])]))

OQ3Name(g) ==
  IF g \in DOMAIN QiskitToOQ3Names THEN QiskitToOQ3Names[g] ELSE Plain(g)

(* _QISKIT_TO_BRAKET_SHIM: the name each shim class gives its gate.        *)
(* Mutant: a shim that was forgotten.                                      *)
ShimNames ==
  [p |-> "phaseshift", cx |-> "cnot", tdg |-> "ti", sdg |-> "si", sx |-> "v",
   sxdg |-> "vi", rxx |-> "xx", ryy |-> "yy", rzz |-> "zz", id |-> "i",
   ccx |-> "ccnot", cp |-> "cphaseshift", r |-> "prx", u |-> "U"]
ControlShims ==
  {"ch", "cs", "csdg", "csx", "crx", "cry", "crz", "ccz", "c3sx"}

Shim_NoVi(g) ==
  IF g = "global_phase" THEN GPhasePlaceholder
  ELSE IF g \in ControlShims THEN QiskitToControlPlaceholder[g]
  ELSE IF g \in DOMAIN ShimNames \ {"sxdg"} THEN Plain(ShimNames[g]) ELSE Plain(g)
Shim(g) ==
  IF g = "global_phase" THEN GPhasePlaceholder
  ELSE IF g \in ControlShims THEN QiskitToControlPlaceholder[g]
  ELSE IF g \in DOMAIN ShimNames THEN Plain(ShimNames[g]) ELSE Plain(g)

(* External: get_standard_gate_name_mapping of Qiskit, of these names.     *)
StandardGates ==
  (DOMAIN ControlledGates \ {"mcx"}) \cup AdditionalUGates
    \cup (Range(BraketToQiskitNames) \
            {"xy", "cphaseshift00", "cphaseshift01", "cphaseshift10", "pswap",
             "cv", "gpi", "gpi2", "ms", "unitary", "kraus"})
=============================================================================
