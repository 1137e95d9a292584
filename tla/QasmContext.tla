----------------------------- MODULE QasmContext -----------------------------
(***************************************************************************)
(* _QiskitProgramContext (providers/qasm_context.py) builds a circuit while*)
(* the OpenQASM interpreter visits a program.  Blocks (branches, loops,    *)
(* verbatim boxes) are captured in circuits of their own, pushed on a      *)
(* stack and, when the block ends, wrapped into an instruction of the      *)
(* circuit below.  A loop's body is visited twice: once to look at it, and *)
(* once to capture it.                                                     *)
(*                                                                         *)
(* Circuits are objects: circ holds them by number, circ[1] the program's. *)
(* So are bits, numbered as they are made.  A program is a sequence of     *)
(* statements, made up as it is visited and read again when a loop's body  *)
(* is visited again; "end" closes the innermost block, and an `if` has two *)
(* blocks.                                                                 *)
(* External: the interpreter, which visits blocks properly nested and      *)
(* lets a program name the bits its enclosing blocks declare.              *)
(***************************************************************************)
EXTENDS Integers, FiniteSetsExt, SequencesExt

CONSTANTS Statements,    \* the statements programs are made of
          Size,          \* name of a bit register -> its bits
          Shadowing,     \* whether a block may declare an outer block's name
          MaxStatements  \* bound on a program's statements, "end" apart

Name == DOMAIN Size

ASSUME SizeAssumption == Size \in [Name -> Nat \ {0}]
ASSUME BoundAssumption == MaxStatements \in Nat /\ Shadowing \in BOOLEAN

ASSUME StatementsAssumption ==
  \A s \in Statements :
    /\ s.do \in {"gate", "measure"} => s.q \in Nat
    /\ s.do \in {"bit", "measure", "if", "while"} => s.name \in Name
    /\ s.do = "for" => s.n \in Nat \ {0}
    /\ s.do = "assign" => s.to \in {"zero", "next", "index"}

VARIABLES circ,       \* the circuits: number -> [qubits, clbits, data]
          stack,      \* _circuit_stack, of their numbers
          made,       \* how many bits have been made
          inVerbatim, \* _in_verbatim_box
          offset,     \* _clbit_offset
          counter,    \* a classical variable of the program's outermost scope
          program,    \* the statements so far
          pc,         \* the next of them
          frames,     \* the interpreter: the blocks open, innermost last
          captured,   \* history: a `for` body's capture changed the variable
          rising,     \* history: each assignment made the variable larger
          status      \* "running", "done" or what was raised

vars == <<circ, stack, made, inVerbatim, offset, counter, program, pc, frames,
          captured, rising, status>>

Active == Last(stack)
Frame == Last(frames)
Nobody == 0

Block(kind, first, left, cond, other) ==
  [kind |-> kind, first |-> first, left |-> left, cond |-> cond,
   other |-> other, before |-> counter, scope |-> [name \in {} |-> 0]]

Init ==
  /\ circ = <<[qubits |-> <<>>, clbits |-> <<>>, data |-> <<>>]>>
  /\ stack = <<1>> /\ made = 0
  /\ inVerbatim = FALSE /\ offset = [name \in {} |-> 0]
  /\ counter = 0
  /\ program = <<>> /\ pc = 1
  /\ frames = <<[kind |-> "program", first |-> 1, left |-> 0, cond |-> 0,
                 other |-> Nobody, before |-> 0, scope |-> [name \in {} |-> 0]]>>
  /\ captured = FALSE /\ rising = TRUE
  /\ status = "running"

-----------------------------------------------------------------------------
(* The interpreter reads a statement: one it has read before, or any.      *)
Written == Cardinality({i \in DOMAIN program : program[i].do # "end"})

Read(s) ==
  /\ status = "running"
  /\ IF pc <= Len(program)
       THEN s = program[pc] /\ UNCHANGED program
       ELSE /\ s.do # "end" => Written < MaxStatements
            /\ program' = Append(program, s)

Raise(error) ==
  /\ status' = error
  /\ UNCHANGED <<circ, stack, made, inVerbatim, offset, counter, pc, frames,
                 captured, rising>>

GoOn == pc' = pc + 1 /\ UNCHANGED status

Depths(name) == {i \in DOMAIN frames : name \in DOMAIN frames[i].scope}
Visible(name) == Depths(name) # {}
DeclaredBit(name) == frames[Max(Depths(name))].scope[name]

-----------------------------------------------------------------------------
(* _ensure_qubit_capacity: every circuit on the stack gets the same new    *)
(* qubits.  Mutant: only the active circuit gets them.                     *)
New(n) == [i \in 1..n |-> made + i]
Missing(q) ==
  IF q < Len(circ[Active].qubits) THEN 0 ELSE q + 1 - Len(circ[Active].qubits)

Grows_ActiveOnly(c) == c = Active
Grows(c) == c \in ToSet(stack)

WithCapacity(q) ==
  [c \in DOMAIN circ |->
     IF Grows(c)
       THEN [circ[c] EXCEPT !.qubits = @ \o New(Missing(q))] ELSE circ[c]]

Instruction(op, on, bits, bodies, cond) ==
  [op |-> op, on |-> on, bits |-> bits, bodies |-> bodies, cond |-> cond]

Appended(cs, c, instruction) ==
  [cs EXCEPT ![c].data = Append(@, instruction)]

Gate(s) ==
  LET cs == WithCapacity(s.q)
  IN /\ s.do = "gate" /\ Read(s)
     /\ circ' = Appended(cs, Active,
                  Instruction("gate", <<cs[Active].qubits[s.q + 1]>>, <<>>, <<>>, 0))
     /\ made' = made + Missing(s.q)
     /\ GoOn
     /\ UNCHANGED <<stack, inVerbatim, offset, counter, frames, captured, rising>>

(* A barrier on no qubits in particular is an empty one until the end.     *)
Barrier(s) ==
  /\ s.do = "barrier" /\ Read(s)
  /\ IF circ[Active].qubits = <<>>
       THEN Raise("ValueError")
       ELSE /\ circ' = Appended(circ, Active,
                                Instruction("barrier", <<>>, <<>>, <<>>, 0))
            /\ GoOn
            /\ UNCHANGED <<stack, made, inVerbatim, offset, counter, frames,
                           captured, rising>>

(* declare_variable, of bits: the flat index of the first of them is kept. *)
(* Mutant: the index is counted in the program's circuit.                  *)
FirstClbit_Top == Len(circ[1].clbits)
FirstClbit == Len(circ[Active].clbits)

Declare(s) ==
  LET name == s.name
  IN /\ s.do = "bit" /\ Read(s)
     /\ name \notin DOMAIN Frame.scope /\ (Visible(name) => Shadowing)
     /\ offset' = [n \in DOMAIN offset \cup {name} |->
                     IF n = name THEN FirstClbit ELSE offset[n]]
     /\ circ' = [circ EXCEPT ![Active].clbits = @ \o New(Size[name])]
     /\ made' = made + Size[name]
     /\ frames' = [frames EXCEPT ![Len(frames)].scope =
                     [n \in DOMAIN @ \cup {name} |->
                        IF n = name THEN made + 1 ELSE @[n]]]
     /\ GoOn
     /\ UNCHANGED <<stack, inVerbatim, counter, captured, rising>>

HasClbit(name) == offset[name] < Len(circ[Active].clbits)
ClbitAt(name) == circ[Active].clbits[offset[name] + 1]

Measure(s) ==
  LET cs == WithCapacity(s.q)
  IN /\ s.do = "measure" /\ Read(s)
     /\ Visible(s.name) \/ s.name \notin DOMAIN offset
     /\ IF s.name \notin DOMAIN offset THEN Raise("ValueError")
        ELSE IF ~HasClbit(s.name) THEN Raise("CircuitError")
          ELSE /\ circ' = Appended(cs, Active,
                            Instruction("measure", <<cs[Active].qubits[s.q + 1]>>,
                                        <<ClbitAt(s.name)>>, <<>>, 0))
               /\ made' = made + Missing(s.q)
               /\ GoOn
               /\ UNCHANGED <<stack, inVerbatim, offset, counter, frames,
                              captured, rising>>

(* A classical assignment, which leaves no trace in the circuit: of 0, of  *)
(* the next value, or of the innermost loop's variable.  A loop of n visits*)
(* runs over 0, n - 1, ..., 1; the variable of a captured body is a symbol,*)
(* and k more than it is written -1 - k.                                   *)
Loop == {"probe", "body", "unroll"}
IsLoop(i) == frames[i].kind \in Loop
Innermost ==
  {i \in DOMAIN frames : IsLoop(i) /\ \A j \in (i + 1)..Len(frames) : ~IsLoop(j)}

Index(f) ==
  IF f.kind = "probe" THEN 0 ELSE IF f.kind = "unroll" THEN f.left + 1 ELSE -1

Assign(s) ==
  /\ s.do = "assign" /\ Read(s)
  /\ \/ s.to = "zero" /\ counter' = 0
     \/ s.to = "next" /\ counter' = IF counter < 0 THEN counter - 1 ELSE counter + 1
     \/ s.to = "index" /\ \E i \in Innermost : counter' = Index(frames[i])
  /\ captured' = (captured \/ (/\ counter' # counter
                              /\ \E i \in DOMAIN frames : frames[i].kind = "body"))
  /\ rising' = (rising /\ counter' > counter)
  /\ GoOn
  /\ UNCHANGED <<circ, stack, made, inVerbatim, offset, frames>>

-----------------------------------------------------------------------------
(* _push_scoped_circuit: an empty circuit with the active one's bits.      *)
Pushed(cs, st) == Append(cs, [cs[Last(st)] EXCEPT !.data = <<>>])

Open(kind, left, cond) ==
  /\ circ' = Pushed(circ, stack)
  /\ stack' = Append(stack, Len(circ) + 1)
  /\ frames' = Append(frames, Block(kind, pc + 1, left, cond, Nobody))
  /\ GoOn
  /\ UNCHANGED <<made, offset, counter, captured, rising>>

(* evaluate_condition and evaluate_while_condition: the condition is a     *)
(* clbit of the circuit the statement is in.                               *)
OpenConditional(s) ==
  /\ s.do \in {"if", "while"} /\ Read(s)
  /\ Visible(s.name)
  /\ IF ~HasClbit(s.name)
       THEN Raise("CircuitError")
       ELSE /\ Open(IF s.do = "if" THEN "true" ELSE "while", 0, ClbitAt(s.name))
            /\ UNCHANGED inVerbatim

(* evaluate_for_range: a loop of no iterations is not visited at all.      *)
OpenLoop(s) ==
  /\ s.do = "for" /\ Read(s)
  /\ Open("probe", s.n, 0)
  /\ UNCHANGED inVerbatim

(* add_verbatim_marker *)
OpenBox(s) ==
  /\ s.do = "box" /\ Read(s)
  /\ IF inVerbatim
       THEN Raise("ValueError")
       ELSE Open("box", 0, 0) /\ inVerbatim' = TRUE

-----------------------------------------------------------------------------
(* _extend_bits: the bits that source has beyond target's, by position.    *)
Beyond(bits, others) == SubSeq(others, Len(bits) + 1, Len(others))

ExtendBits(cs, target, source) ==
  [cs EXCEPT ![target].qubits = @ \o Beyond(@, cs[source].qubits),
             ![target].clbits = @ \o Beyond(@, cs[source].clbits)]

(* External: Qiskit takes a block's instruction only when its bodies are   *)
(* as wide as the circuit is.                                              *)
Fits(cs, main, bodies) ==
  \A i \in DOMAIN bodies :
    /\ Len(cs[bodies[i]].qubits) = Len(cs[main].qubits)
    /\ Len(cs[bodies[i]].clbits) = Len(cs[main].clbits)

Wrap(cs, main, op, bodies) ==
  IF ~Fits(cs, main, bodies)
    THEN status' = "CircuitError" /\ UNCHANGED <<circ, pc>>
    ELSE /\ circ' = Appended(cs, main,
                      Instruction(op, cs[main].qubits, cs[main].clbits, bodies,
                                  Frame.cond))
         /\ GoOn

End(kind) == Frame.kind = kind /\ \E s \in Statements : s.do = "end" /\ Read(s)

(* The block's circuit is popped.  Mutant: it stays.                       *)
Below == Last(Front(stack))
Leave_NoPop == UNCHANGED stack /\ frames' = Front(frames)
Leave == stack' = Front(stack) /\ frames' = Front(frames)

(* The `if` block has ended: the `else` block gets a circuit like it.      *)
EndTrue ==
  /\ End("true")
  /\ circ' = Pushed(circ, Front(stack))
  /\ stack' = Append(Front(stack), Len(circ) + 1)
  /\ frames' = Append(Front(frames), Block("false", pc + 1, 0, Frame.cond, Active))
  /\ GoOn
  /\ UNCHANGED <<made, inVerbatim, offset, counter, captured, rising>>

(* Mutant: the bodies are not brought to the parent's width again.         *)
Synced_ParentOnly(main, yes, no) ==
  ExtendBits(ExtendBits(circ, main, yes), main, no)
Synced(main, yes, no) ==
  LET parent == ExtendBits(ExtendBits(circ, main, yes), main, no)
  IN ExtendBits(ExtendBits(parent, yes, main), no, main)

EndFalse ==
  LET yes == Frame.other
      bodies == IF circ[Active].data = <<>> THEN <<yes>> ELSE <<yes, Active>>
  IN /\ End("false")
     /\ Wrap(Synced(Below, yes, Active), Below, "if", bodies)
     /\ Leave
     /\ UNCHANGED <<made, inVerbatim, offset, counter, captured, rising>>

(* The body has been looked at; its circuit, and those in it, are dropped. *)
(* Without instructions, the other iterations are visited in place; with   *)
(* some, the body is visited again to capture it, unless a variable of the *)
(* scope the loop is in has another value than before.  Mutants: the       *)
(* variable is looked for in the loop's own scope; it is not looked for.   *)
InScopeOfCounter(fs) == \A i \in DOMAIN fs : fs[i].kind \notin Loop

Modifies_OwnScope(f, below) ==
  InScopeOfCounter(Append(below, f)) /\ counter # f.before
Modifies_Never(f, below) == FALSE
Modifies(f, below) == InScopeOfCounter(below) /\ counter # f.before

Again(kind, left) ==
  /\ frames' = Append(Front(frames), Block(kind, Frame.first, left, 0, Nobody))
  /\ pc' = Frame.first
  /\ UNCHANGED status

Dropped == SubSeq(circ, 1, Active - 1)

EndProbe ==
  /\ End("probe")
  /\ IF circ[Active].data = <<>>
       THEN /\ circ' = Dropped
            /\ stack' = Front(stack)
            /\ IF Frame.left > 1
                 THEN Again("unroll", Frame.left - 2)
                 ELSE frames' = Front(frames) /\ GoOn
     ELSE IF Modifies(Frame, Front(frames))
       THEN status' = "ValueError" /\ UNCHANGED <<circ, stack, frames, pc>>
     ELSE /\ circ' = Pushed(Dropped, Front(stack))
          /\ stack' = Append(Front(stack), Active)
          /\ Again("body", 0)
  /\ UNCHANGED <<made, inVerbatim, offset, counter, captured, rising>>

EndUnroll ==
  /\ End("unroll")
  /\ IF Frame.left > 0
       THEN Again("unroll", Frame.left - 1)
       ELSE frames' = Front(frames) /\ GoOn
  /\ UNCHANGED <<circ, stack, made, inVerbatim, offset, counter, captured, rising>>

EndBody ==
  /\ End("body")
  /\ Wrap(ExtendBits(circ, Below, Active), Below, "for", <<Active>>)
  /\ Leave
  /\ UNCHANGED <<made, inVerbatim, offset, counter, captured, rising>>

EndWhile ==
  /\ End("while")
  /\ IF circ[Active].data = <<>>
       THEN Raise("ValueError")
       ELSE /\ Wrap(ExtendBits(circ, Below, Active), Below, "while", <<Active>>)
            /\ Leave
            /\ UNCHANGED <<made, inVerbatim, offset, counter, captured, rising>>

EndBox ==
  /\ End("box")
  /\ Wrap(ExtendBits(circ, Below, Active), Below, "box", <<Active>>)
  /\ Leave
  /\ inVerbatim' = FALSE
  /\ UNCHANGED <<made, offset, counter, captured, rising>>

-----------------------------------------------------------------------------
(* The property circuit, when the program ends: every body gets the qubits *)
(* it lacks of the top, and every block and bare barrier all of them.      *)
(* Mutant: the blocks stay on the qubits they had.                         *)
Covers_Barriers(instr) == instr.op = "barrier"
Covers(instr) == instr.bodies # <<>> \/ instr.op = "barrier"

WithAll(bits, top) ==
  LET first[n \in 0..Len(top)] ==
        IF n = 0 THEN bits
        ELSE IF top[n] \in ToSet(first[n - 1]) THEN first[n - 1]
        ELSE Append(first[n - 1], top[n])
  IN first[Len(top)]

Widened(c) ==
  LET top == circ[1].qubits
  IN [qubits |-> WithAll(circ[c].qubits, top),
      clbits |-> circ[c].clbits,
      data |-> [i \in DOMAIN circ[c].data |->
                  LET instr == circ[c].data[i]
                  IN IF Covers(instr)
                       THEN [instr EXCEPT !.on = top] ELSE instr]]

Finish ==
  /\ status = "running" /\ Len(frames) = 1 /\ pc > Len(program)
  /\ circ' = [c \in DOMAIN circ |-> Widened(c)]
  /\ status' = "done"
  /\ UNCHANGED <<stack, made, inVerbatim, offset, counter, program, pc, frames,
                 captured, rising>>

Next ==
  \/ \E s \in Statements :
       \/ Gate(s) \/ Barrier(s) \/ Declare(s) \/ Measure(s) \/ Assign(s)
       \/ OpenConditional(s) \/ OpenLoop(s) \/ OpenBox(s)
  \/ EndTrue \/ EndFalse \/ EndProbe \/ EndUnroll \/ EndBody \/ EndWhile
  \/ EndBox \/ Finish

Spec == Init /\ [][Next]_vars

-----------------------------------------------------------------------------
TypeOK ==
  /\ \A c \in DOMAIN circ : \A i \in DOMAIN circ[c].data :
       ToSet(circ[c].data[i].bodies) \subseteq DOMAIN circ
  /\ ToSet(stack) \subseteq DOMAIN circ
  /\ \A c \in DOMAIN circ : ToSet(circ[c].qubits \o circ[c].clbits) \subseteq 1..made
  /\ inVerbatim \in BOOLEAN
  /\ DOMAIN offset \subseteq Name
  /\ counter \in Int /\ pc \in 1..(Len(program) + 1)
  /\ Len(stack) = Cardinality({i \in DOMAIN frames : frames[i].kind # "unroll"})
  /\ captured \in BOOLEAN /\ rising \in BOOLEAN
  /\ status \in {"running", "done", "ValueError", "CircuitError"}

(* A qubit index means the same qubit wherever the program uses it: every  *)
(* body, open or closed, has the first qubits of the whole circuit, also   *)
(* when a block deep inside is the first to name a qubit and when the loop *)
(* that named it is captured anew.                                         *)
QubitsAreShared ==
  \A c \in DOMAIN circ : IsPrefix(circ[c].qubits, circ[1].qubits)

(* Qiskit never refuses a block for its width, whichever of its bodies,    *)
(* their blocks or a dropped first visit made new bits; and in the finished*)
(* circuit every body, however early it was closed, has the circuit's      *)
(* qubits in their order, every block is as wide as its bodies, and every  *)
(* bare barrier covers them all.                                           *)
FinishedIsWide ==
  /\ status # "CircuitError"
  /\ status = "done" =>
       \A c \in DOMAIN circ :
         /\ circ[c].qubits = circ[1].qubits
         /\ \A i \in DOMAIN circ[c].data :
              LET instr == circ[c].data[i]
              IN /\ instr.op = "barrier" => instr.on = circ[1].qubits
                 /\ \A b \in ToSet(instr.bodies) :
                      /\ Len(instr.on) = Len(circ[b].qubits)
                      /\ Len(instr.bits) = Len(circ[b].clbits)

(* The offset kept for a register's name leads, in the circuit being built,*)
(* to the bits that the declaration in scope has made, whatever blocks     *)
(* have been opened, visited twice, dropped or merged since.               *)
NamesMeanTheirBits ==
  status = "running" =>
    \A name \in Name : Visible(name) =>
      \A i \in 1..Size[name] :
        /\ offset[name] + i <= Len(circ[Active].clbits)
        /\ circ[Active].clbits[offset[name] + i] = DeclaredBit(name) + i - 1

(* A measurement goes into the bits that the declaration of its register   *)
(* in scope has made.                                                      *)
MeasuresDeclaredRegister ==
  [][\A s \in Statements :
       Measure(s) /\ status' = "running" =>
         Last(circ'[Active].data).bits = <<DeclaredBit(s.name)>>]_vars

(* A program whose assignments all make the variable larger is converted   *)
(* only if none of them is in the captured body of a `for`: what the loop  *)
(* does to variables is not done once for many iterations, also by a loop  *)
(* in the loop.  The code compares a variable's value before and after the *)
(* first visit, and it does so for `for` loops: an assignment of the value *)
(* the variable has (x = i at the first i) and one in the body of a `while`*)
(* are captured, and are not in what is claimed here.                      *)
NoChangeIsCaptured == status = "done" /\ rising => ~captured
=============================================================================
