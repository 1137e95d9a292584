------------------------- MODULE QasmContext_proofs -------------------------
(***************************************************************************)
(* Proofs about the circuits a program's blocks are captured in, for every *)
(* program, of any length, and all nesting of its blocks: they share their *)
(* qubits, are wide enough when they are wrapped, the names of the         *)
(* program's registers lead to the bits that were declared, and no variable*)
(* that assignments make larger changes while a `for` body is captured.    *)
(*                                                                         *)
(* The invariant has six parts: SharedInv, of qubits and of the stack;     *)
(* WrapsInv, of the widths of open and of wrapped circuits; NamesInv, of   *)
(* names, offsets and bits, without shadowing; FreshInv, of the order of   *)
(* the program's qubits, for the end; ReadInv, of where in the program the *)
(* open blocks are; QuietInv, of what the outermost loop's visits have     *)
(* captured and changed, as long as every assignment makes the variable    *)
(* larger.  Each step is shown to keep each.                               *)
(***************************************************************************)
EXTENDS QasmContext, TLAPS, WellFoundedInduction

-----------------------------------------------------------------------------
(* The types that the proof needs.                                         *)
Bits == Seq(Nat)
Operations == {"gate", "barrier", "measure", "if", "while", "for", "box"}
Instructions ==
  [op : Operations, on : Bits, bits : Bits, bodies : Seq(Nat), cond : Nat]
Circuits == [qubits : Bits, clbits : Bits, data : Seq(Instructions)]
Scopes == UNION {[names -> Nat] : names \in SUBSET Name}
Kinds ==
  {"program", "true", "false", "while", "probe", "unroll", "body", "box"}
Blocks ==
  [kind : Kinds, first : Nat, left : Nat, cond : Nat, other : Nat,
   before : Int, scope : Scopes]

(* The circuits on the stack are made one after the other, and all have    *)
(* the program's qubits; any circuit has the first of them.                *)
FirstOf(bits, all) ==
  /\ Len(bits) <= Len(all)
  /\ \A i \in 1..Len(bits) : bits[i] = all[i]

Shares(cs, st) ==
  /\ cs \in Seq(Circuits)
  /\ st \in Seq(Nat) /\ Len(st) > 0 /\ st[1] = 1
  /\ \A j, k \in 1..Len(st) : j < k => st[j] < st[k]
  /\ \A k \in 1..Len(st) :
       st[k] \in 1..Len(cs) /\ cs[st[k]].qubits = cs[1].qubits
  /\ \A c \in 1..Len(cs) : FirstOf(cs[c].qubits, cs[1].qubits)

-----------------------------------------------------------------------------
(* Circuits with the qubits they had, or with all of them.                 *)
LEMMA SharesOfSameQubits ==
  ASSUME NEW cs, NEW st, Shares(cs, st), NEW ds \in Seq(Circuits),
         Len(ds) = Len(cs), ds[1].qubits = cs[1].qubits,
         \A c \in 1..Len(cs) : ds[c].qubits \in {cs[c].qubits, cs[1].qubits}
  PROVE  Shares(ds, st)
<1>1. cs[1].qubits \in Bits
  <2>1. cs[1] \in Circuits
    BY DEF Shares
  <2> QED
    BY <2>1 DEF Circuits
<1>2. FirstOf(cs[1].qubits, cs[1].qubits)
  BY <1>1 DEF FirstOf, Bits
<1>3. \A c \in 1..Len(ds) : FirstOf(ds[c].qubits, ds[1].qubits)
  BY <1>2 DEF Shares
<1>4. \A k \in 1..Len(st) :
        st[k] \in 1..Len(ds) /\ ds[st[k]].qubits = ds[1].qubits
  BY DEF Shares
<1> QED
  BY <1>3, <1>4 DEF Shares

(* An instruction leaves the bits as they are.                             *)
LEMMA SharesAppended ==
  ASSUME NEW cs, NEW st, Shares(cs, st), NEW c \in 1..Len(cs),
         NEW instruction \in Instructions
  PROVE  /\ Shares(Appended(cs, c, instruction), st)
         /\ Appended(cs, c, instruction)[1].qubits = cs[1].qubits
<1> DEFINE ds == Appended(cs, c, instruction)
<1>1. cs \in Seq(Circuits) /\ cs[c] \in Circuits
  BY DEF Shares
<1>2. Append(cs[c].data, instruction) \in Seq(Instructions)
  BY <1>1 DEF Circuits
<1>3. [cs[c] EXCEPT !.data = Append(@, instruction)] \in Circuits
  BY <1>1, <1>2 DEF Circuits
<1>4. ds = [cs EXCEPT ![c] = [cs[c] EXCEPT !.data = Append(@, instruction)]]
  BY DEF Appended
<1>5. ds \in Seq(Circuits) /\ Len(ds) = Len(cs)
  BY <1>1, <1>3, <1>4
<1>6. \A d \in 1..Len(cs) : ds[d].qubits = cs[d].qubits
  BY <1>1, <1>4 DEF Circuits
<1>7. ds[1].qubits = cs[1].qubits
  BY <1>6 DEF Shares
<1> QED
  BY <1>5, <1>6, <1>7, SharesOfSameQubits

(* _push_scoped_circuit: a new circuit with the active one's bits.         *)
LEMMA SharesPushed ==
  ASSUME NEW cs, NEW st, Shares(cs, st)
  PROVE  Shares(Pushed(cs, st), Append(st, Len(cs) + 1))
<1> DEFINE new == [cs[Last(st)] EXCEPT !.data = <<>>]
           ds == Append(cs, new)
           tt == Append(st, Len(cs) + 1)
<1>1. /\ cs \in Seq(Circuits) /\ st \in Seq(Nat)
      /\ Len(st) \in 1..Len(st) /\ Len(cs) \in Nat
      /\ Last(st) \in 1..Len(cs) /\ cs[Last(st)].qubits = cs[1].qubits
  BY DEF Shares, Last
<1>2. cs[Last(st)] \in Circuits
  BY <1>1
<1>3. new \in Circuits /\ new.qubits = cs[1].qubits
  <2>1. <<>> \in Seq(Instructions)
    OBVIOUS
  <2> QED
    BY <1>1, <1>2, <2>1 DEF Circuits
<1>4. /\ ds \in Seq(Circuits) /\ Len(ds) = Len(cs) + 1
      /\ \A c \in 1..Len(cs) : ds[c] = cs[c]
      /\ ds[Len(cs) + 1] = new
  BY <1>1, <1>3
<1>5. /\ tt \in Seq(Nat) /\ Len(tt) = Len(st) + 1
      /\ \A k \in 1..Len(st) : tt[k] = st[k]
      /\ tt[Len(st) + 1] = Len(cs) + 1
  BY <1>1
<1>6. 1 \in 1..Len(cs) /\ ds[1] = cs[1]
  BY <1>1, <1>4
<1>7. \A j, k \in 1..Len(tt) : j < k => tt[j] < tt[k]
  BY <1>1, <1>5 DEF Shares
<1>8. \A k \in 1..Len(tt) :
        tt[k] \in 1..Len(ds) /\ ds[tt[k]].qubits = ds[1].qubits
  BY <1>1, <1>3, <1>4, <1>5, <1>6 DEF Shares
<1>9. \A c \in 1..Len(ds) : FirstOf(ds[c].qubits, ds[1].qubits)
  <2>1. \A c \in 1..Len(cs) : FirstOf(ds[c].qubits, ds[1].qubits)
    BY <1>4, <1>6 DEF Shares
  <2>2. FirstOf(new.qubits, cs[1].qubits)
    BY <1>3, <1>2 DEF FirstOf, Circuits
  <2> QED
    BY <1>1, <1>4, <1>6, <2>1, <2>2
<1>10. tt[1] = 1 /\ Len(tt) > 0
  BY <1>1, <1>5 DEF Shares
<1> QED
  BY <1>4, <1>5, <1>7, <1>8, <1>9, <1>10 DEF Shares, Pushed

(* A block that is closed leaves the circuits below it.                    *)
LEMMA SharesPopped ==
  ASSUME NEW cs, NEW st, Shares(cs, st), Len(st) > 1
  PROVE  /\ Shares(cs, Front(st))
         /\ Last(Front(st)) < Last(st)
<1>1. /\ st \in Seq(Nat) /\ Front(st) \in Seq(Nat)
      /\ Len(Front(st)) = Len(st) - 1
      /\ \A k \in 1..(Len(st) - 1) : Front(st)[k] = st[k]
  BY DEF Shares, Front
<1>2. Len(Front(st)) \in 1..Len(st) /\ Front(st)[1] = 1
  BY <1>1 DEF Shares
<1>3. ASSUME NEW j \in 1..Len(Front(st)), NEW k \in 1..Len(Front(st)), j < k
      PROVE  Front(st)[j] < Front(st)[k]
  <2>1. j \in 1..Len(st) /\ k \in 1..Len(st)
    BY <1>1
  <2>2. st[j] < st[k]
    BY <1>3, <2>1 DEF Shares
  <2>3. j \in 1..(Len(st) - 1) /\ k \in 1..(Len(st) - 1)
    BY <1>1
  <2> QED
    BY <1>1, <2>2, <2>3
<1>4. \A k \in 1..Len(Front(st)) :
        Front(st)[k] \in 1..Len(cs) /\ cs[Front(st)[k]].qubits = cs[1].qubits
  <2> SUFFICES ASSUME NEW k \in 1..Len(Front(st))
               PROVE  /\ Front(st)[k] \in 1..Len(cs)
                      /\ cs[Front(st)[k]].qubits = cs[1].qubits
    OBVIOUS
  <2>1. k \in 1..Len(st) /\ Front(st)[k] = st[k]
    BY <1>1
  <2>2. st[k] \in 1..Len(cs) /\ cs[st[k]].qubits = cs[1].qubits
    BY <2>1 DEF Shares
  <2> QED
    BY <2>1, <2>2
<1>5. Last(Front(st)) < Last(st)
  BY <1>1, <1>2 DEF Shares, Last
<1> QED
  BY <1>1, <1>2, <1>3, <1>4, <1>5 DEF Shares

(* A first visit's circuit, and those made after it, are dropped.          *)
LEMMA SharesDropped ==
  ASSUME NEW cs, NEW st, Shares(cs, st), Len(st) > 1
  PROVE  Shares(SubSeq(cs, 1, Last(st) - 1), Front(st))
<1> DEFINE ds == SubSeq(cs, 1, Last(st) - 1)
           tt == Front(st)
<1>1. /\ st \in Seq(Nat) /\ Len(tt) = Len(st) - 1
      /\ \A k \in 1..(Len(st) - 1) : tt[k] = st[k]
  BY DEF Shares, Front
<1>2. /\ Last(st) \in Nat /\ Last(st) <= Len(cs) /\ cs \in Seq(Circuits)
      /\ \A k \in 1..(Len(st) - 1) : st[k] \in 1..(Last(st) - 1)
  BY <1>1 DEF Shares, Last
<1>3. Shares(cs, tt)
  BY SharesPopped
<1>4. 1 \in 1..(Last(st) - 1)
  BY <1>1, <1>2 DEF Shares
<1>5. /\ ds \in Seq(Circuits) /\ Len(ds) = Last(st) - 1
      /\ \A c \in 1..(Last(st) - 1) : ds[c] = cs[c]
  BY <1>2, <1>4
<1>6. ASSUME NEW k \in 1..Len(tt)
      PROVE  tt[k] \in 1..Len(ds) /\ ds[tt[k]].qubits = ds[1].qubits
  <2>1. tt[k] \in 1..(Last(st) - 1)
    BY <1>1, <1>2
  <2>2. cs[tt[k]].qubits = cs[1].qubits
    BY <1>3 DEF Shares
  <2> QED
    BY <1>4, <1>5, <2>1, <2>2
<1>7. \A c \in 1..Len(ds) : FirstOf(ds[c].qubits, ds[1].qubits)
  BY <1>2, <1>3, <1>4, <1>5 DEF Shares
<1> QED
  BY <1>3, <1>5, <1>6, <1>7 DEF Shares

(* _ensure_qubit_capacity: the circuits of the stack get the same qubits.  *)
LEMMA FirstOfMore ==
  ASSUME NEW bits \in Bits, NEW all \in Bits, NEW new \in Bits, FirstOf(bits, all)
  PROVE  FirstOf(bits, all \o new)
  BY DEF FirstOf, Bits

LEMMA BitsConcat ==
  ASSUME NEW bits \in Bits, NEW more \in Bits
  PROVE  /\ bits \o more \in Bits /\ Len(bits) \in Nat
         /\ Len(bits \o more) = Len(bits) + Len(more)
  BY DEF Bits

LEMMA SharesCapacity ==
  ASSUME NEW q \in Nat, made \in Nat, Shares(circ, stack)
  PROVE  /\ Shares(WithCapacity(q), stack)
         /\ Len(WithCapacity(q)) = Len(circ)
         /\ q + 1 \in 1..Len(WithCapacity(q)[Active].qubits)
         /\ WithCapacity(q)[1].qubits = circ[1].qubits \o New(Missing(q))
         /\ Missing(q) \in Nat
<1> DEFINE ds == WithCapacity(q)
           new == New(Missing(q))
           old == circ[1].qubits
<1>1. /\ circ \in Seq(Circuits) /\ stack \in Seq(Nat) /\ Len(circ) \in Nat
      /\ Active \in 1..Len(circ) /\ Active \in ToSet(stack)
      /\ 1 \in 1..Len(circ) /\ 1 \in ToSet(stack)
      /\ circ[Active].qubits = old
      /\ \A c \in ToSet(stack) : c \in 1..Len(circ) /\ circ[c].qubits = old
      /\ \A k \in 1..Len(stack) : stack[k] \in ToSet(stack)
  BY DEF Shares, Active, Last, ToSet
<1>2. ASSUME NEW c \in 1..Len(circ)
      PROVE  circ[c] \in Circuits /\ circ[c].qubits \in Bits
  <2>1. circ[c] \in Circuits
    BY <1>1
  <2> QED
    BY <2>1 DEF Circuits
<1>3. Missing(q) \in Nat /\ q + 1 <= Len(old) + Missing(q) /\ Len(old) \in Nat
  <2>1. old \in Bits /\ circ[Active].qubits = old
    BY <1>1, <1>2
  <2>2. Len(old) \in Nat
    BY <2>1, BitsConcat
  <2>3. Missing(q) = IF q < Len(old) THEN 0 ELSE q + 1 - Len(old)
    BY <2>1 DEF Missing
  <2> HIDE DEF old
  <2> QED
    BY <2>2, <2>3
<1>4. new \in Bits /\ Len(new) = Missing(q)
  BY <1>3 DEF New, Bits
<1>5. /\ old \in Bits /\ old \o new \in Bits
      /\ Len(old \o new) = Len(old) + Missing(q)
  <2>1. old \in Bits
    BY <1>1, <1>2
  <2> QED
    BY <1>4, <2>1, BitsConcat
<1>6. ds = [c \in 1..Len(circ) |->
              IF c \in ToSet(stack)
                THEN [circ[c] EXCEPT !.qubits = circ[c].qubits \o new] ELSE circ[c]]
  BY <1>1 DEF WithCapacity, Grows
<1>7. ASSUME NEW c \in 1..Len(circ)
      PROVE  /\ ds[c] \in Circuits
             /\ ds[c].qubits = IF c \in ToSet(stack) THEN old \o new
                               ELSE circ[c].qubits
  <2>1. circ[c] \in Circuits
    BY <1>2
  <2>2. c \in ToSet(stack) => circ[c].qubits = old
    BY <1>1
  <2>3. ds[c] = IF c \in ToSet(stack)
                  THEN [circ[c] EXCEPT !.qubits = circ[c].qubits \o new] ELSE circ[c]
    BY <1>6
  <2> HIDE DEF ds, new, old
  <2> QED
    BY <1>5, <2>1, <2>2, <2>3 DEF Circuits
<1>8. ds \in Seq(Circuits) /\ Len(ds) = Len(circ)
  <2>1. ds \in [1..Len(circ) -> Circuits]
    BY <1>6, <1>7
  <2> QED
    BY <1>1, <2>1
<1> HIDE DEF ds, new
<1>9. ds[1].qubits = old \o new
  BY <1>1, <1>7
<1>10. ASSUME NEW c \in 1..Len(circ)
       PROVE  FirstOf(ds[c].qubits, old \o new)
  <2>1. CASE c \in ToSet(stack)
    <3>1. ds[c].qubits = old \o new
      BY <1>7, <2>1
    <3> QED
      BY <1>5, <3>1 DEF FirstOf, Bits
  <2>2. CASE c \notin ToSet(stack)
    <3>1. FirstOf(circ[c].qubits, old)
      BY DEF Shares
    <3> QED
      BY <1>2, <1>4, <1>5, <1>7, <2>2, <3>1, FirstOfMore
  <2> QED
    BY <2>1, <2>2
<1>11. \A k \in 1..Len(stack) :
         stack[k] \in 1..Len(ds) /\ ds[stack[k]].qubits = ds[1].qubits
  BY <1>1, <1>7, <1>8, <1>9
<1>12. Shares(ds, stack)
  BY <1>8, <1>9, <1>10, <1>11 DEF Shares
<1>13. q + 1 \in 1..Len(ds[Active].qubits)
  <2>1. ds[Active].qubits = old \o new
    BY <1>1, <1>7
  <2> QED
    BY <1>3, <1>5, <2>1
<1> QED
  BY <1>3, <1>8, <1>9, <1>12, <1>13 DEF ds, new

-----------------------------------------------------------------------------
(* _extend_bits: a circuit gets the bits it lacks, if any.                 *)
LEMMA BeyondIsBits ==
  ASSUME NEW bits \in Bits, NEW others \in Bits
  PROVE  Beyond(bits, others) \in Bits
  BY DEF Beyond, Bits

LEMMA NothingBeyond ==
  ASSUME NEW bits \in Bits, NEW others \in Bits, Len(others) <= Len(bits)
  PROVE  bits \o Beyond(bits, others) = bits
<1>1. Beyond(bits, others) = <<>>
  BY DEF Beyond, Bits
<1> QED
  BY <1>1 DEF Bits

LEMMA BeyondCompletes ==
  ASSUME NEW bits \in Bits, NEW others \in Bits, FirstOf(bits, others)
  PROVE  bits \o Beyond(bits, others) = others
<1> DEFINE more == Beyond(bits, others)
           all == bits \o more
<1>1. Len(bits) \in Nat /\ Len(others) \in Nat /\ Len(bits) <= Len(others)
  BY DEF FirstOf, Bits
<1>2. /\ more \in Bits /\ Len(more) = Len(others) - Len(bits)
      /\ \A i \in 1..Len(more) : more[i] = others[Len(bits) + i]
  BY <1>1 DEF Beyond, Bits
<1> HIDE DEF more
<1>3. all \in Bits /\ Len(all) = Len(others)
  BY <1>1, <1>2, BitsConcat
<1>4. ASSUME NEW i \in 1..Len(others) PROVE all[i] = others[i]
  <2>1. CASE i <= Len(bits)
    BY <1>1, <1>2, <2>1 DEF FirstOf, Bits
  <2>2. CASE i > Len(bits)
    <3>1. i - Len(bits) \in 1..Len(more) /\ all[i] = more[i - Len(bits)]
      BY <1>1, <1>2, <2>2 DEF Bits
    <3> QED
      BY <1>1, <1>2, <3>1
  <2> HIDE DEF all
  <2> QED
    BY <1>1, <2>1, <2>2
<1> HIDE DEF all
<1>5. all = others
  <2>1. all = [i \in 1..Len(all) |-> all[i]]
    BY <1>3 DEF Bits
  <2>2. others = [i \in 1..Len(others) |-> others[i]]
    BY DEF Bits
  <2> QED
    BY <1>3, <1>4, <2>1, <2>2
<1> QED
  BY <1>5 DEF all, more

LEMMA ExtendedBits ==
  ASSUME NEW cs \in Seq(Circuits), NEW t \in 1..Len(cs), NEW s \in 1..Len(cs)
  PROVE  /\ ExtendBits(cs, t, s) \in Seq(Circuits)
         /\ Len(ExtendBits(cs, t, s)) = Len(cs)
         /\ \A c \in 1..Len(cs) : c # t => ExtendBits(cs, t, s)[c] = cs[c]
         /\ ExtendBits(cs, t, s)[t].qubits =
              cs[t].qubits \o Beyond(cs[t].qubits, cs[s].qubits)
<1> DEFINE qs == cs[t].qubits \o Beyond(cs[t].qubits, cs[s].qubits)
           bs == cs[t].clbits \o Beyond(cs[t].clbits, cs[s].clbits)
           new == [[cs[t] EXCEPT !.qubits = qs] EXCEPT !.clbits = bs]
           ds == ExtendBits(cs, t, s)
<1>1. cs[t] \in Circuits /\ cs[s] \in Circuits
  OBVIOUS
<1>2. /\ cs[t].qubits \in Bits /\ cs[s].qubits \in Bits
      /\ cs[t].clbits \in Bits /\ cs[s].clbits \in Bits
      /\ cs[t].data \in Seq(Instructions)
  BY <1>1 DEF Circuits
<1>3. qs \in Bits /\ bs \in Bits
  BY <1>2, BeyondIsBits, BitsConcat
<1>4. new \in Circuits /\ new.qubits = qs
  <2> HIDE DEF qs, bs
  <2> QED
    BY <1>1, <1>3 DEF Circuits
<1>5. ds = [cs EXCEPT ![t] = new]
  BY <1>1 DEF ExtendBits, Circuits
<1> HIDE DEF ds, qs, bs
<1> HIDE DEF new
<1>8. ds \in Seq(Circuits) /\ Len(ds) = Len(cs) /\ ds[t] = new
      /\ \A c \in 1..Len(cs) : c # t => ds[c] = cs[c]
  BY <1>4, <1>5
<1> QED
  BY <1>4, <1>8 DEF ds, qs

LEMMA SharesExtended ==
  ASSUME NEW cs, NEW st, Shares(cs, st),
         NEW t \in 1..Len(cs), NEW s \in 1..Len(cs),
         Len(cs[s].qubits) <= Len(cs[t].qubits) \/ cs[s].qubits = cs[1].qubits
  PROVE  /\ Shares(ExtendBits(cs, t, s), st)
         /\ Len(ExtendBits(cs, t, s)) = Len(cs)
         /\ ExtendBits(cs, t, s)[1].qubits = cs[1].qubits
         /\ \A c \in 1..Len(cs) :
              ExtendBits(cs, t, s)[c].qubits \in {cs[c].qubits, cs[1].qubits}
<1> DEFINE ds == ExtendBits(cs, t, s)
<1>1. cs \in Seq(Circuits) /\ cs[t] \in Circuits /\ cs[s] \in Circuits
      /\ 1 \in 1..Len(cs)
  BY DEF Shares
<1>2. /\ ds \in Seq(Circuits) /\ Len(ds) = Len(cs)
      /\ \A c \in 1..Len(cs) : c # t => ds[c] = cs[c]
      /\ ds[t].qubits = cs[t].qubits \o Beyond(cs[t].qubits, cs[s].qubits)
  BY <1>1, ExtendedBits
<1>3. cs[t].qubits \in Bits /\ cs[s].qubits \in Bits
  BY <1>1 DEF Circuits
<1> HIDE DEF ds
<1>4. CASE Len(cs[s].qubits) <= Len(cs[t].qubits)
  <2>1. ds[t].qubits = cs[t].qubits
    BY <1>2, <1>3, <1>4, NothingBeyond
  <2>2. \A c \in 1..Len(cs) : ds[c].qubits = cs[c].qubits
    BY <1>2, <2>1
  <2> QED
    BY <1>1, <1>2, <2>2, SharesOfSameQubits DEF ds
<1>5. CASE ~(Len(cs[s].qubits) <= Len(cs[t].qubits)) /\ cs[s].qubits = cs[1].qubits
  <2>1. FirstOf(cs[t].qubits, cs[s].qubits)
    BY <1>5 DEF Shares
  <2>2. ds[t].qubits = cs[1].qubits
    BY <1>2, <1>3, <1>5, <2>1, BeyondCompletes
  <2>3. /\ ds[1].qubits = cs[1].qubits
        /\ \A c \in 1..Len(cs) : ds[c].qubits \in {cs[c].qubits, cs[1].qubits}
    BY <1>1, <1>2, <2>2
  <2> QED
    BY <1>2, <2>3, SharesOfSameQubits DEF ds
<1> QED
  BY <1>4, <1>5

(* The bodies of a branch and its parent are brought to one width.         *)
LEMMA SharesSynced ==
  ASSUME NEW st, Shares(circ, st), NEW main \in 1..Len(circ),
         NEW yes \in 1..Len(circ), NEW no \in 1..Len(circ),
         circ[main].qubits = circ[1].qubits, circ[no].qubits = circ[1].qubits
  PROVE  /\ Shares(Synced(main, yes, no), st)
         /\ Len(Synced(main, yes, no)) = Len(circ)
         /\ Synced(main, yes, no)[1].qubits = circ[1].qubits
<1> DEFINE c1 == ExtendBits(circ, main, yes)
           c2 == ExtendBits(c1, main, no)
           c3 == ExtendBits(c2, yes, main)
           c4 == ExtendBits(c3, no, main)
           top == circ[1].qubits
<1>1. Len(circ[yes].qubits) <= Len(circ[main].qubits)
  BY DEF Shares, FirstOf
<1>2. /\ Shares(c1, st) /\ Len(c1) = Len(circ) /\ c1[1].qubits = top
      /\ c1[main].qubits = top /\ c1[no].qubits = top
      /\ {main, yes, no} \subseteq 1..Len(c1)
  BY <1>1, SharesExtended
<1> HIDE DEF c1
<1>3. /\ Shares(c2, st) /\ Len(c2) = Len(circ) /\ c2[1].qubits = top
      /\ c2[main].qubits = top /\ {main, yes, no} \subseteq 1..Len(c2)
  <2>1. c1[no].qubits = c1[1].qubits /\ main \in 1..Len(c1) /\ no \in 1..Len(c1)
    BY <1>2
  <2>2. /\ Shares(c2, st) /\ Len(c2) = Len(c1) /\ c2[1].qubits = c1[1].qubits
        /\ c2[main].qubits \in {c1[main].qubits, c1[1].qubits}
    BY <1>2, <2>1, SharesExtended
  <2> QED
    BY <1>2, <2>2
<1> HIDE DEF c2
<1>4. /\ Shares(c3, st) /\ Len(c3) = Len(circ) /\ c3[1].qubits = top
      /\ c3[main].qubits = top /\ {main, yes, no} \subseteq 1..Len(c3)
  <2>1. c2[main].qubits = c2[1].qubits /\ main \in 1..Len(c2) /\ yes \in 1..Len(c2)
    BY <1>3
  <2>2. /\ Shares(c3, st) /\ Len(c3) = Len(c2) /\ c3[1].qubits = c2[1].qubits
        /\ c3[main].qubits \in {c2[main].qubits, c2[1].qubits}
    BY <1>3, <2>1, SharesExtended
  <2> QED
    BY <1>3, <2>2
<1> HIDE DEF c3
<1>5. Shares(c4, st) /\ Len(c4) = Len(circ) /\ c4[1].qubits = top
  <2>1. c3[main].qubits = c3[1].qubits /\ main \in 1..Len(c3) /\ no \in 1..Len(c3)
    BY <1>4
  <2> QED
    BY <1>4, <2>1, SharesExtended
<1> QED
  BY <1>5 DEF Synced, c1, c2, c3

(* declare_variable: a circuit gets classical bits.                        *)
LEMMA SharesDeclared ==
  ASSUME NEW cs, NEW st, Shares(cs, st), NEW c \in 1..Len(cs), NEW new \in Bits
  PROVE  Shares([cs EXCEPT ![c].clbits = @ \o new], st)
<1> DEFINE bits == cs[c].clbits \o new
           ds == [cs EXCEPT ![c] = [cs[c] EXCEPT !.clbits = bits]]
<1>1. cs \in Seq(Circuits) /\ cs[c] \in Circuits /\ 1 \in 1..Len(cs)
  BY DEF Shares
<1>2. bits \in Bits
  BY <1>1, BitsConcat DEF Circuits
<1> HIDE DEF bits
<1>3. /\ [cs[c] EXCEPT !.clbits = bits] \in Circuits
      /\ [cs[c] EXCEPT !.clbits = bits].qubits = cs[c].qubits
  BY <1>1, <1>2 DEF Circuits
<1>4. ds \in Seq(Circuits) /\ Len(ds) = Len(cs)
      /\ \A d \in 1..Len(cs) : ds[d].qubits = cs[d].qubits
  BY <1>1, <1>3
<1>5. Shares(ds, st)
  BY <1>1, <1>4, SharesOfSameQubits
<1> QED
  BY <1>5 DEF bits

(* Wrapping a block appends its instruction, or raises.                    *)
LEMMA SharesWrapped ==
  ASSUME NEW cs, NEW st, Shares(cs, st), Shares(circ, st),
         NEW main \in 1..Len(cs), NEW op \in Operations,
         NEW bodies \in Seq(Nat), Frame.cond \in Nat,
         Wrap(cs, main, op, bodies), pc \in Nat
  PROVE  /\ Shares(circ', st) /\ pc' \in Nat /\ Len(circ') \in {Len(circ), Len(cs)}
         /\ circ'[1].qubits \in {circ[1].qubits, cs[1].qubits}
<1> DEFINE new == Instruction(op, cs[main].qubits, cs[main].clbits, bodies, Frame.cond)
<1>1. new \in Instructions
  <2>1. cs[main] \in Circuits
    BY DEF Shares
  <2> QED
    BY <2>1 DEF Instruction, Instructions, Circuits
<1>2. CASE ~Fits(cs, main, bodies)
  BY <1>2 DEF Wrap
<1>3. CASE Fits(cs, main, bodies)
  <2>1. circ' = Appended(cs, main, new) /\ pc' = pc + 1
    BY <1>3 DEF Wrap, GoOn
  <2>2. Len(Appended(cs, main, new)) = Len(cs)
    BY DEF Appended, Shares
  <2> QED
    BY <1>1, <2>1, <2>2, SharesAppended
<1> QED
  BY <1>2, <1>3

-----------------------------------------------------------------------------
(* The blocks open and the circuits on the stack: at leads from each block *)
(* to its circuit, and a loop visited in place has none of its own.  The   *)
(* circuit of a branch's first body is older than that of its second.      *)
Placed(fs, st, at) ==
  /\ at \in [1..Len(fs) -> 1..Len(st)]
  /\ at[1] = 1 /\ at[Len(fs)] = Len(st)
  /\ \A i \in 2..Len(fs) :
       at[i] = at[i - 1] + (IF fs[i].kind = "unroll" THEN 0 ELSE 1)
  /\ \A i, j \in 1..Len(fs) : i <= j => at[i] <= at[j]
  /\ \A i \in 1..Len(fs) :
       /\ fs[i].kind = "program" <=> i = 1
       /\ fs[i].kind = "false" => fs[i].other \in 1..(st[at[i]] - 1)

Framed(fs, st) ==
  /\ fs \in Seq(Blocks) /\ Len(fs) > 0
  /\ st \in Seq(Nat) /\ Len(st) > 0
  /\ \E at : Placed(fs, st, at)

(* A block is opened, with a circuit of its own or in place.               *)
LEMMA PlacedOpen ==
  ASSUME NEW fs, NEW st, Framed(fs, st), NEW at, Placed(fs, st, at),
         NEW b \in Blocks, b.kind # "program",
         NEW tt \in Seq(Nat),
         Len(tt) = Len(st) + (IF b.kind = "unroll" THEN 0 ELSE 1),
         \A i \in 1..Len(st) : tt[i] = st[i],
         b.kind = "false" => b.other \in 1..(tt[Len(tt)] - 1)
  PROVE  \E to : /\ Placed(Append(fs, b), tt, to) /\ to[Len(fs) + 1] = Len(tt)
                 /\ \A i \in 1..Len(fs) : to[i] = at[i]
<1> DEFINE gs == Append(fs, b)
<1>1. Placed(fs, st, at)
  OBVIOUS
<1>2. /\ fs \in Seq(Blocks) /\ st \in Seq(Nat) /\ Len(fs) \in Nat \ {0}
      /\ Len(st) \in Nat \ {0} /\ Len(tt) \in Nat \ {0}
  BY DEF Framed
<1>3. /\ gs \in Seq(Blocks) /\ Len(gs) = Len(fs) + 1 /\ gs[Len(fs) + 1] = b
      /\ \A i \in 1..Len(fs) : gs[i] = fs[i]
  BY <1>2
<1>4. /\ at[1] = 1 /\ at[Len(fs)] = Len(st)
      /\ \A i \in 1..Len(fs) : at[i] \in 1..Len(st) /\ at[i] \in 1..Len(tt)
  <2>1. /\ at[1] = 1 /\ at[Len(fs)] = Len(st)
        /\ \A i \in 1..Len(fs) : at[i] \in 1..Len(st)
    BY <1>1 DEF Placed
  <2>2. 1..Len(st) \subseteq 1..Len(tt)
    BY <1>2
  <2> QED
    BY <2>1, <2>2
<1> HIDE DEF gs
<1> DEFINE to == [i \in 1..(Len(fs) + 1) |-> IF i = Len(fs) + 1 THEN Len(tt) ELSE at[i]]
<1>5. /\ to[Len(fs) + 1] = Len(tt) /\ to[1] = 1
      /\ \A i \in 1..Len(fs) : to[i] = at[i]
  BY <1>2, <1>4
<1>6. to \in [1..(Len(fs) + 1) -> 1..Len(tt)]
  BY <1>2, <1>4
<1>7. \A i \in 1..(Len(fs) + 1) : i = Len(fs) + 1 \/ i \in 1..Len(fs)
  BY <1>2
<1> HIDE DEF to
<1>8. ASSUME NEW i \in 2..(Len(fs) + 1)
      PROVE  to[i] = to[i - 1] + (IF gs[i].kind = "unroll" THEN 0 ELSE 1)
  <2>1. CASE i = Len(fs) + 1
    <3>1. i - 1 = Len(fs) /\ Len(fs) \in 1..Len(fs)
      BY <1>2, <2>1
    <3>2. to[i - 1] = Len(st) /\ to[i] = Len(tt) /\ gs[i] = b
      BY <1>3, <1>4, <1>5, <2>1, <3>1
    <3> QED
      BY <3>2
  <2>2. CASE i # Len(fs) + 1
    <3>1. i \in 2..Len(fs) /\ i \in 1..Len(fs) /\ i - 1 \in 1..Len(fs)
      BY <1>2, <2>2
    <3>2. to[i] = at[i] /\ to[i - 1] = at[i - 1] /\ gs[i] = fs[i]
      BY <1>3, <1>5, <3>1
    <3> QED
      BY <1>1, <3>1, <3>2 DEF Placed
  <2> QED
    BY <2>1, <2>2
<1>9. ASSUME NEW i \in 1..(Len(fs) + 1), NEW j \in 1..(Len(fs) + 1), i <= j
      PROVE  to[i] <= to[j]
  <2>1. CASE j = Len(fs) + 1
    <3>1. to[i] \in 1..Len(tt)
      BY <1>6
    <3> QED
      BY <1>2, <1>5, <2>1, <3>1
  <2>2. CASE j # Len(fs) + 1
    <3>1. i \in 1..Len(fs) /\ j \in 1..Len(fs)
      BY <1>2, <1>9, <2>2
    <3> QED
      BY <1>1, <1>5, <1>9, <3>1 DEF Placed
  <2> QED
    BY <2>1, <2>2
<1>10. ASSUME NEW i \in 1..(Len(fs) + 1)
       PROVE  /\ gs[i].kind = "program" <=> i = 1
              /\ gs[i].kind = "false" => gs[i].other \in 1..(tt[to[i]] - 1)
  <2>1. CASE i = Len(fs) + 1
    BY <1>2, <1>3, <1>5, <2>1
  <2>2. CASE i # Len(fs) + 1
    <3>1. i \in 1..Len(fs) /\ gs[i] = fs[i] /\ to[i] = at[i]
      BY <1>3, <1>5, <1>7, <2>2
    <3>2. tt[at[i]] = st[at[i]]
      BY <1>4, <3>1
    <3> QED
      BY <1>1, <3>1, <3>2 DEF Placed
  <2> QED
    BY <2>1, <2>2
<1>11. Placed(gs, tt, to)
  BY <1>3, <1>5, <1>6, <1>8, <1>9, <1>10 DEF Placed
<1> QED
  BY <1>5, <1>11 DEF gs

LEMMA FramedOpen ==
  ASSUME NEW fs, NEW st, Framed(fs, st), NEW b \in Blocks, b.kind # "program",
         NEW tt \in Seq(Nat),
         Len(tt) = Len(st) + (IF b.kind = "unroll" THEN 0 ELSE 1),
         \A i \in 1..Len(st) : tt[i] = st[i],
         b.kind = "false" => b.other \in 1..(tt[Len(tt)] - 1)
  PROVE  Framed(Append(fs, b), tt)
<1>1. PICK at : Placed(fs, st, at)
  BY DEF Framed
<1>2. \E to : Placed(Append(fs, b), tt, to)
  BY <1>1, PlacedOpen
<1>3. fs \in Seq(Blocks) /\ Len(st) \in Nat \ {0}
  BY DEF Framed
<1> QED
  BY <1>2, <1>3 DEF Framed

LEMMA FramedPush ==
  ASSUME NEW fs, NEW st, Framed(fs, st), NEW b \in Blocks, NEW n \in Nat,
         b.kind \notin {"program", "unroll"},
         b.kind = "false" => b.other \in 1..(n - 1)
  PROVE  Framed(Append(fs, b), Append(st, n))
<1>1. /\ Append(st, n) \in Seq(Nat) /\ Len(Append(st, n)) = Len(st) + 1
      /\ \A i \in 1..Len(st) : Append(st, n)[i] = st[i]
      /\ Append(st, n)[Len(st) + 1] = n
  BY DEF Framed
<1> QED
  BY <1>1, FramedOpen

LEMMA FramedUnroll ==
  ASSUME NEW fs, NEW st, Framed(fs, st), NEW b \in Blocks, b.kind = "unroll"
  PROVE  Framed(Append(fs, b), st)
<1>1. st \in Seq(Nat) /\ Len(st) = Len(st) + 0
  BY DEF Framed
<1> QED
  BY <1>1, FramedOpen

(* The innermost block ends.                                               *)
LEMMA PlacedPop ==
  ASSUME NEW fs, NEW st, Framed(fs, st), NEW at, Placed(fs, st, at),
         Last(fs).kind # "program"
  PROVE  \E to :
           /\ Len(fs) > 1
           /\ \A i \in 1..(Len(fs) - 1) : to[i] = at[i]
           /\ Last(fs).kind = "unroll" => Placed(Front(fs), st, to)
           /\ Last(fs).kind # "unroll" =>
                Len(st) > 1 /\ Placed(Front(fs), Front(st), to)
           /\ Last(fs).kind = "false" => Last(fs).other \in 1..(Last(st) - 1)
<1> DEFINE gs == Front(fs)
<1>1. Placed(fs, st, at)
  OBVIOUS
<1>2. /\ fs \in Seq(Blocks) /\ st \in Seq(Nat) /\ Len(fs) \in Nat \ {0}
      /\ Len(st) \in Nat \ {0}
  BY DEF Framed
<1>3. Len(fs) > 1
  BY <1>1, <1>2 DEF Placed, Last
<1>4. /\ gs \in Seq(Blocks) /\ Len(gs) = Len(fs) - 1
      /\ \A i \in 1..(Len(fs) - 1) : gs[i] = fs[i]
  BY <1>2, <1>3 DEF Front
<1>5. Last(fs).kind = "false" => Last(fs).other \in 1..(Last(st) - 1)
  BY <1>1, <1>2 DEF Placed, Last
<1> HIDE DEF gs
<1>6. /\ Last(fs) = fs[Len(fs)] /\ Len(fs) \in 2..Len(fs)
      /\ Len(fs) - 1 \in 1..Len(fs) /\ Len(fs) \in 1..Len(fs)
  BY <1>2, <1>3 DEF Last
<1>7. /\ at[Len(fs)] = Len(st)
      /\ at[Len(fs)] = at[Len(fs) - 1]
                         + (IF Last(fs).kind = "unroll" THEN 0 ELSE 1)
      /\ \A i \in 1..Len(fs) : at[i] \in 1..Len(st)
      /\ \A i \in 1..(Len(fs) - 1) : at[i] <= at[Len(fs) - 1]
  <2>1. at[Len(fs)] = Len(st) /\ \A i \in 1..Len(fs) : at[i] \in 1..Len(st)
    BY <1>1 DEF Placed
  <2>2. at[Len(fs)] = at[Len(fs) - 1]
                        + (IF fs[Len(fs)].kind = "unroll" THEN 0 ELSE 1)
    BY <1>1, <1>6 DEF Placed
  <2>3. ASSUME NEW i \in 1..(Len(fs) - 1) PROVE at[i] <= at[Len(fs) - 1]
    <3>1. i \in 1..Len(fs) /\ i <= Len(fs) - 1
      BY <1>2
    <3> QED
      BY <1>1, <1>6, <3>1 DEF Placed
  <2> QED
    BY <1>6, <2>1, <2>2, <2>3
<1> DEFINE to == [i \in 1..Len(gs) |-> at[i]]
<1>8. /\ \A i \in 1..Len(gs) : to[i] = at[i]
      /\ to[1] = 1
      /\ \A i \in 2..Len(gs) :
           to[i] = to[i - 1] + (IF gs[i].kind = "unroll" THEN 0 ELSE 1)
      /\ \A i, j \in 1..Len(gs) : i <= j => to[i] <= to[j]
      /\ \A i \in 1..Len(gs) : gs[i].kind = "program" <=> i = 1
  <2>1. 1 \in 1..Len(gs) /\ Len(gs) \in 1..Len(fs)
    BY <1>2, <1>3, <1>4
  <2>2. \A i \in 1..Len(gs) : i \in 1..Len(fs) /\ gs[i] = fs[i] /\ to[i] = at[i]
    BY <1>2, <1>4
  <2>3. \A i \in 2..Len(gs) : i \in 2..Len(fs) /\ i - 1 \in 1..Len(gs) /\ i \in 1..Len(gs)
    BY <1>2, <1>4
  <2> HIDE DEF to
  <2> QED
    BY <1>1, <2>1, <2>2, <2>3 DEF Placed
<1>9. CASE Last(fs).kind = "unroll"
  <2>1. to[Len(gs)] = Len(st)
    <3>1. to[Len(gs)] = at[Len(fs) - 1] /\ at[Len(fs) - 1] \in 1..Len(st)
      BY <1>2, <1>3, <1>4, <1>6, <1>7
    <3> HIDE DEF to
    <3> QED
      BY <1>7, <1>9, <3>1
  <2>2. to \in [1..Len(gs) -> 1..Len(st)]
    BY <1>2, <1>4, <1>7
  <2>3. \A i \in 1..Len(gs) :
          gs[i].kind = "false" => gs[i].other \in 1..(st[to[i]] - 1)
    BY <1>1, <1>2, <1>4 DEF Placed
  <2>4. Placed(gs, st, to)
    BY <1>8, <2>1, <2>2, <2>3 DEF Placed
  <2> HIDE DEF to
  <2> QED
    BY <1>3, <1>4, <1>5, <1>8, <1>9, <2>4 DEF gs
<1>10. CASE Last(fs).kind # "unroll"
  <2> DEFINE tt == Front(st)
  <2>1. at[Len(fs) - 1] = Len(st) - 1 /\ at[Len(fs) - 1] \in 1..Len(st)
    BY <1>2, <1>6, <1>7, <1>10
  <2>2. Len(st) > 1
    BY <1>2, <2>1
  <2>3. /\ tt \in Seq(Nat) /\ Len(tt) = Len(st) - 1
        /\ \A i \in 1..(Len(st) - 1) : tt[i] = st[i]
    BY <1>2, <2>2 DEF Front
  <2> HIDE DEF tt
  <2>4. \A i \in 1..Len(gs) : at[i] \in 1..Len(tt) /\ tt[at[i]] = st[at[i]]
    <3> SUFFICES ASSUME NEW i \in 1..Len(gs)
                 PROVE  at[i] \in 1..Len(tt) /\ tt[at[i]] = st[at[i]]
      OBVIOUS
    <3>1. i \in 1..Len(fs) /\ i \in 1..(Len(fs) - 1)
      BY <1>2, <1>4
    <3>2. at[i] \in 1..Len(st) /\ at[i] <= Len(st) - 1
      BY <1>7, <2>1, <3>1
    <3>3. at[i] \in 1..(Len(st) - 1)
      BY <1>2, <3>2
    <3> QED
      BY <2>3, <3>3
  <2>5. to \in [1..Len(gs) -> 1..Len(tt)] /\ to[Len(gs)] = Len(tt)
    <3>1. Len(gs) \in 1..Len(gs) /\ Len(gs) = Len(fs) - 1
      BY <1>2, <1>3, <1>4
    <3>2. to[Len(gs)] = Len(tt)
      BY <2>1, <2>3, <3>1
    <3>3. to \in [1..Len(gs) -> 1..Len(tt)]
      BY <2>4
    <3> QED
      BY <3>2, <3>3
  <2>6. ASSUME NEW i \in 1..Len(gs), gs[i].kind = "false"
        PROVE  gs[i].other \in 1..(tt[to[i]] - 1)
    <3>1. i \in 1..Len(fs) /\ gs[i] = fs[i] /\ to[i] = at[i]
      BY <1>2, <1>4, <1>8
    <3>2. fs[i].other \in 1..(st[at[i]] - 1)
      BY <1>1, <2>6, <3>1 DEF Placed
    <3> HIDE DEF to
    <3> QED
      BY <2>4, <3>1, <3>2
  <2>7. Placed(gs, tt, to)
    BY <1>8, <2>5, <2>6 DEF Placed
  <2> HIDE DEF to
  <2> QED
    BY <1>3, <1>4, <1>5, <1>8, <1>10, <2>2, <2>7 DEF gs, tt
<1> QED
  BY <1>9, <1>10

LEMMA FramedPop ==
  ASSUME NEW fs, NEW st, Framed(fs, st), Last(fs).kind # "program"
  PROVE  /\ Len(fs) > 1
         /\ Last(fs).kind = "unroll" => Framed(Front(fs), st)
         /\ Last(fs).kind # "unroll" => Len(st) > 1 /\ Framed(Front(fs), Front(st))
         /\ Last(fs).kind = "false" => Last(fs).other \in 1..(Last(st) - 1)
<1>1. PICK at : Placed(fs, st, at)
  BY DEF Framed
<1>2. PICK to :
        /\ Len(fs) > 1
        /\ Last(fs).kind = "unroll" => Placed(Front(fs), st, to)
        /\ Last(fs).kind # "unroll" =>
             Len(st) > 1 /\ Placed(Front(fs), Front(st), to)
        /\ Last(fs).kind = "false" => Last(fs).other \in 1..(Last(st) - 1)
  BY <1>1, PlacedPop
<1>3. Front(fs) \in Seq(Blocks) /\ Len(Front(fs)) > 0 /\ st \in Seq(Nat) /\ Len(st) > 0
  BY <1>2 DEF Framed, Front
<1>4. Len(st) > 1 => Front(st) \in Seq(Nat) /\ Len(Front(st)) > 0
  BY <1>3 DEF Front
<1> QED
  BY <1>2, <1>3, <1>4 DEF Framed

-----------------------------------------------------------------------------
(* The names that a block has declared have their bits' index.             *)
Named(fs) == \A i \in 1..Len(fs) : DOMAIN fs[i].scope \subseteq DOMAIN offset

SharedInv ==
  /\ Shares(circ, stack) /\ Framed(frames, stack) /\ Named(frames)
  /\ made \in Nat /\ counter \in Int /\ pc \in Nat
  /\ \A name \in DOMAIN offset : offset[name] \in Nat

LEMMA NewBlock ==
  ASSUME NEW kind \in Kinds, NEW first \in Nat, NEW left \in Nat,
         NEW cond \in Nat, NEW other \in Nat, counter \in Int
  PROVE  Block(kind, first, left, cond, other) \in Blocks
<1>1. [name \in {} |-> 0] \in [{} -> Nat] /\ {} \in SUBSET Name
  OBVIOUS
<1>2. [name \in {} |-> 0] \in Scopes
  BY <1>1 DEF Scopes
<1> QED
  BY <1>2 DEF Block, Blocks

LEMMA NamedFront ==
  ASSUME NEW fs \in Seq(Blocks), Len(fs) > 1, Named(fs)
  PROVE  Named(Front(fs))
  BY DEF Named, Front

LEMMA NamedAppend ==
  ASSUME NEW fs \in Seq(Blocks), Named(fs), NEW b \in Blocks, DOMAIN b.scope = {}
  PROVE  Named(Append(fs, b))
  BY DEF Named

(* The innermost block is one of Blocks, and the circuit on top of the     *)
(* stack is in circ, as is the one below.                                  *)
LEMMA FrameFacts ==
  ASSUME SharedInv
  PROVE  /\ frames \in Seq(Blocks) /\ Frame \in Blocks
         /\ Frame.cond \in Nat /\ Frame.left \in Nat /\ Frame.first \in Nat
         /\ stack \in Seq(Nat) /\ Len(circ) \in Nat /\ circ \in Seq(Circuits)
         /\ Active \in 1..Len(circ) /\ circ[Active].qubits = circ[1].qubits
         /\ circ[Active] \in Circuits
<1>1. frames \in Seq(Blocks) /\ Len(frames) \in 1..Len(frames)
  BY DEF SharedInv, Framed
<1>2. Frame \in Blocks
  BY <1>1 DEF Frame, Last
<1>3. /\ stack \in Seq(Nat) /\ Len(circ) \in Nat /\ circ \in Seq(Circuits)
      /\ Active \in 1..Len(circ) /\ circ[Active].qubits = circ[1].qubits
  BY DEF SharedInv, Shares, Active, Last
<1>4. circ[Active] \in Circuits
  BY <1>3
<1> QED
  BY <1>1, <1>2, <1>3, <1>4 DEF Blocks

LEMMA BelowFacts ==
  ASSUME SharedInv, Len(stack) > 1
  PROVE  /\ Shares(circ, Front(stack)) /\ Below \in 1..Len(circ)
         /\ circ[Below].qubits = circ[1].qubits /\ Below < Active
<1>1. Shares(circ, Front(stack)) /\ Below < Active
  BY SharesPopped DEF SharedInv, Below, Active
<1>2. Front(stack) \in Seq(Nat) /\ Len(Front(stack)) \in 1..Len(Front(stack))
  BY <1>1 DEF Shares
<1> QED
  BY <1>1, <1>2 DEF Shares, Below, Last

LEMMA InitShared == Init => SharedInv
<1> SUFFICES ASSUME Init PROVE SharedInv
  OBVIOUS
<1> DEFINE c == [qubits |-> <<>>, clbits |-> <<>>, data |-> <<>>]
           b == [kind |-> "program", first |-> 1, left |-> 0, cond |-> 0,
                 other |-> Nobody, before |-> 0, scope |-> [name \in {} |-> 0]]
<1>1. c \in Circuits /\ c.qubits = <<>>
  BY DEF Circuits, Bits
<1>2. Shares(<<c>>, <<1>>)
  <2>1. FirstOf(c.qubits, c.qubits)
    BY <1>1 DEF FirstOf
  <2> HIDE DEF c
  <2>2. /\ <<c>> \in Seq(Circuits) /\ Len(<<c>>) = 1 /\ <<c>>[1] = c
        /\ <<1>> \in Seq(Nat) /\ Len(<<1>>) = 1 /\ <<1>>[1] = 1
    BY <1>1
  <2> QED
    BY <2>1, <2>2 DEF Shares
<1>3. b \in Blocks /\ b.kind = "program" /\ DOMAIN b.scope = {}
  <2>1. [name \in {} |-> 0] \in [{} -> Nat] /\ {} \in SUBSET Name
    OBVIOUS
  <2>2. [name \in {} |-> 0] \in Scopes
    BY <2>1 DEF Scopes
  <2> QED
    BY <2>2 DEF Blocks, Kinds, Nobody
<1> HIDE DEF b
<1>4. /\ <<b>> \in Seq(Blocks) /\ Len(<<b>>) = 1 /\ <<b>>[1] = b
      /\ <<1>> \in Seq(Nat) /\ Len(<<1>>) = 1
  BY <1>3
<1>5. Placed(<<b>>, <<1>>, [i \in 1..1 |-> 1])
  <2> DEFINE fs == <<b>>
  <2>1. Len(fs) = 1 /\ fs[1].kind = "program"
    BY <1>3, <1>4
  <2> HIDE DEF fs
  <2>2. Placed(fs, <<1>>, [i \in 1..1 |-> 1])
    BY <2>1, <1>4 DEF Placed
  <2> QED
    BY <2>2 DEF fs
<1>6. Framed(<<b>>, <<1>>)
  BY <1>4, <1>5 DEF Framed
<1> QED
  BY <1>2, <1>3, <1>4, <1>6 DEF Init, SharedInv, Named, b

-----------------------------------------------------------------------------
LEMMA OpenKeepsShared ==
  ASSUME SharedInv, NEW kind \in {"true", "while", "probe", "box"},
         NEW left \in Nat, NEW cond \in Nat, Open(kind, left, cond)
  PROVE  SharedInv'
<1> DEFINE b == Block(kind, pc + 1, left, cond, Nobody)
<1>1. b \in Blocks /\ b.kind = kind /\ DOMAIN b.scope = {}
  <2>1. kind \in Kinds /\ pc + 1 \in Nat /\ counter \in Int /\ Nobody \in Nat
    BY DEF SharedInv, Kinds, Nobody
  <2>2. b \in Blocks
    BY <2>1, NewBlock
  <2>3. b.kind = kind /\ DOMAIN b.scope = {}
    BY DEF Block
  <2> QED
    BY <2>2, <2>3
<1> HIDE DEF b
<1>2. /\ circ' = Pushed(circ, stack) /\ stack' = Append(stack, Len(circ) + 1)
      /\ frames' = Append(frames, b) /\ pc' = pc + 1
      /\ UNCHANGED <<made, offset, counter>>
  BY DEF Open, GoOn, b
<1>3. Shares(circ', stack')
  BY <1>2, SharesPushed DEF SharedInv
<1>4. Framed(frames', stack')
  <2>1. /\ Framed(frames, stack) /\ Len(circ) + 1 \in Nat
        /\ b.kind \notin {"program", "unroll", "false"}
    BY <1>1, FrameFacts DEF SharedInv
  <2> QED
    BY <1>1, <1>2, <2>1, FramedPush
<1>5. Named(frames')
  BY <1>1, <1>2, FrameFacts, NamedAppend DEF SharedInv
<1> QED
  BY <1>2, <1>3, <1>4, <1>5 DEF SharedInv, Named

(* A block ends and is wrapped.                                            *)
LEMMA CloseKeepsShared ==
  ASSUME SharedInv, Frame.kind \notin {"program", "unroll"},
         NEW cs, Shares(cs, Front(stack)), Len(cs) = Len(circ),
         NEW op \in Operations, NEW bodies \in Seq(Nat),
         Wrap(cs, Below, op, bodies), Leave, UNCHANGED <<made, offset, counter>>
  PROVE  SharedInv'
<1>1. /\ Len(stack) > 1 /\ Len(frames) > 1
      /\ Framed(Front(frames), Front(stack))
  BY FramedPop DEF SharedInv, Frame
<1>2. /\ Shares(circ, Front(stack)) /\ Below \in 1..Len(cs)
  BY <1>1, BelowFacts
<1>3. Shares(circ', Front(stack)) /\ pc' \in Nat
  BY <1>2, FrameFacts, SharesWrapped DEF SharedInv
<1>4. Named(Front(frames))
  BY <1>1, FrameFacts, NamedFront DEF SharedInv
<1> QED
  BY <1>1, <1>3, <1>4 DEF SharedInv, Named, Leave

-----------------------------------------------------------------------------
LEMMA NewInstruction ==
  ASSUME NEW op \in Operations, NEW on \in Bits, NEW bits \in Bits,
         NEW bodies \in Seq(Nat), NEW cond \in Nat
  PROVE  Instruction(op, on, bits, bodies, cond) \in Instructions
  BY DEF Instruction, Instructions

LEMMA ShortBits ==
  /\ <<>> \in Bits /\ <<>> \in Seq(Nat)
  /\ \A x \in Nat : <<x>> \in Bits /\ <<x>> \in Seq(Nat)
  BY DEF Bits

LEMMA ClbitIsNat ==
  ASSUME SharedInv, NEW name \in DOMAIN offset, HasClbit(name)
  PROVE  ClbitAt(name) \in Nat
<1>1. circ[Active].clbits \in Seq(Nat) /\ offset[name] \in Nat
  BY FrameFacts DEF Circuits, Bits, SharedInv
<1>2. offset[name] + 1 \in 1..Len(circ[Active].clbits)
  BY <1>1 DEF HasClbit
<1> QED
  BY <1>1, <1>2 DEF ClbitAt

LEMMA GateKeepsShared ==
  ASSUME SharedInv, NEW s \in Statements, Gate(s)
  PROVE  SharedInv'
<1> DEFINE cs == WithCapacity(s.q)
           new == Instruction("gate", <<cs[Active].qubits[s.q + 1]>>, <<>>, <<>>, 0)
<1>1. /\ s.q \in Nat /\ circ' = Appended(cs, Active, new)
      /\ made' = made + Missing(s.q) /\ pc' = pc + 1
      /\ UNCHANGED <<stack, offset, counter, frames>>
  BY StatementsAssumption DEF Gate, GoOn
<1>2. /\ Shares(cs, stack) /\ Len(cs) = Len(circ)
      /\ s.q + 1 \in 1..Len(cs[Active].qubits)
  BY <1>1, SharesCapacity DEF SharedInv
<1>3. Active \in 1..Len(cs)
  BY <1>2, FrameFacts
<1>4. new \in Instructions
  <2>1. cs[Active] \in Circuits
    BY <1>2, <1>3 DEF Shares
  <2>2. cs[Active].qubits[s.q + 1] \in Nat
    BY <1>2, <2>1 DEF Circuits, Bits
  <2>3. "gate" \in Operations /\ 0 \in Nat
    BY DEF Operations
  <2> QED
    BY <2>2, <2>3, ShortBits, NewInstruction
<1>5. Shares(circ', stack')
  BY <1>1, <1>2, <1>3, <1>4, SharesAppended
<1>6. Missing(s.q) \in Nat
  <2>1. Len(circ[Active].qubits) \in Nat
    BY FrameFacts DEF Circuits, Bits
  <2> QED
    BY <1>1, <2>1 DEF Missing
<1> QED
  BY <1>1, <1>5, <1>6 DEF SharedInv, Named

LEMMA BarrierKeepsShared ==
  ASSUME SharedInv, NEW s \in Statements, Barrier(s)
  PROVE  SharedInv'
<1> DEFINE new == Instruction("barrier", <<>>, <<>>, <<>>, 0)
<1>1. CASE circ[Active].qubits = <<>>
  BY <1>1 DEF Barrier, Raise, SharedInv, Named
<1>2. CASE circ[Active].qubits # <<>>
  <2>1. new \in Instructions
    <3>1. "barrier" \in Operations /\ 0 \in Nat
      BY DEF Operations
    <3> QED
      BY <3>1, ShortBits, NewInstruction
  <2>2. /\ circ' = Appended(circ, Active, new) /\ pc' = pc + 1
        /\ UNCHANGED <<stack, made, offset, counter, frames>>
    BY <1>2 DEF Barrier, GoOn
  <2>3. Shares(circ', stack')
    BY <2>1, <2>2, FrameFacts, SharesAppended DEF SharedInv
  <2> QED
    BY <2>2, <2>3 DEF SharedInv, Named
<1> QED
  BY <1>1, <1>2

(* A declaration adds a name to the innermost block's scope.               *)
DeclaredScope(name) ==
  [n \in DOMAIN Frame.scope \cup {name} |->
     IF n = name THEN made + 1 ELSE Frame.scope[n]]

LEMMA DeclareFacts ==
  ASSUME SharedInv, NEW s \in Statements, Declare(s)
  PROVE  /\ s.name \in Name /\ Size[s.name] \in Nat \ {0} /\ made \in Nat
         /\ circ' = [circ EXCEPT ![Active].clbits = @ \o New(Size[s.name])]
         /\ frames' \in Seq(Blocks) /\ Len(frames') = Len(frames)
         /\ \A i \in 1..Len(frames) :
              /\ frames'[i].kind = frames[i].kind
              /\ frames'[i].other = frames[i].other
              /\ frames'[i].first = frames[i].first
              /\ frames'[i].before = frames[i].before
         /\ \A i \in 1..Len(frames) :
              i # Len(frames) => frames'[i].scope = frames[i].scope
         /\ frames'[Len(frames)].scope = DeclaredScope(s.name)
         /\ Len(frames) \in 1..Len(frames) /\ frames[Len(frames)] = Frame
         /\ \A at : Placed(frames, stack, at) => Placed(frames', stack, at)
<1> DEFINE name == s.name
           last == Len(frames)
           scope == DeclaredScope(name)
<1>1. /\ name \in Name
      /\ frames' = [frames EXCEPT ![last].scope =
                      [n \in DOMAIN @ \cup {name} |->
                         IF n = name THEN made + 1 ELSE @[n]]]
      /\ circ' = [circ EXCEPT ![Active].clbits = @ \o New(Size[name])]
  <2>1. s.do = "bit"
    BY DEF Declare
  <2>2. name \in Name
    BY <2>1, StatementsAssumption
  <2> QED
    BY <2>2 DEF Declare
<1>2. Size[name] \in Nat \ {0} /\ made \in Nat
  BY <1>1, SizeAssumption DEF SharedInv
<1>5. /\ frames \in Seq(Blocks) /\ last \in 1..last /\ frames[last] = Frame
      /\ frames[last] \in Blocks
  BY FrameFacts DEF SharedInv, Framed, Frame, Last
<1>6. scope \in Scopes
  <2>1. PICK names \in SUBSET Name : Frame.scope \in [names -> Nat]
    BY <1>5 DEF Blocks, Scopes
  <2>2. scope \in [names \cup {name} -> Nat] /\ names \cup {name} \in SUBSET Name
    BY <1>1, <1>2, <2>1 DEF DeclaredScope
  <2> QED
    BY <2>2 DEF Scopes
<1>7. frames' = [frames EXCEPT ![last] = [frames[last] EXCEPT !.scope = scope]]
  BY <1>1, <1>5 DEF Blocks, DeclaredScope
<1> HIDE DEF scope, last
<1>8. /\ [frames[last] EXCEPT !.scope = scope] \in Blocks
      /\ [frames[last] EXCEPT !.scope = scope].kind = frames[last].kind
      /\ [frames[last] EXCEPT !.scope = scope].other = frames[last].other
      /\ [frames[last] EXCEPT !.scope = scope].first = frames[last].first
      /\ [frames[last] EXCEPT !.scope = scope].before = frames[last].before
      /\ [frames[last] EXCEPT !.scope = scope].scope = scope
  BY <1>5, <1>6 DEF Blocks
<1> DEFINE b == [frames[last] EXCEPT !.scope = scope]
<1> HIDE DEF b
<1>9. /\ frames' \in Seq(Blocks) /\ Len(frames') = Len(frames)
      /\ frames'[last] = b
      /\ \A i \in 1..Len(frames) : i # last => frames'[i] = frames[i]
  <2>1. b \in Blocks /\ frames' = [frames EXCEPT ![last] = b]
        /\ last \in 1..Len(frames)
    BY <1>5, <1>7, <1>8 DEF b, last
  <2> QED
    BY <1>5, <2>1
<1>10. /\ \A i \in 1..Len(frames) :
            /\ frames'[i].kind = frames[i].kind
            /\ frames'[i].other = frames[i].other
            /\ frames'[i].first = frames[i].first
            /\ frames'[i].before = frames[i].before
       /\ \A i \in 1..Len(frames) : i # last => frames'[i].scope = frames[i].scope
       /\ frames'[last].scope = scope
  BY <1>8, <1>9 DEF b
<1>11. ASSUME NEW at, Placed(frames, stack, at) PROVE Placed(frames', stack, at)
  <2>1. /\ at \in [1..Len(frames') -> 1..Len(stack)]
        /\ at[1] = 1 /\ at[Len(frames')] = Len(stack)
        /\ \A i, j \in 1..Len(frames') : i <= j => at[i] <= at[j]
    BY <1>9, <1>11 DEF Placed
  <2>2. \A i \in 2..Len(frames') :
          at[i] = at[i - 1] + (IF frames'[i].kind = "unroll" THEN 0 ELSE 1)
    <3>1. 2..Len(frames) \subseteq 1..Len(frames)
      BY <1>5
    <3> QED
      BY <1>9, <1>10, <1>11, <3>1 DEF Placed
  <2>3. \A i \in 1..Len(frames') :
          /\ frames'[i].kind = "program" <=> i = 1
          /\ frames'[i].kind = "false" => frames'[i].other \in 1..(stack[at[i]] - 1)
    BY <1>9, <1>10, <1>11 DEF Placed
  <2> QED
    BY <2>1, <2>2, <2>3 DEF Placed
<1> QED
  BY <1>1, <1>2, <1>5, <1>9, <1>10, <1>11 DEF last, scope

LEMMA DeclareKeepsShared ==
  ASSUME SharedInv, NEW s \in Statements, Declare(s)
  PROVE  SharedInv'
<1> DEFINE name == s.name
           last == Len(frames)
<1>1. /\ offset' = [n \in DOMAIN offset \cup {name} |->
                      IF n = name THEN FirstClbit ELSE offset[n]]
      /\ made' = made + Size[name] /\ pc' = pc + 1
      /\ UNCHANGED <<stack, counter>>
  BY DEF Declare, GoOn
<1>2. /\ Size[name] \in Nat /\ made \in Nat
      /\ circ' = [circ EXCEPT ![Active].clbits = @ \o New(Size[name])]
      /\ frames' \in Seq(Blocks) /\ Len(frames') = Len(frames)
      /\ \A i \in 1..Len(frames) : i # last => frames'[i].scope = frames[i].scope
      /\ frames'[last].scope = DeclaredScope(name) /\ frames[last] = Frame
      /\ \A at : Placed(frames, stack, at) => Placed(frames', stack, at)
  BY DeclareFacts
<1>3. New(Size[name]) \in Bits
  BY <1>2 DEF New, Bits
<1>4. Shares(circ', stack')
  BY <1>1, <1>2, <1>3, FrameFacts, SharesDeclared DEF SharedInv
<1>5. Framed(frames', stack')
  BY <1>1, <1>2 DEF Framed, SharedInv
<1>6. DOMAIN offset' = DOMAIN offset \cup {name}
  BY <1>1
<1>7. Named(frames)'
  <2>1. DOMAIN DeclaredScope(name) = DOMAIN Frame.scope \cup {name}
    BY DEF DeclaredScope
  <2> HIDE DEF name, last
  <2>2. \A i \in 1..Len(frames) : DOMAIN frames'[i].scope \subseteq DOMAIN offset'
    BY <1>2, <1>6, <2>1 DEF SharedInv, Named
  <2> QED
    BY <1>2, <2>2 DEF Named
<1>8. FirstClbit \in Nat
  BY FrameFacts DEF FirstClbit, Circuits, Bits
<1>9. \A n \in DOMAIN offset' : offset'[n] \in Nat
  BY <1>1, <1>8 DEF SharedInv
<1>10. made' \in Nat /\ counter' \in Int /\ pc' \in Nat
  BY <1>1, <1>2 DEF SharedInv
<1> QED
  BY <1>4, <1>5, <1>7, <1>9, <1>10 DEF SharedInv

LEMMA MeasureKeepsShared ==
  ASSUME SharedInv, NEW s \in Statements, Measure(s)
  PROVE  SharedInv'
<1> DEFINE cs == WithCapacity(s.q)
           on == <<cs[Active].qubits[s.q + 1]>>
           bits == <<ClbitAt(s.name)>>
           new == Instruction("measure", on, bits, <<>>, 0)
<1>1. CASE s.name \notin DOMAIN offset \/ ~HasClbit(s.name)
  BY <1>1 DEF Measure, Raise, SharedInv, Named
<1>2. CASE s.name \in DOMAIN offset /\ HasClbit(s.name)
  <2>1. /\ s.q \in Nat /\ circ' = Appended(cs, Active, new)
        /\ made' = made + Missing(s.q) /\ pc' = pc + 1
        /\ UNCHANGED <<stack, offset, counter, frames>>
    <3>1. s.do = "measure"
      BY DEF Measure
    <3>2. s.q \in Nat
      BY <3>1, StatementsAssumption
    <3> QED
      BY <1>2, <3>2 DEF Measure, GoOn
  <2>2. /\ Shares(cs, stack) /\ Len(cs) = Len(circ)
        /\ s.q + 1 \in 1..Len(cs[Active].qubits)
    BY <2>1, SharesCapacity DEF SharedInv
  <2>3. Active \in 1..Len(cs)
    BY <2>2, FrameFacts
  <2>4. on \in Bits
    <3>1. cs[Active] \in Circuits
      BY <2>2, <2>3 DEF Shares
    <3>2. cs[Active].qubits[s.q + 1] \in Nat
      BY <2>2, <3>1 DEF Circuits, Bits
    <3> QED
      BY <3>2, ShortBits
  <2>5. bits \in Bits
    BY <1>2, ClbitIsNat, ShortBits
  <2>6. new \in Instructions
    <3>1. "measure" \in Operations /\ 0 \in Nat
      BY DEF Operations
    <3> QED
      BY <2>4, <2>5, <3>1, ShortBits, NewInstruction
  <2>7. Shares(circ', stack')
    BY <2>1, <2>2, <2>3, <2>6, SharesAppended
  <2>8. Missing(s.q) \in Nat
    <3>1. Len(circ[Active].qubits) \in Nat
      BY FrameFacts DEF Circuits, Bits
    <3> QED
      BY <2>1, <3>1 DEF Missing
  <2> QED
    BY <2>1, <2>7, <2>8 DEF SharedInv, Named
<1> QED
  BY <1>1, <1>2

LEMMA AssignKeepsShared ==
  ASSUME SharedInv, NEW s \in Statements, Assign(s)
  PROVE  SharedInv'
<1>1. frames \in Seq(Blocks) /\ counter \in Int
  BY DEF SharedInv, Framed
<1>2. ASSUME NEW i \in Innermost PROVE Index(frames[i]) \in Int
  <2>1. frames[i] \in Blocks
    BY <1>1 DEF Innermost
  <2> QED
    BY <2>1 DEF Index, Blocks
<1>3. counter' \in Int
  BY <1>1, <1>2 DEF Assign
<1> QED
  BY <1>3 DEF Assign, GoOn, SharedInv, Named

-----------------------------------------------------------------------------
LEMMA OpenConditionalKeepsShared ==
  ASSUME SharedInv, NEW s \in Statements, OpenConditional(s)
  PROVE  SharedInv'
<1>1. CASE ~HasClbit(s.name)
  BY <1>1 DEF OpenConditional, Raise, SharedInv, Named
<1>2. CASE HasClbit(s.name)
  <2>1. s.name \in DOMAIN offset
    <3>1. Visible(s.name)
      BY DEF OpenConditional
    <3>2. PICK i \in DOMAIN frames : s.name \in DOMAIN frames[i].scope
      BY <3>1 DEF Visible, Depths
    <3>3. i \in 1..Len(frames)
      BY <3>2, FrameFacts
    <3> QED
      BY <3>2, <3>3 DEF SharedInv, Named
  <2>2. ClbitAt(s.name) \in Nat
    BY <1>2, <2>1, ClbitIsNat
  <2>3. Open(IF s.do = "if" THEN "true" ELSE "while", 0, ClbitAt(s.name))
    BY <1>2 DEF OpenConditional
  <2>4. CASE s.do = "if"
    <3>1. Open("true", 0, ClbitAt(s.name))
      BY <2>3, <2>4
    <3> QED
      BY <2>2, <3>1, OpenKeepsShared
  <2>5. CASE s.do # "if"
    <3>1. Open("while", 0, ClbitAt(s.name))
      BY <2>3, <2>5
    <3> QED
      BY <2>2, <3>1, OpenKeepsShared
  <2> QED
    BY <2>4, <2>5
<1> QED
  BY <1>1, <1>2

LEMMA OpenLoopKeepsShared ==
  ASSUME SharedInv, NEW s \in Statements, OpenLoop(s)
  PROVE  SharedInv'
<1>1. Open("probe", s.n, 0) /\ s.n \in Nat
  BY StatementsAssumption DEF OpenLoop
<1> QED
  BY <1>1, OpenKeepsShared

LEMMA OpenBoxKeepsShared ==
  ASSUME SharedInv, NEW s \in Statements, OpenBox(s)
  PROVE  SharedInv'
<1>1. CASE inVerbatim
  BY <1>1 DEF OpenBox, Raise, SharedInv, Named
<1>2. CASE ~inVerbatim
  <2>1. Open("box", 0, 0)
    BY <1>2 DEF OpenBox
  <2> QED
    BY <2>1, OpenKeepsShared
<1> QED
  BY <1>1, <1>2

-----------------------------------------------------------------------------
(* The `if` block ends: its circuit makes way for that of the `else` one.  *)
LEMMA EndTrueKeepsShared ==
  ASSUME SharedInv, EndTrue
  PROVE  SharedInv'
<1> DEFINE b == Block("false", pc + 1, 0, Frame.cond, Active)
<1>1. /\ Frame.kind = "true"
      /\ circ' = Pushed(circ, Front(stack))
      /\ stack' = Append(Front(stack), Len(circ) + 1)
      /\ frames' = Append(Front(frames), b)
      /\ pc' = pc + 1 /\ UNCHANGED <<made, offset, counter>>
  BY DEF EndTrue, End, GoOn
<1>2. /\ Len(stack) > 1 /\ Len(frames) > 1
      /\ Framed(Front(frames), Front(stack))
  BY <1>1, FramedPop DEF SharedInv, Frame
<1>3. Shares(circ', stack')
  <2>1. Shares(circ, Front(stack))
    BY <1>2, BelowFacts
  <2> QED
    BY <1>1, <2>1, SharesPushed
<1>4. b \in Blocks /\ b.kind = "false" /\ b.other = Active /\ DOMAIN b.scope = {}
  <2>1. /\ "false" \in Kinds /\ pc + 1 \in Nat /\ 0 \in Nat
        /\ Frame.cond \in Nat /\ Active \in Nat /\ counter \in Int
    BY FrameFacts DEF SharedInv, Kinds
  <2>2. b \in Blocks
    BY <2>1, NewBlock
  <2>3. b.kind = "false" /\ b.other = Active /\ DOMAIN b.scope = {}
    BY DEF Block
  <2> QED
    BY <2>2, <2>3
<1> HIDE DEF b
<1>5. Framed(frames', stack')
  <2>1. /\ Len(circ) + 1 \in Nat /\ b.other \in 1..((Len(circ) + 1) - 1)
        /\ b.kind \notin {"program", "unroll"}
    BY <1>4, FrameFacts
  <2> QED
    BY <1>1, <1>2, <1>4, <2>1, FramedPush
<1>6. Named(Append(Front(frames), b))
  <2>1. Named(Front(frames)) /\ Front(frames) \in Seq(Blocks)
    BY <1>2, FrameFacts, NamedFront DEF SharedInv, Framed
  <2> QED
    BY <1>4, <2>1, NamedAppend
<1> QED
  BY <1>1, <1>3, <1>5, <1>6 DEF SharedInv, Named

(* The branch is complete, and becomes an instruction.                     *)
LEMMA EndFalseKeepsShared ==
  ASSUME SharedInv, EndFalse
  PROVE  SharedInv'
<1> DEFINE yes == Frame.other
           bodies == IF circ[Active].data = <<>> THEN <<yes>> ELSE <<yes, Active>>
           cs == Synced(Below, yes, Active)
<1>1. /\ Frame.kind = "false" /\ Wrap(cs, Below, "if", bodies) /\ Leave
      /\ UNCHANGED <<made, offset, counter>>
  BY DEF EndFalse, End
<1>2. Len(stack) > 1 /\ yes \in 1..(Active - 1)
  BY <1>1, FramedPop DEF SharedInv, Frame, Active
<1>3. yes \in 1..Len(circ) /\ yes \in Nat /\ Active \in 1..Len(circ)
      /\ Active \in Nat
  BY <1>2, FrameFacts
<1>4. /\ Shares(circ, Front(stack)) /\ Below \in 1..Len(circ)
      /\ circ[Below].qubits = circ[1].qubits
  BY <1>2, BelowFacts
<1>5. Shares(cs, Front(stack)) /\ Len(cs) = Len(circ)
  BY <1>3, <1>4, FrameFacts, SharesSynced
<1>6. bodies \in Seq(Nat)
  <2>1. <<yes>> \in Seq(Nat) /\ <<yes, Active>> \in Seq(Nat)
    BY <1>3
  <2> QED
    BY <2>1
<1>7. "if" \in Operations /\ Frame.kind \notin {"program", "unroll"}
  BY <1>1 DEF Operations
<1> HIDE DEF cs, bodies, yes
<1> QED
  BY <1>1, <1>5, <1>6, <1>7, CloseKeepsShared

(* A loop's body is visited once more.                                     *)
LEMMA AgainFacts ==
  ASSUME SharedInv, Len(frames) > 1, NEW kind \in {"unroll", "body"},
         NEW left \in Nat, Again(kind, left)
  PROVE  /\ \E b \in Blocks :
              /\ b.kind = kind /\ b.first = Frame.first /\ b.before = counter
              /\ DOMAIN b.scope = {} /\ frames' = Append(Front(frames), b)
         /\ Front(frames) \in Seq(Blocks) /\ pc' \in Nat
         /\ UNCHANGED offset => Named(frames)'
<1> DEFINE b == Block(kind, Frame.first, left, 0, Nobody)
<1>1. frames' = Append(Front(frames), b) /\ pc' = Frame.first
  BY DEF Again
<1>2. b \in Blocks
  <2>1. /\ kind \in Kinds /\ Frame.first \in Nat /\ 0 \in Nat /\ counter \in Int
        /\ Nobody \in Nat
    BY FrameFacts DEF SharedInv, Kinds, Nobody
  <2> QED
    BY <2>1, NewBlock
<1>3. /\ b.kind = kind /\ DOMAIN b.scope = {} /\ b.first = Frame.first
      /\ b.before = counter
  BY DEF Block
<1> HIDE DEF b
<1>4. Front(frames) \in Seq(Blocks)
  <2>1. frames \in Seq(Blocks)
    BY FrameFacts
  <2> QED
    BY <2>1 DEF Front
<1>5. Named(Append(Front(frames), b))
  <2>1. Named(Front(frames))
    BY FrameFacts, NamedFront DEF SharedInv
  <2> QED
    BY <1>2, <1>3, <1>4, <2>1, NamedAppend
<1>6. UNCHANGED offset => Named(frames)'
  BY <1>1, <1>5 DEF Named
<1> QED
  BY <1>1, <1>2, <1>3, <1>4, <1>6, FrameFacts

LEMMA EndProbeKeepsShared ==
  ASSUME SharedInv, EndProbe
  PROVE  SharedInv'
<1>1. Frame.kind = "probe" /\ UNCHANGED <<made, offset, counter>>
  BY DEF EndProbe, End
<1>2. /\ Len(stack) > 1 /\ Len(frames) > 1
      /\ Framed(Front(frames), Front(stack))
  BY <1>1, FramedPop DEF SharedInv, Frame
<1>3. Shares(Dropped, Front(stack)) /\ Len(Dropped) + 1 = Active
  <2>1. Shares(Dropped, Front(stack))
    BY <1>2, SharesDropped DEF SharedInv, Dropped, Active
  <2>2. Active \in 1..Len(circ) /\ circ \in Seq(Circuits) /\ Len(circ) \in Nat
    BY FrameFacts
  <2>3. Len(Dropped) = Active - 1
    BY <2>2 DEF Dropped
  <2> QED
    BY <2>1, <2>2, <2>3
<1>4. CASE circ[Active].data = <<>> /\ Frame.left > 1
  <2>1. /\ circ' = Dropped /\ stack' = Front(stack)
        /\ Again("unroll", Frame.left - 2)
    BY <1>4 DEF EndProbe
  <2>2. Frame.left - 2 \in Nat
    BY <1>4, FrameFacts
  <2>3. /\ \E b \in Blocks : b.kind = "unroll" /\ frames' = Append(Front(frames), b)
        /\ pc' \in Nat /\ Named(frames)'
    BY <1>1, <1>2, <2>1, <2>2, AgainFacts
  <2>4. Framed(frames', stack')
    BY <1>2, <2>1, <2>3, FramedUnroll
  <2> QED
    BY <1>1, <1>3, <2>1, <2>3, <2>4 DEF SharedInv
<1>5. CASE circ[Active].data = <<>> /\ ~(Frame.left > 1)
  <2>1. /\ circ' = Dropped /\ stack' = Front(stack)
        /\ frames' = Front(frames) /\ pc' = pc + 1
    BY <1>5 DEF EndProbe, GoOn
  <2>2. Named(Front(frames))
    BY <1>2, FrameFacts, NamedFront DEF SharedInv
  <2> QED
    BY <1>1, <1>2, <1>3, <2>1, <2>2 DEF SharedInv, Named
<1>6. CASE circ[Active].data # <<>> /\ Modifies(Frame, Front(frames))
  <2>1. UNCHANGED <<circ, stack, frames, pc>>
    BY <1>6 DEF EndProbe
  <2> QED
    BY <1>1, <2>1 DEF SharedInv, Named
<1>7. CASE circ[Active].data # <<>> /\ ~Modifies(Frame, Front(frames))
  <2>1. /\ circ' = Pushed(Dropped, Front(stack))
        /\ stack' = Append(Front(stack), Active) /\ Again("body", 0)
    BY <1>7 DEF EndProbe
  <2>2. /\ \E b \in Blocks : b.kind = "body" /\ frames' = Append(Front(frames), b)
        /\ pc' \in Nat /\ Named(frames)'
    BY <1>1, <1>2, <2>1, AgainFacts
  <2>3. Framed(frames', stack')
    <3>1. Active \in Nat
      BY FrameFacts
    <3> QED
      BY <1>2, <2>1, <2>2, <3>1, FramedPush
  <2>4. Shares(circ', stack')
    BY <1>3, <2>1, SharesPushed
  <2> QED
    BY <1>1, <2>2, <2>3, <2>4 DEF SharedInv
<1> QED
  BY <1>4, <1>5, <1>6, <1>7

LEMMA EndUnrollKeepsShared ==
  ASSUME SharedInv, EndUnroll
  PROVE  SharedInv'
<1>1. /\ Frame.kind = "unroll"
      /\ UNCHANGED <<circ, stack, made, offset, counter>>
  BY DEF EndUnroll, End
<1>2. Len(frames) > 1 /\ Framed(Front(frames), stack)
  BY <1>1, FramedPop DEF SharedInv, Frame
<1>3. CASE Frame.left > 0
  <2>1. Again("unroll", Frame.left - 1) /\ Frame.left - 1 \in Nat
    BY <1>3, FrameFacts DEF EndUnroll
  <2>2. /\ \E b \in Blocks : b.kind = "unroll" /\ frames' = Append(Front(frames), b)
        /\ pc' \in Nat /\ Named(frames)'
    BY <1>1, <1>2, <2>1, AgainFacts
  <2>3. Framed(frames', stack)
    BY <1>2, <2>2, FramedUnroll
  <2> QED
    BY <1>1, <2>2, <2>3 DEF SharedInv
<1>4. CASE ~(Frame.left > 0)
  <2>1. frames' = Front(frames) /\ pc' = pc + 1
    BY <1>4 DEF EndUnroll, GoOn
  <2>2. Named(Front(frames))
    BY <1>2, FrameFacts, NamedFront DEF SharedInv
  <2> QED
    BY <1>1, <1>2, <2>1, <2>2 DEF SharedInv, Named
<1> QED
  BY <1>3, <1>4

(* A loop's body or a box is complete, and becomes an instruction.         *)
LEMMA ExtendedKeepsShared ==
  ASSUME SharedInv, Frame.kind \notin {"program", "unroll"},
         NEW op \in Operations,
         Wrap(ExtendBits(circ, Below, Active), Below, op, <<Active>>), Leave,
         UNCHANGED <<made, offset, counter>>
  PROVE  SharedInv'
<1> DEFINE cs == ExtendBits(circ, Below, Active)
<1>1. Len(stack) > 1
  BY FramedPop DEF SharedInv, Frame
<1>2. Shares(circ, Front(stack)) /\ Below \in 1..Len(circ)
  BY <1>1, BelowFacts
<1>3. Active \in 1..Len(circ) /\ circ[Active].qubits = circ[1].qubits
  BY FrameFacts
<1>4. Shares(cs, Front(stack)) /\ Len(cs) = Len(circ)
  BY <1>2, <1>3, SharesExtended
<1>5. <<Active>> \in Seq(Nat)
  BY <1>3
<1> HIDE DEF cs
<1> QED
  BY <1>4, <1>5, CloseKeepsShared DEF cs

LEMMA EndBodyKeepsShared ==
  ASSUME SharedInv, EndBody
  PROVE  SharedInv'
<1>1. "for" \in Operations /\ Frame.kind \notin {"program", "unroll"}
  BY DEF EndBody, End, Operations
<1> QED
  BY <1>1, ExtendedKeepsShared DEF EndBody

LEMMA EndWhileKeepsShared ==
  ASSUME SharedInv, EndWhile
  PROVE  SharedInv'
<1>1. "while" \in Operations /\ Frame.kind \notin {"program", "unroll"}
  BY DEF EndWhile, End, Operations
<1>2. CASE circ[Active].data = <<>>
  BY <1>2 DEF EndWhile, Raise, SharedInv, Named
<1>3. CASE circ[Active].data # <<>>
  BY <1>1, <1>3, ExtendedKeepsShared DEF EndWhile
<1> QED
  BY <1>2, <1>3

LEMMA EndBoxKeepsShared ==
  ASSUME SharedInv, EndBox
  PROVE  SharedInv'
<1>1. "box" \in Operations /\ Frame.kind \notin {"program", "unroll"}
  BY DEF EndBox, End, Operations
<1> QED
  BY <1>1, ExtendedKeepsShared DEF EndBox

-----------------------------------------------------------------------------
LEMMA SharedIsPrefix == SharedInv => QubitsAreShared
<1> SUFFICES ASSUME SharedInv, NEW c \in DOMAIN circ
             PROVE  IsPrefix(circ[c].qubits, circ[1].qubits)
  BY DEF QubitsAreShared
<1> DEFINE bits == circ[c].qubits
           all == circ[1].qubits
<1>1. c \in 1..Len(circ) /\ 1 \in 1..Len(circ) /\ circ \in Seq(Circuits)
  BY DEF SharedInv, Shares
<1>2. bits \in Bits /\ all \in Bits
  <2>1. circ[c] \in Circuits /\ circ[1] \in Circuits
    BY <1>1
  <2> QED
    BY <2>1 DEF Circuits
<1>3. FirstOf(bits, all)
  BY <1>1 DEF SharedInv, Shares
<1> HIDE DEF bits, all
<1>4. bits = SubSeq(all, 1, Len(bits))
  BY <1>2, <1>3 DEF FirstOf, Bits
<1>5. IsPrefix(bits, all)
  BY <1>2, <1>3, <1>4 DEF IsPrefix, FirstOf
<1> QED
  BY <1>5 DEF bits, all

-----------------------------------------------------------------------------
(* What an action does to a circuit's classical bits and instructions.     *)
LEMMA AppendedFacts ==
  ASSUME NEW cs \in Seq(Circuits), NEW c \in 1..Len(cs),
         NEW instruction \in Instructions
  PROVE  /\ Appended(cs, c, instruction) \in Seq(Circuits)
         /\ Len(Appended(cs, c, instruction)) = Len(cs)
         /\ \A e \in 1..Len(cs) : e # c => Appended(cs, c, instruction)[e] = cs[e]
         /\ \A e \in 1..Len(cs) :
              /\ Appended(cs, c, instruction)[e].qubits = cs[e].qubits
              /\ Appended(cs, c, instruction)[e].clbits = cs[e].clbits
         /\ Appended(cs, c, instruction)[c].data = Append(cs[c].data, instruction)
<1> DEFINE ds == Appended(cs, c, instruction)
           new == [cs[c] EXCEPT !.data = Append(cs[c].data, instruction)]
<1>1. cs[c] \in Circuits
  OBVIOUS
<1>2. Append(cs[c].data, instruction) \in Seq(Instructions)
  BY <1>1 DEF Circuits
<1>3. /\ new \in Circuits /\ new.qubits = cs[c].qubits /\ new.clbits = cs[c].clbits
      /\ new.data = Append(cs[c].data, instruction)
  BY <1>1, <1>2 DEF Circuits
<1>4. ds = [cs EXCEPT ![c] = new]
  BY DEF Appended
<1> HIDE DEF new
<1>5. /\ ds \in Seq(Circuits) /\ Len(ds) = Len(cs) /\ ds[c] = new
      /\ \A e \in 1..Len(cs) : e # c => ds[e] = cs[e]
  BY <1>3, <1>4
<1> HIDE DEF ds
<1> QED
  BY <1>3, <1>5 DEF ds

LEMMA PushedFacts ==
  ASSUME NEW cs, NEW st, Shares(cs, st)
  PROVE  /\ Pushed(cs, st) \in Seq(Circuits) /\ Len(Pushed(cs, st)) = Len(cs) + 1
         /\ \A c \in 1..Len(cs) : Pushed(cs, st)[c] = cs[c]
         /\ Pushed(cs, st)[Len(cs) + 1].clbits = cs[Last(st)].clbits
         /\ Pushed(cs, st)[Len(cs) + 1].qubits = cs[Last(st)].qubits
         /\ Pushed(cs, st)[Len(cs) + 1].data = <<>>
         /\ Last(st) \in 1..Len(cs) /\ Len(cs) \in Nat
<1> DEFINE new == [cs[Last(st)] EXCEPT !.data = <<>>]
<1>1. cs \in Seq(Circuits) /\ Len(cs) \in Nat /\ Last(st) \in 1..Len(cs)
  BY DEF Shares, Last
<1>2. cs[Last(st)] \in Circuits
  BY <1>1
<1>3. /\ new \in Circuits /\ new.data = <<>> /\ new.clbits = cs[Last(st)].clbits
      /\ new.qubits = cs[Last(st)].qubits
  <2>1. <<>> \in Seq(Instructions)
    OBVIOUS
  <2> QED
    BY <1>2, <2>1 DEF Circuits
<1>4. Pushed(cs, st) = Append(cs, new)
  BY DEF Pushed
<1> HIDE DEF new
<1> QED
  BY <1>1, <1>3, <1>4

LEMMA CapacityFacts ==
  ASSUME NEW q \in Nat, made \in Nat, Shares(circ, stack)
  PROVE  \A c \in 1..Len(circ) :
           /\ WithCapacity(q)[c].clbits = circ[c].clbits
           /\ WithCapacity(q)[c].data = circ[c].data
<1> SUFFICES ASSUME NEW c \in 1..Len(circ)
             PROVE  /\ WithCapacity(q)[c].clbits = circ[c].clbits
                    /\ WithCapacity(q)[c].data = circ[c].data
  OBVIOUS
<1>1. circ \in Seq(Circuits) /\ circ[c] \in Circuits /\ c \in DOMAIN circ
  BY DEF Shares
<1>2. WithCapacity(q)[c] =
        IF Grows(c) THEN [circ[c] EXCEPT !.qubits = @ \o New(Missing(q))]
                    ELSE circ[c]
  BY <1>1, Zenon DEF WithCapacity
<1> QED
  BY <1>1, <1>2 DEF Circuits

LEMMA ExtendedFacts ==
  ASSUME NEW cs \in Seq(Circuits), NEW t \in 1..Len(cs), NEW s \in 1..Len(cs)
  PROVE  LET ds == ExtendBits(cs, t, s)
         IN /\ ds \in Seq(Circuits) /\ Len(ds) = Len(cs)
            /\ \A c \in 1..Len(cs) : c # t => ds[c] = cs[c]
            /\ \A c \in 1..Len(cs) : ds[c].data = cs[c].data
            /\ ds[t].clbits = cs[t].clbits \o Beyond(cs[t].clbits, cs[s].clbits)
            /\ ds[t].qubits = cs[t].qubits \o Beyond(cs[t].qubits, cs[s].qubits)
<1> DEFINE qs == cs[t].qubits \o Beyond(cs[t].qubits, cs[s].qubits)
           bs == cs[t].clbits \o Beyond(cs[t].clbits, cs[s].clbits)
           new == [[cs[t] EXCEPT !.qubits = qs] EXCEPT !.clbits = bs]
           ds == ExtendBits(cs, t, s)
<1>1. cs[t] \in Circuits
  OBVIOUS
<1>2. new.clbits = bs /\ new.data = cs[t].data
  <2> HIDE DEF qs, bs
  <2> QED
    BY <1>1 DEF Circuits
<1>3. ds = [cs EXCEPT ![t] = new]
  BY <1>1 DEF ExtendBits, Circuits
<1> HIDE DEF qs, bs, new, ds
<1>4. ds[t] = new
  BY <1>3
<1>5. /\ ds \in Seq(Circuits) /\ Len(ds) = Len(cs)
      /\ \A c \in 1..Len(cs) : c # t => ds[c] = cs[c]
      /\ ds[t].qubits = qs
  BY ExtendedBits DEF ds, qs
<1> QED
  BY <1>2, <1>4, <1>5 DEF ds, bs, qs

(* _extend_bits makes a list as long as the longer of the two.             *)
Longer(m, n) == IF m < n THEN n ELSE m

LEMMA BeyondWidth ==
  ASSUME NEW bits \in Bits, NEW others \in Bits
  PROVE  /\ bits \o Beyond(bits, others) \in Bits
         /\ FirstOf(bits, bits \o Beyond(bits, others))
         /\ Len(bits \o Beyond(bits, others)) = Longer(Len(bits), Len(others))
         /\ Len(bits) \in Nat /\ Len(others) \in Nat
<1> DEFINE more == Beyond(bits, others)
<1>1. Len(bits) \in Nat /\ Len(others) \in Nat
  BY DEF Bits
<1>2. more \in Bits
  BY BeyondIsBits
<1>3. Len(more) = IF Len(bits) < Len(others) THEN Len(others) - Len(bits) ELSE 0
  BY <1>1 DEF Beyond, Bits
<1> HIDE DEF more
<1>4. bits \o more \in Bits /\ Len(bits \o more) = Len(bits) + Len(more)
  BY <1>2, BitsConcat
<1>5. \A i \in 1..Len(bits) : (bits \o more)[i] = bits[i]
  BY <1>2 DEF Bits
<1>6. FirstOf(bits, bits \o more)
  BY <1>1, <1>3, <1>4, <1>5 DEF FirstOf
<1>7. Len(bits \o more) = Longer(Len(bits), Len(others))
  BY <1>1, <1>3, <1>4 DEF Longer
<1> QED
  BY <1>1, <1>4, <1>6, <1>7 DEF more

LEMMA FirstOfTransitive ==
  ASSUME NEW a \in Bits, NEW b \in Bits, NEW c \in Bits, FirstOf(a, b), FirstOf(b, c)
  PROVE  FirstOf(a, c)
<1>1. Len(a) \in Nat /\ Len(b) \in Nat /\ Len(c) \in Nat
  BY DEF Bits
<1> QED
  BY <1>1 DEF FirstOf

LEMMA FirstOfItself ==
  ASSUME NEW a \in Bits
  PROVE  FirstOf(a, a)
  BY DEF FirstOf, Bits

-----------------------------------------------------------------------------
(* Widths.  A circuit on the stack starts with the classical bits of those *)
(* below it, and a branch's first body with those of the circuit the       *)
(* branch is in.  An instruction is as wide as its bodies, which no block  *)
(* that is still open will widen, and which are dropped only together with *)
(* it.                                                                     *)
Nested(cs, st) ==
  \A j, k \in 1..Len(st) : j <= k => FirstOf(cs[st[j]].clbits, cs[st[k]].clbits)

FirstBodies(cs, st, fs, at) ==
  \A i \in 1..Len(fs) : fs[i].kind = "false" =>
    /\ at[i] \in 2..Len(st) /\ st[at[i] - 1] < fs[i].other
    /\ FirstOf(cs[st[at[i] - 1]].clbits, cs[fs[i].other].clbits)

IsOpen(b, st, fs) ==
  \/ \E k \in 1..Len(st) : b = st[k]
  \/ \E i \in 1..Len(fs) : fs[i].kind = "false" /\ b = fs[i].other

OlderThan(c, b, st) == \A k \in 1..Len(st) : c < st[k] => b < st[k]

Body(b, bits, c, cs, st, fs) ==
  /\ b \in 1..Len(cs) /\ Len(bits) = Len(cs[b].clbits)
  /\ ~IsOpen(b, st, fs) /\ OlderThan(c, b, st)

Wrapped(cs, st, fs) ==
  \A c \in 1..Len(cs) : \A i \in 1..Len(cs[c].data) :
    \A m \in 1..Len(cs[c].data[i].bodies) :
      Body(cs[c].data[i].bodies[m], cs[c].data[i].bits, c, cs, st, fs)

Untaken(b, cs) ==
  \A c \in 1..Len(cs) : \A i \in 1..Len(cs[c].data) :
    \A m \in 1..Len(cs[c].data[i].bodies) : cs[c].data[i].bodies[m] # b

LEMMA OpenIsUntaken ==
  ASSUME NEW cs, NEW st, NEW fs, Wrapped(cs, st, fs), NEW b, IsOpen(b, st, fs)
  PROVE  Untaken(b, cs)
  BY DEF Wrapped, Body, Untaken

(* Circuits that are pushed, dropped or given bits: instructions are as    *)
(* wide as their bodies when these stay, and stay as they are.             *)
LEMMA Rewrapped ==
  ASSUME NEW cs, NEW st, NEW fs, Wrapped(cs, st, fs),
         NEW ds, NEW tt, NEW gs,
         \A c \in 1..Len(ds) :
           ds[c].data = <<>> \/ (c \in 1..Len(cs) /\ ds[c].data = cs[c].data),
         ASSUME NEW c \in 1..Len(cs), c \in 1..Len(ds), NEW b \in 1..Len(cs),
                ~IsOpen(b, st, fs), OlderThan(c, b, st), ~Untaken(b, cs)
         PROVE  /\ b \in 1..Len(ds) /\ Len(ds[b].clbits) = Len(cs[b].clbits)
                /\ ~IsOpen(b, tt, gs) /\ OlderThan(c, b, tt)
  PROVE  Wrapped(ds, tt, gs)
<1> SUFFICES ASSUME NEW c \in 1..Len(ds), NEW i \in 1..Len(ds[c].data),
                    NEW m \in 1..Len(ds[c].data[i].bodies)
             PROVE  Body(ds[c].data[i].bodies[m], ds[c].data[i].bits, c, ds, tt, gs)
  BY DEF Wrapped
<1>1. c \in 1..Len(cs) /\ ds[c].data = cs[c].data
  OBVIOUS
<1> DEFINE b == cs[c].data[i].bodies[m]
<1>2. Body(b, cs[c].data[i].bits, c, cs, st, fs)
  BY <1>1 DEF Wrapped
<1>5. ~Untaken(b, cs)
  BY <1>1 DEF Untaken
<1> HIDE DEF b
<1>3. /\ b \in 1..Len(ds) /\ Len(ds[b].clbits) = Len(cs[b].clbits)
      /\ ~IsOpen(b, tt, gs) /\ OlderThan(c, b, tt)
  BY <1>1, <1>2, <1>5 DEF Body
<1>4. Body(b, cs[c].data[i].bits, c, ds, tt, gs)
  BY <1>2, <1>3 DEF Body
<1> QED
  BY <1>1, <1>4 DEF b

(* The same circuits, but wider, unless they are bodies.                   *)
LEMMA WrappedWider ==
  ASSUME NEW cs, NEW st, NEW fs, Wrapped(cs, st, fs), NEW ds, Len(ds) = Len(cs),
         \A c \in 1..Len(cs) : ds[c].data = cs[c].data,
         \A b \in 1..Len(cs) : Untaken(b, cs) \/ ds[b].clbits = cs[b].clbits
  PROVE  Wrapped(ds, st, fs)
  BY Rewrapped

LEMMA WrappedAppended ==
  ASSUME NEW cs \in Seq(Circuits), NEW st, NEW fs, Wrapped(cs, st, fs),
         NEW c \in 1..Len(cs), NEW instr \in Instructions,
         \A m \in 1..Len(instr.bodies) :
           Body(instr.bodies[m], instr.bits, c, cs, st, fs)
  PROVE  Wrapped(Appended(cs, c, instr), st, fs)
<1> DEFINE ds == Appended(cs, c, instr)
<1>1. /\ Len(ds) = Len(cs)
      /\ \A e \in 1..Len(cs) : e # c => ds[e] = cs[e]
      /\ \A e \in 1..Len(cs) : ds[e].clbits = cs[e].clbits
      /\ ds[c].data = Append(cs[c].data, instr)
  BY AppendedFacts
<1> HIDE DEF ds
<1>2. ASSUME NEW b, NEW bits, NEW e, Body(b, bits, e, cs, st, fs)
      PROVE  Body(b, bits, e, ds, st, fs)
  BY <1>1, <1>2 DEF Body
<1>3. SUFFICES ASSUME NEW e \in 1..Len(cs), NEW i \in 1..Len(ds[e].data),
                      NEW m \in 1..Len(ds[e].data[i].bodies)
               PROVE  Body(ds[e].data[i].bodies[m], ds[e].data[i].bits, e, ds, st, fs)
  BY <1>1 DEF Wrapped, ds
<1>4. CASE i \in 1..Len(cs[e].data) /\ ds[e].data[i] = cs[e].data[i]
  <2>1. Body(cs[e].data[i].bodies[m], cs[e].data[i].bits, e, cs, st, fs)
    BY <1>4 DEF Wrapped
  <2> QED
    BY <1>2, <1>4, <2>1
<1>5. CASE e = c /\ i = Len(cs[c].data) + 1
  <2>1. ds[e].data[i] = instr
    <3>1. cs[c] \in Circuits
      OBVIOUS
    <3>2. cs[c].data \in Seq(Instructions)
      BY <3>1 DEF Circuits
    <3> QED
      BY <1>1, <1>5, <3>2
  <2> QED
    BY <1>2, <2>1, <1>5
<1>6. \/ i \in 1..Len(cs[e].data) /\ ds[e].data[i] = cs[e].data[i]
      \/ e = c /\ i = Len(cs[c].data) + 1
  <2>1. CASE e # c
    BY <1>1, <2>1
  <2>2. CASE e = c
    <3>1. cs[c] \in Circuits
      OBVIOUS
    <3>2. cs[c].data \in Seq(Instructions)
      BY <3>1 DEF Circuits
    <3> QED
      BY <1>1, <2>2, <3>2
  <2> QED
    BY <2>1, <2>2
<1> QED
  BY <1>4, <1>5, <1>6

-----------------------------------------------------------------------------
(* The circuits of the stack, one wider or one more.                       *)
LEMMA NestedWider ==
  ASSUME NEW cs \in Seq(Circuits), NEW ds \in Seq(Circuits), Len(ds) = Len(cs),
         NEW st, Shares(cs, st), Nested(cs, st),
         \A c \in 1..Len(cs) : c < Last(st) => ds[c].clbits = cs[c].clbits,
         FirstOf(cs[Last(st)].clbits, ds[Last(st)].clbits)
  PROVE  Nested(ds, st)
<1> SUFFICES ASSUME NEW j \in 1..Len(st), NEW k \in 1..Len(st), j <= k
             PROVE  FirstOf(ds[st[j]].clbits, ds[st[k]].clbits)
  BY DEF Nested
<1>1. /\ st \in Seq(Nat) /\ Len(st) \in 1..Len(st) /\ Last(st) = st[Len(st)]
      /\ st[j] \in 1..Len(cs) /\ st[k] \in 1..Len(cs)
      /\ j < Len(st) => st[j] < Last(st)
      /\ k < Len(st) => st[k] < Last(st)
      /\ Last(st) \in 1..Len(cs)
  BY DEF Shares, Last
<1>2. \A c \in 1..Len(cs) : cs[c].clbits \in Bits /\ ds[c].clbits \in Bits
  <2>1. \A c \in 1..Len(cs) : cs[c] \in Circuits /\ ds[c] \in Circuits
    OBVIOUS
  <2> QED
    BY <2>1 DEF Circuits
<1>3. FirstOf(cs[st[j]].clbits, cs[st[k]].clbits)
  BY DEF Nested
<1>4. CASE k < Len(st)
  BY <1>1, <1>3, <1>4
<1>5. CASE k = Len(st) /\ j < Len(st)
  BY <1>1, <1>2, <1>3, <1>5, FirstOfTransitive
<1>6. CASE k = Len(st) /\ j = Len(st)
  BY <1>1, <1>2, <1>6, FirstOfItself
<1> QED
  BY <1>1, <1>4, <1>5, <1>6

LEMMA NestedFront ==
  ASSUME NEW cs, NEW st \in Seq(Nat), Len(st) > 1, Nested(cs, st)
  PROVE  /\ Nested(cs, Front(st))
         /\ FirstOf(cs[Last(Front(st))].clbits, cs[Last(st)].clbits)
<1>1. /\ Len(Front(st)) = Len(st) - 1
      /\ \A k \in 1..(Len(st) - 1) : Front(st)[k] = st[k]
      /\ \A k \in 1..(Len(st) - 1) : k \in 1..Len(st)
      /\ Len(st) - 1 \in 1..(Len(st) - 1) /\ Len(st) \in 1..Len(st)
      /\ Len(st) - 1 <= Len(st)
  BY DEF Front
<1>2. Nested(cs, Front(st))
  <2> SUFFICES ASSUME NEW j \in 1..Len(Front(st)), NEW k \in 1..Len(Front(st)), j <= k
               PROVE  FirstOf(cs[Front(st)[j]].clbits, cs[Front(st)[k]].clbits)
    BY DEF Nested
  <2>1. j \in 1..Len(st) /\ k \in 1..Len(st) /\ Front(st)[j] = st[j] /\ Front(st)[k] = st[k]
    BY <1>1
  <2>2. FirstOf(cs[st[j]].clbits, cs[st[k]].clbits)
    BY <2>1 DEF Nested
  <2> QED
    BY <2>1, <2>2
<1>3. Last(Front(st)) = st[Len(st) - 1] /\ Last(st) = st[Len(st)]
  BY <1>1 DEF Last
<1> QED
  BY <1>1, <1>2, <1>3 DEF Nested

LEMMA NestedPushed ==
  ASSUME NEW cs, NEW st, Shares(cs, st), Nested(cs, st)
  PROVE  Nested(Pushed(cs, st), Append(st, Len(cs) + 1))
<1> DEFINE ds == Pushed(cs, st)
           tt == Append(st, Len(cs) + 1)
<1>1. /\ \A c \in 1..Len(cs) : ds[c] = cs[c]
      /\ ds[Len(cs) + 1].clbits = cs[Last(st)].clbits
      /\ Len(cs) \in Nat
  BY PushedFacts
<1>2. /\ st \in Seq(Nat) /\ Len(st) \in 1..Len(st) /\ Last(st) = st[Len(st)]
      /\ \A k \in 1..Len(st) : st[k] \in 1..Len(cs)
  BY DEF Shares, Last
<1>3. /\ Len(tt) = Len(st) + 1 /\ tt[Len(st) + 1] = Len(cs) + 1
      /\ \A k \in 1..Len(st) : tt[k] = st[k]
  BY <1>2
<1> HIDE DEF ds, tt
<1>4. SUFFICES ASSUME NEW j \in 1..Len(tt), NEW k \in 1..Len(tt), j <= k
               PROVE  FirstOf(ds[tt[j]].clbits, ds[tt[k]].clbits)
  BY DEF Nested, ds, tt
<1>5. \A i \in 1..Len(tt) : i \in 1..Len(st) \/ i = Len(st) + 1
  BY <1>2, <1>3
<1>6. \A i \in 1..Len(st) : ds[tt[i]].clbits = cs[st[i]].clbits
  BY <1>1, <1>2, <1>3
<1>7. ds[tt[Len(st) + 1]].clbits = cs[st[Len(st)]].clbits
  BY <1>1, <1>2, <1>3
<1>8. CASE k \in 1..Len(st)
  <2>1. j \in 1..Len(st)
    BY <1>2, <1>4, <1>8
  <2> QED
    BY <1>4, <1>6, <1>8, <2>1 DEF Nested
<1>9. CASE k = Len(st) + 1 /\ j \in 1..Len(st)
  <2>1. j <= Len(st) /\ Len(st) \in 1..Len(st)
    BY <1>2, <1>9
  <2>2. FirstOf(cs[st[j]].clbits, cs[st[Len(st)]].clbits)
    BY <1>9, <2>1 DEF Nested
  <2> QED
    BY <1>6, <1>7, <1>9, <2>2
<1>10. CASE k = Len(st) + 1 /\ j = Len(st) + 1
  <2>1. cs[st[Len(st)]].clbits \in Bits
    <3>1. cs[st[Len(st)]] \in Circuits
      BY <1>2 DEF Shares
    <3> QED
      BY <3>1 DEF Circuits
  <2> QED
    BY <1>7, <1>10, <2>1, FirstOfItself
<1> QED
  BY <1>4, <1>5, <1>8, <1>9, <1>10

LEMMA FirstBodiesWider ==
  ASSUME NEW cs, NEW ds, NEW st, NEW fs, NEW at, Shares(cs, st),
         Placed(fs, st, at), FirstBodies(cs, st, fs, at),
         \A c \in 1..Len(cs) : c < Last(st) => ds[c].clbits = cs[c].clbits
  PROVE  FirstBodies(ds, st, fs, at)
<1> SUFFICES ASSUME NEW i \in 1..Len(fs), fs[i].kind = "false"
             PROVE  /\ at[i] \in 2..Len(st) /\ st[at[i] - 1] < fs[i].other
                    /\ FirstOf(ds[st[at[i] - 1]].clbits, ds[fs[i].other].clbits)
  BY DEF FirstBodies
<1>1. /\ at[i] \in 2..Len(st) /\ st[at[i] - 1] < fs[i].other
      /\ FirstOf(cs[st[at[i] - 1]].clbits, cs[fs[i].other].clbits)
      /\ fs[i].other \in 1..(st[at[i]] - 1)
  BY DEF FirstBodies, Placed
<1> DEFINE k == at[i]
           other == fs[i].other
<1>2. /\ st \in Seq(Nat) /\ Len(st) \in Nat \ {0} /\ Len(cs) \in Nat
      /\ \A l \in 1..Len(st) : st[l] \in 1..Len(cs)
      /\ \A l, m \in 1..Len(st) : l < m => st[l] < st[m]
      /\ Last(st) = st[Len(st)]
  BY DEF Shares, Last
<1>3. k \in 2..Len(st) /\ other \in 1..(st[k] - 1)
  BY <1>1
<1> HIDE DEF k, other
<1>4. /\ k \in 1..Len(st) /\ k - 1 \in 1..Len(st) /\ k - 1 < Len(st)
      /\ Len(st) \in 1..Len(st) /\ (k = Len(st) \/ k < Len(st))
  BY <1>2, <1>3
<1>5. /\ st[k - 1] < Last(st) /\ st[k - 1] \in 1..Len(cs)
      /\ st[k] \in 1..Len(cs) /\ (st[k] = Last(st) \/ st[k] < Last(st))
      /\ Last(st) \in 1..Len(cs)
  BY <1>2, <1>4
<1>6. other \in 1..Len(cs) /\ other < Last(st)
  <2>1. st[k] \in Nat /\ Last(st) \in Nat /\ st[k] <= Len(cs) /\ st[k] <= Last(st)
    BY <1>2, <1>5
  <2>2. \A x, l, n \in Nat : \A o \in 1..(x - 1) :
          x <= n /\ x <= l => o \in 1..n /\ o < l
    OBVIOUS
  <2>3. Len(cs) \in Nat
    BY <1>2
  <2> QED
    BY <1>3, <2>1, <2>2, <2>3
<1>7. ds[st[k - 1]].clbits = cs[st[k - 1]].clbits /\ ds[other].clbits = cs[other].clbits
  BY <1>5, <1>6
<1> QED
  BY <1>1, <1>7 DEF k, other

-----------------------------------------------------------------------------
(* The invariant of widths, for any circuits, stack and blocks.            *)
Wraps(cs, st, fs) ==
  /\ Nested(cs, st) /\ Wrapped(cs, st, fs)
  /\ \E at : Placed(fs, st, at) /\ FirstBodies(cs, st, fs, at)

LEMMA OpenAppended ==
  ASSUME NEW st \in Seq(Nat), NEW fs \in Seq(Blocks), NEW n \in Nat,
         NEW blk \in Blocks, NEW b
  PROVE  /\ IsOpen(b, Append(st, n), Append(fs, blk)) =>
              \/ IsOpen(b, st, fs) \/ b = n
              \/ blk.kind = "false" /\ b = blk.other
         /\ IsOpen(b, st, Append(fs, blk)) =>
              IsOpen(b, st, fs) \/ (blk.kind = "false" /\ b = blk.other)
<1>1. \A k \in 1..Len(Append(st, n)) :
        (k \in 1..Len(st) /\ Append(st, n)[k] = st[k]) \/ Append(st, n)[k] = n
  OBVIOUS
<1>2. \A i \in 1..Len(Append(fs, blk)) :
        \/ i \in 1..Len(fs) /\ Append(fs, blk)[i] = fs[i]
        \/ Append(fs, blk)[i] = blk
  OBVIOUS
<1> QED
  BY <1>1, <1>2 DEF IsOpen

LEMMA OpenFront ==
  ASSUME NEW st \in Seq(Nat), Len(st) > 0, NEW fs \in Seq(Blocks), Len(fs) > 0, NEW b
  PROVE  /\ IsOpen(b, Front(st), Front(fs)) => IsOpen(b, st, fs)
         /\ IsOpen(b, st, Front(fs)) => IsOpen(b, st, fs)
<1>1. \A k \in 1..Len(Front(st)) : k \in 1..Len(st) /\ Front(st)[k] = st[k]
  BY DEF Front
<1>2. \A i \in 1..Len(Front(fs)) : i \in 1..Len(fs) /\ Front(fs)[i] = fs[i]
  BY DEF Front
<1> QED
  BY <1>1, <1>2 DEF IsOpen

LEMMA LastIsOpen ==
  ASSUME NEW st \in Seq(Nat), Len(st) > 0, NEW fs
  PROVE  IsOpen(Last(st), st, fs)
<1>1. Len(st) \in 1..Len(st) /\ Last(st) = st[Len(st)]
  BY DEF Last
<1> QED
  BY <1>1 DEF IsOpen

LEMMA OlderFront ==
  ASSUME NEW st \in Seq(Nat), Len(st) > 0, NEW c, NEW b, OlderThan(c, b, st)
  PROVE  OlderThan(c, b, Front(st))
<1>1. \A k \in 1..Len(Front(st)) : k \in 1..Len(st) /\ Front(st)[k] = st[k]
  BY DEF Front
<1> QED
  BY <1>1 DEF OlderThan

(* A block is closed: the invariant holds for those around it.             *)
LEMMA WrapsPopped ==
  ASSUME NEW cs, NEW st, NEW fs, Shares(cs, st), Framed(fs, st), Wraps(cs, st, fs),
         Last(fs).kind # "program"
  PROVE  IF Last(fs).kind = "unroll" THEN Wraps(cs, st, Front(fs))
         ELSE Wraps(cs, Front(st), Front(fs))
<1>1. PICK at : Placed(fs, st, at) /\ FirstBodies(cs, st, fs, at)
  BY DEF Wraps
<1>2. PICK to :
        /\ Len(fs) > 1
        /\ \A i \in 1..(Len(fs) - 1) : to[i] = at[i]
        /\ Last(fs).kind = "unroll" => Placed(Front(fs), st, to)
        /\ Last(fs).kind # "unroll" =>
             Len(st) > 1 /\ Placed(Front(fs), Front(st), to)
  BY <1>1, PlacedPop
<1>3. st \in Seq(Nat) /\ Len(st) > 0 /\ fs \in Seq(Blocks) /\ Nested(cs, st)
  BY DEF Framed, Wraps
<1>4. \A i \in 1..Len(Front(fs)) :
        i \in 1..Len(fs) /\ Front(fs)[i] = fs[i] /\ to[i] = at[i]
  BY <1>2, <1>3 DEF Front
<1>5. CASE Last(fs).kind = "unroll"
  <2>1. FirstBodies(cs, st, Front(fs), to)
    BY <1>1, <1>4 DEF FirstBodies
  <2>2. Wrapped(cs, st, Front(fs))
    <3>1. Wrapped(cs, st, fs)
      BY DEF Wraps
    <3>2. \A b : IsOpen(b, st, Front(fs)) => IsOpen(b, st, fs)
      BY <1>2, <1>3, OpenFront
    <3> QED
      BY <3>1, <3>2, Rewrapped
  <2> QED
    BY <1>2, <1>3, <1>5, <2>1, <2>2 DEF Wraps
<1>6. CASE Last(fs).kind # "unroll"
  <2> DEFINE tt == Front(st)
  <2>1. /\ Len(tt) = Len(st) - 1 /\ \A k \in 1..Len(tt) : tt[k] = st[k]
        /\ Len(st) \in Nat
    BY <1>3, <1>2, <1>6 DEF Front
  <2>2. ASSUME NEW i \in 1..Len(Front(fs)), Front(fs)[i].kind = "false"
        PROVE  /\ to[i] \in 2..Len(tt) /\ tt[to[i] - 1] < Front(fs)[i].other
               /\ FirstOf(cs[tt[to[i] - 1]].clbits, cs[Front(fs)[i].other].clbits)
    <3> DEFINE k == at[i]
    <3>1. k \in 2..Len(st) /\ k \in 1..Len(tt)
      BY <1>1, <1>2, <1>4, <1>6, <2>2 DEF FirstBodies, Placed
    <3> HIDE DEF k
    <3>2. k \in 2..Len(tt) /\ k - 1 \in 1..Len(tt)
      BY <2>1, <3>1
    <3>3. tt[k - 1] = st[k - 1] /\ to[i] = k
      BY <1>4, <2>1, <3>2 DEF k
    <3> HIDE DEF tt
    <3> QED
      BY <1>1, <1>4, <2>2, <3>2, <3>3 DEF FirstBodies, k
  <2>3. FirstBodies(cs, tt, Front(fs), to)
    BY <2>2 DEF FirstBodies
  <2>4. Wrapped(cs, tt, Front(fs))
    <3>1. Wrapped(cs, st, fs)
      BY DEF Wraps
    <3>2. \A b : IsOpen(b, tt, Front(fs)) => IsOpen(b, st, fs)
      BY <1>2, <1>3, OpenFront
    <3>3. \A b, c : OlderThan(c, b, st) => OlderThan(c, b, tt)
      BY <1>3, OlderFront
    <3> HIDE DEF tt
    <3> QED
      BY <3>1, <3>2, <3>3, Rewrapped
  <2>5. Nested(cs, tt)
    BY <1>2, <1>3, <1>6, NestedFront
  <2> QED
    BY <1>2, <1>6, <2>3, <2>4, <2>5 DEF Wraps
<1> QED
  BY <1>5, <1>6

(* A loop is visited in place.                                             *)
LEMMA WrapsUnrolled ==
  ASSUME NEW cs, NEW st, NEW fs, Framed(fs, st), Wraps(cs, st, fs),
         NEW blk \in Blocks, blk.kind = "unroll"
  PROVE  Wraps(cs, st, Append(fs, blk))
<1>1. PICK at : Placed(fs, st, at) /\ FirstBodies(cs, st, fs, at)
  BY DEF Wraps
<1>2. st \in Seq(Nat) /\ fs \in Seq(Blocks) /\ Len(st) = Len(st) + 0
  BY DEF Framed
<1>3. PICK to : /\ Placed(Append(fs, blk), st, to)
                /\ \A i \in 1..Len(fs) : to[i] = at[i]
  BY <1>1, <1>2, PlacedOpen
<1>4. FirstBodies(cs, st, Append(fs, blk), to)
  <2>1. \A i \in 1..Len(Append(fs, blk)) :
          \/ i \in 1..Len(fs) /\ Append(fs, blk)[i] = fs[i] /\ to[i] = at[i]
          \/ Append(fs, blk)[i].kind = "unroll"
    BY <1>2, <1>3
  <2> QED
    BY <1>1, <2>1 DEF FirstBodies
<1>5. Wrapped(cs, st, Append(fs, blk))
  <2>1. \A b : IsOpen(b, st, Append(fs, blk)) => IsOpen(b, st, fs)
    <3> SUFFICES ASSUME NEW b, IsOpen(b, st, Append(fs, blk)) PROVE IsOpen(b, st, fs)
      OBVIOUS
    <3>1. 1 \in Nat
      OBVIOUS
    <3> QED
      BY <1>2, <3>1, OpenAppended
  <2> QED
    BY <2>1, Rewrapped DEF Wraps
<1> QED
  BY <1>3, <1>4, <1>5 DEF Wraps

(* A block is opened: its circuit is like the one it is in, and no body.   *)
LEMMA WrapsPushed ==
  ASSUME NEW cs, NEW st, NEW fs, Shares(cs, st), Framed(fs, st), Wraps(cs, st, fs),
         NEW blk \in Blocks, blk.kind \notin {"program", "unroll"},
         blk.kind = "false" =>
           /\ blk.other \in 1..Len(cs) /\ Last(st) < blk.other
           /\ FirstOf(cs[Last(st)].clbits, cs[blk.other].clbits)
           /\ Untaken(blk.other, cs)
  PROVE  Wraps(Pushed(cs, st), Append(st, Len(cs) + 1), Append(fs, blk))
<1> DEFINE ds == Pushed(cs, st)
           n == Len(cs) + 1
           tt == Append(st, n)
           gs == Append(fs, blk)
<1>1. PICK at : Placed(fs, st, at) /\ FirstBodies(cs, st, fs, at)
  BY DEF Wraps
<1>2. /\ Len(ds) = n /\ Len(cs) \in Nat /\ n \in Nat /\ n = Len(cs) + 1
      /\ \A c \in 1..Len(cs) : ds[c] = cs[c]
      /\ ds[n].data = <<>>
  BY PushedFacts
<1>3. /\ st \in Seq(Nat) /\ fs \in Seq(Blocks) /\ Len(st) \in Nat \ {0}
      /\ Len(fs) \in Nat \ {0}
      /\ Last(st) = st[Len(st)] /\ Len(st) \in 1..Len(st)
  BY DEF Framed, Last
<1> HIDE DEF ds, n
<1>4. /\ tt \in Seq(Nat) /\ Len(tt) = Len(st) + 1 /\ tt[Len(st) + 1] = n
      /\ \A k \in 1..Len(st) : tt[k] = st[k]
  BY <1>2, <1>3
<1>5. PICK to : /\ Placed(gs, tt, to) /\ to[Len(fs) + 1] = Len(tt)
                /\ \A i \in 1..Len(fs) : to[i] = at[i]
  <2>1. Len(tt) = Len(st) + (IF blk.kind = "unroll" THEN 0 ELSE 1)
    BY <1>4
  <2>2. blk.kind = "false" => blk.other \in 1..(tt[Len(tt)] - 1)
    BY <1>2, <1>4
  <2> HIDE DEF tt
  <2> QED
    BY <1>1, <1>4, <2>1, <2>2, PlacedOpen
<1>6. Nested(ds, tt)
  BY NestedPushed DEF Wraps, ds, n
<1>7. /\ \A i \in 1..Len(gs) : i \in 1..Len(fs) \/ i = Len(fs) + 1
      /\ \A i \in 1..Len(fs) : gs[i] = fs[i]
      /\ gs[Len(fs) + 1] = blk
  BY <1>3
<1>8. Wrapped(ds, tt, gs)
  <2>1. Wrapped(cs, st, fs)
    BY DEF Wraps
  <2>2. \A c \in 1..Len(ds) :
          ds[c].data = <<>> \/ (c \in 1..Len(cs) /\ ds[c].data = cs[c].data)
    BY <1>2
  <2>3. ASSUME NEW c \in 1..Len(cs), c \in 1..Len(ds), NEW b \in 1..Len(cs),
               ~IsOpen(b, st, fs), OlderThan(c, b, st), ~Untaken(b, cs)
        PROVE  /\ b \in 1..Len(ds) /\ Len(ds[b].clbits) = Len(cs[b].clbits)
               /\ ~IsOpen(b, tt, gs) /\ OlderThan(c, b, tt)
    <3>1. b \in 1..Len(ds) /\ ds[b] = cs[b] /\ b # n /\ b < n
      BY <1>2
    <3>2. ~IsOpen(b, tt, gs)
      BY <1>2, <1>3, <2>3, <3>1, OpenAppended
    <3>3. OlderThan(c, b, tt)
      <4>1. \A k \in 1..Len(tt) : (k \in 1..Len(st) /\ tt[k] = st[k]) \/ tt[k] = n
        BY <1>3, <1>4
      <4> HIDE DEF tt
      <4> QED
        BY <2>3, <3>1, <4>1 DEF OlderThan
    <3> QED
      BY <3>1, <3>2, <3>3
  <2> HIDE DEF tt, gs
  <2> QED
    BY <2>1, <2>2, <2>3, Rewrapped
<1> HIDE DEF tt, gs
<1>9. FirstBodies(ds, tt, gs, to)
  <2> SUFFICES ASSUME NEW i \in 1..Len(gs), gs[i].kind = "false"
               PROVE  /\ to[i] \in 2..Len(tt) /\ tt[to[i] - 1] < gs[i].other
                      /\ FirstOf(ds[tt[to[i] - 1]].clbits, ds[gs[i].other].clbits)
    BY DEF FirstBodies
  <2>1. \A k \in 1..Len(st) : st[k] \in 1..Len(cs)
    BY DEF Shares
  <2>2. CASE i \in 1..Len(fs)
    <3> DEFINE k == at[i]
    <3>1. /\ k \in 2..Len(st) /\ st[k - 1] < fs[i].other /\ k \in 1..Len(st)
          /\ FirstOf(cs[st[k - 1]].clbits, cs[fs[i].other].clbits)
          /\ fs[i].other \in 1..(st[k] - 1)
      BY <1>1, <1>7, <2>2 DEF FirstBodies, Placed
    <3>2. to[i] = k /\ gs[i] = fs[i]
      BY <1>5, <1>7, <2>2
    <3> HIDE DEF k
    <3>3. k \in 2..Len(tt) /\ k - 1 \in 1..Len(st) /\ st[k - 1] \in 1..Len(cs)
      BY <1>3, <1>4, <2>1, <3>1
    <3>4. fs[i].other \in 1..Len(cs)
      BY <1>2, <2>1, <3>1
    <3> QED
      BY <1>2, <1>4, <3>1, <3>2, <3>3, <3>4
  <2>3. CASE i = Len(fs) + 1
    <3>1. to[i] = Len(st) + 1 /\ gs[i] = blk /\ to[i] - 1 = Len(st)
      BY <1>3, <1>4, <1>5, <1>7, <2>3
    <3>2. to[i] \in 2..Len(tt) /\ tt[to[i] - 1] = Last(st)
      BY <1>3, <1>4, <3>1
    <3>3. Last(st) \in 1..Len(cs)
      BY <1>3, <2>1
    <3> QED
      BY <1>2, <3>1, <3>2, <3>3
  <2> QED
    BY <1>7, <2>2, <2>3
<1>10. Wraps(ds, tt, gs)
  BY <1>5, <1>6, <1>8, <1>9 DEF Wraps
<1> QED
  BY <1>10 DEF ds, tt, gs, n

(* A first visit's circuit is dropped, with those made after it.           *)
LEMMA WrapsDropped ==
  ASSUME NEW cs, NEW st, NEW fs, Shares(cs, st), Framed(fs, st), Wraps(cs, st, fs),
         Last(fs).kind \notin {"program", "unroll"}
  PROVE  Wraps(SubSeq(cs, 1, Last(st) - 1), Front(st), Front(fs))
<1> DEFINE ds == SubSeq(cs, 1, Last(st) - 1)
           tt == Front(st)
           gs == Front(fs)
           n == Last(st)
<1>1. Len(st) > 1 /\ Len(fs) > 1 /\ Framed(gs, tt)
  BY FramedPop
<1>2. Wraps(cs, tt, gs)
  BY WrapsPopped
<1>3. Shares(cs, tt) /\ Shares(ds, tt)
  BY <1>1, SharesPopped, SharesDropped
<1>4. /\ st \in Seq(Nat) /\ fs \in Seq(Blocks) /\ Len(st) \in 1..Len(st)
      /\ n = st[Len(st)] /\ n \in 1..Len(cs) /\ Len(cs) \in Nat
      /\ \A k \in 1..Len(tt) : tt[k] \in 1..Len(ds)
      /\ cs \in Seq(Circuits)
  BY <1>3 DEF Framed, Shares, Last
<1>5. /\ Len(ds) = n - 1 /\ \A c \in 1..Len(ds) : ds[c] = cs[c] /\ c \in 1..Len(cs)
  BY <1>4
<1>6. Nested(ds, tt)
  BY <1>2, <1>4, <1>5 DEF Wraps, Nested
<1>7. Wrapped(ds, tt, gs)
  <2>1. Wrapped(cs, st, fs)
    BY DEF Wraps
  <2>2. \A c \in 1..Len(ds) : c \in 1..Len(cs) /\ ds[c].data = cs[c].data
    BY <1>5
  <2>3. ASSUME NEW c \in 1..Len(cs), c \in 1..Len(ds), NEW b \in 1..Len(cs),
               ~IsOpen(b, st, fs), OlderThan(c, b, st), ~Untaken(b, cs)
        PROVE  /\ b \in 1..Len(ds) /\ Len(ds[b].clbits) = Len(cs[b].clbits)
               /\ ~IsOpen(b, tt, gs) /\ OlderThan(c, b, tt)
    <3>1. c < n
      BY <1>4, <1>5, <2>3
    <3>2. b < n
      BY <1>4, <2>3, <3>1 DEF OlderThan
    <3>3. b \in 1..Len(ds) /\ ds[b] = cs[b]
      BY <1>4, <1>5, <3>2
    <3>4. ~IsOpen(b, tt, gs)
      BY <1>1, <1>4, <2>3, OpenFront
    <3>5. OlderThan(c, b, tt)
      BY <1>1, <1>4, <2>3, OlderFront
    <3> QED
      BY <3>3, <3>4, <3>5
  <2> HIDE DEF ds, tt, gs
  <2> QED
    BY <2>1, <2>2, <2>3, Rewrapped
<1>8. PICK to : Placed(gs, tt, to) /\ FirstBodies(cs, tt, gs, to)
  BY <1>2 DEF Wraps
<1>9. FirstBodies(ds, tt, gs, to)
  <2> SUFFICES ASSUME NEW i \in 1..Len(gs), gs[i].kind = "false"
               PROVE  /\ to[i] \in 2..Len(tt) /\ tt[to[i] - 1] < gs[i].other
                      /\ FirstOf(ds[tt[to[i] - 1]].clbits, ds[gs[i].other].clbits)
    BY DEF FirstBodies
  <2> DEFINE k == to[i]
             o == gs[i].other
  <2>1. /\ k \in 2..Len(tt) /\ tt[k - 1] < o
        /\ FirstOf(cs[tt[k - 1]].clbits, cs[o].clbits)
        /\ o \in 1..(tt[k] - 1) /\ k \in 1..Len(tt)
    BY <1>8 DEF FirstBodies, Placed
  <2> HIDE DEF k, o, tt, ds
  <2>2. k - 1 \in 1..Len(tt)
    <3>1. Len(tt) \in Nat
      BY <1>3 DEF Shares
    <3> QED
      BY <2>1, <3>1
  <2>3. tt[k - 1] \in 1..Len(ds) /\ tt[k] \in 1..Len(ds)
    BY <1>4, <2>1, <2>2
  <2>4. o \in 1..Len(ds)
    <3>1. Len(ds) \in Nat /\ tt[k] \in Nat /\ tt[k] <= Len(ds)
      BY <1>4, <1>5, <2>3
    <3> QED
      BY <2>1, <3>1
  <2> QED
    BY <1>5, <2>1, <2>3, <2>4 DEF k, o
<1> QED
  BY <1>6, <1>7, <1>8, <1>9 DEF Wraps

(* Circuits that get classical bits, none of which below the stack's top.  *)
LEMMA WrapsWider ==
  ASSUME NEW cs \in Seq(Circuits), NEW ds \in Seq(Circuits), Len(ds) = Len(cs),
         NEW st, NEW fs, Shares(cs, st), Wraps(cs, st, fs),
         \A c \in 1..Len(cs) : ds[c].data = cs[c].data,
         \A c \in 1..Len(cs) :
           ds[c].clbits = cs[c].clbits \/ (c >= Last(st) /\ Untaken(c, cs)),
         FirstOf(cs[Last(st)].clbits, ds[Last(st)].clbits)
  PROVE  Wraps(ds, st, fs)
<1>1. Last(st) \in Nat
  BY DEF Shares, Last
<1>2. \A c \in 1..Len(cs) : c < Last(st) => ds[c].clbits = cs[c].clbits
  BY <1>1
<1>3. Nested(ds, st)
  BY <1>2, NestedWider DEF Wraps
<1>4. Wrapped(ds, st, fs)
  <2>1. \A b \in 1..Len(cs) : Untaken(b, cs) \/ ds[b].clbits = cs[b].clbits
    OBVIOUS
  <2>2. Wrapped(cs, st, fs)
    BY DEF Wraps
  <2> QED
    BY <2>1, <2>2, WrappedWider
<1>5. PICK at : Placed(fs, st, at) /\ FirstBodies(cs, st, fs, at)
  BY DEF Wraps
<1>6. FirstBodies(ds, st, fs, at)
  BY <1>2, <1>5, FirstBodiesWider
<1> QED
  BY <1>3, <1>4, <1>5, <1>6 DEF Wraps

LEMMA WrapsAppended ==
  ASSUME NEW cs \in Seq(Circuits), NEW st, NEW fs, Shares(cs, st), Wraps(cs, st, fs),
         NEW c \in 1..Len(cs), NEW instr \in Instructions,
         \A m \in 1..Len(instr.bodies) :
           Body(instr.bodies[m], instr.bits, c, cs, st, fs)
  PROVE  Wraps(Appended(cs, c, instr), st, fs)
<1> DEFINE ds == Appended(cs, c, instr)
<1>1. /\ ds \in Seq(Circuits) /\ Len(ds) = Len(cs)
      /\ \A e \in 1..Len(cs) : ds[e].clbits = cs[e].clbits
  BY AppendedFacts
<1>2. Wrapped(ds, st, fs)
  BY WrappedAppended DEF Wraps
<1> HIDE DEF ds
<1>3. Last(st) \in 1..Len(cs)
  BY DEF Shares, Last
<1>4. FirstOf(cs[Last(st)].clbits, ds[Last(st)].clbits)
  <2>1. cs[Last(st)] \in Circuits
    BY <1>3
  <2> QED
    BY <1>1, <1>3, <2>1, FirstOfItself DEF Circuits
<1>5. Nested(ds, st)
  BY <1>1, <1>4, NestedWider DEF Wraps
<1>6. PICK at : Placed(fs, st, at) /\ FirstBodies(cs, st, fs, at)
  BY DEF Wraps
<1>7. FirstBodies(ds, st, fs, at)
  BY <1>1, <1>6, FirstBodiesWider
<1> QED
  BY <1>2, <1>5, <1>6, <1>7 DEF Wraps, ds

LEMMA OpenIsBelowTop ==
  ASSUME NEW cs, NEW st, NEW fs, Shares(cs, st), NEW at, Placed(fs, st, at),
         NEW b, IsOpen(b, st, fs)
  PROVE  b <= Last(st) /\ b \in Nat
<1>1. /\ st \in Seq(Nat) /\ Len(st) \in Nat \ {0} /\ Last(st) = st[Len(st)]
      /\ \A k, l \in 1..Len(st) : k < l => st[k] < st[l]
      /\ Len(st) \in 1..Len(st)
  BY DEF Shares, Last
<1>2. \A k \in 1..Len(st) : st[k] \in Nat /\ st[k] <= Last(st)
  <2> SUFFICES ASSUME NEW k \in 1..Len(st) PROVE st[k] \in Nat /\ st[k] <= Last(st)
    OBVIOUS
  <2>1. st[k] \in Nat /\ Last(st) \in Nat /\ (k = Len(st) \/ k < Len(st))
    BY <1>1
  <2> QED
    BY <1>1, <2>1
<1>3. ASSUME NEW i \in 1..Len(fs), fs[i].kind = "false", b = fs[i].other
      PROVE  b <= Last(st) /\ b \in Nat
  <2> DEFINE k == at[i]
  <2>1. k \in 1..Len(st) /\ b \in 1..(st[k] - 1)
    BY <1>3 DEF Placed
  <2> HIDE DEF k
  <2>2. st[k] \in Nat /\ st[k] <= Last(st) /\ Last(st) \in Nat
    BY <1>1, <1>2, <2>1
  <2> QED
    BY <2>1, <2>2
<1> QED
  BY <1>2, <1>3 DEF IsOpen

(* A block is closed and becomes an instruction of the circuit below: it   *)
(* is never refused, and as wide as its bodies.                            *)
LEMMA WrapsClosed ==
  ASSUME SharedInv, Wraps(circ, stack, frames),
         Frame.kind \notin {"program", "unroll"},
         NEW cs, Shares(cs, Front(stack)), Len(cs) = Len(circ),
         \A c \in 1..Len(circ) : cs[c].data = circ[c].data,
         \A c \in 1..Len(circ) :
           \/ cs[c].clbits = circ[c].clbits
           \/ c >= Below /\ IsOpen(c, stack, frames),
         FirstOf(circ[Below].clbits, cs[Below].clbits),
         NEW op \in Operations, NEW bodies \in Seq(Nat),
         \A m \in 1..Len(bodies) :
           /\ bodies[m] \in 1..Len(circ) /\ Below < bodies[m]
           /\ Len(cs[bodies[m]].qubits) = Len(cs[Below].qubits)
           /\ Len(cs[bodies[m]].clbits) = Len(cs[Below].clbits),
         Wrap(cs, Below, op, bodies), Leave
  PROVE  /\ Wraps(circ', stack', frames') /\ status' = status /\ pc' = pc + 1
         /\ \A k \in 1..Len(stack') :
              FirstOf(circ[stack'[k]].clbits, circ'[stack'[k]].clbits)
<1> DEFINE new == Instruction(op, cs[Below].qubits, cs[Below].clbits, bodies, Frame.cond)
           tt == Front(stack)
           gs == Front(frames)
<1>1. Len(stack) > 1 /\ Len(frames) > 1 /\ Framed(gs, tt)
  BY FramedPop DEF SharedInv, Frame
<1>2. /\ Shares(circ, tt) /\ Below \in 1..Len(circ) /\ Below = Last(tt)
      /\ Below \in Nat
  BY <1>1, BelowFacts, FrameFacts DEF Below
<1>3. cs \in Seq(Circuits) /\ circ \in Seq(Circuits) /\ cs[Below] \in Circuits
  BY <1>2 DEF Shares
<1>4. Wraps(circ, tt, gs)
  BY WrapsPopped DEF SharedInv, Frame
<1>5. Wraps(cs, tt, gs)
  <2>1. \A c \in 1..Len(circ) :
          cs[c].clbits = circ[c].clbits \/ (c >= Last(tt) /\ Untaken(c, circ))
    BY <1>2, OpenIsUntaken DEF Wraps
  <2> QED
    BY <1>2, <1>3, <1>4, <2>1, WrapsWider
<1>6. Fits(cs, Below, bodies)
  <2>1. DOMAIN bodies = 1..Len(bodies)
    OBVIOUS
  <2> QED
    BY <2>1 DEF Fits
<1>7. circ' = Appended(cs, Below, new) /\ pc' = pc + 1 /\ status' = status
  BY <1>6 DEF Wrap, GoOn
<1>8. new \in Instructions /\ new.bodies = bodies /\ new.bits = cs[Below].clbits
  <2>1. Frame.cond \in Nat
    BY FrameFacts
  <2>2. new \in Instructions
    BY <1>3, <2>1, NewInstruction DEF Circuits
  <2> QED
    BY <2>2 DEF Instruction
<1>9. ASSUME NEW m \in 1..Len(bodies)
      PROVE  Body(bodies[m], cs[Below].clbits, Below, cs, tt, gs)
  <2> DEFINE b == bodies[m]
  <2>1. /\ b \in 1..Len(cs) /\ Below < b
        /\ Len(cs[Below].clbits) = Len(cs[b].clbits)
    OBVIOUS
  <2> HIDE DEF b
  <2>2. PICK at : Placed(gs, tt, at)
    BY <1>1 DEF Framed
  <2>3. ~IsOpen(b, tt, gs)
    BY <1>2, <2>1, <2>2, OpenIsBelowTop
  <2>4. OlderThan(Below, b, tt)
    <3> SUFFICES ASSUME NEW k \in 1..Len(tt), Below < tt[k] PROVE FALSE
      BY DEF OlderThan
    <3>1. IsOpen(tt[k], tt, gs)
      BY DEF IsOpen
    <3>2. tt[k] <= Below /\ tt[k] \in Nat
      BY <1>2, <2>2, <3>1, OpenIsBelowTop
    <3> HIDE DEF tt
    <3> QED
      BY <1>2, <3>2
  <2> QED
    BY <2>1, <2>3, <2>4 DEF Body, b
<1> HIDE DEF new, tt, gs
<1>10. Wraps(Appended(cs, Below, new), tt, gs)
  BY <1>2, <1>3, <1>5, <1>8, <1>9, WrapsAppended DEF tt
<1>11. ASSUME NEW k \in 1..Len(tt)
       PROVE  FirstOf(circ[tt[k]].clbits, circ'[tt[k]].clbits)
  <2> DEFINE c == tt[k]
  <2>1. PICK at : Placed(gs, tt, at)
    BY <1>1 DEF Framed, gs, tt
  <2>2. IsOpen(c, tt, gs)
    BY DEF IsOpen
  <2>3. c <= Below /\ c \in 1..Len(circ)
    <3>1. Shares(circ, tt)
      BY <1>2 DEF tt
    <3>2. c <= Last(tt)
      BY <2>1, <2>2, <3>1, OpenIsBelowTop
    <3>3. c \in 1..Len(circ)
      BY <3>1 DEF Shares
    <3> QED
      BY <1>2, <3>2, <3>3 DEF tt
  <2> HIDE DEF c
  <2>4. circ'[c].clbits = cs[c].clbits
    BY <1>2, <1>3, <1>7, <1>8, <2>3, AppendedFacts
  <2>5. circ[c] \in Circuits
    BY <1>3, <2>3
  <2>6. FirstOf(circ[c].clbits, cs[c].clbits)
    BY <1>2, <2>3, <2>5, FirstOfItself DEF Circuits
  <2> QED
    BY <2>4, <2>6 DEF c
<1> QED
  BY <1>7, <1>10, <1>11 DEF Leave, tt, gs, new

-----------------------------------------------------------------------------
WrapsInv == Wraps(circ, stack, frames)

(* Statements in the active circuit give it classical bits, or an          *)
(* instruction without bodies.                                             *)
LEMMA ActiveWider ==
  ASSUME SharedInv, WrapsInv, NEW cs \in Seq(Circuits), Len(cs) = Len(circ),
         \A c \in 1..Len(circ) : cs[c].data = circ[c].data,
         \A c \in 1..Len(circ) : c # Active => cs[c].clbits = circ[c].clbits,
         FirstOf(circ[Active].clbits, cs[Active].clbits)
  PROVE  Wraps(cs, stack, frames)
<1>1. /\ circ \in Seq(Circuits) /\ Active \in 1..Len(circ) /\ Active = Last(stack)
      /\ stack \in Seq(Nat) /\ Len(stack) > 0 /\ Active \in Nat
  BY FrameFacts DEF SharedInv, Shares, Active
<1>2. Untaken(Active, circ)
  BY <1>1, LastIsOpen, OpenIsUntaken DEF WrapsInv, Wraps
<1>3. \A c \in 1..Len(circ) :
        cs[c].clbits = circ[c].clbits \/ (c >= Last(stack) /\ Untaken(c, circ))
  BY <1>1, <1>2
<1>4. Shares(circ, stack)
  BY DEF SharedInv
<1> QED
  BY <1>1, <1>3, <1>4, WrapsWider DEF WrapsInv

LEMMA PlainAppended ==
  ASSUME SharedInv, NEW cs \in Seq(Circuits), Len(cs) = Len(circ),
         Shares(cs, stack), Wraps(cs, stack, frames),
         NEW instr \in Instructions, instr.bodies = <<>>
  PROVE  Wraps(Appended(cs, Active, instr), stack, frames)
<1>1. Active \in 1..Len(cs)
  BY FrameFacts
<1>2. \A m \in 1..Len(instr.bodies) :
        Body(instr.bodies[m], instr.bits, Active, cs, stack, frames)
  OBVIOUS
<1> QED
  BY <1>1, <1>2, WrapsAppended

(* An instruction on a qubit, for which all circuits may get more.         *)
LEMMA OnQubitKeepsWraps ==
  ASSUME SharedInv, WrapsInv, NEW q \in Nat,
         NEW instr \in Instructions, instr.bodies = <<>>
  PROVE  Wraps(Appended(WithCapacity(q), Active, instr), stack, frames)
<1> DEFINE cs == WithCapacity(q)
<1>1. Shares(circ, stack) /\ made \in Nat
  BY DEF SharedInv
<1>2. /\ Shares(cs, stack) /\ Len(cs) = Len(circ)
      /\ \A c \in 1..Len(circ) :
           cs[c].clbits = circ[c].clbits /\ cs[c].data = circ[c].data
  BY <1>1, SharesCapacity, CapacityFacts
<1>3. cs \in Seq(Circuits)
  BY <1>2 DEF Shares
<1> HIDE DEF cs
<1>4. FirstOf(circ[Active].clbits, cs[Active].clbits)
  BY <1>2, FrameFacts, FirstOfItself DEF Circuits
<1>5. Wraps(cs, stack, frames)
  BY <1>2, <1>3, <1>4, ActiveWider
<1>6. Wraps(Appended(cs, Active, instr), stack, frames)
  BY <1>2, <1>3, <1>5, PlainAppended
<1> QED
  BY <1>6 DEF cs

LEMMA GateKeepsWraps ==
  ASSUME SharedInv, WrapsInv, NEW s \in Statements, Gate(s)
  PROVE  WrapsInv'
<1> DEFINE cs == WithCapacity(s.q)
           on == <<cs[Active].qubits[s.q + 1]>>
           new == Instruction("gate", on, <<>>, <<>>, 0)
<1>1. /\ s.q \in Nat /\ circ' = Appended(cs, Active, new)
      /\ UNCHANGED <<stack, frames>>
  BY StatementsAssumption DEF Gate
<1>2. on \in Bits
  <2>1. /\ Shares(cs, stack) /\ Len(cs) = Len(circ)
        /\ s.q + 1 \in 1..Len(cs[Active].qubits)
    BY <1>1, SharesCapacity DEF SharedInv
  <2>2. cs[Active] \in Circuits
    BY <2>1, FrameFacts DEF Shares
  <2>3. cs[Active].qubits[s.q + 1] \in Nat
    BY <2>1, <2>2 DEF Circuits, Bits
  <2> QED
    BY <2>3, ShortBits
<1> HIDE DEF on
<1>3. new \in Instructions /\ new.bodies = <<>>
  <2>1. "gate" \in Operations /\ 0 \in Nat
    BY DEF Operations
  <2>2. new.bodies = <<>>
    BY DEF Instruction
  <2> QED
    BY <1>2, <2>1, <2>2, ShortBits, NewInstruction
<1> HIDE DEF new
<1>4. Wraps(circ', stack, frames)
  BY <1>1, <1>3, OnQubitKeepsWraps
<1> QED
  BY <1>1, <1>4 DEF WrapsInv

LEMMA BarrierKeepsWraps ==
  ASSUME SharedInv, WrapsInv, NEW s \in Statements, Barrier(s)
  PROVE  WrapsInv'
<1> DEFINE new == Instruction("barrier", <<>>, <<>>, <<>>, 0)
<1>1. CASE circ[Active].qubits = <<>>
  BY <1>1 DEF Barrier, Raise, WrapsInv
<1>2. CASE circ[Active].qubits # <<>>
  <2>1. new \in Instructions /\ new.bodies = <<>>
    <3>1. "barrier" \in Operations /\ 0 \in Nat
      BY DEF Operations
    <3>2. new.bodies = <<>>
      BY DEF Instruction
    <3> QED
      BY <3>1, <3>2, ShortBits, NewInstruction
  <2>2. circ' = Appended(circ, Active, new) /\ UNCHANGED <<stack, frames>>
    BY <1>2 DEF Barrier
  <2>4. Wraps(Appended(circ, Active, new), stack, frames)
    <3>1. circ \in Seq(Circuits) /\ Shares(circ, stack)
      BY FrameFacts DEF SharedInv
    <3> HIDE DEF new
    <3> QED
      BY <2>1, <3>1, PlainAppended DEF WrapsInv
  <2> QED
    BY <2>2, <2>4 DEF WrapsInv
<1> QED
  BY <1>1, <1>2

(* A declaration gives the active circuit bits.                            *)
LEMMA DeclaredBits ==
  ASSUME SharedInv, NEW n \in Nat
  PROVE  LET cs == [circ EXCEPT ![Active].clbits = @ \o New(n)]
         IN /\ cs \in Seq(Circuits) /\ Len(cs) = Len(circ)
            /\ \A c \in 1..Len(circ) : cs[c].data = circ[c].data
            /\ \A c \in 1..Len(circ) : cs[c].qubits = circ[c].qubits
            /\ \A c \in 1..Len(circ) : c # Active => cs[c] = circ[c]
            /\ cs[Active].clbits = circ[Active].clbits \o New(n)
            /\ FirstOf(circ[Active].clbits, cs[Active].clbits)
            /\ Shares(cs, stack)
<1> DEFINE bits == circ[Active].clbits \o New(n)
           new == [circ[Active] EXCEPT !.clbits = bits]
           cs == [circ EXCEPT ![Active] = new]
<1>1. /\ circ \in Seq(Circuits) /\ Active \in 1..Len(circ)
      /\ circ[Active] \in Circuits /\ circ[Active].clbits \in Bits
      /\ made \in Nat /\ Shares(circ, stack)
  BY FrameFacts DEF SharedInv, Circuits
<1>2. New(n) \in Bits
  BY <1>1 DEF New, Bits
<1>3. /\ bits \in Bits /\ Len(bits) = Len(circ[Active].clbits) + Len(New(n))
      /\ Len(circ[Active].clbits) \in Nat /\ Len(New(n)) \in Nat
  BY <1>1, <1>2, BitsConcat
<1>4. FirstOf(circ[Active].clbits, bits)
  <2>1. \A i \in 1..Len(circ[Active].clbits) : bits[i] = circ[Active].clbits[i]
    BY <1>1, <1>2 DEF Bits
  <2> HIDE DEF bits
  <2> QED
    BY <1>3, <2>1 DEF FirstOf
<1>5. Shares(cs, stack)
  BY <1>1, <1>2, SharesDeclared
<1> HIDE DEF bits
<1>6. /\ new \in Circuits /\ new.clbits = bits /\ new.data = circ[Active].data
      /\ new.qubits = circ[Active].qubits
  BY <1>1, <1>3 DEF Circuits
<1> HIDE DEF new
<1>7. /\ cs \in Seq(Circuits) /\ Len(cs) = Len(circ) /\ cs[Active] = new
      /\ \A c \in 1..Len(circ) : c # Active => cs[c] = circ[c]
  BY <1>1, <1>6
<1> HIDE DEF cs
<1>8. cs = [circ EXCEPT ![Active].clbits = @ \o New(n)]
  BY DEF cs, new, bits
<1>9. \A c \in 1..Len(circ) :
        cs[c].data = circ[c].data /\ cs[c].qubits = circ[c].qubits
  BY <1>6, <1>7
<1>10. cs[Active].clbits = bits
  BY <1>6, <1>7
<1> QED
  BY <1>4, <1>5, <1>7, <1>8, <1>9, <1>10 DEF bits

LEMMA DeclareKeepsWraps ==
  ASSUME SharedInv, WrapsInv, NEW s \in Statements, Declare(s)
  PROVE  WrapsInv'
<1>1. /\ Size[s.name] \in Nat /\ Len(frames') = Len(frames)
      /\ circ' = [circ EXCEPT ![Active].clbits = @ \o New(Size[s.name])]
      /\ \A i \in 1..Len(frames) : /\ frames'[i].kind = frames[i].kind
                                   /\ frames'[i].other = frames[i].other
      /\ \A at : Placed(frames, stack, at) => Placed(frames', stack, at)
      /\ stack' = stack
  BY DeclareFacts DEF Declare
<1>2. /\ circ' \in Seq(Circuits) /\ Len(circ') = Len(circ)
      /\ \A c \in 1..Len(circ) : circ'[c].data = circ[c].data
      /\ \A c \in 1..Len(circ) : c # Active => circ'[c] = circ[c]
      /\ FirstOf(circ[Active].clbits, circ'[Active].clbits)
      /\ Shares(circ', stack)
  BY <1>1, DeclaredBits
<1>3. Wraps(circ', stack, frames)
  BY <1>2, ActiveWider
<1>4. PICK at : Placed(frames, stack, at) /\ FirstBodies(circ', stack, frames, at)
  BY <1>3 DEF Wraps
<1>5. FirstBodies(circ', stack, frames', at)
  BY <1>1, <1>4 DEF FirstBodies
<1>6. Wrapped(circ', stack, frames')
  <2>1. \A b : IsOpen(b, stack, frames') => IsOpen(b, stack, frames)
    BY <1>1 DEF IsOpen
  <2>2. Wrapped(circ', stack, frames)
    BY <1>3 DEF Wraps
  <2> QED
    BY <2>1, <2>2, Rewrapped
<1> QED
  BY <1>1, <1>3, <1>4, <1>5, <1>6 DEF Wraps, WrapsInv

LEMMA MeasureKeepsWraps ==
  ASSUME SharedInv, WrapsInv, NEW s \in Statements, Measure(s)
  PROVE  WrapsInv'
<1> DEFINE cs == WithCapacity(s.q)
           on == <<cs[Active].qubits[s.q + 1]>>
           bits == <<ClbitAt(s.name)>>
           new == Instruction("measure", on, bits, <<>>, 0)
<1>1. CASE s.name \notin DOMAIN offset \/ ~HasClbit(s.name)
  BY <1>1 DEF Measure, Raise, WrapsInv
<1>2. CASE s.name \in DOMAIN offset /\ HasClbit(s.name)
  <2>1. /\ s.q \in Nat /\ circ' = Appended(cs, Active, new)
        /\ UNCHANGED <<stack, frames>>
    <3>1. s.do = "measure"
      BY DEF Measure
    <3>2. s.q \in Nat
      BY <3>1, StatementsAssumption
    <3> QED
      BY <1>2, <3>2 DEF Measure
  <2>2. on \in Bits
    <3>1. /\ Shares(cs, stack) /\ Len(cs) = Len(circ)
          /\ s.q + 1 \in 1..Len(cs[Active].qubits)
      BY <2>1, SharesCapacity DEF SharedInv
    <3>2. cs[Active] \in Circuits
      BY <3>1, FrameFacts DEF Shares
    <3>3. cs[Active].qubits[s.q + 1] \in Nat
      BY <3>1, <3>2 DEF Circuits, Bits
    <3> QED
      BY <3>3, ShortBits
  <2>3. bits \in Bits
    BY <1>2, ClbitIsNat, ShortBits
  <2> HIDE DEF on, bits
  <2>4. new \in Instructions /\ new.bodies = <<>>
    <3>1. "measure" \in Operations /\ 0 \in Nat
      BY DEF Operations
    <3>2. new.bodies = <<>>
      BY DEF Instruction
    <3> QED
      BY <2>2, <2>3, <3>1, <3>2, ShortBits, NewInstruction
  <2> HIDE DEF new
  <2>5. Wraps(circ', stack, frames)
    BY <2>1, <2>4, OnQubitKeepsWraps
  <2> QED
    BY <2>1, <2>5 DEF WrapsInv
<1> QED
  BY <1>1, <1>2

LEMMA OpenKeepsWraps ==
  ASSUME SharedInv, WrapsInv, NEW kind \in {"true", "while", "probe", "box"},
         NEW left \in Nat, NEW cond \in Nat, Open(kind, left, cond)
  PROVE  WrapsInv'
<1> DEFINE b == Block(kind, pc + 1, left, cond, Nobody)
<1>1. b \in Blocks /\ b.kind = kind
  <2>1. kind \in Kinds /\ pc + 1 \in Nat /\ counter \in Int /\ Nobody \in Nat
    BY DEF SharedInv, Kinds, Nobody
  <2>2. b.kind = kind
    BY DEF Block
  <2> QED
    BY <2>1, <2>2, NewBlock
<1> HIDE DEF b
<1>2. /\ circ' = Pushed(circ, stack) /\ stack' = Append(stack, Len(circ) + 1)
      /\ frames' = Append(frames, b)
  BY DEF Open, b
<1>3. Wraps(Pushed(circ, stack), Append(stack, Len(circ) + 1), Append(frames, b))
  <2>1. b.kind \notin {"program", "unroll", "false"}
    BY <1>1
  <2> QED
    BY <1>1, <2>1, WrapsPushed DEF SharedInv, WrapsInv
<1> QED
  BY <1>2, <1>3 DEF WrapsInv

LEMMA OpenConditionalKeepsWraps ==
  ASSUME SharedInv, WrapsInv, NEW s \in Statements, OpenConditional(s)
  PROVE  WrapsInv'
<1>1. CASE ~HasClbit(s.name)
  BY <1>1 DEF OpenConditional, Raise, WrapsInv
<1>2. CASE HasClbit(s.name)
  <2>1. s.name \in DOMAIN offset
    <3>1. PICK i \in DOMAIN frames : s.name \in DOMAIN frames[i].scope
      BY DEF OpenConditional, Visible, Depths
    <3>2. i \in 1..Len(frames)
      BY <3>1, FrameFacts
    <3> QED
      BY <3>1, <3>2 DEF SharedInv, Named
  <2>2. ClbitAt(s.name) \in Nat /\ 0 \in Nat
    BY <1>2, <2>1, ClbitIsNat
  <2>3. Open(IF s.do = "if" THEN "true" ELSE "while", 0, ClbitAt(s.name))
    BY <1>2 DEF OpenConditional
  <2>4. \E kind \in {"true", "while"} : Open(kind, 0, ClbitAt(s.name))
    BY <2>3
  <2> QED
    BY <2>2, <2>4, OpenKeepsWraps
<1> QED
  BY <1>1, <1>2

LEMMA OpenLoopKeepsWraps ==
  ASSUME SharedInv, WrapsInv, NEW s \in Statements, OpenLoop(s)
  PROVE  WrapsInv'
<1>1. Open("probe", s.n, 0) /\ s.n \in Nat
  BY StatementsAssumption DEF OpenLoop
<1> QED
  BY <1>1, OpenKeepsWraps

LEMMA OpenBoxKeepsWraps ==
  ASSUME SharedInv, WrapsInv, NEW s \in Statements, OpenBox(s)
  PROVE  WrapsInv'
<1>1. CASE inVerbatim
  BY <1>1 DEF OpenBox, Raise, WrapsInv
<1>2. CASE ~inVerbatim
  <2>1. Open("box", 0, 0)
    BY <1>2 DEF OpenBox
  <2> QED
    BY <2>1, OpenKeepsWraps
<1> QED
  BY <1>1, <1>2

-----------------------------------------------------------------------------
LEMMA EndTrueKeepsWraps ==
  ASSUME SharedInv, WrapsInv, EndTrue
  PROVE  WrapsInv'
<1> DEFINE b == Block("false", pc + 1, 0, Frame.cond, Active)
           st == Front(stack)
           fs == Front(frames)
<1>1. /\ Frame.kind = "true"
      /\ circ' = Pushed(circ, st) /\ stack' = Append(st, Len(circ) + 1)
      /\ frames' = Append(fs, b)
  BY DEF EndTrue, End
<1>2. /\ Len(stack) > 1 /\ Framed(fs, st)
  BY <1>1, FramedPop DEF SharedInv, Frame
<1>3. Shares(circ, st) /\ Below < Active /\ Last(st) = Below
  BY <1>2, BelowFacts DEF Below
<1>4. b \in Blocks /\ b.kind = "false" /\ b.other = Active
  <2>1. /\ "false" \in Kinds /\ pc + 1 \in Nat /\ 0 \in Nat
        /\ Frame.cond \in Nat /\ Active \in Nat /\ counter \in Int
    BY FrameFacts DEF SharedInv, Kinds
  <2>2. b.kind = "false" /\ b.other = Active
    BY DEF Block
  <2> QED
    BY <2>1, <2>2, NewBlock
<1>5. Wraps(circ, st, fs)
  BY <1>1, WrapsPopped DEF SharedInv, WrapsInv, Frame
<1>6. /\ stack \in Seq(Nat) /\ Active = Last(stack) /\ Active \in 1..Len(circ)
      /\ Nested(circ, stack) /\ Wrapped(circ, stack, frames)
  BY FrameFacts DEF Active, WrapsInv, Wraps
<1>7. FirstOf(circ[Last(st)].clbits, circ[Active].clbits)
  BY <1>2, <1>6, NestedFront
<1>8. Untaken(Active, circ)
  BY <1>2, <1>6, LastIsOpen, OpenIsUntaken
<1> HIDE DEF b, st, fs
<1>9. Wraps(Pushed(circ, st), Append(st, Len(circ) + 1), Append(fs, b))
  BY <1>2, <1>3, <1>4, <1>5, <1>6, <1>7, <1>8, WrapsPushed
<1> QED
  BY <1>1, <1>9 DEF WrapsInv

(* A loop's body or a box gives its classical bits to the circuit below.   *)
LEMMA ExtendedKeepsWraps ==
  ASSUME SharedInv, WrapsInv, Frame.kind \notin {"program", "unroll"},
         NEW op \in Operations,
         Wrap(ExtendBits(circ, Below, Active), Below, op, <<Active>>), Leave
  PROVE  /\ WrapsInv' /\ status' = status /\ pc' = pc + 1
         /\ \A k \in 1..Len(stack') :
              FirstOf(circ[stack'[k]].clbits, circ'[stack'[k]].clbits)
<1> DEFINE cs == ExtendBits(circ, Below, Active)
           top == circ[1].qubits
<1>1. Len(stack) > 1
  BY FramedPop DEF SharedInv, Frame
<1>2. /\ Shares(circ, Front(stack)) /\ Below \in 1..Len(circ)
      /\ circ[Below].qubits = top /\ Below < Active /\ Below = Last(Front(stack))
  BY <1>1, BelowFacts DEF Below
<1>3. /\ circ \in Seq(Circuits) /\ Active \in 1..Len(circ)
      /\ circ[Active].qubits = top /\ stack \in Seq(Nat) /\ Active = Last(stack)
  BY FrameFacts DEF Active
<1>4. /\ circ[Below].clbits \in Bits /\ circ[Active].clbits \in Bits
      /\ top \in Bits /\ Len(top) <= Len(top)
  <2>1. circ[Below] \in Circuits /\ circ[Active] \in Circuits /\ circ[Active].qubits \in Bits
    <3>1. circ \in Seq(Circuits) /\ Below \in 1..Len(circ) /\ Active \in 1..Len(circ)
      BY <1>2, <1>3
    <3>2. circ[Below] \in Circuits /\ circ[Active] \in Circuits
      BY <3>1
    <3> QED
      BY <3>2 DEF Circuits
  <2>2. top \in Bits
    BY <1>3, <2>1
  <2> HIDE DEF top
  <2> QED
    BY <2>1, <2>2, BitsConcat DEF Circuits
<1>5. FirstOf(circ[Below].clbits, circ[Active].clbits)
  BY <1>1, <1>2, <1>3, NestedFront DEF WrapsInv, Wraps
<1>6. /\ cs \in Seq(Circuits) /\ Len(cs) = Len(circ)
      /\ \A c \in 1..Len(circ) : c # Below => cs[c] = circ[c]
      /\ \A c \in 1..Len(circ) : cs[c].data = circ[c].data
      /\ cs[Below].clbits = circ[Below].clbits
                              \o Beyond(circ[Below].clbits, circ[Active].clbits)
      /\ cs[Below].qubits = top \o Beyond(top, top)
  <2>1. LET ds == ExtendBits(circ, Below, Active)
        IN /\ ds \in Seq(Circuits) /\ Len(ds) = Len(circ)
           /\ \A c \in 1..Len(circ) : c # Below => ds[c] = circ[c]
           /\ \A c \in 1..Len(circ) : ds[c].data = circ[c].data
           /\ ds[Below].clbits = circ[Below].clbits
                                   \o Beyond(circ[Below].clbits, circ[Active].clbits)
           /\ ds[Below].qubits = circ[Below].qubits
                                   \o Beyond(circ[Below].qubits, circ[Active].qubits)
    <3>1. circ \in Seq(Circuits) /\ Below \in 1..Len(circ) /\ Active \in 1..Len(circ)
      BY <1>2, <1>3
    <3> QED
      BY <3>1, ExtendedFacts
  <2> QED
    BY <1>2, <1>3, <2>1
<1>7. Shares(cs, Front(stack))
  BY <1>2, <1>3, SharesExtended
<1> HIDE DEF cs, top
<1>8. /\ cs[Below].clbits = circ[Active].clbits /\ cs[Below].qubits = top
      /\ cs[Active] = circ[Active]
  <2>1. cs[Below].clbits = circ[Active].clbits
    BY <1>4, <1>5, <1>6, BeyondCompletes
  <2>2. cs[Below].qubits = top
    BY <1>4, <1>6, NothingBeyond
  <2>3. cs[Active] = circ[Active]
    BY <1>2, <1>3, <1>6
  <2> QED
    BY <2>1, <2>2, <2>3
<1>9. \A c \in 1..Len(circ) :
        cs[c].clbits = circ[c].clbits \/ (c >= Below /\ IsOpen(c, stack, frames))
  <2>1. IsOpen(Below, stack, frames)
    <3>1. Len(stack) - 1 \in 1..Len(stack) /\ Below = stack[Len(stack) - 1]
      BY <1>1, <1>3 DEF Below, Front, Last
    <3> QED
      BY <3>1 DEF IsOpen
  <2>2. Below \in Nat
    BY <1>2
  <2> QED
    BY <1>6, <2>1, <2>2
<1> DEFINE bodies == <<Active>>
<1>10. /\ bodies \in Seq(Nat)
       /\ \A m \in 1..Len(bodies) :
            /\ bodies[m] \in 1..Len(circ) /\ Below < bodies[m]
            /\ Len(cs[bodies[m]].qubits) = Len(cs[Below].qubits)
            /\ Len(cs[bodies[m]].clbits) = Len(cs[Below].clbits)
  BY <1>2, <1>3, <1>8
<1>11. Wrap(cs, Below, op, bodies)
  BY DEF cs
<1> HIDE DEF bodies
<1>12. FirstOf(circ[Below].clbits, cs[Below].clbits)
  BY <1>5, <1>8
<1>13. Wraps(circ, stack, frames)
  BY DEF WrapsInv
<1> QED
  BY <1>6, <1>7, <1>9, <1>10, <1>11, <1>12, <1>13, WrapsClosed DEF WrapsInv

(* The bodies of a branch and the circuit it is in get the same width.     *)
LEMMA SyncedFacts ==
  ASSUME NEW st, Shares(circ, st), NEW main \in 1..Len(circ),
         NEW yes \in 1..Len(circ), NEW no \in 1..Len(circ),
         main # yes, main # no, yes # no,
         circ[main].qubits = circ[1].qubits, circ[no].qubits = circ[1].qubits,
         FirstOf(circ[main].clbits, circ[yes].clbits)
  PROVE  LET cs == Synced(main, yes, no)
         IN /\ \A c \in 1..Len(circ) : cs[c].data = circ[c].data
            /\ \A c \in 1..Len(circ) : c \notin {main, yes, no} => cs[c] = circ[c]
            /\ FirstOf(circ[main].clbits, cs[main].clbits)
            /\ \A c \in {yes, no} :
                 /\ Len(cs[c].qubits) = Len(cs[main].qubits)
                 /\ Len(cs[c].clbits) = Len(cs[main].clbits)
<1> DEFINE c1 == ExtendBits(circ, main, yes)
           c2 == ExtendBits(c1, main, no)
           c3 == ExtendBits(c2, yes, main)
           c4 == ExtendBits(c3, no, main)
           top == circ[1].qubits
           m == circ[main].clbits
           y == circ[yes].clbits
           n == circ[no].clbits
           ym == y \o Beyond(y, n)
<1>1. /\ circ \in Seq(Circuits)
      /\ FirstOf(circ[yes].qubits, top) /\ circ[main] \in Circuits
      /\ circ[yes] \in Circuits /\ circ[no] \in Circuits
  BY DEF Shares
<1>2. /\ m \in Bits /\ y \in Bits /\ n \in Bits /\ top \in Bits
      /\ circ[yes].qubits \in Bits
  BY <1>1 DEF Circuits
<1>3. /\ ym \in Bits /\ Len(ym) = Longer(Len(y), Len(n))
      /\ FirstOf(y, ym) /\ Len(y) \in Nat /\ Len(n) \in Nat
  BY <1>2, BeyondWidth
<1>4. Len(top) <= Len(top) /\ Len(circ[yes].qubits) <= Len(top)
  <2> HIDE DEF top
  <2> QED
    BY <1>1, <1>2, BitsConcat DEF FirstOf
<1>5. /\ c1 \in Seq(Circuits) /\ Len(c1) = Len(circ)
      /\ \A c \in 1..Len(circ) : c # main => c1[c] = circ[c]
      /\ \A c \in 1..Len(circ) : c1[c].data = circ[c].data
      /\ c1[main].clbits = y /\ c1[main].qubits = top
  <2>1. LET ds == ExtendBits(circ, main, yes)
        IN /\ ds \in Seq(Circuits) /\ Len(ds) = Len(circ)
           /\ \A c \in 1..Len(circ) : c # main => ds[c] = circ[c]
           /\ \A c \in 1..Len(circ) : ds[c].data = circ[c].data
           /\ ds[main].clbits = circ[main].clbits
                                  \o Beyond(circ[main].clbits, circ[yes].clbits)
           /\ ds[main].qubits = circ[main].qubits
                                  \o Beyond(circ[main].qubits, circ[yes].qubits)
    BY <1>1, ExtendedFacts
  <2>2. m \o Beyond(m, y) = y
    BY <1>2, BeyondCompletes
  <2>3. top \o Beyond(top, circ[yes].qubits) = top
    <3> HIDE DEF top
    <3> QED
      BY <1>2, <1>4, NothingBeyond
  <2> QED
    BY <2>1, <2>2, <2>3
<1> HIDE DEF c1
<1>6. /\ c2 \in Seq(Circuits) /\ Len(c2) = Len(circ)
      /\ \A c \in 1..Len(circ) : c # main => c2[c] = circ[c]
      /\ \A c \in 1..Len(circ) : c2[c].data = circ[c].data
      /\ c2[main].clbits = ym /\ c2[main].qubits = top
  <2>0. main \in 1..Len(c1) /\ no \in 1..Len(c1)
    BY <1>5
  <2>1. LET ds == ExtendBits(c1, main, no)
        IN /\ ds \in Seq(Circuits) /\ Len(ds) = Len(c1)
           /\ \A c \in 1..Len(c1) : c # main => ds[c] = c1[c]
           /\ \A c \in 1..Len(c1) : ds[c].data = c1[c].data
           /\ ds[main].clbits = c1[main].clbits
                                  \o Beyond(c1[main].clbits, c1[no].clbits)
           /\ ds[main].qubits = c1[main].qubits
                                  \o Beyond(c1[main].qubits, c1[no].qubits)
    BY <1>5, <2>0, ExtendedFacts
  <2>2. c1[no] = circ[no]
    BY <1>5
  <2>3. top \o Beyond(top, top) = top
    <3> HIDE DEF top
    <3> QED
      BY <1>2, <1>4, NothingBeyond
  <2> QED
    BY <1>5, <2>1, <2>2, <2>3
<1> HIDE DEF c2
<1>7. /\ c3 \in Seq(Circuits) /\ Len(c3) = Len(circ)
      /\ \A c \in 1..Len(circ) : c # yes => c3[c] = c2[c]
      /\ \A c \in 1..Len(circ) : c3[c].data = circ[c].data
      /\ c3[yes].clbits = y \o Beyond(y, ym) /\ c3[yes].qubits = top
  <2>0. main \in 1..Len(c2) /\ yes \in 1..Len(c2)
    BY <1>6
  <2>1. LET ds == ExtendBits(c2, yes, main)
        IN /\ ds \in Seq(Circuits) /\ Len(ds) = Len(c2)
           /\ \A c \in 1..Len(c2) : c # yes => ds[c] = c2[c]
           /\ \A c \in 1..Len(c2) : ds[c].data = c2[c].data
           /\ ds[yes].clbits = c2[yes].clbits
                                 \o Beyond(c2[yes].clbits, c2[main].clbits)
           /\ ds[yes].qubits = c2[yes].qubits
                                 \o Beyond(c2[yes].qubits, c2[main].qubits)
    BY <1>6, <2>0, ExtendedFacts
  <2>2. c2[yes] = circ[yes]
    BY <1>6
  <2>3. circ[yes].qubits \o Beyond(circ[yes].qubits, top) = top
    <3> HIDE DEF top
    <3> QED
      BY <1>1, <1>2, BeyondCompletes
  <2> HIDE DEF ym
  <2> QED
    BY <1>6, <2>1, <2>2, <2>3
<1> HIDE DEF c3
<1>8. /\ \A c \in 1..Len(circ) : c # no => c4[c] = c3[c]
      /\ \A c \in 1..Len(circ) : c4[c].data = circ[c].data
      /\ c4[no].clbits = n \o Beyond(n, ym) /\ c4[no].qubits = top
  <2>0. main \in 1..Len(c3) /\ no \in 1..Len(c3)
    BY <1>7
  <2>1. LET ds == ExtendBits(c3, no, main)
        IN /\ ds \in Seq(Circuits) /\ Len(ds) = Len(c3)
           /\ \A c \in 1..Len(c3) : c # no => ds[c] = c3[c]
           /\ \A c \in 1..Len(c3) : ds[c].data = c3[c].data
           /\ ds[no].clbits = c3[no].clbits
                                \o Beyond(c3[no].clbits, c3[main].clbits)
           /\ ds[no].qubits = c3[no].qubits
                                \o Beyond(c3[no].qubits, c3[main].qubits)
    BY <1>7, <2>0, ExtendedFacts
  <2>2. c3[no] = circ[no] /\ c3[main] = c2[main]
    BY <1>6, <1>7
  <2>3. top \o Beyond(top, top) = top
    <3> HIDE DEF top
    <3> QED
      BY <1>2, <1>4, NothingBeyond
  <2> HIDE DEF ym
  <2> QED
    BY <1>6, <1>7, <2>1, <2>2, <2>3
<1> HIDE DEF c4
<1>9. /\ c4[main].clbits = ym /\ c4[main].qubits = top
      /\ c4[yes].clbits = y \o Beyond(y, ym) /\ c4[yes].qubits = top
      /\ \A c \in 1..Len(circ) : c \notin {main, yes, no} => c4[c] = circ[c]
  BY <1>6, <1>7, <1>8
<1>10. Len(y \o Beyond(y, ym)) = Len(ym) /\ Len(n \o Beyond(n, ym)) = Len(ym)
  <2>1. /\ Len(y \o Beyond(y, ym)) = Longer(Len(y), Len(ym))
        /\ Len(n \o Beyond(n, ym)) = Longer(Len(n), Len(ym))
    BY <1>2, <1>3, BeyondWidth
  <2> HIDE DEF y, n, ym
  <2> QED
    BY <1>3, <2>1 DEF Longer
<1>11. FirstOf(m, ym)
  <2>1. FirstOf(m, y) /\ FirstOf(y, ym)
    BY <1>3
  <2> HIDE DEF y, m, ym
  <2> QED
    BY <1>2, <1>3, <2>1, FirstOfTransitive
<1>12. \A c \in {yes, no} :
         /\ Len(c4[c].qubits) = Len(c4[main].qubits)
         /\ Len(c4[c].clbits) = Len(c4[main].clbits)
  BY <1>8, <1>9, <1>10
<1>13. FirstOf(circ[main].clbits, c4[main].clbits)
  BY <1>9, <1>11
<1>14. c4 = Synced(main, yes, no)
  BY DEF c4, c3, c2, c1, Synced
<1> QED
  BY <1>8, <1>9, <1>12, <1>13, <1>14

LEMMA EndFalseKeepsWraps ==
  ASSUME SharedInv, WrapsInv, EndFalse
  PROVE  /\ WrapsInv' /\ status' = status /\ pc' = pc + 1
         /\ \A k \in 1..Len(stack') :
              FirstOf(circ[stack'[k]].clbits, circ'[stack'[k]].clbits)
<1> DEFINE yes == Frame.other
           bodies == IF circ[Active].data = <<>> THEN <<yes>> ELSE <<yes, Active>>
           cs == Synced(Below, yes, Active)
           n == Len(frames)
<1>1. Frame.kind = "false" /\ Wrap(cs, Below, "if", bodies) /\ Leave
  BY DEF EndFalse, End
<1>2. Len(stack) > 1
  BY <1>1, FramedPop DEF SharedInv, Frame
<1>3. /\ Shares(circ, Front(stack)) /\ Below \in 1..Len(circ) /\ Below < Active
      /\ circ[Below].qubits = circ[1].qubits
  BY <1>2, BelowFacts
<1>4. /\ circ \in Seq(Circuits) /\ Active \in 1..Len(circ) /\ Len(circ) \in Nat
      /\ circ[Active].qubits = circ[1].qubits
      /\ stack \in Seq(Nat) /\ Active = Last(stack) /\ frames \in Seq(Blocks)
  BY FrameFacts DEF Active
<1>5. n \in 1..n /\ frames[n] = Frame /\ Len(stack) \in 1..Len(stack)
      /\ Len(stack) - 1 \in 1..Len(stack) /\ Below = stack[Len(stack) - 1]
      /\ Active = stack[Len(stack)]
  BY <1>2, <1>4 DEF SharedInv, Framed, Frame, Last, Below, Front
<1>6. PICK at : Placed(frames, stack, at) /\ FirstBodies(circ, stack, frames, at)
  BY DEF WrapsInv, Wraps
<1>7. /\ Below < yes /\ FirstOf(circ[Below].clbits, circ[yes].clbits)
      /\ yes \in 1..(Active - 1)
  <2>1. at[n] = Len(stack)
    BY <1>6 DEF Placed
  <2>2. /\ stack[at[n] - 1] < frames[n].other
        /\ FirstOf(circ[stack[at[n] - 1]].clbits, circ[frames[n].other].clbits)
    BY <1>1, <1>5, <1>6 DEF FirstBodies
  <2>3. frames[n].other \in 1..(stack[at[n]] - 1)
    BY <1>1, <1>5, <1>6 DEF Placed
  <2> QED
    BY <1>5, <2>1, <2>2, <2>3
<1>8. IsOpen(yes, stack, frames) /\ IsOpen(Active, stack, frames)
      /\ IsOpen(Below, stack, frames)
  <2>1. IsOpen(yes, stack, frames)
    BY <1>1, <1>5 DEF IsOpen
  <2>2. IsOpen(Active, stack, frames) /\ IsOpen(Below, stack, frames)
    BY <1>5 DEF IsOpen
  <2> QED
    BY <2>1, <2>2
<1> HIDE DEF yes, n
<1>9. /\ yes \in 1..Len(circ) /\ yes \in Nat /\ Below \in Nat /\ Active \in Nat
      /\ Below # yes /\ Below # Active /\ yes # Active
  BY <1>3, <1>4, <1>7
<1>10. /\ \A c \in 1..Len(circ) : cs[c].data = circ[c].data
       /\ \A c \in 1..Len(circ) : c \notin {Below, yes, Active} => cs[c] = circ[c]
       /\ FirstOf(circ[Below].clbits, cs[Below].clbits)
       /\ \A c \in {yes, Active} :
            /\ Len(cs[c].qubits) = Len(cs[Below].qubits)
            /\ Len(cs[c].clbits) = Len(cs[Below].clbits)
  <2>1. LET ds == Synced(Below, yes, Active)
        IN /\ \A c \in 1..Len(circ) : ds[c].data = circ[c].data
           /\ \A c \in 1..Len(circ) : c \notin {Below, yes, Active} => ds[c] = circ[c]
           /\ FirstOf(circ[Below].clbits, ds[Below].clbits)
           /\ \A c \in {yes, Active} :
                /\ Len(ds[c].qubits) = Len(ds[Below].qubits)
                /\ Len(ds[c].clbits) = Len(ds[Below].clbits)
    BY <1>3, <1>4, <1>7, <1>9, SyncedFacts
  <2> QED
    BY <2>1
<1>11. Shares(cs, Front(stack)) /\ Len(cs) = Len(circ)
  BY <1>3, <1>4, <1>9, SharesSynced
<1>12. \A c \in 1..Len(circ) :
         cs[c].clbits = circ[c].clbits \/ (c >= Below /\ IsOpen(c, stack, frames))
  <2> HIDE DEF cs
  <2>1. Below <= Below /\ Below <= yes /\ Below <= Active
    BY <1>3, <1>7, <1>9
  <2> QED
    BY <1>8, <1>10, <2>1
<1>13. /\ bodies \in Seq(Nat)
       /\ \A i \in 1..Len(bodies) : bodies[i] \in {yes, Active}
  <2>1. <<yes>> \in Seq(Nat) /\ <<yes, Active>> \in Seq(Nat)
    BY <1>9
  <2>2. /\ \A i \in 1..Len(<<yes>>) : <<yes>>[i] = yes
        /\ \A i \in 1..Len(<<yes, Active>>) : <<yes, Active>>[i] \in {yes, Active}
    OBVIOUS
  <2> QED
    BY <2>1, <2>2
<1> HIDE DEF bodies, cs
<1>14. \A i \in 1..Len(bodies) :
         /\ bodies[i] \in 1..Len(circ) /\ Below < bodies[i]
         /\ Len(cs[bodies[i]].qubits) = Len(cs[Below].qubits)
         /\ Len(cs[bodies[i]].clbits) = Len(cs[Below].clbits)
  BY <1>3, <1>4, <1>7, <1>9, <1>10, <1>13
<1>15. "if" \in Operations /\ Frame.kind \notin {"program", "unroll"}
       /\ Wraps(circ, stack, frames)
  BY <1>1 DEF Operations, WrapsInv
<1>16. /\ Wraps(circ', stack', frames') /\ status' = status /\ pc' = pc + 1
       /\ \A k \in 1..Len(stack') :
            FirstOf(circ[stack'[k]].clbits, circ'[stack'[k]].clbits)
  BY <1>1, <1>10, <1>11, <1>12, <1>13, <1>14, <1>15, WrapsClosed
<1> QED
  BY <1>16 DEF WrapsInv

LEMMA EndProbeKeepsWraps ==
  ASSUME SharedInv, WrapsInv, EndProbe
  PROVE  WrapsInv'
<1> DEFINE tt == Front(stack)
           gs == Front(frames)
<1>1. Frame.kind = "probe"
  BY DEF EndProbe, End
<1>2. /\ Len(stack) > 1 /\ Len(frames) > 1 /\ Framed(gs, tt)
  BY <1>1, FramedPop DEF SharedInv, Frame
<1>3. Shares(Dropped, tt) /\ Len(Dropped) + 1 = Active
  <2>1. Shares(Dropped, Front(stack))
    BY <1>2, SharesDropped DEF SharedInv, Dropped, Active
  <2>2. Active \in 1..Len(circ) /\ circ \in Seq(Circuits) /\ Len(circ) \in Nat
    BY FrameFacts
  <2>3. Len(Dropped) = Active - 1
    BY <2>2 DEF Dropped
  <2> QED
    BY <2>1, <2>2, <2>3
<1>4. Wraps(Dropped, tt, gs)
  BY <1>1, WrapsDropped DEF SharedInv, WrapsInv, Dropped, Active, Frame
<1>5. CASE circ[Active].data = <<>> /\ Frame.left > 1
  <2>1. /\ circ' = Dropped /\ stack' = tt /\ Again("unroll", Frame.left - 2)
    BY <1>5 DEF EndProbe
  <2>2. Frame.left - 2 \in Nat
    BY <1>5, FrameFacts
  <2>3. PICK b \in Blocks : b.kind = "unroll" /\ frames' = Append(gs, b)
    BY <1>2, <2>1, <2>2, AgainFacts
  <2>4. Wraps(Dropped, tt, Append(gs, b))
    BY <1>2, <1>4, <2>3, WrapsUnrolled
  <2> QED
    BY <2>1, <2>3, <2>4 DEF WrapsInv
<1>6. CASE circ[Active].data = <<>> /\ ~(Frame.left > 1)
  <2>1. circ' = Dropped /\ stack' = tt /\ frames' = gs
    BY <1>6 DEF EndProbe
  <2> QED
    BY <1>4, <2>1 DEF WrapsInv
<1>7. CASE circ[Active].data # <<>> /\ Modifies(Frame, gs)
  <2>1. UNCHANGED <<circ, stack, frames>>
    BY <1>7 DEF EndProbe
  <2> QED
    BY <2>1 DEF WrapsInv
<1>8. CASE circ[Active].data # <<>> /\ ~Modifies(Frame, gs)
  <2>1. /\ circ' = Pushed(Dropped, tt) /\ stack' = Append(tt, Active)
        /\ Again("body", 0)
    BY <1>8 DEF EndProbe
  <2>2. PICK b \in Blocks : b.kind = "body" /\ frames' = Append(gs, b)
    BY <1>2, <2>1, AgainFacts
  <2>3. Wraps(Pushed(Dropped, tt), Append(tt, Len(Dropped) + 1), Append(gs, b))
    <3>1. b.kind \notin {"program", "unroll", "false"}
      BY <2>2
    <3> QED
      BY <1>2, <1>3, <1>4, <3>1, WrapsPushed
  <2> QED
    BY <1>3, <2>1, <2>2, <2>3 DEF WrapsInv
<1> QED
  BY <1>5, <1>6, <1>7, <1>8

LEMMA EndUnrollKeepsWraps ==
  ASSUME SharedInv, WrapsInv, EndUnroll
  PROVE  WrapsInv'
<1> DEFINE gs == Front(frames)
<1>1. Frame.kind = "unroll" /\ UNCHANGED <<circ, stack>>
  BY DEF EndUnroll, End
<1>2. Len(frames) > 1 /\ Framed(gs, stack)
  BY <1>1, FramedPop DEF SharedInv, Frame
<1>3. Wraps(circ, stack, gs)
  BY <1>1, WrapsPopped DEF SharedInv, WrapsInv, Frame
<1>4. CASE Frame.left > 0
  <2>1. Again("unroll", Frame.left - 1) /\ Frame.left - 1 \in Nat
    BY <1>4, FrameFacts DEF EndUnroll
  <2>2. PICK b \in Blocks : b.kind = "unroll" /\ frames' = Append(gs, b)
    BY <1>2, <2>1, AgainFacts
  <2>3. Wraps(circ, stack, Append(gs, b))
    BY <1>2, <1>3, <2>2, WrapsUnrolled
  <2> QED
    BY <1>1, <2>2, <2>3 DEF WrapsInv
<1>5. CASE ~(Frame.left > 0)
  <2>1. frames' = gs
    BY <1>5 DEF EndUnroll
  <2> QED
    BY <1>1, <1>3, <2>1 DEF WrapsInv
<1> QED
  BY <1>4, <1>5

(* No block is refused by the circuit it is in.                            *)
LEMMA EndKeepsWraps ==
  ASSUME SharedInv, WrapsInv,
         \/ EndTrue \/ EndFalse \/ EndProbe \/ EndUnroll \/ EndBody
         \/ EndWhile \/ EndBox
  PROVE  WrapsInv' /\ status' # "CircuitError"
<1>1. status = "running"
  BY DEF EndTrue, EndFalse, EndProbe, EndUnroll, EndBody, EndWhile, EndBox,
         End, Read
<1>2. CASE EndTrue
  BY <1>1, <1>2, EndTrueKeepsWraps DEF EndTrue, GoOn
<1>3. CASE EndFalse
  BY <1>1, <1>3, EndFalseKeepsWraps
<1>4. CASE EndProbe
  <2>1. status' \in {"ValueError", status}
    BY <1>4 DEF EndProbe, Again, GoOn
  <2> QED
    BY <1>1, <1>4, <2>1, EndProbeKeepsWraps
<1>5. CASE EndUnroll
  <2>1. status' = status
    BY <1>5 DEF EndUnroll, Again, GoOn
  <2> QED
    BY <1>1, <1>5, <2>1, EndUnrollKeepsWraps
<1>6. CASE EndBody
  <2>1. "for" \in Operations /\ Frame.kind \notin {"program", "unroll"}
    BY <1>6 DEF EndBody, End, Operations
  <2> QED
    BY <1>1, <1>6, <2>1, ExtendedKeepsWraps DEF EndBody
<1>7. CASE EndWhile
  <2>1. "while" \in Operations /\ Frame.kind \notin {"program", "unroll"}
    BY <1>7 DEF EndWhile, End, Operations
  <2>2. CASE circ[Active].data = <<>>
    BY <1>7, <2>2 DEF EndWhile, Raise, WrapsInv
  <2>3. CASE circ[Active].data # <<>>
    BY <1>1, <1>7, <2>1, <2>3, ExtendedKeepsWraps DEF EndWhile
  <2> QED
    BY <2>2, <2>3
<1>8. CASE EndBox
  <2>1. "box" \in Operations /\ Frame.kind \notin {"program", "unroll"}
    BY <1>8 DEF EndBox, End, Operations
  <2> QED
    BY <1>1, <1>8, <2>1, ExtendedKeepsWraps DEF EndBox
<1> QED
  BY <1>2, <1>3, <1>4, <1>5, <1>6, <1>7, <1>8

LEMMA InitWraps == Init => WrapsInv
<1> SUFFICES ASSUME Init PROVE WrapsInv
  OBVIOUS
<1> DEFINE at == [i \in 1..1 |-> 1]
<1>1. SharedInv
  BY InitShared
<1>2. /\ circ = <<[qubits |-> <<>>, clbits |-> <<>>, data |-> <<>>]>>
      /\ stack = <<1>> /\ Len(frames) = 1 /\ frames[1].kind = "program"
  BY DEF Init
<1>3. Nested(circ, stack)
  BY <1>2 DEF Nested, FirstOf
<1>4. Wrapped(circ, stack, frames)
  BY <1>2 DEF Wrapped
<1>5. PICK to : Placed(frames, stack, to)
  BY <1>1 DEF SharedInv, Framed
<1>6. FirstBodies(circ, stack, frames, to)
  BY <1>2 DEF FirstBodies
<1> QED
  BY <1>3, <1>4, <1>5, <1>6 DEF WrapsInv, Wraps

-----------------------------------------------------------------------------
(* Names.  The offset of a name leads, in the circuit of the block that    *)
(* declares it, to the bits of the declaration; and, as the circuits on    *)
(* the stack begin with those below them, also in the active one.  Without *)
(* shadowing a name is declared in one block at most.                      *)
ScopeBound(off, bits, scope) ==
  \A name \in DOMAIN scope : \A x \in 1..Size[name] :
    /\ off[name] + x \in 1..Len(bits)
    /\ bits[off[name] + x] = scope[name] + x - 1

Bound(off, cs, st, fs, at) ==
  \A i \in 1..Len(fs) : ScopeBound(off, cs[st[at[i]]].clbits, fs[i].scope)

DeclaredOnce(fs) ==
  \A i, j \in 1..Len(fs) :
    DOMAIN fs[i].scope \cap DOMAIN fs[j].scope # {} => i = j

Names(off, cs, st, fs) ==
  DeclaredOnce(fs) /\ \E at : Placed(fs, st, at) /\ Bound(off, cs, st, fs, at)

(* Circuits that get bits at their end keep the declared ones.             *)
LEMMA NamesKept ==
  ASSUME NEW off, NEW cs, NEW ds, NEW st, NEW fs, Names(off, cs, st, fs),
         \A k \in 1..Len(st) : FirstOf(cs[st[k]].clbits, ds[st[k]].clbits),
         Shares(cs, st), Shares(ds, st)
  PROVE  Names(off, ds, st, fs)
<1>1. PICK at : Placed(fs, st, at) /\ Bound(off, cs, st, fs, at)
  BY DEF Names
<1>2. ASSUME NEW i \in 1..Len(fs)
      PROVE  ScopeBound(off, ds[st[at[i]]].clbits, fs[i].scope)
  <2> DEFINE a == cs[st[at[i]]].clbits
             b == ds[st[at[i]]].clbits
             scope == fs[i].scope
  <2>1. ScopeBound(off, a, scope)
    BY <1>1 DEF Bound
  <2>2. at[i] \in 1..Len(st)
    BY <1>1 DEF Placed
  <2>3. FirstOf(a, b)
    BY <2>2
  <2>4. a \in Bits /\ b \in Bits
    <3>1. cs[st[at[i]]] \in Circuits /\ ds[st[at[i]]] \in Circuits
      <4>1. st[at[i]] \in 1..Len(cs) /\ st[at[i]] \in 1..Len(ds)
        BY <2>2 DEF Shares
      <4> QED
        BY <4>1 DEF Shares
    <3> QED
      BY <3>1 DEF Circuits
  <2> HIDE DEF a, b, scope
  <2>5. \A j \in 1..Len(a) : j \in 1..Len(b) /\ b[j] = a[j]
    BY <2>3, <2>4, BitsConcat DEF FirstOf
  <2>6. ScopeBound(off, b, scope)
    BY <2>1, <2>5 DEF ScopeBound
  <2> QED
    BY <2>6 DEF b, scope
<1>3. Bound(off, ds, st, fs, at)
  BY <1>2 DEF Bound
<1> QED
  BY <1>1, <1>3 DEF Names

LEMMA DeclaredOnceFront ==
  ASSUME NEW fs \in Seq(Blocks), Len(fs) > 1, DeclaredOnce(fs)
  PROVE  DeclaredOnce(Front(fs))
<1>1. /\ Len(Front(fs)) = Len(fs) - 1
      /\ \A i \in 1..Len(Front(fs)) : i \in 1..Len(fs) /\ Front(fs)[i] = fs[i]
  BY DEF Front
<1> QED
  BY <1>1 DEF DeclaredOnce

LEMMA DeclaredOnceAppend ==
  ASSUME NEW fs \in Seq(Blocks), DeclaredOnce(fs), NEW b \in Blocks, DOMAIN b.scope = {}
  PROVE  DeclaredOnce(Append(fs, b))
<1>1. /\ Len(Append(fs, b)) = Len(fs) + 1 /\ Append(fs, b)[Len(fs) + 1] = b
      /\ \A i \in 1..Len(fs) : Append(fs, b)[i] = fs[i]
      /\ \A i \in 1..(Len(fs) + 1) : i = Len(fs) + 1 \/ i \in 1..Len(fs)
  OBVIOUS
<1> DEFINE gs == Append(fs, b)
<1> HIDE DEF gs
<1>2. ASSUME NEW i \in 1..Len(gs), NEW j \in 1..Len(gs),
             DOMAIN gs[i].scope \cap DOMAIN gs[j].scope # {}
      PROVE  i = j
  <2>1. i # Len(fs) + 1 /\ j # Len(fs) + 1
    BY <1>1, <1>2 DEF gs
  <2> QED
    BY <1>1, <1>2, <2>1 DEF DeclaredOnce, gs
<1> QED
  BY <1>2 DEF DeclaredOnce, gs

(* A block ends; its names are forgotten.                                  *)
LEMMA NamesPopped ==
  ASSUME NEW off, NEW cs, NEW st, NEW fs, Names(off, cs, st, fs),
         Shares(cs, st), Framed(fs, st), Last(fs).kind # "program"
  PROVE  IF Last(fs).kind = "unroll" THEN Names(off, cs, st, Front(fs))
         ELSE Names(off, cs, Front(st), Front(fs))
<1>1. PICK at : Placed(fs, st, at) /\ Bound(off, cs, st, fs, at)
  BY DEF Names
<1>2. PICK to :
        /\ Len(fs) > 1
        /\ \A i \in 1..(Len(fs) - 1) : to[i] = at[i]
        /\ Last(fs).kind = "unroll" => Placed(Front(fs), st, to)
        /\ Last(fs).kind # "unroll" =>
             Len(st) > 1 /\ Placed(Front(fs), Front(st), to)
  BY <1>1, PlacedPop
<1>3. st \in Seq(Nat) /\ fs \in Seq(Blocks)
  BY DEF Framed
<1>4. DeclaredOnce(Front(fs))
  BY <1>2, <1>3, DeclaredOnceFront DEF Names
<1>5. \A i \in 1..Len(Front(fs)) :
        /\ i \in 1..Len(fs) /\ i \in 1..(Len(fs) - 1) /\ Front(fs)[i] = fs[i]
        /\ to[i] = at[i]
  BY <1>2, <1>3 DEF Front
<1>6. CASE Last(fs).kind = "unroll"
  <2>1. Bound(off, cs, st, Front(fs), to)
    BY <1>1, <1>5 DEF Bound
  <2> QED
    BY <1>2, <1>4, <1>6, <2>1 DEF Names
<1>7. CASE Last(fs).kind # "unroll"
  <2>1. \A k \in 1..Len(Front(st)) : Front(st)[k] = st[k]
    BY <1>2, <1>3, <1>7 DEF Front
  <2>2. \A i \in 1..Len(Front(fs)) : to[i] \in 1..Len(Front(st))
    BY <1>2, <1>7 DEF Placed
  <2>3. \A i \in 1..Len(Front(fs)) : Front(st)[to[i]] = st[at[i]]
    BY <1>5, <2>1, <2>2
  <2>4. Bound(off, cs, Front(st), Front(fs), to)
    BY <1>1, <1>5, <2>3 DEF Bound
  <2> QED
    BY <1>2, <1>4, <1>7, <2>4 DEF Names
<1> QED
  BY <1>6, <1>7

(* A block is opened, with a circuit of its own or in place.               *)
LEMMA NamesOpened ==
  ASSUME NEW off, NEW cs, NEW st, NEW fs, Names(off, cs, st, fs), Framed(fs, st),
         NEW b \in Blocks, b.kind # "program", DOMAIN b.scope = {},
         NEW tt \in Seq(Nat),
         Len(tt) = Len(st) + (IF b.kind = "unroll" THEN 0 ELSE 1),
         \A i \in 1..Len(st) : tt[i] = st[i],
         b.kind = "false" => b.other \in 1..(tt[Len(tt)] - 1)
  PROVE  Names(off, cs, tt, Append(fs, b))
<1>1. PICK at : Placed(fs, st, at) /\ Bound(off, cs, st, fs, at)
  BY DEF Names
<1>2. PICK to : /\ Placed(Append(fs, b), tt, to)
                /\ \A i \in 1..Len(fs) : to[i] = at[i]
  BY <1>1, PlacedOpen
<1>3. fs \in Seq(Blocks)
  BY DEF Framed
<1>4. DeclaredOnce(Append(fs, b))
  BY <1>3, DeclaredOnceAppend DEF Names
<1>5. /\ Len(Append(fs, b)) = Len(fs) + 1 /\ Append(fs, b)[Len(fs) + 1] = b
      /\ \A i \in 1..Len(fs) : Append(fs, b)[i] = fs[i]
      /\ \A i \in 1..(Len(fs) + 1) : i = Len(fs) + 1 \/ i \in 1..Len(fs)
  BY <1>3
<1>6. \A i \in 1..Len(fs) : tt[to[i]] = st[at[i]]
  BY <1>1, <1>2 DEF Placed
<1> DEFINE gs == Append(fs, b)
<1>7. Bound(off, cs, tt, gs, to)
  <2> SUFFICES ASSUME NEW i \in 1..Len(gs)
               PROVE  ScopeBound(off, cs[tt[to[i]]].clbits, gs[i].scope)
    BY DEF Bound
  <2>1. CASE i \in 1..Len(fs)
    <3>1. gs[i] = fs[i] /\ tt[to[i]] = st[at[i]]
      BY <1>5, <1>6, <2>1
    <3> HIDE DEF gs
    <3> QED
      BY <1>1, <2>1, <3>1 DEF Bound
  <2>2. CASE i = Len(fs) + 1
    <3>1. DOMAIN gs[i].scope = {}
      BY <1>5, <2>2
    <3> HIDE DEF gs
    <3> QED
      BY <3>1 DEF ScopeBound
  <2> QED
    BY <1>5, <2>1, <2>2
<1> QED
  BY <1>2, <1>4, <1>7 DEF Names

NamesInv == Names(offset, circ, stack, frames)

LEMMA NamesStay ==
  ASSUME SharedInv, SharedInv', NamesInv, UNCHANGED <<stack, frames, offset>>,
         \A c \in 1..Len(circ) : circ'[c].clbits = circ[c].clbits
  PROVE  NamesInv'
<1>1. /\ Shares(circ, stack) /\ Shares(circ', stack) /\ circ \in Seq(Circuits)
      /\ \A k \in 1..Len(stack) : stack[k] \in 1..Len(circ)
  BY DEF SharedInv, Shares
<1>2. \A c \in 1..Len(circ) : FirstOf(circ[c].clbits, circ'[c].clbits)
  <2>1. \A c \in 1..Len(circ) : circ[c] \in Circuits
    BY <1>1
  <2> QED
    BY <2>1, FirstOfItself DEF Circuits
<1>3. \A k \in 1..Len(stack) : FirstOf(circ[stack[k]].clbits, circ'[stack[k]].clbits)
  BY <1>1, <1>2
<1>4. Names(offset, circ', stack, frames)
  BY <1>1, <1>3, NamesKept DEF NamesInv
<1> QED
  BY <1>4 DEF NamesInv

LEMMA OnQubitClbits ==
  ASSUME SharedInv, NEW q \in Nat, NEW instr \in Instructions, NEW c \in 1..Len(circ)
  PROVE  Appended(WithCapacity(q), Active, instr)[c].clbits = circ[c].clbits
<1> DEFINE cs == WithCapacity(q)
<1>1. Shares(circ, stack) /\ made \in Nat
  BY DEF SharedInv
<1>2. /\ Shares(cs, stack) /\ Len(cs) = Len(circ)
      /\ cs[c].clbits = circ[c].clbits
  BY <1>1, SharesCapacity, CapacityFacts
<1>3. cs \in Seq(Circuits) /\ Active \in 1..Len(cs) /\ c \in 1..Len(cs)
  BY <1>2, FrameFacts DEF Shares
<1> HIDE DEF cs
<1>4. Appended(cs, Active, instr)[c].clbits = cs[c].clbits
  BY <1>3, AppendedFacts
<1> QED
  BY <1>2, <1>4 DEF cs

(* The instruction a gate, a measurement or a barrier becomes.             *)
LEMMA QubitIsBits ==
  ASSUME SharedInv, NEW q \in Nat
  PROVE  <<WithCapacity(q)[Active].qubits[q + 1]>> \in Bits
<1> DEFINE cs == WithCapacity(q)
<1>1. /\ Shares(cs, stack) /\ Len(cs) = Len(circ)
      /\ q + 1 \in 1..Len(cs[Active].qubits)
  BY SharesCapacity DEF SharedInv
<1>2. cs[Active] \in Circuits
  BY <1>1, FrameFacts DEF Shares
<1>3. cs[Active].qubits[q + 1] \in Nat
  BY <1>1, <1>2 DEF Circuits, Bits
<1> QED
  BY <1>3, ShortBits

LEMMA PlainKeepsNames ==
  ASSUME SharedInv, SharedInv', NamesInv, NEW s \in Statements,
         Gate(s) \/ Barrier(s) \/ Measure(s) \/ Assign(s)
  PROVE  NamesInv'
<1>1. UNCHANGED <<stack, frames, offset>>
  BY DEF Gate, Barrier, Measure, Assign, Raise
<1>2. CASE UNCHANGED circ
  BY <1>1, <1>2, NamesStay
<1>3. CASE Gate(s)
  <2> DEFINE new == Instruction("gate", <<WithCapacity(s.q)[Active].qubits[s.q + 1]>>,
                                <<>>, <<>>, 0)
  <2>1. s.q \in Nat /\ circ' = Appended(WithCapacity(s.q), Active, new)
    BY <1>3, StatementsAssumption DEF Gate
  <2>2. new \in Instructions
    <3>1. "gate" \in Operations /\ 0 \in Nat
      BY DEF Operations
    <3> QED
      BY <2>1, <3>1, ShortBits, QubitIsBits, NewInstruction
  <2> HIDE DEF new
  <2>3. \A c \in 1..Len(circ) : circ'[c].clbits = circ[c].clbits
    BY <2>1, <2>2, OnQubitClbits
  <2> QED
    BY <1>1, <2>3, NamesStay
<1>4. CASE Barrier(s)
  <2> DEFINE new == Instruction("barrier", <<>>, <<>>, <<>>, 0)
  <2>1. circ' = circ \/ circ' = Appended(circ, Active, new)
    BY <1>4 DEF Barrier, Raise
  <2>2. new \in Instructions
    <3>1. "barrier" \in Operations /\ 0 \in Nat
      BY DEF Operations
    <3> QED
      BY <3>1, ShortBits, NewInstruction
  <2> HIDE DEF new
  <2>3. \A c \in 1..Len(circ) : circ'[c].clbits = circ[c].clbits
    <3>1. circ \in Seq(Circuits) /\ Active \in 1..Len(circ)
      BY FrameFacts
    <3> QED
      BY <2>1, <2>2, <3>1, AppendedFacts
  <2> QED
    BY <1>1, <2>3, NamesStay
<1>5. CASE Measure(s) /\ circ' # circ
  <2> DEFINE new == Instruction("measure", <<WithCapacity(s.q)[Active].qubits[s.q + 1]>>,
                                <<ClbitAt(s.name)>>, <<>>, 0)
  <2>1. s.name \in DOMAIN offset /\ HasClbit(s.name)
    BY <1>5 DEF Measure, Raise
  <2>2. s.q \in Nat /\ circ' = Appended(WithCapacity(s.q), Active, new)
    <3>1. s.do = "measure"
      BY <1>5 DEF Measure
    <3>2. s.q \in Nat
      BY <3>1, StatementsAssumption
    <3> QED
      BY <1>5, <2>1, <3>2 DEF Measure
  <2>3. new \in Instructions
    <3>1. "measure" \in Operations /\ 0 \in Nat
      BY DEF Operations
    <3>2. <<ClbitAt(s.name)>> \in Bits
      BY <2>1, ClbitIsNat, ShortBits
    <3> QED
      BY <2>2, <3>1, <3>2, ShortBits, QubitIsBits, NewInstruction
  <2> HIDE DEF new
  <2>4. \A c \in 1..Len(circ) : circ'[c].clbits = circ[c].clbits
    BY <2>2, <2>3, OnQubitClbits
  <2> QED
    BY <1>1, <2>4, NamesStay
<1>6. Assign(s) => UNCHANGED circ
  BY DEF Assign
<1> QED
  BY <1>2, <1>3, <1>4, <1>5, <1>6

LEMMA NewBits ==
  ASSUME made \in Nat, NEW n \in Nat
  PROVE  New(n) \in Bits /\ Len(New(n)) = n
BY DEF New, Bits

(* The bits of a declaration are the new ones, at its offset.              *)
LEMMA DeclareKeepsNames ==
  ASSUME ~Shadowing, SharedInv, SharedInv', NamesInv, NEW s \in Statements, Declare(s)
  PROVE  NamesInv'
<1> DEFINE name == s.name
           last == Len(frames)
           bits == circ[Active].clbits
           more == New(Size[name])
<1>1. /\ offset' = [n \in DOMAIN offset \cup {name} |->
                      IF n = name THEN Len(bits) ELSE offset[n]]
      /\ UNCHANGED stack /\ ~Visible(name)
  BY DEF Declare, FirstClbit
<1>2. /\ Size[name] \in Nat \ {0} /\ made \in Nat
      /\ circ' = [circ EXCEPT ![Active].clbits = @ \o New(Size[name])]
      /\ frames' \in Seq(Blocks) /\ Len(frames') = last
      /\ \A i \in 1..last : i # last => frames'[i].scope = frames[i].scope
      /\ frames'[last].scope = DeclaredScope(name) /\ frames[last] = Frame
      /\ last \in 1..last
      /\ \A at : Placed(frames, stack, at) => Placed(frames', stack, at)
  BY DeclareFacts
<1>3. /\ \A c \in 1..Len(circ) : c # Active => circ'[c] = circ[c]
      /\ circ'[Active].clbits = bits \o more
      /\ FirstOf(bits, circ'[Active].clbits)
  BY <1>2, DeclaredBits
<1>4. /\ Shares(circ, stack) /\ Shares(circ', stack) /\ circ \in Seq(Circuits)
      /\ \A k \in 1..Len(stack) : stack[k] \in 1..Len(circ)
      /\ Active = stack[Len(stack)] /\ circ[Active] \in Circuits
      /\ frames \in Seq(Blocks)
  BY <1>1, FrameFacts DEF SharedInv, Shares, Active, Last
<1>5. bits \in Bits /\ more \in Bits /\ Len(bits) \in Nat /\ Len(more) = Size[name]
  <2>1. bits \in Bits
    BY <1>4 DEF Circuits
  <2>2. more \in Bits /\ Len(more) = Size[name]
    BY <1>2, NewBits
  <2> HIDE DEF bits, more
  <2> QED
    BY <2>1, <2>2, BitsConcat
<1>6. \A i \in 1..last : name \notin DOMAIN frames[i].scope
  <2>1. DOMAIN frames = 1..last
    BY <1>4
  <2> QED
    BY <1>1, <2>1 DEF Visible, Depths
<1>7. PICK at : Placed(frames, stack, at) /\ Bound(offset, circ', stack, frames, at)
  <2>1. \A k \in 1..Len(stack) : FirstOf(circ[stack[k]].clbits, circ'[stack[k]].clbits)
    <3>1. \A c \in 1..Len(circ) : FirstOf(circ[c].clbits, circ'[c].clbits)
      <4>1. \A c \in 1..Len(circ) : circ[c] \in Circuits
        BY <1>4
      <4> QED
        BY <1>3, <4>1, FirstOfItself DEF Circuits
    <3> QED
      BY <1>4, <3>1
  <2> QED
    BY <1>4, <2>1, NamesKept DEF NamesInv, Names
<1>8. ASSUME NEW i \in 1..last
      PROVE  ScopeBound(offset', circ'[stack[at[i]]].clbits, frames[i].scope)
  <2>1. ScopeBound(offset, circ'[stack[at[i]]].clbits, frames[i].scope)
    BY <1>7 DEF Bound
  <2>2. \A n \in DOMAIN frames[i].scope : n \in DOMAIN offset /\ n # name
    BY <1>6 DEF SharedInv, Named
  <2>3. \A n \in DOMAIN frames[i].scope : offset'[n] = offset[n]
    BY <1>1, <2>2
  <2> QED
    BY <2>1, <2>3 DEF ScopeBound
<1>9. ScopeBound(offset', circ'[Active].clbits, DeclaredScope(name))
  <2> SUFFICES ASSUME NEW n \in DOMAIN DeclaredScope(name), NEW x \in 1..Size[n]
               PROVE  /\ offset'[n] + x \in 1..Len(circ'[Active].clbits)
                      /\ circ'[Active].clbits[offset'[n] + x]
                           = DeclaredScope(name)[n] + x - 1
    BY DEF ScopeBound
  <2>1. CASE n = name
    <3>1. offset'[n] = Len(bits) /\ DeclaredScope(name)[n] = made + 1
      BY <1>1, <2>1 DEF DeclaredScope
    <3>2. x \in 1..Len(more) /\ more[x] = made + x
      BY <1>2, <1>5, <2>1 DEF New
    <3> HIDE DEF bits, more
    <3>3. Len(bits \o more) = Len(bits) + Len(more) /\ Len(more) \in Nat
      BY <1>5, BitsConcat
    <3>4. (bits \o more)[Len(bits) + x] = more[x]
      BY <1>5, <3>2 DEF Bits
    <3>5. Len(bits) + x \in 1..Len(bits \o more)
      BY <1>5, <3>2, <3>3
    <3>6. \A m, z \in Nat : \A w \in 1..z : m + w = (m + 1) + w - 1
      OBVIOUS
    <3>7. made + x = (made + 1) + x - 1
      BY <1>2, <3>2, <1>5, <3>6
    <3>8. circ'[Active].clbits = bits \o more
      BY <1>3
    <3> QED
      BY <3>1, <3>2, <3>4, <3>5, <3>7, <3>8
  <2>2. CASE n # name
    <3>1. n \in DOMAIN Frame.scope /\ DeclaredScope(name)[n] = Frame.scope[n]
      BY <2>2 DEF DeclaredScope
    <3>2. ScopeBound(offset', circ'[stack[at[last]]].clbits, Frame.scope)
      BY <1>2, <1>8
    <3>3. stack[at[last]] = Active
      BY <1>4, <1>7 DEF Placed
    <3> QED
      BY <3>1, <3>2, <3>3 DEF ScopeBound
  <2> QED
    BY <2>1, <2>2
<1>10. Bound(offset', circ', stack, frames', at)
  <2>1. \A i \in 1..last : ScopeBound(offset', circ'[stack[at[i]]].clbits, frames'[i].scope)
    <3>1. stack[at[last]] = Active
      BY <1>4, <1>7 DEF Placed
    <3> QED
      BY <1>2, <1>8, <1>9, <3>1
  <2> QED
    BY <1>2, <2>1 DEF Bound
<1>11. DeclaredOnce(frames')
  <2> DEFINE dom(i) == DOMAIN frames'[i].scope
  <2>1. \A i \in 1..last :
          dom(i) = IF i = last THEN DOMAIN frames[i].scope \cup {name}
                               ELSE DOMAIN frames[i].scope
    BY <1>2 DEF DeclaredScope
  <2> SUFFICES ASSUME NEW i \in 1..last, NEW j \in 1..last, dom(i) \cap dom(j) # {}
               PROVE  i = j
    BY <1>2 DEF DeclaredOnce
  <2> HIDE DEF dom, last, name
  <2>2. PICK n : n \in dom(i) /\ n \in dom(j)
    OBVIOUS
  <2>3. CASE n = name
    BY <1>6, <2>1, <2>2, <2>3
  <2>4. CASE n # name
    <3>1. n \in DOMAIN frames[i].scope /\ n \in DOMAIN frames[j].scope
      BY <2>1, <2>2, <2>4
    <3> QED
      BY <3>1 DEF NamesInv, Names, DeclaredOnce, last
  <2> QED
    BY <2>3, <2>4
<1> QED
  BY <1>1, <1>2, <1>7, <1>10, <1>11 DEF NamesInv, Names

(* A new circuit on the stack leaves those below as they are.              *)
LEMMA NamesPushed ==
  ASSUME NEW cs, NEW st, NEW fs, Shares(cs, st), Framed(fs, st),
         Names(offset, cs, st, fs), NEW b \in Blocks,
         b.kind \notin {"program", "unroll"}, DOMAIN b.scope = {},
         b.kind = "false" => b.other \in 1..Len(cs)
  PROVE  Names(offset, Pushed(cs, st), Append(st, Len(cs) + 1), Append(fs, b))
<1> DEFINE ds == Pushed(cs, st)
           tt == Append(st, Len(cs) + 1)
<1>1. /\ \A c \in 1..Len(cs) : ds[c] = cs[c]
      /\ Len(cs) \in Nat
  BY PushedFacts
<1>2. Shares(ds, tt)
  BY SharesPushed
<1>3. /\ st \in Seq(Nat) /\ Len(st) \in Nat \ {0} /\ cs \in Seq(Circuits)
      /\ \A k \in 1..Len(st) : st[k] \in 1..Len(cs)
  BY DEF Shares
<1>4. /\ tt \in Seq(Nat) /\ Len(tt) = Len(st) + 1 /\ tt[Len(tt)] = Len(cs) + 1
      /\ \A k \in 1..Len(st) : tt[k] = st[k]
      /\ Front(tt) = st
  <2>1. /\ tt \in Seq(Nat) /\ Len(tt) = Len(st) + 1 /\ tt[Len(tt)] = Len(cs) + 1
        /\ \A k \in 1..Len(st) : tt[k] = st[k]
    BY <1>1, <1>3
  <2>2. Front(tt) = st
    BY <1>1, <1>3 DEF Front
  <2> QED
    BY <2>1, <2>2
<1> HIDE DEF ds, tt
<1>5. Shares(ds, st)
  <2>1. Len(tt) > 1
    BY <1>3, <1>4
  <2> QED
    BY <1>2, <1>4, <2>1, SharesPopped
<1>6. \A k \in 1..Len(st) : FirstOf(cs[st[k]].clbits, ds[st[k]].clbits)
  <2>1. \A c \in 1..Len(cs) : cs[c] \in Circuits
    BY <1>3
  <2> QED
    BY <1>1, <1>3, <2>1, FirstOfItself DEF Circuits
<1>7. Names(offset, ds, st, fs)
  BY <1>5, <1>6, NamesKept
<1>8. Names(offset, ds, tt, Append(fs, b))
  <2>1. b.kind = "false" => b.other \in 1..(tt[Len(tt)] - 1)
    BY <1>1, <1>4
  <2>2. Len(tt) = Len(st) + (IF b.kind = "unroll" THEN 0 ELSE 1)
    BY <1>4
  <2> QED
    BY <1>4, <1>7, <2>1, <2>2, NamesOpened
<1> QED
  BY <1>8 DEF ds, tt

LEMMA NamesUnrolled ==
  ASSUME NEW cs, NEW st, NEW fs, Framed(fs, st), Names(offset, cs, st, fs),
         NEW b \in Blocks, b.kind = "unroll", DOMAIN b.scope = {}
  PROVE  Names(offset, cs, st, Append(fs, b))
<1>1. st \in Seq(Nat) /\ Len(st) = Len(st) + 0
  BY DEF Framed
<1> QED
  BY <1>1, NamesOpened

LEMMA OpenKeepsNames ==
  ASSUME SharedInv, NamesInv, NEW kind \in {"true", "while", "probe", "box"},
         NEW left \in Nat, NEW cond \in Nat, Open(kind, left, cond)
  PROVE  NamesInv'
<1> DEFINE b == Block(kind, pc + 1, left, cond, Nobody)
<1>1. b \in Blocks /\ b.kind = kind /\ DOMAIN b.scope = {}
  <2>1. kind \in Kinds /\ pc + 1 \in Nat /\ counter \in Int /\ Nobody \in Nat
    BY DEF SharedInv, Kinds, Nobody
  <2>2. b.kind = kind /\ DOMAIN b.scope = {}
    BY DEF Block
  <2> QED
    BY <2>1, <2>2, NewBlock
<1> HIDE DEF b
<1>2. /\ circ' = Pushed(circ, stack) /\ stack' = Append(stack, Len(circ) + 1)
      /\ frames' = Append(frames, b) /\ offset' = offset
  BY DEF Open, b
<1>3. b.kind \notin {"program", "unroll", "false"}
  BY <1>1
<1>4. Shares(circ, stack) /\ Framed(frames, stack) /\ Names(offset, circ, stack, frames)
  BY DEF SharedInv, NamesInv
<1>5. Names(offset, Pushed(circ, stack), Append(stack, Len(circ) + 1), Append(frames, b))
  BY <1>1, <1>3, <1>4, NamesPushed
<1> QED
  BY <1>2, <1>5 DEF NamesInv

LEMMA OpeningKeepsNames ==
  ASSUME SharedInv, NamesInv, NEW s \in Statements,
         OpenConditional(s) \/ OpenLoop(s) \/ OpenBox(s)
  PROVE  NamesInv'
<1>1. CASE UNCHANGED <<circ, stack, frames, offset>>
  BY <1>1 DEF NamesInv
<1>2. CASE OpenConditional(s) /\ HasClbit(s.name)
  <2>1. s.name \in DOMAIN offset
    <3>1. PICK i \in DOMAIN frames : s.name \in DOMAIN frames[i].scope
      BY <1>2 DEF OpenConditional, Visible, Depths
    <3>2. i \in 1..Len(frames)
      BY <3>1, FrameFacts
    <3> QED
      BY <3>1, <3>2 DEF SharedInv, Named
  <2>2. ClbitAt(s.name) \in Nat /\ 0 \in Nat
    BY <1>2, <2>1, ClbitIsNat
  <2>3. Open(IF s.do = "if" THEN "true" ELSE "while", 0, ClbitAt(s.name))
    BY <1>2 DEF OpenConditional
  <2>4. \E kind \in {"true", "while"} : Open(kind, 0, ClbitAt(s.name))
    BY <2>3
  <2> QED
    BY <2>2, <2>4, OpenKeepsNames
<1>3. CASE OpenLoop(s)
  <2>1. Open("probe", s.n, 0) /\ s.n \in Nat
    BY <1>3, StatementsAssumption DEF OpenLoop
  <2> QED
    BY <2>1, OpenKeepsNames
<1>4. CASE OpenBox(s) /\ ~inVerbatim
  <2>1. Open("box", 0, 0)
    BY <1>4 DEF OpenBox
  <2> QED
    BY <2>1, OpenKeepsNames
<1>5. /\ OpenConditional(s) /\ ~HasClbit(s.name) => UNCHANGED <<circ, stack, frames, offset>>
      /\ OpenBox(s) /\ inVerbatim => UNCHANGED <<circ, stack, frames, offset>>
  BY DEF OpenConditional, OpenBox, Raise
<1> QED
  BY <1>1, <1>2, <1>3, <1>4, <1>5

LEMMA EndTrueKeepsNames ==
  ASSUME SharedInv, NamesInv, EndTrue
  PROVE  NamesInv'
<1> DEFINE b == Block("false", pc + 1, 0, Frame.cond, Active)
           st == Front(stack)
           fs == Front(frames)
<1>1. /\ Frame.kind = "true" /\ offset' = offset
      /\ circ' = Pushed(circ, st) /\ stack' = Append(st, Len(circ) + 1)
      /\ frames' = Append(fs, b)
  BY DEF EndTrue, End
<1>2. /\ Len(stack) > 1 /\ Framed(fs, st)
  BY <1>1, FramedPop DEF SharedInv, Frame
<1>3. Shares(circ, st) /\ Active \in 1..Len(circ)
  BY <1>2, BelowFacts, FrameFacts
<1>4. b \in Blocks /\ b.kind = "false" /\ b.other = Active /\ DOMAIN b.scope = {}
  <2>1. /\ "false" \in Kinds /\ pc + 1 \in Nat /\ 0 \in Nat
        /\ Frame.cond \in Nat /\ Active \in Nat /\ counter \in Int
    BY FrameFacts DEF SharedInv, Kinds
  <2>2. b.kind = "false" /\ b.other = Active /\ DOMAIN b.scope = {}
    BY DEF Block
  <2> QED
    BY <2>1, <2>2, NewBlock
<1>5. Names(offset, circ, st, fs)
  BY <1>1, NamesPopped DEF SharedInv, NamesInv, Frame
<1> HIDE DEF b, st, fs
<1>6. Names(offset, Pushed(circ, st), Append(st, Len(circ) + 1), Append(fs, b))
  BY <1>2, <1>3, <1>4, <1>5, NamesPushed
<1> QED
  BY <1>1, <1>6 DEF NamesInv

(* A block that is wrapped gives its bits to the circuit below.            *)
LEMMA CloseKeepsNames ==
  ASSUME SharedInv, SharedInv', NamesInv, Frame.kind \notin {"program", "unroll"},
         Leave, UNCHANGED offset,
         \A k \in 1..Len(stack') :
           FirstOf(circ[stack'[k]].clbits, circ'[stack'[k]].clbits)
  PROVE  NamesInv'
<1>1. Len(stack) > 1
  BY FramedPop DEF SharedInv, Frame
<1>2. stack' = Front(stack) /\ frames' = Front(frames)
  BY DEF Leave
<1>3. Shares(circ, Front(stack)) /\ Shares(circ', Front(stack))
  BY <1>1, <1>2, BelowFacts DEF SharedInv
<1>4. Names(offset, circ, Front(stack), Front(frames))
  BY NamesPopped DEF SharedInv, NamesInv, Frame
<1>5. \A k \in 1..Len(Front(stack)) :
        FirstOf(circ[Front(stack)[k]].clbits, circ'[Front(stack)[k]].clbits)
  BY <1>2
<1>6. Names(offset, circ', Front(stack), Front(frames))
  BY <1>3, <1>4, <1>5, NamesKept
<1> QED
  BY <1>2, <1>6 DEF NamesInv

LEMMA EndProbeKeepsNames ==
  ASSUME SharedInv, NamesInv, EndProbe
  PROVE  NamesInv'
<1> DEFINE tt == Front(stack)
           gs == Front(frames)
<1>1. Frame.kind = "probe" /\ offset' = offset
  BY DEF EndProbe, End
<1>2. /\ Len(stack) > 1 /\ Len(frames) > 1 /\ Framed(gs, tt)
  BY <1>1, FramedPop DEF SharedInv, Frame
<1>3. Shares(circ, tt) /\ Below < Active /\ Below = Last(tt)
  BY <1>2, BelowFacts DEF Below
<1>4. Shares(Dropped, tt)
  BY <1>2, SharesDropped DEF SharedInv, Dropped, Active
<1>5. /\ Len(Dropped) + 1 = Active
      /\ \A c \in 1..Len(Dropped) : Dropped[c] = circ[c] /\ c \in 1..Len(circ)
      /\ circ \in Seq(Circuits)
  <2>1. Active \in 1..Len(circ) /\ circ \in Seq(Circuits) /\ Len(circ) \in Nat
    BY FrameFacts
  <2> QED
    BY <2>1 DEF Dropped
<1>6. Names(offset, Dropped, tt, gs)
  <2>1. Names(offset, circ, tt, gs)
    BY <1>1, NamesPopped DEF SharedInv, NamesInv, Frame
  <2>2. \A k \in 1..Len(tt) : FirstOf(circ[tt[k]].clbits, Dropped[tt[k]].clbits)
    <3>1. \A k \in 1..Len(tt) : tt[k] \in 1..Len(Dropped)
      BY <1>4 DEF Shares
    <3>2. \A c \in 1..Len(Dropped) : circ[c] \in Circuits
      BY <1>5
    <3> HIDE DEF tt
    <3> QED
      BY <1>5, <3>1, <3>2, FirstOfItself DEF Circuits
  <2> QED
    BY <1>3, <1>4, <2>1, <2>2, NamesKept
<1>7. CASE circ[Active].data = <<>> /\ Frame.left > 1
  <2>1. /\ circ' = Dropped /\ stack' = tt /\ Again("unroll", Frame.left - 2)
    BY <1>7 DEF EndProbe
  <2>2. Frame.left - 2 \in Nat
    BY <1>7, FrameFacts
  <2>3. PICK b \in Blocks : /\ b.kind = "unroll" /\ DOMAIN b.scope = {}
                            /\ frames' = Append(gs, b)
    BY <1>2, <2>1, <2>2, AgainFacts
  <2>4. Names(offset, Dropped, tt, Append(gs, b))
    BY <1>2, <1>6, <2>3, NamesUnrolled
  <2> QED
    BY <1>1, <2>1, <2>3, <2>4 DEF NamesInv
<1>8. CASE circ[Active].data = <<>> /\ ~(Frame.left > 1)
  <2>1. circ' = Dropped /\ stack' = tt /\ frames' = gs
    BY <1>8 DEF EndProbe
  <2> QED
    BY <1>1, <1>6, <2>1 DEF NamesInv
<1>9. CASE circ[Active].data # <<>> /\ Modifies(Frame, gs)
  <2>1. UNCHANGED <<circ, stack, frames>>
    BY <1>9 DEF EndProbe
  <2> QED
    BY <1>1, <2>1 DEF NamesInv
<1>10. CASE circ[Active].data # <<>> /\ ~Modifies(Frame, gs)
  <2>1. /\ circ' = Pushed(Dropped, tt) /\ stack' = Append(tt, Active)
        /\ Again("body", 0)
    BY <1>10 DEF EndProbe
  <2>2. PICK b \in Blocks : /\ b.kind = "body" /\ DOMAIN b.scope = {}
                            /\ frames' = Append(gs, b)
    BY <1>2, <2>1, AgainFacts
  <2>3. Names(offset, Pushed(Dropped, tt), Append(tt, Len(Dropped) + 1), Append(gs, b))
    <3>1. b.kind \notin {"program", "unroll", "false"}
      BY <2>2
    <3> QED
      BY <1>2, <1>4, <1>6, <2>2, <3>1, NamesPushed
  <2> QED
    BY <1>1, <1>5, <2>1, <2>2, <2>3 DEF NamesInv
<1> QED
  BY <1>7, <1>8, <1>9, <1>10

LEMMA EndUnrollKeepsNames ==
  ASSUME SharedInv, NamesInv, EndUnroll
  PROVE  NamesInv'
<1> DEFINE gs == Front(frames)
<1>1. Frame.kind = "unroll" /\ UNCHANGED <<circ, stack, offset>>
  BY DEF EndUnroll, End
<1>2. Len(frames) > 1 /\ Framed(gs, stack)
  BY <1>1, FramedPop DEF SharedInv, Frame
<1>3. Names(offset, circ, stack, gs)
  BY <1>1, NamesPopped DEF SharedInv, NamesInv, Frame
<1>4. CASE Frame.left > 0
  <2>1. Again("unroll", Frame.left - 1) /\ Frame.left - 1 \in Nat
    BY <1>4, FrameFacts DEF EndUnroll
  <2>2. PICK b \in Blocks : /\ b.kind = "unroll" /\ DOMAIN b.scope = {}
                            /\ frames' = Append(gs, b)
    BY <1>2, <2>1, AgainFacts
  <2>3. Names(offset, circ, stack, Append(gs, b))
    BY <1>2, <1>3, <2>2, NamesUnrolled
  <2> QED
    BY <1>1, <2>2, <2>3 DEF NamesInv
<1>5. CASE ~(Frame.left > 0)
  <2>1. frames' = gs
    BY <1>5 DEF EndUnroll
  <2> QED
    BY <1>1, <1>3, <2>1 DEF NamesInv
<1> QED
  BY <1>4, <1>5

LEMMA EndKeepsNames ==
  ASSUME SharedInv, SharedInv', WrapsInv, NamesInv,
         \/ EndTrue \/ EndFalse \/ EndProbe \/ EndUnroll \/ EndBody
         \/ EndWhile \/ EndBox
  PROVE  NamesInv'
<1>1. CASE EndTrue
  BY <1>1, EndTrueKeepsNames
<1>2. CASE EndFalse
  <2>1. /\ Frame.kind \notin {"program", "unroll"} /\ Leave /\ UNCHANGED offset
    BY <1>2 DEF EndFalse, End
  <2>2. \A k \in 1..Len(stack') :
          FirstOf(circ[stack'[k]].clbits, circ'[stack'[k]].clbits)
    BY <1>2, EndFalseKeepsWraps
  <2> QED
    BY <2>1, <2>2, CloseKeepsNames
<1>3. CASE EndProbe
  BY <1>3, EndProbeKeepsNames
<1>4. CASE EndUnroll
  BY <1>4, EndUnrollKeepsNames
<1>5. ASSUME NEW op \in {"for", "while", "box"},
             Frame.kind \notin {"program", "unroll"}, Leave, UNCHANGED offset,
             Wrap(ExtendBits(circ, Below, Active), Below, op, <<Active>>)
      PROVE  NamesInv'
  <2>1. op \in Operations
    BY DEF Operations
  <2>2. \A k \in 1..Len(stack') :
          FirstOf(circ[stack'[k]].clbits, circ'[stack'[k]].clbits)
    BY <1>5, <2>1, ExtendedKeepsWraps
  <2> QED
    BY <1>5, <2>2, CloseKeepsNames
<1>6. CASE EndBody
  BY <1>5, <1>6 DEF EndBody, End
<1>7. CASE EndWhile /\ circ[Active].data # <<>>
  BY <1>5, <1>7 DEF EndWhile, End
<1>8. CASE EndWhile /\ circ[Active].data = <<>>
  BY <1>8 DEF EndWhile, Raise, NamesInv
<1>9. CASE EndBox
  BY <1>5, <1>9 DEF EndBox, End
<1> QED
  BY <1>1, <1>2, <1>3, <1>4, <1>6, <1>7, <1>8, <1>9

LEMMA InitNames == Init => NamesInv
<1> SUFFICES ASSUME Init PROVE NamesInv
  OBVIOUS
<1>1. SharedInv
  BY InitShared
<1>2. Len(frames) = 1 /\ DOMAIN frames[1].scope = {}
  BY DEF Init
<1>3. PICK at : Placed(frames, stack, at)
  BY <1>1 DEF SharedInv, Framed
<1>4. Bound(offset, circ, stack, frames, at)
  BY <1>2 DEF Bound, ScopeBound
<1>5. DeclaredOnce(frames)
  BY <1>2 DEF DeclaredOnce
<1> QED
  BY <1>3, <1>4, <1>5 DEF NamesInv, Names

(* What the names and the nesting of the circuits say of the active one.   *)
LEMMA VisibleBits ==
  ASSUME SharedInv, WrapsInv, NamesInv, NEW name, Visible(name)
  PROVE  \A x \in 1..Size[name] :
           /\ offset[name] + x \in 1..Len(circ[Active].clbits)
           /\ circ[Active].clbits[offset[name] + x] = DeclaredBit(name) + x - 1
<1>1. PICK at : Placed(frames, stack, at) /\ Bound(offset, circ, stack, frames, at)
  BY DEF NamesInv, Names
<1>2. /\ frames \in Seq(Blocks) /\ DOMAIN frames = 1..Len(frames)
      /\ stack \in Seq(Nat) /\ Len(stack) \in 1..Len(stack)
      /\ Active = stack[Len(stack)]
  BY FrameFacts DEF SharedInv, Shares, Active, Last
<1>3. PICK i \in 1..Len(frames) : name \in DOMAIN frames[i].scope
  BY <1>2 DEF Visible, Depths
<1>4. Depths(name) = {i}
  BY <1>2, <1>3 DEF Depths, NamesInv, Names, DeclaredOnce
<1>5. DeclaredBit(name) = frames[i].scope[name]
  <2>1. i \in Nat /\ i >= i
    BY <1>2
  <2>2. Max({i}) = i
    BY <2>1 DEF Max
  <2> QED
    BY <1>4, <2>2 DEF DeclaredBit
<1> DEFINE a == circ[stack[at[i]]].clbits
           b == circ[Active].clbits
           scope == frames[i].scope
<1>6. ScopeBound(offset, a, scope)
  BY <1>1 DEF Bound
<1>7. at[i] \in 1..Len(stack) /\ at[i] <= Len(stack)
  BY <1>1, <1>2 DEF Placed
<1>8. FirstOf(a, b)
  BY <1>2, <1>7 DEF WrapsInv, Wraps, Nested
<1>9. a \in Bits /\ b \in Bits
  <2>1. circ[stack[at[i]]] \in Circuits
    BY <1>7 DEF SharedInv, Shares
  <2> QED
    BY <2>1, FrameFacts DEF Circuits
<1> HIDE DEF a, b, scope
<1>10. \A j \in 1..Len(a) : j \in 1..Len(b) /\ b[j] = a[j]
  BY <1>8, <1>9, BitsConcat DEF FirstOf
<1>11. name \in DOMAIN scope /\ DeclaredBit(name) = scope[name]
  BY <1>3, <1>5 DEF scope
<1>12. \A x \in 1..Size[name] :
         /\ offset[name] + x \in 1..Len(b)
         /\ b[offset[name] + x] = DeclaredBit(name) + x - 1
  BY <1>6, <1>10, <1>11 DEF ScopeBound
<1> QED
  BY <1>12 DEF b

LEMMA VisibleHasClbit ==
  ASSUME SharedInv, WrapsInv, NamesInv, NEW name \in Name, Visible(name)
  PROVE  /\ name \in DOMAIN offset /\ HasClbit(name)
         /\ ClbitAt(name) = DeclaredBit(name)
<1>1. name \in DOMAIN offset
  <2>1. PICK i \in DOMAIN frames : name \in DOMAIN frames[i].scope
    BY DEF Visible, Depths
  <2>2. i \in 1..Len(frames)
    BY <2>1, FrameFacts
  <2> QED
    BY <2>1, <2>2 DEF SharedInv, Named
<1>2. Size[name] \in Nat \ {0}
  BY SizeAssumption
<1>3. 1 \in 1..Size[name]
  BY <1>2
<1>4. /\ offset[name] + 1 \in 1..Len(circ[Active].clbits)
      /\ circ[Active].clbits[offset[name] + 1] = DeclaredBit(name) + 1 - 1
  BY <1>3, VisibleBits
<1>5. offset[name] \in Nat /\ circ[Active].clbits \in Bits
  BY <1>1, FrameFacts DEF SharedInv, Circuits
<1>6. HasClbit(name)
  BY <1>4, <1>5, BitsConcat DEF HasClbit
<1>7. DeclaredBit(name) \in Nat
  <2>1. PICK i \in 1..Len(frames) : i = Max(Depths(name)) /\ name \in DOMAIN frames[i].scope
    <3>1. frames \in Seq(Blocks) /\ DOMAIN frames = 1..Len(frames)
      BY FrameFacts
    <3>2. PICK i \in 1..Len(frames) : name \in DOMAIN frames[i].scope
      BY <3>1 DEF Visible, Depths
    <3>3. Depths(name) = {i}
      BY <3>1, <3>2 DEF Depths, NamesInv, Names, DeclaredOnce
    <3>4. Max({i}) = i
      <4>1. i \in Nat /\ i >= i
        BY <3>1
      <4> QED
        BY <4>1 DEF Max
    <3> QED
      BY <3>2, <3>3, <3>4
  <2>2. frames[i] \in Blocks
    BY FrameFacts
  <2>3. PICK names \in SUBSET Name : frames[i].scope \in [names -> Nat]
    BY <2>2 DEF Blocks, Scopes
  <2> QED
    BY <2>1, <2>3 DEF DeclaredBit
<1>8. ClbitAt(name) = DeclaredBit(name)
  BY <1>4, <1>7 DEF ClbitAt
<1> QED
  BY <1>1, <1>6, <1>8

-----------------------------------------------------------------------------
LEMMA StatementRaisesNoCircuitError ==
  ASSUME SharedInv, WrapsInv, NamesInv, status = "running", NEW s \in Statements,
         \/ Gate(s) \/ Barrier(s) \/ Declare(s) \/ Measure(s) \/ Assign(s)
         \/ OpenConditional(s) \/ OpenLoop(s) \/ OpenBox(s)
  PROVE  status' # "CircuitError"
<1>1. CASE Measure(s)
  <2>1. s.do = "measure" /\ (Visible(s.name) \/ s.name \notin DOMAIN offset)
    BY <1>1 DEF Measure
  <2>2. s.name \in Name
    BY <2>1, StatementsAssumption
  <2>3. s.name \notin DOMAIN offset \/ HasClbit(s.name)
    BY <2>1, <2>2, VisibleHasClbit
  <2> QED
    BY <1>1, <2>3 DEF Measure, Raise, GoOn
<1>2. CASE OpenConditional(s)
  <2>1. s.do \in {"if", "while"} /\ Visible(s.name)
    BY <1>2 DEF OpenConditional
  <2>2. s.name \in Name
    BY <2>1, StatementsAssumption
  <2>3. HasClbit(s.name)
    BY <2>1, <2>2, VisibleHasClbit
  <2> QED
    BY <1>2, <2>3 DEF OpenConditional, Open, GoOn
<1> QED
  BY <1>1, <1>2 DEF Gate, Barrier, Declare, Assign, OpenLoop, OpenBox, Open,
     Raise, GoOn

-----------------------------------------------------------------------------
(* Every set of numbers has a least one.                                   *)
LEMMA Least ==
  ASSUME NEW S \in SUBSET Nat, S # {}
  PROVE  \E n \in S : \A m \in S : n <= m
<1> DEFINE R == OpToRel(<, Nat)
<1>1. IsWellFoundedOn(R, Nat)
  BY NatLessThanWellFounded
<1>2. \A m, n \in Nat : <<m, n>> \in R <=> m < n
  BY DEF OpToRel
<1> HIDE DEF R
<1>3. PICK n \in S : \A m \in S : ~(<<m, n>> \in R)
  BY <1>1, WFMin
<1>4. ASSUME NEW m \in S PROVE n <= m
  <2>1. n \in Nat /\ m \in Nat /\ ~(m < n)
    BY <1>2, <1>3
  <2> QED
    BY <2>1
<1> QED
  BY <1>4

(* The loop that gives a body the qubits it lacks: a body that has the     *)
(* first of the circuit's qubits, which ascend, gets all of them.          *)
Filled(bits, top, first) ==
  first = [n \in 0..Len(top) |->
             IF n = 0 THEN bits
             ELSE IF top[n] \in ToSet(first[n - 1]) THEN first[n - 1]
             ELSE Append(first[n - 1], top[n])]

Ascending(bits) == \A i, j \in 1..Len(bits) : i < j => bits[i] < bits[j]

UpTo(bits, top, n) == IF n <= Len(bits) THEN bits ELSE SubSeq(top, 1, n)

LEMMA UpToFacts ==
  ASSUME NEW bits \in Bits, NEW top \in Bits, FirstOf(bits, top), Ascending(top),
         NEW n \in 1..Len(top)
  PROVE  UpTo(bits, top, n) =
           IF top[n] \in ToSet(UpTo(bits, top, n - 1)) THEN UpTo(bits, top, n - 1)
           ELSE Append(UpTo(bits, top, n - 1), top[n])
<1>1. /\ Len(bits) \in Nat /\ Len(top) \in Nat /\ Len(bits) <= Len(top)
      /\ \A i \in 1..Len(bits) : bits[i] = top[i]
      /\ DOMAIN bits = 1..Len(bits) /\ n \in Nat
      /\ \A i \in 1..Len(top) : top[i] \in Nat
  BY DEF FirstOf, Bits
<1>2. CASE n <= Len(bits)
  <2>1. UpTo(bits, top, n) = bits /\ UpTo(bits, top, n - 1) = bits
    BY <1>1, <1>2 DEF UpTo
  <2>2. top[n] \in ToSet(bits)
    <3>1. n \in 1..Len(bits) /\ top[n] = bits[n]
      BY <1>1, <1>2
    <3> QED
      BY <1>1, <3>1 DEF ToSet
  <2> QED
    BY <2>1, <2>2
<1>3. CASE n > Len(bits)
  <2> DEFINE before == UpTo(bits, top, n - 1)
  <2>1. before = SubSeq(top, 1, n - 1)
    <3>1. CASE n - 1 <= Len(bits)
      <4>1. n - 1 = Len(bits) /\ before = bits
        BY <1>1, <1>3, <3>1 DEF UpTo
      <4>2. bits = SubSeq(top, 1, Len(bits))
        BY <1>1 DEF Bits
      <4> QED
        BY <4>1, <4>2
    <3>2. CASE ~(n - 1 <= Len(bits))
      BY <3>2 DEF UpTo
    <3> QED
      BY <3>1, <3>2
  <2> HIDE DEF before
  <2>2. /\ before \in Bits /\ Len(before) = n - 1 /\ DOMAIN before = 1..(n - 1)
        /\ \A i \in 1..(n - 1) : before[i] = top[i]
    BY <1>1, <2>1 DEF Bits
  <2>3. top[n] \notin ToSet(before)
    <3> SUFFICES ASSUME NEW i \in 1..(n - 1), top[n] = top[i] PROVE FALSE
      BY <2>2 DEF ToSet
    <3>1. i \in 1..Len(top) /\ i < n
      BY <1>1
    <3>2. top[i] < top[n]
      BY <3>1 DEF Ascending
    <3> QED
      BY <1>1, <3>1, <3>2
  <2>4. UpTo(bits, top, n) = SubSeq(top, 1, n)
    BY <1>1, <1>3 DEF UpTo
  <2>5. SubSeq(top, 1, n) = Append(SubSeq(top, 1, n - 1), top[n])
    BY <1>1 DEF Bits
  <2> QED
    BY <2>1, <2>3, <2>4, <2>5 DEF before
<1> QED
  BY <1>1, <1>2, <1>3

LEMMA WithAllOfFirst ==
  ASSUME NEW bits \in Bits, NEW top \in Bits, FirstOf(bits, top), Ascending(top)
  PROVE  WithAll(bits, top) = top
<1> DEFINE len == Len(top)
<1>1. len \in Nat /\ Len(bits) \in Nat /\ Len(bits) <= len
  BY DEF FirstOf, Bits
<1>2. \E first : Filled(bits, top, first)
  <2> DEFINE g == [n \in 0..len |-> UpTo(bits, top, n)]
  <2>1. \A n \in 0..len :
          UpTo(bits, top, n) =
            IF n = 0 THEN bits
            ELSE IF top[n] \in ToSet(g[n - 1]) THEN g[n - 1]
            ELSE Append(g[n - 1], top[n])
    <3> SUFFICES ASSUME NEW n \in 0..len
                 PROVE  UpTo(bits, top, n) =
                          IF n = 0 THEN bits
                          ELSE IF top[n] \in ToSet(g[n - 1]) THEN g[n - 1]
                          ELSE Append(g[n - 1], top[n])
      OBVIOUS
    <3>1. CASE n = 0
      BY <1>1, <3>1 DEF UpTo
    <3>2. CASE n # 0
      <4>1. n \in 1..len /\ n - 1 \in 0..len
        BY <1>1, <3>2
      <4>2. g[n - 1] = UpTo(bits, top, n - 1)
        BY <4>1
      <4> HIDE DEF g, len
      <4> QED
        BY <3>2, <4>1, <4>2, UpToFacts DEF len
    <3> QED
      BY <3>1, <3>2
  <2>2. Filled(bits, top, g)
    BY <2>1 DEF Filled
  <2> HIDE DEF g
  <2> QED
    BY <2>2
<1>3. PICK first : Filled(bits, top, first) /\ WithAll(bits, top) = first[len]
  BY <1>2 DEF Filled, WithAll
<1>4. \A n \in 0..len :
        first[n] = IF n = 0 THEN bits
                   ELSE IF top[n] \in ToSet(first[n - 1]) THEN first[n - 1]
                   ELSE Append(first[n - 1], top[n])
  BY <1>3 DEF Filled
<1> DEFINE Bad == {n \in 0..len : first[n] # UpTo(bits, top, n)}
<1>5. Bad = {}
  <2> SUFFICES ASSUME Bad # {} PROVE FALSE
    OBVIOUS
  <2>1. PICK n \in Bad : \A m \in Bad : n <= m
    <3>1. Bad \in SUBSET Nat
      OBVIOUS
    <3> HIDE DEF Bad
    <3> QED
      BY <3>1, Least
  <2>2. n # 0
    BY <1>1, <1>4, <2>1 DEF UpTo
  <2>3. n \in 1..len /\ n - 1 \in 0..len /\ n - 1 \notin Bad
    BY <1>1, <2>1, <2>2
  <2>4. first[n - 1] = UpTo(bits, top, n - 1)
    BY <2>3
  <2>5. first[n] = UpTo(bits, top, n)
    BY <1>4, <2>2, <2>3, <2>4, UpToFacts
  <2> QED
    BY <2>1, <2>5
<1>6. first[len] = UpTo(bits, top, len)
  BY <1>1, <1>5
<1>7. UpTo(bits, top, len) = top
  <2>1. CASE len <= Len(bits)
    <3>1. Len(bits) = len
      BY <1>1, <2>1
    <3>2. bits = top
      BY <3>1, BeyondCompletes, NothingBeyond, <1>1
    <3> QED
      BY <2>1, <3>2 DEF UpTo
  <2>2. CASE ~(len <= Len(bits))
    BY <1>1, <2>2 DEF UpTo, Bits
  <2> QED
    BY <2>1, <2>2
<1> QED
  BY <1>3, <1>6, <1>7

(* The program's circuit gets new qubits, at its end, or keeps those it    *)
(* has: they ascend.                                                       *)
FreshInv ==
  /\ Ascending(circ[1].qubits)
  /\ \A i \in 1..Len(circ[1].qubits) : circ[1].qubits[i] <= made

SameTop == circ'[1].qubits = circ[1].qubits /\ made' \in Nat /\ made <= made'

LongerTop(n) == circ'[1].qubits = circ[1].qubits \o New(n) /\ made' = made + n

LEMMA SameTopKeepsFresh ==
  ASSUME SharedInv, FreshInv, SameTop
  PROVE  FreshInv'
<1> DEFINE bits == circ[1].qubits
<1>1. bits \in Bits /\ made \in Nat
  <2>1. circ[1] \in Circuits
    BY DEF SharedInv, Shares
  <2> QED
    BY <2>1 DEF SharedInv, Circuits
<1>2. Ascending(bits) /\ (\A i \in 1..Len(bits) : bits[i] <= made) /\ circ'[1].qubits = bits
  BY DEF FreshInv, SameTop
<1>3. made' \in Nat /\ made <= made'
  BY DEF SameTop
<1> HIDE DEF bits
<1>4. \A i \in 1..Len(bits) : bits[i] <= made'
  BY <1>1, <1>2, <1>3 DEF Bits
<1> QED
  BY <1>2, <1>4 DEF FreshInv

LEMMA LongerTopKeepsFresh ==
  ASSUME SharedInv, FreshInv, NEW n \in Nat, LongerTop(n)
  PROVE  FreshInv'
<1> DEFINE bits == circ[1].qubits
           all == bits \o New(n)
<1>1. bits \in Bits /\ made \in Nat
  <2>1. circ[1] \in Circuits
    BY DEF SharedInv, Shares
  <2> QED
    BY <2>1 DEF SharedInv, Circuits
<1>2. /\ Ascending(bits) /\ (\A i \in 1..Len(bits) : bits[i] <= made)
      /\ circ'[1].qubits = all /\ made' = made + n
  BY DEF FreshInv, LongerTop
<1>3. /\ New(n) \in Bits /\ Len(New(n)) = n
      /\ \A i \in 1..n : New(n)[i] = made + i
  BY <1>1 DEF New, Bits
<1> HIDE DEF bits
<1>4. /\ Len(all) = Len(bits) + n /\ Len(bits) \in Nat
      /\ \A i \in 1..Len(bits) : all[i] = bits[i] /\ bits[i] \in Nat
      /\ \A i \in (Len(bits) + 1)..(Len(bits) + n) : all[i] = made + (i - Len(bits))
  <2>1. Len(all) = Len(bits) + n /\ Len(bits) \in Nat
    BY <1>1, <1>3, BitsConcat
  <2>2. \A i \in 1..Len(bits) : all[i] = bits[i] /\ bits[i] \in Nat
    BY <1>1, <1>3 DEF Bits
  <2>3. ASSUME NEW i \in (Len(bits) + 1)..(Len(bits) + n)
        PROVE  all[i] = made + (i - Len(bits))
    <3>1. i - Len(bits) \in 1..n /\ i \in 1..(Len(bits) + n) /\ i > Len(bits)
      BY <2>1
    <3>2. all[i] = New(n)[i - Len(bits)]
      BY <1>1, <1>3, <2>1, <3>1 DEF Bits
    <3> QED
      BY <1>3, <3>1, <3>2
  <2> QED
    BY <2>1, <2>2, <2>3
<1> HIDE DEF all
<1>5. \A i \in 1..Len(all) : i \in 1..Len(bits) \/ i \in (Len(bits) + 1)..(Len(bits) + n)
  BY <1>4
<1>6. \A i \in 1..Len(all) : all[i] <= made'
  BY <1>1, <1>2, <1>4, <1>5
<1>7. Ascending(all)
  <2> SUFFICES ASSUME NEW i \in 1..Len(all), NEW j \in 1..Len(all), i < j
               PROVE  all[i] < all[j]
    BY DEF Ascending
  <2>1. CASE j \in 1..Len(bits)
    <3>1. i \in 1..Len(bits)
      BY <1>4, <2>1
    <3> QED
      BY <1>2, <1>4, <2>1, <3>1 DEF Ascending
  <2>2. CASE j \in (Len(bits) + 1)..(Len(bits) + n)
    BY <1>1, <1>2, <1>4, <1>5, <2>2
  <2> QED
    BY <1>5, <2>1, <2>2
<1> QED
  BY <1>2, <1>6, <1>7 DEF FreshInv

LEMMA StatementTop ==
  ASSUME SharedInv, NEW s \in Statements,
         \/ Gate(s) \/ Barrier(s) \/ Declare(s) \/ Measure(s) \/ Assign(s)
         \/ OpenConditional(s) \/ OpenLoop(s) \/ OpenBox(s)
  PROVE  SameTop \/ \E n \in Nat : LongerTop(n)
<1>1. /\ made \in Nat /\ circ \in Seq(Circuits) /\ 1 \in 1..Len(circ)
      /\ Active \in 1..Len(circ) /\ Shares(circ, stack)
  BY FrameFacts DEF SharedInv, Shares
<1>2. CASE UNCHANGED <<circ, made>>
  BY <1>1, <1>2 DEF SameTop
<1>3. ASSUME NEW q \in Nat, NEW instr \in Instructions, made' = made + Missing(q),
             circ' = Appended(WithCapacity(q), Active, instr)
      PROVE  \E n \in Nat : LongerTop(n)
  <2> DEFINE cs == WithCapacity(q)
  <2>1. /\ Shares(cs, stack) /\ Len(cs) = Len(circ) /\ Missing(q) \in Nat
        /\ cs[1].qubits = circ[1].qubits \o New(Missing(q))
    BY <1>1, SharesCapacity
  <2> HIDE DEF cs
  <2>2. Appended(cs, Active, instr)[1].qubits = cs[1].qubits
    BY <1>1, <2>1, SharesAppended
  <2>3. circ'[1].qubits = circ[1].qubits \o New(Missing(q))
    BY <1>3, <2>1, <2>2 DEF cs
  <2> QED
    BY <1>3, <2>1, <2>3 DEF LongerTop
<1>4. CASE Gate(s)
  <2> DEFINE new == Instruction("gate", <<WithCapacity(s.q)[Active].qubits[s.q + 1]>>,
                                <<>>, <<>>, 0)
  <2>1. /\ s.q \in Nat /\ circ' = Appended(WithCapacity(s.q), Active, new)
        /\ made' = made + Missing(s.q)
    BY <1>4, StatementsAssumption DEF Gate
  <2>2. new \in Instructions
    <3>1. "gate" \in Operations /\ 0 \in Nat
      BY DEF Operations
    <3> QED
      BY <2>1, <3>1, ShortBits, QubitIsBits, NewInstruction
  <2> HIDE DEF new
  <2> QED
    BY <1>3, <2>1, <2>2
<1>5. CASE Barrier(s) /\ circ' # circ
  <2> DEFINE new == Instruction("barrier", <<>>, <<>>, <<>>, 0)
  <2>1. circ' = Appended(circ, Active, new) /\ made' = made
    BY <1>5 DEF Barrier, Raise
  <2>2. new \in Instructions
    <3>1. "barrier" \in Operations /\ 0 \in Nat
      BY DEF Operations
    <3> QED
      BY <3>1, ShortBits, NewInstruction
  <2> HIDE DEF new
  <2> QED
    BY <1>1, <2>1, <2>2, SharesAppended DEF SameTop
<1>6. CASE Declare(s)
  <2>1. /\ Size[s.name] \in Nat
        /\ circ' = [circ EXCEPT ![Active].clbits = @ \o New(Size[s.name])]
    BY <1>6, DeclareFacts
  <2>2. made' = made + Size[s.name]
    BY <1>6 DEF Declare
  <2>3. \A c \in 1..Len(circ) : circ'[c].qubits = circ[c].qubits
    BY <2>1, DeclaredBits
  <2> QED
    BY <1>1, <2>1, <2>2, <2>3 DEF SameTop
<1>7. CASE Measure(s) /\ circ' # circ
  <2> DEFINE new == Instruction("measure", <<WithCapacity(s.q)[Active].qubits[s.q + 1]>>,
                                <<ClbitAt(s.name)>>, <<>>, 0)
  <2>1. s.name \in DOMAIN offset /\ HasClbit(s.name)
    BY <1>7 DEF Measure, Raise
  <2>2. /\ s.q \in Nat /\ circ' = Appended(WithCapacity(s.q), Active, new)
        /\ made' = made + Missing(s.q)
    <3>1. s.do = "measure"
      BY <1>7 DEF Measure
    <3>2. s.q \in Nat
      BY <3>1, StatementsAssumption
    <3> QED
      BY <1>7, <2>1, <3>2 DEF Measure
  <2>3. new \in Instructions
    <3>1. "measure" \in Operations /\ 0 \in Nat
      BY DEF Operations
    <3>2. <<ClbitAt(s.name)>> \in Bits
      BY <2>1, ClbitIsNat, ShortBits
    <3> QED
      BY <2>2, <3>1, <3>2, ShortBits, QubitIsBits, NewInstruction
  <2> HIDE DEF new
  <2> QED
    BY <1>3, <2>2, <2>3
<1>8. CASE circ' = Pushed(circ, stack) /\ made' = made
  <2>1. Pushed(circ, stack)[1] = circ[1]
    BY <1>1, PushedFacts
  <2> QED
    BY <1>1, <1>8, <2>1 DEF SameTop
<1>9. /\ Barrier(s) => circ' # circ \/ UNCHANGED <<circ, made>>
      /\ Measure(s) => circ' # circ \/ UNCHANGED <<circ, made>>
                       \/ made' = made + Missing(s.q)
      /\ Assign(s) => UNCHANGED <<circ, made>>
      /\ OpenConditional(s) \/ OpenLoop(s) \/ OpenBox(s) =>
           \/ UNCHANGED <<circ, made>>
           \/ circ' = Pushed(circ, stack) /\ made' = made
  BY DEF Barrier, Measure, Assign, OpenConditional, OpenLoop, OpenBox, Open, Raise
<1>10. CASE Measure(s) /\ circ' = circ /\ made' = made + Missing(s.q)
  <2>1. s.q \in Nat
    <3>1. s.do = "measure"
      BY <1>10 DEF Measure
    <3> QED
      BY <3>1, StatementsAssumption
  <2>2. Missing(s.q) \in Nat
    BY <1>1, <2>1, SharesCapacity
  <2> QED
    BY <1>1, <1>10, <2>2 DEF SameTop
<1> QED
  BY <1>2, <1>4, <1>5, <1>6, <1>7, <1>8, <1>9, <1>10

LEMMA EndTop ==
  ASSUME SharedInv,
         \/ EndTrue \/ EndFalse \/ EndProbe \/ EndUnroll \/ EndBody
         \/ EndWhile \/ EndBox
  PROVE  SameTop
<1>1. /\ made \in Nat /\ circ \in Seq(Circuits) /\ 1 \in 1..Len(circ)
      /\ Active \in 1..Len(circ) /\ Shares(circ, stack) /\ pc \in Nat
  BY FrameFacts DEF SharedInv, Shares
<1>2. made' = made
  BY DEF EndTrue, EndFalse, EndProbe, EndUnroll, EndBody, EndWhile, EndBox, Raise
<1>3. SUFFICES circ'[1].qubits = circ[1].qubits
  BY <1>1, <1>2 DEF SameTop
<1>4. Frame.kind \notin {"program", "unroll"} => Len(stack) > 1
  BY FramedPop DEF SharedInv, Frame
<1>5. CASE EndTrue
  <2>1. Frame.kind = "true" /\ circ' = Pushed(circ, Front(stack))
    BY <1>5 DEF EndTrue, End
  <2>2. Shares(circ, Front(stack))
    BY <1>4, <2>1, BelowFacts
  <2>3. Pushed(circ, Front(stack))[1] = circ[1]
    BY <1>1, <2>2, PushedFacts
  <2> QED
    BY <2>1, <2>3
<1>6. ASSUME NEW cs, Shares(cs, Front(stack)), Len(cs) = Len(circ),
             cs[1].qubits = circ[1].qubits, Frame.kind \notin {"program", "unroll"},
             NEW op \in Operations, NEW bodies \in Seq(Nat), Wrap(cs, Below, op, bodies)
      PROVE  circ'[1].qubits = circ[1].qubits
  <2>1. Shares(circ, Front(stack)) /\ Below \in 1..Len(cs)
    BY <1>4, <1>6, BelowFacts
  <2>2. Frame.cond \in Nat
    BY FrameFacts
  <2>3. circ'[1].qubits \in {circ[1].qubits, cs[1].qubits}
    BY <1>1, <1>6, <2>1, <2>2, SharesWrapped
  <2> QED
    BY <1>6, <2>3
<1>7. CASE EndFalse
  <2> DEFINE yes == Frame.other
             bodies == IF circ[Active].data = <<>> THEN <<yes>> ELSE <<yes, Active>>
             cs == Synced(Below, yes, Active)
  <2>1. Frame.kind = "false" /\ Wrap(cs, Below, "if", bodies)
    BY <1>7 DEF EndFalse, End
  <2>2. Len(stack) > 1 /\ yes \in 1..(Active - 1)
    BY <2>1, FramedPop DEF SharedInv, Frame, Active
  <2>3. yes \in 1..Len(circ) /\ yes \in Nat /\ Active \in Nat
        /\ circ[Active].qubits = circ[1].qubits
    BY <1>1, <2>2, FrameFacts
  <2>4. /\ Shares(circ, Front(stack)) /\ Below \in 1..Len(circ)
        /\ circ[Below].qubits = circ[1].qubits
    BY <2>2, BelowFacts
  <2>5. /\ Shares(cs, Front(stack)) /\ Len(cs) = Len(circ)
        /\ cs[1].qubits = circ[1].qubits
    BY <1>1, <2>3, <2>4, SharesSynced
  <2>6. bodies \in Seq(Nat)
    <3>1. <<yes>> \in Seq(Nat) /\ <<yes, Active>> \in Seq(Nat)
      BY <2>3
    <3> QED
      BY <3>1
  <2>7. "if" \in Operations /\ Frame.kind \notin {"program", "unroll"}
    BY <2>1 DEF Operations
  <2> HIDE DEF cs, bodies, yes
  <2> QED
    BY <1>6, <2>1, <2>5, <2>6, <2>7
<1>8. CASE EndProbe
  <2>1. Frame.kind = "probe"
    BY <1>8 DEF EndProbe, End
  <2>2. /\ Len(Dropped) + 1 = Active /\ Shares(Dropped, Front(stack))
        /\ Dropped[1] = circ[1]
    <3>1. Len(stack) > 1
      BY <1>4, <2>1
    <3>2. Shares(Dropped, Front(stack))
      BY <3>1, SharesDropped DEF SharedInv, Dropped, Active
    <3>3. Len(Dropped) = Active - 1 /\ \A c \in 1..Len(Dropped) : Dropped[c] = circ[c]
      BY <1>1 DEF Dropped
    <3>4. 1 \in 1..Len(Dropped)
      BY <3>2 DEF Shares
    <3> QED
      BY <1>1, <3>2, <3>3, <3>4
  <2>3. circ' \in {circ, Dropped, Pushed(Dropped, Front(stack))}
    BY <1>8 DEF EndProbe
  <2>4. Pushed(Dropped, Front(stack))[1] = Dropped[1]
    <3>1. 1 \in 1..Len(Dropped)
      BY <2>2 DEF Shares
    <3> QED
      BY <2>2, <3>1, PushedFacts
  <2> QED
    BY <2>2, <2>3, <2>4
<1>9. CASE EndUnroll
  BY <1>9 DEF EndUnroll
<1>10. ASSUME NEW op \in Operations, Frame.kind \notin {"program", "unroll"},
              Wrap(ExtendBits(circ, Below, Active), Below, op, <<Active>>)
       PROVE  circ'[1].qubits = circ[1].qubits
  <2> DEFINE cs == ExtendBits(circ, Below, Active)
  <2>1. Shares(circ, Front(stack)) /\ Below \in 1..Len(circ)
    BY <1>4, <1>10, BelowFacts
  <2>2. circ[Active].qubits = circ[1].qubits
    BY FrameFacts
  <2>3. /\ Shares(cs, Front(stack)) /\ Len(cs) = Len(circ)
        /\ cs[1].qubits = circ[1].qubits
    BY <1>1, <2>1, <2>2, SharesExtended
  <2>4. <<Active>> \in Seq(Nat)
    BY <1>1
  <2> HIDE DEF cs
  <2>5. Wrap(cs, Below, op, <<Active>>)
    BY <1>10 DEF cs
  <2> QED
    BY <1>6, <1>10, <2>3, <2>4, <2>5
<1>11. CASE EndBody
  <2>1. "for" \in Operations
    BY DEF Operations
  <2> QED
    BY <1>10, <1>11, <2>1 DEF EndBody, End
<1>12. CASE EndWhile
  <2>1. "while" \in Operations
    BY DEF Operations
  <2>2. CASE circ[Active].data = <<>>
    BY <1>12, <2>2 DEF EndWhile, Raise
  <2>3. CASE circ[Active].data # <<>>
    BY <1>10, <1>12, <2>1, <2>3 DEF EndWhile, End
  <2> QED
    BY <2>2, <2>3
<1>13. CASE EndBox
  <2>1. "box" \in Operations
    BY DEF Operations
  <2> QED
    BY <1>10, <1>13, <2>1 DEF EndBox, End
<1> QED
  BY <1>5, <1>7, <1>8, <1>9, <1>11, <1>12, <1>13

-----------------------------------------------------------------------------
(* The program ends: every circuit gets all the qubits, and every block    *)
(* covers them.                                                            *)
Wide ==
  \A c \in DOMAIN circ :
    /\ circ[c].qubits = circ[1].qubits
    /\ \A i \in DOMAIN circ[c].data :
         LET instr == circ[c].data[i]
         IN /\ instr.op = "barrier" => instr.on = circ[1].qubits
            /\ \A b \in ToSet(instr.bodies) :
                 /\ Len(instr.on) = Len(circ[b].qubits)
                 /\ Len(instr.bits) = Len(circ[b].clbits)

AllWide ==
  /\ circ[1].qubits \in Bits
  /\ \A c \in DOMAIN circ : circ[c].qubits = circ[1].qubits

LEMMA FinishWidens ==
  ASSUME SharedInv, FreshInv, Finish
  PROVE  AllWide' /\ circ'[1].qubits = circ[1].qubits
<1> DEFINE top == circ[1].qubits
<1>1. /\ circ \in Seq(Circuits) /\ Len(circ) \in Nat /\ 1 \in 1..Len(circ)
      /\ DOMAIN circ = 1..Len(circ)
      /\ \A c \in 1..Len(circ) : FirstOf(circ[c].qubits, top)
  BY DEF SharedInv, Shares
<1>2. \A c \in 1..Len(circ) : circ[c].qubits \in Bits
  <2>1. \A c \in 1..Len(circ) : circ[c] \in Circuits
    BY <1>1
  <2> QED
    BY <2>1 DEF Circuits
<1>3. top \in Bits /\ Ascending(top)
  BY <1>1, <1>2 DEF FreshInv
<1>4. circ' = [c \in DOMAIN circ |-> Widened(c)]
  BY DEF Finish
<1>5. \A c \in DOMAIN circ : circ'[c].qubits = top
  <2> SUFFICES ASSUME NEW c \in DOMAIN circ PROVE circ'[c].qubits = top
    OBVIOUS
  <2>1. circ'[c].qubits = WithAll(circ[c].qubits, top)
    BY <1>4 DEF Widened
  <2> HIDE DEF top
  <2> QED
    BY <1>1, <1>2, <1>3, <2>1, WithAllOfFirst
<1>6. DOMAIN circ' = DOMAIN circ /\ 1 \in DOMAIN circ
  BY <1>1, <1>4
<1> HIDE DEF top
<1> QED
  BY <1>3, <1>5, <1>6 DEF AllWide, top

LEMMA FinishIsWide ==
  ASSUME SharedInv, FreshInv, WrapsInv, Finish
  PROVE  Wide'
<1> DEFINE top == circ[1].qubits
<1>1. /\ circ \in Seq(Circuits) /\ DOMAIN circ = 1..Len(circ)
      /\ circ' = [c \in DOMAIN circ |-> Widened(c)]
  BY DEF SharedInv, Shares, Finish
<1>2. DOMAIN circ' = DOMAIN circ /\ circ'[1].qubits = top
      /\ \A c \in DOMAIN circ : circ'[c].qubits = top
  BY <1>1, FinishWidens DEF AllWide
<1>3. SUFFICES ASSUME NEW c \in DOMAIN circ, NEW i \in DOMAIN circ'[c].data
               PROVE  LET instr == circ'[c].data[i]
                      IN /\ instr.op = "barrier" => instr.on = top
                         /\ \A b \in ToSet(instr.bodies) :
                              /\ Len(instr.on) = Len(circ'[b].qubits)
                              /\ Len(instr.bits) = Len(circ'[b].clbits)
  BY <1>2 DEF Wide
<1> DEFINE instr == circ[c].data[i]
           new == circ'[c].data[i]
<1>4. circ[c] \in Circuits /\ c \in 1..Len(circ)
  BY <1>1
<1>5. circ[c].data \in Seq(Instructions)
  BY <1>4 DEF Circuits
<1>6. /\ circ'[c].data = [j \in DOMAIN circ[c].data |->
                           IF Covers(circ[c].data[j])
                             THEN [circ[c].data[j] EXCEPT !.on = top]
                             ELSE circ[c].data[j]]
      /\ \A b \in DOMAIN circ : circ'[b].clbits = circ[b].clbits
  BY <1>1 DEF Widened
<1>7. i \in DOMAIN circ[c].data /\ i \in 1..Len(circ[c].data) /\ instr \in Instructions
  BY <1>3, <1>5, <1>6
<1>8. new = IF Covers(instr) THEN [instr EXCEPT !.on = top] ELSE instr
  BY <1>6, <1>7
<1> HIDE DEF top, instr
<1>9. /\ new.op = instr.op /\ new.bodies = instr.bodies /\ new.bits = instr.bits
      /\ Covers(instr) => new.on = top
      /\ instr.bodies \in Seq(Nat)
  BY <1>7, <1>8 DEF Instructions
<1>10. new.op = "barrier" => new.on = top
  BY <1>9 DEF Covers
<1>11. ASSUME NEW b \in ToSet(new.bodies)
       PROVE  Len(new.on) = Len(circ'[b].qubits) /\ Len(new.bits) = Len(circ'[b].clbits)
  <2>1. PICK m \in 1..Len(instr.bodies) : b = instr.bodies[m]
    BY <1>9, <1>11 DEF ToSet
  <2>2. Body(b, instr.bits, c, circ, stack, frames)
    BY <1>4, <1>7, <2>1 DEF WrapsInv, Wraps, Wrapped, instr
  <2>3. b \in DOMAIN circ /\ Len(instr.bits) = Len(circ[b].clbits)
    BY <1>1, <2>2 DEF Body
  <2>4. instr.bodies # <<>>
    BY <1>9, <2>1
  <2>5. new.on = top
    BY <1>9, <2>4 DEF Covers
  <2> QED
    BY <1>2, <1>6, <1>9, <2>3, <2>5
<1> QED
  BY <1>10, <1>11

-----------------------------------------------------------------------------
(* The steps of the system: a statement, the end of a block, or the end of *)
(* the program; none is taken when the program is done or refused.         *)
Statement(s) ==
  \/ Gate(s) \/ Barrier(s) \/ Declare(s) \/ Measure(s) \/ Assign(s)
  \/ OpenConditional(s) \/ OpenLoop(s) \/ OpenBox(s)

EndOfBlock ==
  EndTrue \/ EndFalse \/ EndProbe \/ EndUnroll \/ EndBody \/ EndWhile \/ EndBox

LEMMA Steps ==
  ASSUME [Next]_vars
  PROVE  \/ status = "running" /\ \E s \in Statements : Statement(s)
         \/ status = "running" /\ EndOfBlock
         \/ status = "running" /\ Finish
         \/ UNCHANGED vars
<1>1. ASSUME NEW s \in Statements, Statement(s) PROVE status = "running"
  BY <1>1 DEF Statement, Gate, Barrier, Declare, Measure, Assign,
     OpenConditional, OpenLoop, OpenBox, Read
<1>2. EndOfBlock => status = "running"
  BY DEF EndOfBlock, EndTrue, EndFalse, EndProbe, EndUnroll, EndBody,
     EndWhile, EndBox, End, Read
<1>3. Finish => status = "running"
  BY DEF Finish
<1> QED
  BY <1>1, <1>2, <1>3 DEF Next, Statement, EndOfBlock

LEMMA StatusSteps ==
  /\ \A s \in Statements : Statement(s) => status' # "done" \/ status' = status
  /\ EndOfBlock => status' # "done" \/ status' = status
BY DEF Statement, Gate, Barrier, Declare, Measure, Assign, OpenConditional,
   OpenLoop, OpenBox, EndOfBlock, EndTrue, EndFalse, EndProbe, EndUnroll,
   EndBody, EndWhile, EndBox, Open, Again, Wrap, GoOn, Raise

LEMMA StatementKeepsShared ==
  ASSUME SharedInv, NEW s \in Statements, Statement(s)
  PROVE  SharedInv'
BY GateKeepsShared, BarrierKeepsShared, DeclareKeepsShared, MeasureKeepsShared,
   AssignKeepsShared, OpenConditionalKeepsShared, OpenLoopKeepsShared,
   OpenBoxKeepsShared DEF Statement

LEMMA EndKeepsShared ==
  ASSUME SharedInv, EndOfBlock
  PROVE  SharedInv'
BY EndTrueKeepsShared, EndFalseKeepsShared, EndProbeKeepsShared,
   EndUnrollKeepsShared, EndBodyKeepsShared, EndWhileKeepsShared,
   EndBoxKeepsShared DEF EndOfBlock

LEMMA StatementKeepsWraps ==
  ASSUME SharedInv, WrapsInv, NEW s \in Statements, Statement(s)
  PROVE  WrapsInv'
<1>1. Assign(s) => WrapsInv'
  BY DEF Assign, WrapsInv
<1> QED
  BY <1>1, GateKeepsWraps, BarrierKeepsWraps, DeclareKeepsWraps,
     MeasureKeepsWraps, OpenConditionalKeepsWraps, OpenLoopKeepsWraps,
     OpenBoxKeepsWraps DEF Statement

LEMMA StepKeepsFresh ==
  ASSUME SharedInv, FreshInv,
         (\E s \in Statements : Statement(s)) \/ EndOfBlock
  PROVE  FreshInv'
<1>1. SameTop \/ \E n \in Nat : LongerTop(n)
  BY StatementTop, EndTop DEF Statement, EndOfBlock
<1> QED
  BY <1>1, SameTopKeepsFresh, LongerTopKeepsFresh

(* The invariant of the circuits, whatever names the program declares.     *)
CircuitsInv ==
  /\ status # "done" => SharedInv
  /\ status = "running" => WrapsInv /\ FreshInv
  /\ status = "done" => AllWide /\ Wide

LEMMA InitCircuits == Init => CircuitsInv
<1> SUFFICES ASSUME Init PROVE CircuitsInv
  OBVIOUS
<1>1. FreshInv
  BY DEF Init, FreshInv, Ascending
<1> QED
  BY <1>1, InitShared, InitWraps DEF Init, CircuitsInv

LEMMA NextCircuits ==
  ASSUME CircuitsInv, [Next]_vars
  PROVE  CircuitsInv'
<1>1. CASE UNCHANGED vars
  BY <1>1 DEF vars, CircuitsInv, SharedInv, Named, WrapsInv, FreshInv, AllWide, Wide
<1>2. CASE status = "running" /\ Finish
  <2>1. SharedInv /\ WrapsInv /\ FreshInv
    BY <1>2 DEF CircuitsInv
  <2>2. status' = "done"
    BY <1>2 DEF Finish
  <2> QED
    BY <1>2, <2>1, <2>2, FinishWidens, FinishIsWide DEF CircuitsInv
<1>3. ASSUME status = "running", NEW s \in Statements, Statement(s)
      PROVE  CircuitsInv'
  <2>1. SharedInv /\ WrapsInv /\ FreshInv
    BY <1>3 DEF CircuitsInv
  <2>2. status' # "done"
    BY <1>3, StatusSteps
  <2> QED
    BY <1>3, <2>1, <2>2, StatementKeepsShared, StatementKeepsWraps,
       StepKeepsFresh DEF CircuitsInv
<1>4. CASE status = "running" /\ EndOfBlock
  <2>1. SharedInv /\ WrapsInv /\ FreshInv
    BY <1>4 DEF CircuitsInv
  <2>2. status' # "done"
    BY <1>4, StatusSteps
  <2>3. WrapsInv'
    BY <1>4, <2>1, EndKeepsWraps DEF EndOfBlock
  <2> QED
    BY <1>4, <2>1, <2>2, <2>3, EndKeepsShared, StepKeepsFresh DEF CircuitsInv
<1> QED
  BY <1>1, <1>2, <1>3, <1>4, Steps

LEMMA AllWideIsPrefix == AllWide => QubitsAreShared
<1> SUFFICES ASSUME AllWide, NEW c \in DOMAIN circ
             PROVE  IsPrefix(circ[c].qubits, circ[1].qubits)
  BY DEF QubitsAreShared
<1>1. circ[1].qubits \in Bits /\ circ[c].qubits = circ[1].qubits
  BY DEF AllWide
<1> QED
  BY <1>1 DEF IsPrefix, Bits

(* The invariant of the names, when no block declares an outer one's.      *)
NamesMean ==
  /\ status = "running" => NamesInv
  /\ status # "CircuitError"

LEMMA NextNames ==
  ASSUME ~Shadowing, CircuitsInv, NamesMean, [Next]_vars
  PROVE  NamesMean'
<1>1. CASE UNCHANGED vars
  BY <1>1 DEF vars, NamesMean, NamesInv
<1>2. CASE status = "running" /\ Finish
  BY <1>2 DEF Finish, NamesMean
<1>3. ASSUME status = "running", NEW s \in Statements, Statement(s)
      PROVE  NamesMean'
  <2>1. SharedInv /\ WrapsInv /\ NamesInv
    BY <1>3 DEF CircuitsInv, NamesMean
  <2>2. SharedInv'
    BY <1>3, <2>1, StatementKeepsShared
  <2>3. NamesInv'
    BY <1>3, <2>1, <2>2, PlainKeepsNames, DeclareKeepsNames, OpeningKeepsNames
       DEF Statement
  <2>4. status' # "CircuitError"
    BY <1>3, <2>1, StatementRaisesNoCircuitError DEF Statement
  <2> QED
    BY <2>3, <2>4 DEF NamesMean
<1>4. CASE status = "running" /\ EndOfBlock
  <2>1. SharedInv /\ WrapsInv /\ NamesInv
    BY <1>4 DEF CircuitsInv, NamesMean
  <2>2. SharedInv'
    BY <1>4, <2>1, EndKeepsShared
  <2> QED
    BY <1>4, <2>1, <2>2, EndKeepsWraps, EndKeepsNames DEF EndOfBlock, NamesMean
<1> QED
  BY <1>1, <1>2, <1>3, <1>4, Steps

LEMMA NamesLeadToBits ==
  ASSUME status = "running" => SharedInv /\ WrapsInv /\ NamesInv
  PROVE  NamesMeanTheirBits
<1> SUFFICES ASSUME SharedInv, WrapsInv, NamesInv,
                    NEW name \in Name, Visible(name), NEW i \in 1..Size[name]
             PROVE  /\ offset[name] + i <= Len(circ[Active].clbits)
                    /\ circ[Active].clbits[offset[name] + i] = DeclaredBit(name) + i - 1
  BY DEF NamesMeanTheirBits
<1>1. /\ offset[name] + i \in 1..Len(circ[Active].clbits)
      /\ circ[Active].clbits[offset[name] + i] = DeclaredBit(name) + i - 1
  BY VisibleBits
<1>2. circ[Active].clbits \in Bits
  BY FrameFacts DEF Circuits
<1> QED
  BY <1>1, <1>2 DEF Bits

LEMMA MeasureTakesDeclaredBit ==
  ASSUME status = "running" => SharedInv /\ WrapsInv /\ NamesInv,
         NEW s \in Statements, Measure(s), status' = "running"
  PROVE  Last(circ'[Active].data).bits = <<DeclaredBit(s.name)>>
<1> DEFINE cs == WithCapacity(s.q)
           new == Instruction("measure", <<cs[Active].qubits[s.q + 1]>>,
                              <<ClbitAt(s.name)>>, <<>>, 0)
<1>1. SharedInv /\ WrapsInv /\ NamesInv
  BY DEF Measure, Read
<1>2. s.q \in Nat /\ s.name \in Name
  <2>1. s.do = "measure"
    BY DEF Measure
  <2> QED
    BY <2>1, StatementsAssumption
<1>3. /\ s.name \in DOMAIN offset /\ HasClbit(s.name)
      /\ circ' = Appended(cs, Active, new)
  BY DEF Measure, Raise
<1>4. ClbitAt(s.name) = DeclaredBit(s.name)
  <2>1. Visible(s.name)
    BY <1>3 DEF Measure
  <2> QED
    BY <1>1, <1>2, <2>1, VisibleHasClbit
<1>5. new \in Instructions /\ new.bits = <<ClbitAt(s.name)>>
  <2>1. "measure" \in Operations /\ 0 \in Nat
    BY DEF Operations
  <2>2. <<ClbitAt(s.name)>> \in Bits
    BY <1>1, <1>3, ClbitIsNat, ShortBits
  <2>3. new \in Instructions
    BY <1>1, <1>2, <2>1, <2>2, ShortBits, QubitIsBits, NewInstruction
  <2> QED
    BY <2>3 DEF Instruction
<1>6. cs \in Seq(Circuits) /\ Active \in 1..Len(cs) /\ cs[Active] \in Circuits
  <2>1. Shares(cs, stack) /\ Len(cs) = Len(circ)
    BY <1>1, <1>2, SharesCapacity DEF SharedInv
  <2>2. cs \in Seq(Circuits) /\ Active \in 1..Len(cs)
    BY <1>1, <2>1, FrameFacts DEF Shares
  <2> HIDE DEF cs
  <2> QED
    BY <2>2
<1> HIDE DEF cs, new
<1>7. circ'[Active].data = Append(cs[Active].data, new)
  BY <1>3, <1>5, <1>6, AppendedFacts
<1>8. cs[Active].data \in Seq(Instructions)
  BY <1>6 DEF Circuits
<1>9. Last(circ'[Active].data) = new
  BY <1>5, <1>7, <1>8 DEF Last
<1> QED
  BY <1>4, <1>5, <1>9

LEMMA CircuitsAreShared == CircuitsInv => QubitsAreShared
BY SharedIsPrefix, AllWideIsPrefix DEF CircuitsInv

LEMMA InitNamesMean == Init => NamesMean
BY InitNames DEF Init, NamesMean

-----------------------------------------------------------------------------
(* A body is visited anew from its first statement to its "end".  What is  *)
(* read is followed by its depth: how many blocks are open before each     *)
(* statement, where an `if` has two.                                       *)
Weight(s) ==
  IF s.do = "end" THEN -1
  ELSE IF s.do = "if" THEN 2
  ELSE IF s.do \in {"for", "while", "box"} THEN 1 ELSE 0

Need(kind) == IF kind = "true" THEN 2 ELSE 1

Depth(e, prog) ==
  /\ e \in Seq(Int) /\ Len(e) = Len(prog) + 1
  /\ \A k \in 1..Len(prog) : e[k + 1] = e[k] + Weight(prog[k])

Replayed == {"body", "unroll"}
FirstReplay(fs, r) ==
  /\ r \in 1..Len(fs) /\ fs[r].kind \in Replayed
  /\ \A i \in 1..(r - 1) : fs[i].kind \notin Replayed

(* Each block open is as deep as its place in the program says.            *)
NestsTo(e, p, fs, n) ==
  /\ \A i \in 1..n : fs[i].first \in 1..p
  /\ \A i, j \in 1..n :
       i < j => /\ fs[i].first <= fs[j].first
                /\ e[fs[i].first] + Need(fs[j].kind) <= e[fs[j].first]
  /\ \A i \in 2..n : e[fs[i].first] = e[fs[i - 1].first] + Need(fs[i].kind)

Nests(e, p, fs) ==
  /\ p \in 1..Len(e) /\ NestsTo(e, p, fs, Len(fs))
  /\ e[p] = e[fs[Len(fs)].first]

(* The outermost body read anew ends with the program read so far; what a  *)
(* first visit has read is in its block; and without a body read anew, all *)
(* has been read.                                                          *)
RereadsTo(e, p, fs, n) ==
  /\ \A r \in 1..n :
       FirstReplay(fs, r) =>
         /\ p < Len(e) /\ e[Len(e)] < e[fs[r].first]
         /\ \A k \in fs[r].first..(Len(e) - 1) : e[k] >= e[fs[r].first]
  /\ \A r \in 1..n :
       fs[r].kind = "probe" /\ (\A i \in 1..r : fs[i].kind \notin Replayed) =>
         \A k \in fs[r].first..Len(e) : e[k] >= e[fs[r].first]

Rereads(e, p, fs) ==
  /\ RereadsTo(e, p, fs, Len(fs))
  /\ (\A r \in 1..Len(fs) : fs[r].kind \notin Replayed) => p = Len(e)

Reading(e, p, fs) ==
  /\ e \in Seq(Int) /\ Nests(e, p, fs) /\ Rereads(e, p, fs)

(* One statement, of weight w, is read.                                    *)
ReadTo(e, f, p, w) ==
  /\ f \in Seq(Int)
  /\ Len(f) = IF p = Len(e) THEN p + 1 ELSE Len(e)
  /\ \A k \in 1..Len(e) : f[k] = e[k]
  /\ f[p + 1] = e[p] + w

(* When there is a body read anew there is an outermost one.               *)
LEMMA SomeFirstReplay ==
  ASSUME NEW fs, Len(fs) \in Nat, NEW m \in 1..Len(fs), fs[m].kind \in Replayed
  PROVE  \E r \in 1..m : FirstReplay(fs, r)
<1> DEFINE S == {r \in 1..Len(fs) : fs[r].kind \in Replayed}
<1>1. S \subseteq Nat /\ m \in S
  OBVIOUS
<1>2. PICK r \in S : \A i \in S : r <= i
  BY <1>1, Least
<1>3. r \in 1..m
  BY <1>1, <1>2
<1>4. FirstReplay(fs, r)
  BY <1>2 DEF FirstReplay
<1> QED
  BY <1>3, <1>4

(* The innermost block is the deepest.                                     *)
LEMMA DeepestLast ==
  ASSUME NEW e \in Seq(Int), NEW p, NEW fs, Len(fs) \in Nat, Nests(e, p, fs),
         NEW r \in 1..Len(fs)
  PROVE  /\ e[p] >= e[fs[r].first]
         /\ r < Len(fs) => e[p] >= e[fs[r].first] + 1
<1> DEFINE x == fs[r].first
           y == fs[Len(fs)].first
           n == Need(fs[Len(fs)].kind)
<1>1. Len(fs) \in 1..Len(fs) /\ x \in 1..p /\ y \in 1..p /\ p \in 1..Len(e)
  BY DEF Nests, NestsTo
<1>2. e[p] = e[y] /\ (r < Len(fs) => e[x] + n <= e[y])
  BY <1>1 DEF Nests, NestsTo
<1>3. r = Len(fs) => x = y
  OBVIOUS
<1>4. n = 1 \/ n = 2
  BY DEF Need
<1> HIDE DEF x, y, n
<1>5. x \in 1..Len(e)
  BY <1>1
<1>6. e[x] \in Int /\ e[p] \in Int
  BY <1>1, <1>5
<1>7. e[p] >= e[x] /\ (r < Len(fs) => e[p] >= e[x] + 1)
  BY <1>2, <1>3, <1>4, <1>6
<1> QED
  BY <1>7 DEF x

(* Within a body read anew the program read so far is long enough, and it  *)
(* is left by its last statement only.                                     *)
LEMMA ReplayGoesOn ==
  ASSUME NEW e, NEW p, NEW fs, Len(fs) \in Nat, Reading(e, p, fs),
         NEW f, NEW w \in Int, w >= -1, ReadTo(e, f, p, w),
         NEW r, FirstReplay(fs, r)
  PROVE  /\ Len(f) = Len(e) /\ p + 1 <= Len(f)
         /\ w >= 0 \/ r < Len(fs) => p + 1 < Len(f)
         /\ w = -1 /\ r = Len(fs) => p + 1 = Len(f)
<1> DEFINE x == fs[r].first
<1>1. /\ r \in 1..Len(fs) /\ Len(fs) \in 1..Len(fs)
      /\ e \in Seq(Int) /\ Len(e) \in Nat /\ p \in 1..Len(e) /\ x \in 1..p
  BY DEF Reading, Nests, NestsTo, FirstReplay
<1>2. /\ p < Len(e) /\ e[Len(e)] < e[x]
      /\ \A k \in x..(Len(e) - 1) : e[k] >= e[x]
  BY <1>1 DEF Reading, Rereads, RereadsTo
<1>3. e[p] >= e[x] /\ (r < Len(fs) => e[p] >= e[x] + 1)
  BY <1>1, DeepestLast DEF Reading
<1> HIDE DEF x
<1>4. Len(f) = Len(e) /\ p + 1 \in 1..Len(e) /\ e[p + 1] = e[p] + w
  <2>1. Len(f) = Len(e) /\ p + 1 \in 1..Len(e)
    BY <1>1, <1>2 DEF ReadTo
  <2> QED
    BY <2>1 DEF ReadTo
<1>5. e[p] \in Int /\ e[x] \in Int
  <2>1. x \in 1..Len(e)
    BY <1>1
  <2> QED
    BY <1>1, <2>1
<1>6. ASSUME p + 1 = Len(e) PROVE w < 0 /\ r = Len(fs)
  BY <1>1, <1>2, <1>3, <1>4, <1>5, <1>6
<1>7. ASSUME w = -1, r = Len(fs) PROVE p + 1 = Len(e)
  <2>1. e[p] = e[x]
    BY <1>7 DEF Reading, Nests, NestsTo, x
  <2>2. e[p + 1] < e[x]
    BY <1>4, <1>5, <1>7, <2>1
  <2>3. p + 1 \in x..(Len(e) - 1) => e[p + 1] >= e[x]
    BY <1>2
  <2>4. e[p + 1] \in Int
    BY <1>1, <1>4
  <2> QED
    BY <1>1, <1>2, <1>5, <2>2, <2>3, <2>4
<1> QED
  BY <1>1, <1>2, <1>4, <1>6, <1>7

(* What is read in a first visit is in its block, unless it is its "end".  *)
LEMMA ProbeGoesOn ==
  ASSUME NEW e, NEW p, NEW fs, Len(fs) \in Nat, Reading(e, p, fs),
         NEW f, NEW w \in Int, w >= -1, ReadTo(e, f, p, w),
         NEW r \in 1..Len(fs), fs[r].kind = "probe",
         \A i \in 1..r : fs[i].kind \notin Replayed,
         w >= 0 \/ r < Len(fs)
  PROVE  \A k \in fs[r].first..Len(f) : f[k] >= f[fs[r].first]
<1> DEFINE x == fs[r].first
<1>1. /\ Len(fs) \in 1..Len(fs) /\ e \in Seq(Int) /\ Len(e) \in Nat
      /\ p \in 1..Len(e) /\ x \in 1..p
  BY DEF Reading, Nests, NestsTo
<1>2. \A k \in x..Len(e) : e[k] >= e[x]
  BY DEF Reading, Rereads, RereadsTo
<1>3. e[p] >= e[x] /\ (r < Len(fs) => e[p] >= e[x] + 1)
  BY <1>1, DeepestLast DEF Reading
<1> HIDE DEF x
<1>4. e[p] \in Int /\ e[x] \in Int /\ f[x] = e[x] /\ f[p + 1] = e[p] + w
  <2>1. x \in 1..Len(e)
    BY <1>1
  <2>2. e[p] \in Int /\ e[x] \in Int
    BY <1>1, <2>1
  <2>3. f[x] = e[x] /\ f[p + 1] = e[p] + w
    BY <2>1 DEF ReadTo
  <2> QED
    BY <2>2, <2>3
<1>5. \A k \in x..Len(e) : f[k] = e[k]
  <2>1. \A k \in x..Len(e) : k \in 1..Len(e)
    BY <1>1
  <2> QED
    BY <2>1 DEF ReadTo
<1>6. \A k \in x..Len(f) : k \in x..Len(e) \/ k = p + 1
  BY <1>1 DEF ReadTo
<1>7. f[p + 1] >= f[x]
  BY <1>3, <1>4
<1>8. \A k \in x..Len(f) : f[k] >= f[x]
  BY <1>2, <1>4, <1>5, <1>6, <1>7
<1> QED
  BY <1>8 DEF x

(* Blocks as they were, as far as their place is concerned.                *)
SameBlocks(fs, gs, n) ==
  \A i \in 1..n : gs[i].kind = fs[i].kind /\ gs[i].first = fs[i].first

LEMMA SameReplay ==
  ASSUME NEW fs, NEW gs, NEW n \in Nat, Len(fs) \in Nat, Len(gs) \in Nat,
         n <= Len(fs), n <= Len(gs), SameBlocks(fs, gs, n), NEW r \in 1..n
  PROVE  FirstReplay(fs, r) <=> FirstReplay(gs, r)
<1>1. /\ r \in 1..Len(fs) /\ r \in 1..Len(gs)
      /\ \A i \in 1..(r - 1) : i \in 1..n
  OBVIOUS
<1> QED
  BY <1>1 DEF FirstReplay, SameBlocks

(* The statement read changes no depth.                                    *)
LEMMA ReadFacts ==
  ASSUME NEW e \in Seq(Int), NEW p \in 1..Len(e), NEW f, NEW w \in Int,
         ReadTo(e, f, p, w)
  PROVE  /\ f \in Seq(Int) /\ p \in Nat /\ Len(e) \in Nat /\ Len(f) \in Nat
         /\ p + 1 \in 1..Len(f) /\ Len(e) <= Len(f)
         /\ \A k \in 1..p : k \in 1..(p + 1) /\ k \in 1..Len(e) /\ f[k] = e[k]
<1>1. p \in Nat /\ Len(e) \in Nat
  OBVIOUS
<1>2. Len(f) = p + 1 \/ (Len(f) = Len(e) /\ p # Len(e))
  BY DEF ReadTo
<1>3. \A k \in 1..p : k \in 1..(p + 1) /\ k \in 1..Len(e)
  BY <1>1
<1>4. p = Len(e) => Len(f) = p + 1
  BY DEF ReadTo
<1> QED
  BY <1>1, <1>2, <1>3, <1>4 DEF ReadTo

LEMMA NestsBelow ==
  ASSUME NEW e \in Seq(Int), NEW p \in 1..Len(e), NEW f, NEW w \in Int,
         ReadTo(e, f, p, w), NEW fs, NEW gs, NEW m, NEW n \in Nat, m \in Nat, n <= m,
         NestsTo(e, p, fs, m), SameBlocks(fs, gs, n)
  PROVE  NestsTo(f, p + 1, gs, n)
<1>1. \A i \in 1..n : i \in 1..m /\ gs[i].kind = fs[i].kind /\ gs[i].first = fs[i].first
  BY DEF SameBlocks
<1>2. \A i \in 1..n : fs[i].first \in 1..(p + 1) /\ f[fs[i].first] = e[fs[i].first]
  <2>1. \A i \in 1..n : fs[i].first \in 1..p
    BY <1>1 DEF NestsTo
  <2>2. \A k \in 1..p : k \in 1..(p + 1) /\ f[k] = e[k]
    BY ReadFacts
  <2> QED
    BY <2>1, <2>2
<1>3. \A i \in 2..n : i \in 2..m /\ i \in 1..n /\ i - 1 \in 1..n
  OBVIOUS
<1>6. \A i \in 1..n : f[gs[i].first] = e[fs[i].first]
  BY <1>1, <1>2
<1>4. ASSUME NEW i \in 1..n, NEW j \in 1..n, i < j
      PROVE  /\ gs[i].first <= gs[j].first
             /\ f[gs[i].first] + Need(gs[j].kind) <= f[gs[j].first]
  <2>1. i \in 1..m /\ j \in 1..m
    BY <1>1
  <2>2. /\ fs[i].first <= fs[j].first
        /\ e[fs[i].first] + Need(fs[j].kind) <= e[fs[j].first]
    BY <1>4, <2>1 DEF NestsTo
  <2>3. /\ gs[i].first = fs[i].first /\ gs[j].first = fs[j].first
        /\ gs[j].kind = fs[j].kind
    BY <1>1
  <2>4. f[gs[i].first] = e[fs[i].first] /\ f[gs[j].first] = e[fs[j].first]
    BY <1>6
  <2> QED
    BY <2>2, <2>3, <2>4
<1>5. ASSUME NEW i \in 2..n
      PROVE  f[gs[i].first] = f[gs[i - 1].first] + Need(gs[i].kind)
  <2>1. i \in 2..m /\ i \in 1..n /\ i - 1 \in 1..n
    BY <1>3
  <2>2. e[fs[i].first] = e[fs[i - 1].first] + Need(fs[i].kind)
    BY <2>1 DEF NestsTo
  <2>3. /\ f[gs[i].first] = e[fs[i].first] /\ gs[i].kind = fs[i].kind
        /\ f[gs[i - 1].first] = e[fs[i - 1].first]
    BY <1>1, <1>6, <2>1
  <2> QED
    BY <2>2, <2>3
<1> QED
  BY <1>1, <1>2, <1>4, <1>5 DEF NestsTo

LEMMA RereadsBelow ==
  ASSUME NEW e, NEW p, NEW fs, Len(fs) \in Nat, Reading(e, p, fs),
         NEW f, NEW w \in Int, w >= -1, ReadTo(e, f, p, w),
         NEW gs, NEW n \in Nat, Len(gs) \in Nat, n <= Len(fs), n <= Len(gs),
         SameBlocks(fs, gs, n), w >= 0 \/ n < Len(fs)
  PROVE  RereadsTo(f, p + 1, gs, n)
<1>1. e \in Seq(Int) /\ p \in 1..Len(e) /\ RereadsTo(e, p, fs, Len(fs))
  BY DEF Reading, Nests, Rereads
<1>2. /\ p \in Nat /\ Len(e) \in Nat /\ Len(f) \in Nat
      /\ \A i \in 1..Len(fs) : fs[i].first \in 1..p
  BY <1>1, ReadFacts DEF Reading, Nests, NestsTo
<1>3. \A r \in 1..n : r \in 1..Len(fs) /\ gs[r].kind = fs[r].kind /\ gs[r].first = fs[r].first
  BY DEF SameBlocks
<1>4. ASSUME NEW r \in 1..n, FirstReplay(gs, r)
      PROVE  /\ p + 1 < Len(f) /\ f[Len(f)] < f[gs[r].first]
             /\ \A k \in gs[r].first..(Len(f) - 1) : f[k] >= f[gs[r].first]
  <2> DEFINE x == fs[r].first
  <2>1. FirstReplay(fs, r) /\ gs[r].first = x /\ x \in 1..p
    BY <1>2, <1>3, <1>4, SameReplay
  <2>2. w >= 0 \/ r < Len(fs)
    OBVIOUS
  <2>3. Len(f) = Len(e) /\ p + 1 < Len(f)
    BY <2>1, <2>2, ReplayGoesOn
  <2>4. e[Len(e)] < e[x] /\ \A k \in x..(Len(e) - 1) : e[k] >= e[x]
    BY <1>1, <1>3, <2>1 DEF RereadsTo
  <2> HIDE DEF x
  <2>5. /\ Len(e) \in 1..Len(e) /\ x \in 1..Len(e)
        /\ \A k \in x..(Len(e) - 1) : k \in 1..Len(e)
    BY <1>2, <2>1, <2>3
  <2>6. \A k \in 1..Len(e) : f[k] = e[k]
    BY DEF ReadTo
  <2>7. /\ f[Len(e)] = e[Len(e)] /\ f[x] = e[x]
        /\ \A k \in x..(Len(e) - 1) : f[k] = e[k]
    BY <2>5, <2>6
  <2> QED
    BY <2>1, <2>3, <2>4, <2>7
<1>5. ASSUME NEW r \in 1..n, gs[r].kind = "probe",
             \A i \in 1..r : gs[i].kind \notin Replayed
      PROVE  \A k \in gs[r].first..Len(f) : f[k] >= f[gs[r].first]
  <2>1. /\ r \in 1..Len(fs) /\ gs[r].first = fs[r].first /\ fs[r].kind = "probe"
        /\ w >= 0 \/ r < Len(fs)
    BY <1>3, <1>5
  <2>2. \A i \in 1..r : i \in 1..n
    OBVIOUS
  <2>3. \A i \in 1..r : fs[i].kind \notin Replayed
    BY <1>3, <1>5, <2>2
  <2>4. \A k \in fs[r].first..Len(f) : f[k] >= f[fs[r].first]
    BY <2>1, <2>3, ProbeGoesOn
  <2> QED
    BY <2>1, <2>4
<1> QED
  BY <1>4, <1>5 DEF RereadsTo

(* A statement that neither opens nor ends a block.                        *)
LEMMA ReadingOn ==
  ASSUME NEW e, NEW p, NEW fs, Len(fs) \in Nat \ {0}, Reading(e, p, fs),
         NEW f, ReadTo(e, f, p, 0),
         NEW gs, Len(gs) = Len(fs), SameBlocks(fs, gs, Len(fs))
  PROVE  Reading(f, p + 1, gs)
<1>1. /\ e \in Seq(Int) /\ p \in 1..Len(e) /\ NestsTo(e, p, fs, Len(fs))
      /\ e[p] = e[fs[Len(fs)].first]
  BY DEF Reading, Nests
<1>2. f \in Seq(Int) /\ p + 1 \in 1..Len(f) /\ \A k \in 1..p : f[k] = e[k]
  BY <1>1, ReadFacts
<1>3. NestsTo(f, p + 1, gs, Len(gs)) /\ RereadsTo(f, p + 1, gs, Len(gs))
  BY <1>1, NestsBelow, RereadsBelow
<1>4. f[p + 1] = f[gs[Len(gs)].first]
  <2>1. Len(fs) \in 1..Len(fs) /\ e[p] \in Int
    BY <1>1
  <2>2. gs[Len(gs)].first = fs[Len(fs)].first /\ fs[Len(fs)].first \in 1..p
    BY <1>1, <2>1 DEF SameBlocks, NestsTo
  <2>3. f[p + 1] = e[p] + 0
    BY DEF ReadTo
  <2>4. f[p + 1] = e[p]
    BY <2>1, <2>3
  <2>5. f[gs[Len(gs)].first] = e[fs[Len(fs)].first]
    BY <1>2, <2>2
  <2> QED
    BY <1>1, <2>4, <2>5
<1>5. ASSUME \A r \in 1..Len(gs) : gs[r].kind \notin Replayed PROVE p + 1 = Len(f)
  <2>1. \A r \in 1..Len(fs) : fs[r].kind \notin Replayed
    BY <1>5 DEF SameBlocks
  <2>2. p = Len(e)
    BY <2>1 DEF Reading, Rereads
  <2> QED
    BY <2>2 DEF ReadTo
<1> QED
  BY <1>2, <1>3, <1>4, <1>5 DEF Reading, Nests, Rereads

(* A block is opened.                                                      *)
LEMMA ReadingOpen ==
  ASSUME NEW e, NEW p, NEW fs \in Seq(Blocks), Len(fs) > 0, Reading(e, p, fs),
         NEW b \in Blocks, b.kind \notin Replayed, b.first = p + 1,
         NEW f, ReadTo(e, f, p, Need(b.kind))
  PROVE  Reading(f, p + 1, Append(fs, b))
<1> DEFINE gs == Append(fs, b)
           w == Need(b.kind)
<1>1. /\ e \in Seq(Int) /\ p \in 1..Len(e) /\ NestsTo(e, p, fs, Len(fs))
      /\ e[p] = e[fs[Len(fs)].first] /\ Len(fs) \in 1..Len(fs) /\ Len(fs) \in Nat
  BY DEF Reading, Nests
<1>2. /\ Len(gs) = Len(fs) + 1 /\ gs[Len(gs)] = b
      /\ \A i \in 1..Len(fs) : gs[i] = fs[i]
      /\ \A i \in 1..Len(gs) : i \in 1..Len(fs) \/ i = Len(gs)
  OBVIOUS
<1>3. SameBlocks(fs, gs, Len(fs))
  BY <1>2 DEF SameBlocks
<1>4. w \in Int /\ w >= 1
  BY DEF Need
<1>13. ReadTo(e, f, p, w)
  OBVIOUS
<1> HIDE DEF gs, w
<1>5. /\ f \in Seq(Int) /\ p \in Nat /\ Len(f) \in Nat /\ p + 1 \in 1..Len(f)
      /\ ReadTo(e, f, p, w) /\ \A k \in 1..p : f[k] = e[k]
  <2>1. e \in Seq(Int) /\ p \in 1..Len(e) /\ w \in Int
    BY <1>1, <1>4
  <2> QED
    BY <1>13, <2>1, ReadFacts
<1>6. NestsTo(f, p + 1, gs, Len(fs)) /\ RereadsTo(f, p + 1, gs, Len(fs))
  <2>1. NestsTo(f, p + 1, gs, Len(fs))
    <3>1. w \in Int /\ Len(fs) \in Nat /\ Len(fs) <= Len(fs)
      BY <1>1, <1>4
    <3> QED
      BY <1>1, <1>3, <1>13, <3>1, NestsBelow
  <2>2. w >= -1 /\ w >= 0 /\ Len(gs) \in Nat /\ Len(fs) <= Len(gs) /\ Len(fs) <= Len(fs)
    BY <1>1, <1>2, <1>4
  <2>3. RereadsTo(f, p + 1, gs, Len(fs))
    BY <1>1, <1>3, <1>4, <1>5, <2>2, RereadsBelow
  <2> QED
    BY <2>1, <2>3
<1>7. f[p + 1] = e[p] + w /\ e[p] \in Int
  BY <1>1, <1>5 DEF ReadTo
<1>8. \A i \in 1..Len(fs) :
        /\ gs[i].first <= p + 1 /\ f[gs[i].first] <= e[p]
        /\ i = Len(fs) => f[gs[i].first] = e[p]
  <2> SUFFICES ASSUME NEW i \in 1..Len(fs)
               PROVE  /\ gs[i].first <= p + 1 /\ f[gs[i].first] <= e[p]
                      /\ i = Len(fs) => f[gs[i].first] = e[p]
    OBVIOUS
  <2> DEFINE x == fs[i].first
  <2>1. gs[i].first = x /\ x \in 1..p
    BY <1>1, <1>2 DEF NestsTo
  <2>2. e[p] >= e[x] /\ (i = Len(fs) => e[x] = e[p])
    BY <1>1, DeepestLast DEF Reading
  <2> HIDE DEF x
  <2>3. x \in 1..Len(e) /\ f[x] = e[x]
    BY <1>1, <1>5, <2>1
  <2>4. e[x] \in Int /\ x <= p + 1
    BY <1>1, <1>5, <2>1, <2>3
  <2> QED
    BY <1>7, <2>1, <2>2, <2>3, <2>4
<1>9. NestsTo(f, p + 1, gs, Len(gs))
  <2>1. \A i \in 1..Len(gs) : gs[i].first \in 1..(p + 1)
    BY <1>2, <1>5, <1>6 DEF NestsTo
  <2>2. ASSUME NEW i \in 1..Len(gs), NEW j \in 1..Len(gs), i < j
        PROVE  /\ gs[i].first <= gs[j].first
               /\ f[gs[i].first] + Need(gs[j].kind) <= f[gs[j].first]
    <3>1. i \in 1..Len(fs)
      BY <1>2, <2>2
    <3>2. CASE j \in 1..Len(fs)
      BY <1>6, <2>2, <3>1, <3>2 DEF NestsTo
    <3>3. CASE j = Len(gs)
      <4>1. gs[j].first = p + 1 /\ Need(gs[j].kind) = w
        BY <1>2, <3>3 DEF w
      <4>2. f[gs[i].first] \in Int
        BY <1>5, <1>6, <3>1 DEF NestsTo
      <4> QED
        BY <1>4, <1>7, <1>8, <3>1, <4>1, <4>2
    <3> QED
      BY <1>2, <3>2, <3>3
  <2>3. ASSUME NEW i \in 2..Len(gs)
        PROVE  f[gs[i].first] = f[gs[i - 1].first] + Need(gs[i].kind)
    <3>1. CASE i \in 2..Len(fs)
      BY <1>6, <3>1 DEF NestsTo
    <3>2. CASE i = Len(gs)
      <4>1. i - 1 = Len(fs)
        BY <1>1, <1>2, <3>2
      <4>2. gs[i].first = p + 1 /\ Need(gs[i].kind) = w
        BY <1>2, <3>2 DEF w
      <4> QED
        BY <1>1, <1>7, <1>8, <4>1, <4>2
    <3> QED
      BY <1>1, <1>2, <3>1, <3>2
  <2> QED
    BY <2>1, <2>2, <2>3 DEF NestsTo
<1>10. Nests(f, p + 1, gs)
  BY <1>2, <1>5, <1>9 DEF Nests
<1>11. RereadsTo(f, p + 1, gs, Len(gs))
  <2>1. ASSUME NEW r \in 1..Len(gs), FirstReplay(gs, r) PROVE r \in 1..Len(fs)
    BY <1>2, <2>1 DEF FirstReplay
  <2>2. ASSUME NEW r \in 1..Len(gs), r = Len(gs),
               \A i \in 1..r : gs[i].kind \notin Replayed
        PROVE  \A k \in gs[r].first..Len(f) : f[k] >= f[gs[r].first]
    <3>1. gs[r].first = p + 1
      BY <1>2, <2>2
    <3>2. Len(f) = p + 1
      <4>1. \A i \in 1..Len(fs) : fs[i].kind \notin Replayed
        BY <1>2, <2>2
      <4>2. p = Len(e)
        BY <4>1 DEF Reading, Rereads
      <4> QED
        BY <4>2 DEF ReadTo
    <3> QED
      BY <1>5, <3>1, <3>2
  <2> QED
    BY <1>2, <1>6, <2>1, <2>2 DEF RereadsTo
<1>12. ASSUME \A r \in 1..Len(gs) : gs[r].kind \notin Replayed PROVE p + 1 = Len(f)
  <2>1. \A r \in 1..Len(fs) : fs[r].kind \notin Replayed
    BY <1>2, <1>12
  <2>2. p = Len(e)
    BY <2>1 DEF Reading, Rereads
  <2> QED
    BY <2>2 DEF ReadTo
<1> QED
  BY <1>5, <1>10, <1>11, <1>12 DEF Reading, Rereads, gs

(* The innermost block ends, but for the first block of an `if`.           *)
LEMMA ReadingClose ==
  ASSUME NEW e, NEW p, NEW fs \in Seq(Blocks), Len(fs) > 1, Reading(e, p, fs),
         fs[Len(fs)].kind # "true", NEW f, ReadTo(e, f, p, -1)
  PROVE  Reading(f, p + 1, Front(fs))
<1> DEFINE gs == Front(fs)
<1>1. /\ e \in Seq(Int) /\ p \in 1..Len(e) /\ NestsTo(e, p, fs, Len(fs))
      /\ e[p] = e[fs[Len(fs)].first] /\ Len(fs) \in 2..Len(fs) /\ Len(fs) \in Nat
  BY DEF Reading, Nests
<1>2. /\ Len(gs) = Len(fs) - 1 /\ Len(gs) \in Nat /\ Len(gs) \in 1..Len(fs)
      /\ \A i \in 1..Len(gs) : gs[i] = fs[i]
  BY DEF Front
<1>3. SameBlocks(fs, gs, Len(gs))
  BY <1>2 DEF SameBlocks
<1> HIDE DEF gs
<1>4. f \in Seq(Int) /\ p + 1 \in 1..Len(f) /\ \A k \in 1..p : f[k] = e[k]
  BY <1>1, ReadFacts
<1>5. NestsTo(f, p + 1, gs, Len(gs)) /\ RereadsTo(f, p + 1, gs, Len(gs))
  <2>1. Len(gs) <= Len(fs) /\ Len(gs) < Len(fs)
    BY <1>1, <1>2
  <2>2. NestsTo(f, p + 1, gs, Len(gs))
    BY <1>1, <1>2, <1>3, <2>1, NestsBelow
  <2>3. RereadsTo(f, p + 1, gs, Len(gs))
    BY <1>1, <1>2, <1>3, <2>1, RereadsBelow
  <2> QED
    BY <2>2, <2>3
<1>6. f[p + 1] = f[gs[Len(gs)].first]
  <2> DEFINE x == fs[Len(gs)].first
             y == fs[Len(fs)].first
  <2>1. e[y] = e[x] + 1 /\ x \in 1..p /\ e[p] = e[y]
    <3>1. Need(fs[Len(fs)].kind) = 1 /\ Len(fs) - 1 = Len(gs)
      BY <1>1, <1>2 DEF Need
    <3> QED
      BY <1>1, <1>2, <3>1 DEF NestsTo
  <2>2. gs[Len(gs)].first = x
    BY <1>1, <1>2
  <2> HIDE DEF x, y
  <2>3. f[p + 1] = e[p] + (-1) /\ f[x] = e[x]
    BY <1>4, <2>1 DEF ReadTo
  <2>4. x \in 1..Len(e)
    BY <1>1, <2>1
  <2>5. e[x] \in Int
    BY <1>1, <2>4
  <2> QED
    BY <2>1, <2>2, <2>3, <2>5
<1>7. ASSUME \A r \in 1..Len(gs) : gs[r].kind \notin Replayed PROVE p + 1 = Len(f)
  <2>1. \A r \in 1..(Len(fs) - 1) : fs[r].kind \notin Replayed
    BY <1>2, <1>7
  <2>2. CASE fs[Len(fs)].kind \in Replayed
    <3>1. FirstReplay(fs, Len(fs))
      BY <1>1, <2>1, <2>2 DEF FirstReplay
    <3> QED
      BY <1>1, <3>1, ReplayGoesOn
  <2>3. CASE fs[Len(fs)].kind \notin Replayed
    <3>1. \A r \in 1..Len(fs) : fs[r].kind \notin Replayed
      <4>1. \A r \in 1..Len(fs) : r = Len(fs) \/ r \in 1..(Len(fs) - 1)
        BY <1>1
      <4> QED
        BY <2>1, <2>3, <4>1
    <3>2. p = Len(e)
      BY <3>1 DEF Reading, Rereads
    <3> QED
      BY <3>2 DEF ReadTo
  <2> QED
    BY <2>2, <2>3
<1>8. Nests(f, p + 1, gs) /\ Rereads(f, p + 1, gs)
  BY <1>4, <1>5, <1>6, <1>7 DEF Nests, Rereads
<1> QED
  BY <1>4, <1>8 DEF Reading, gs

LEMMA AppendFacts ==
  ASSUME NEW S, NEW q \in Seq(S), NEW b \in S
  PROVE  /\ Len(Append(q, b)) = Len(q) + 1 /\ Append(q, b)[Len(q) + 1] = b
         /\ \A i \in 1..Len(q) : Append(q, b)[i] = q[i]
OBVIOUS

(* The first block of an `if` ends, and its `else` block begins.           *)
LEMMA ReadingElse ==
  ASSUME NEW e, NEW p, NEW fs \in Seq(Blocks), Len(fs) > 1, Reading(e, p, fs),
         fs[Len(fs)].kind = "true", NEW f, ReadTo(e, f, p, -1),
         NEW b \in Blocks, b.kind = "false", b.first = p + 1
  PROVE  Reading(f, p + 1, Append(Front(fs), b))
<1> DEFINE gs == Append(Front(fs), b)
           n == Len(fs) - 1
<1>1. /\ e \in Seq(Int) /\ p \in 1..Len(e) /\ NestsTo(e, p, fs, Len(fs))
      /\ e[p] = e[fs[Len(fs)].first] /\ Len(fs) \in 2..Len(fs) /\ Len(fs) \in Nat
      /\ n \in 1..Len(fs) /\ n \in Nat /\ n < Len(fs) /\ n <= Len(fs)
  BY DEF Reading, Nests
<1>2. /\ Len(gs) = Len(fs) /\ gs[Len(fs)] = b
      /\ \A i \in 1..n : gs[i] = fs[i]
      /\ \A i \in 1..Len(gs) : i \in 1..n \/ i = Len(fs)
  <2>1. /\ Front(fs) \in Seq(Blocks) /\ Len(Front(fs)) = n
        /\ \A i \in 1..n : Front(fs)[i] = fs[i]
    BY DEF Front
  <2>2. n + 1 = Len(fs)
    BY <1>1
  <2>3. /\ Len(gs) = n + 1 /\ gs[n + 1] = b
        /\ \A i \in 1..n : gs[i] = Front(fs)[i]
    BY <2>1, AppendFacts
  <2>4. \A i \in 1..(n + 1) : i \in 1..n \/ i = n + 1
    BY <1>1
  <2> QED
    BY <2>1, <2>2, <2>3, <2>4
<1>3. SameBlocks(fs, gs, n)
  BY <1>2 DEF SameBlocks
<1>11. Len(gs) \in Nat /\ n <= Len(gs)
  BY <1>1, <1>2
<1> HIDE DEF gs
<1>4. /\ f \in Seq(Int) /\ p \in Nat /\ Len(f) \in Nat /\ p + 1 \in 1..Len(f)
      /\ \A k \in 1..p : f[k] = e[k]
  BY <1>1, ReadFacts
<1>5. NestsTo(f, p + 1, gs, n) /\ RereadsTo(f, p + 1, gs, n)
  <2> HIDE DEF n
  <2>1. NestsTo(f, p + 1, gs, n)
    <3>1. -1 \in Int
      OBVIOUS
    <3> QED
      BY <1>1, <1>3, <3>1, NestsBelow
  <2>2. RereadsTo(f, p + 1, gs, n)
    BY <1>1, <1>3, <1>11, RereadsBelow
  <2> QED
    BY <2>1, <2>2
<1>6. f[p + 1] = e[p] - 1 /\ e[p] \in Int
  <2>1. e[p] \in Int
    BY <1>1
  <2>2. f[p + 1] = e[p] + (-1)
    BY DEF ReadTo
  <2> QED
    BY <2>1, <2>2
<1>7. \A i \in 1..n :
        /\ gs[i].first <= p + 1 /\ f[gs[i].first] + 1 <= f[p + 1]
        /\ i = n => f[gs[i].first] + 1 = f[p + 1]
  <2> SUFFICES ASSUME NEW i \in 1..n
               PROVE  /\ gs[i].first <= p + 1 /\ f[gs[i].first] + 1 <= f[p + 1]
                      /\ i = n => f[gs[i].first] + 1 = f[p + 1]
    OBVIOUS
  <2> DEFINE x == fs[i].first
             y == fs[Len(fs)].first
  <2>1. gs[i].first = x /\ x \in 1..p /\ y \in 1..p
    <3>1. gs[i] = fs[i]
      BY <1>2
    <3>2. i \in 1..Len(fs) /\ Len(fs) \in 1..Len(fs)
      BY <1>1
    <3> QED
      BY <1>1, <3>1, <3>2 DEF NestsTo
  <2>2. e[x] + 2 <= e[y] /\ (i = n => e[y] = e[x] + 2) /\ e[p] = e[y]
    <3>1. /\ Need(fs[Len(fs)].kind) = 2 /\ i < Len(fs) /\ i \in 1..Len(fs)
          /\ Len(fs) \in 1..Len(fs)
      BY <1>1 DEF Need
    <3>4. e[x] + Need(fs[Len(fs)].kind) <= e[y]
      BY <1>1, <3>1 DEF NestsTo
    <3>2. e[x] + 2 <= e[y]
      BY <3>1, <3>4
    <3>3. e[fs[Len(fs)].first] = e[fs[Len(fs) - 1].first] + 2
      BY <1>1, <3>1 DEF NestsTo
    <3> QED
      BY <1>1, <3>2, <3>3
  <2> HIDE DEF x, y
  <2>3. x \in 1..Len(e) /\ f[x] = e[x]
    <3>1. x \in 1..Len(e)
      BY <1>1, <2>1
    <3> QED
      BY <1>4, <2>1, <3>1
  <2>4. e[x] \in Int /\ x <= p + 1
    BY <1>1, <1>4, <2>1, <2>3
  <2> QED
    BY <1>6, <2>1, <2>2, <2>3, <2>4
<1>8. NestsTo(f, p + 1, gs, Len(gs))
  <2>1. \A i \in 1..Len(gs) : gs[i].first \in 1..(p + 1)
    BY <1>2, <1>4, <1>5 DEF NestsTo
  <2>2. b.kind = "false" /\ Need(b.kind) = 1
    BY DEF Need
  <2>3. ASSUME NEW i \in 1..Len(gs), NEW j \in 1..Len(gs), i < j
        PROVE  /\ gs[i].first <= gs[j].first
               /\ f[gs[i].first] + Need(gs[j].kind) <= f[gs[j].first]
    <3>1. i \in 1..n
      BY <1>1, <1>2, <2>3
    <3>2. CASE j \in 1..n
      BY <1>5, <2>3, <3>1, <3>2 DEF NestsTo
    <3>3. CASE j = Len(fs)
      BY <1>2, <1>7, <2>2, <3>1, <3>3
    <3> QED
      BY <1>2, <3>2, <3>3
  <2>4. ASSUME NEW i \in 2..Len(gs)
        PROVE  f[gs[i].first] = f[gs[i - 1].first] + Need(gs[i].kind)
    <3>1. CASE i \in 2..n
      BY <1>5, <3>1 DEF NestsTo
    <3>2. CASE i = Len(fs)
      BY <1>1, <1>2, <1>7, <2>2, <3>2
    <3> QED
      BY <1>1, <1>2, <3>1, <3>2
  <2> QED
    BY <2>1, <2>3, <2>4 DEF NestsTo
<1>9. RereadsTo(f, p + 1, gs, Len(gs))
  <2>1. b.kind \notin Replayed \cup {"probe"}
    BY DEF Replayed
  <2>2. \A r \in 1..Len(gs) : FirstReplay(gs, r) \/ gs[r].kind = "probe" => r \in 1..n
    BY <1>2, <2>1 DEF FirstReplay
  <2> QED
    BY <1>5, <2>2 DEF RereadsTo
<1>10. ASSUME \A r \in 1..Len(gs) : gs[r].kind \notin Replayed PROVE p + 1 = Len(f)
  <2>1. \A r \in 1..Len(fs) : fs[r].kind \notin Replayed
    <3>1. \A r \in 1..Len(fs) : r \in 1..n \/ r = Len(fs)
      BY <1>2
    <3>2. \A r \in 1..n : r \in 1..Len(gs)
      BY <1>1, <1>2
    <3> QED
      BY <1>2, <1>10, <3>1, <3>2 DEF Replayed
  <2>2. p = Len(e)
    BY <2>1 DEF Reading, Rereads
  <2> QED
    BY <2>2 DEF ReadTo
<1> QED
  BY <1>2, <1>4, <1>8, <1>9, <1>10 DEF Reading, Nests, Rereads, gs

(* A first or a repeated visit ends, and the body is visited again.        *)
LEMMA ReadingAgain ==
  ASSUME NEW e, NEW p, NEW fs \in Seq(Blocks), Len(fs) > 1, Reading(e, p, fs),
         fs[Len(fs)].kind \in {"probe", "unroll"}, NEW f, ReadTo(e, f, p, -1),
         NEW b \in Blocks, b.kind \in Replayed, b.first = fs[Len(fs)].first
  PROVE  Reading(f, b.first, Append(Front(fs), b))
<1> DEFINE gs == Append(Front(fs), b)
           n == Len(fs) - 1
           x == b.first
<1>1. /\ e \in Seq(Int) /\ p \in 1..Len(e) /\ NestsTo(e, p, fs, Len(fs))
      /\ e[p] = e[x] /\ Len(fs) \in 2..Len(fs) /\ Len(fs) \in Nat
      /\ n \in 1..Len(fs) /\ n \in Nat /\ n < Len(fs) /\ n <= Len(fs)
  BY DEF Reading, Nests
<1>2. /\ Len(gs) = Len(fs) /\ gs[Len(fs)] = b
      /\ \A i \in 1..n : gs[i] = fs[i]
      /\ \A i \in 1..Len(gs) : i \in 1..n \/ i = Len(fs)
  <2>1. /\ Front(fs) \in Seq(Blocks) /\ Len(Front(fs)) = n
        /\ \A i \in 1..n : Front(fs)[i] = fs[i]
    BY DEF Front
  <2>2. n + 1 = Len(fs)
    BY <1>1
  <2>3. /\ Len(gs) = n + 1 /\ gs[n + 1] = b
        /\ \A i \in 1..n : gs[i] = Front(fs)[i]
    BY <2>1, AppendFacts
  <2>4. \A i \in 1..(n + 1) : i \in 1..n \/ i = n + 1
    BY <1>1
  <2> QED
    BY <2>1, <2>2, <2>3, <2>4
<1>3. SameBlocks(fs, gs, n)
  BY <1>2 DEF SameBlocks
<1>11. Len(gs) \in Nat /\ n <= Len(gs)
  BY <1>1, <1>2
<1>12. x \in 1..p
  BY <1>1 DEF NestsTo
<1>13. \A i \in 1..Len(fs) : gs[i].first = fs[i].first /\ Need(gs[i].kind) = Need(fs[i].kind)
  BY <1>2 DEF Need, Replayed
<1>14. fs[Len(fs)].first = x /\ Len(fs) \in 1..Len(fs)
  BY <1>1
<1> HIDE DEF gs, x
<1>4. /\ f \in Seq(Int) /\ p \in Nat /\ Len(f) \in Nat /\ p + 1 \in 1..Len(f)
      /\ Len(e) \in Nat /\ Len(e) <= Len(f) /\ \A k \in 1..p : f[k] = e[k]
  BY <1>1, ReadFacts
<1>5. RereadsTo(f, p + 1, gs, n)
  <2> HIDE DEF n
  <2>1. -1 \in Int /\ -1 >= -1
    OBVIOUS
  <2> QED
    BY <1>1, <1>3, <1>11, <2>1, RereadsBelow
<1>6. f[p + 1] = e[p] - 1 /\ e[p] \in Int /\ f[x] = e[x] /\ x \in 1..Len(f) /\ x <= p
  <2>4. e[p] \in Int
    BY <1>1
  <2>1. f[p + 1] = e[p] + (-1) /\ e[p] \in Int
    BY <2>4 DEF ReadTo
  <2>2. f[p + 1] = e[p] - 1
    BY <2>1
  <2>3. x \in 1..Len(f) /\ x <= p
    BY <1>1, <1>4, <1>12
  <2> QED
    BY <1>4, <1>12, <2>1, <2>2, <2>3
<1>7. NestsTo(f, x, gs, Len(gs))
  <2>1. \A i \in 1..Len(fs) : fs[i].first \in 1..x
    <3> SUFFICES ASSUME NEW i \in 1..Len(fs) PROVE fs[i].first \in 1..x
      OBVIOUS
    <3>1. fs[i].first \in 1..p
      BY <1>1 DEF NestsTo
    <3>2. CASE i = Len(fs)
      BY <1>12, <1>14, <3>2
    <3>3. CASE i < Len(fs)
      <4>1. fs[i].first <= x
        BY <1>1, <1>14, <3>3 DEF NestsTo
      <4> QED
        BY <1>12, <3>1, <4>1
    <3> QED
      BY <1>1, <3>2, <3>3
  <2>6. \A k \in 1..x : f[k] = e[k]
    <3>1. \A k \in 1..x : k \in 1..p
      BY <1>4, <1>12
    <3> QED
      BY <1>4, <3>1
  <2>2. \A i \in 1..Len(fs) : gs[i].first \in 1..x /\ f[gs[i].first] = e[fs[i].first]
    BY <1>13, <2>1, <2>6
  <2>3. \A i \in 2..Len(fs) : i \in 1..Len(fs) /\ i - 1 \in 1..Len(fs)
    BY <1>1
  <2>7. \A i \in 2..Len(fs) : e[fs[i].first] = e[fs[i - 1].first] + Need(fs[i].kind)
    BY <1>1 DEF NestsTo
  <2>4. ASSUME NEW i \in 2..Len(fs)
        PROVE  f[gs[i].first] = f[gs[i - 1].first] + Need(gs[i].kind)
    <3>1. i \in 1..Len(fs) /\ i - 1 \in 1..Len(fs)
      BY <2>3
    <3>2. /\ f[gs[i].first] = e[fs[i].first] /\ Need(gs[i].kind) = Need(fs[i].kind)
          /\ f[gs[i - 1].first] = e[fs[i - 1].first]
      BY <1>13, <2>2, <3>1
    <3> QED
      BY <2>7, <3>2
  <2>5. \A i, j \in 1..Len(gs) :
          i < j => /\ gs[i].first <= gs[j].first
                   /\ f[gs[i].first] + Need(gs[j].kind) <= f[gs[j].first]
    BY <1>1, <1>2, <1>13, <2>2 DEF NestsTo
  <2> QED
    BY <1>2, <2>2, <2>4, <2>5 DEF NestsTo
<1>8. RereadsTo(f, x, gs, Len(gs))
  <2>1. ASSUME NEW r \in 1..Len(gs), FirstReplay(gs, r), r = Len(fs)
        PROVE  /\ x < Len(f) /\ f[Len(f)] < f[x]
               /\ \A k \in x..(Len(f) - 1) : f[k] >= f[x]
    <3>1. \A i \in 1..n : fs[i].kind \notin Replayed
      BY <1>2, <2>1 DEF FirstReplay
    <3>2. p + 1 = Len(f) /\ \A k \in x..p : e[k] >= e[x]
      <4>1. CASE fs[Len(fs)].kind = "unroll"
        <5>1. FirstReplay(fs, Len(fs))
          BY <1>1, <3>1, <4>1 DEF FirstReplay, Replayed
        <5>2. p + 1 = Len(f) /\ Len(f) = Len(e)
          BY <1>1, <5>1, ReplayGoesOn
        <5>3. \A k \in x..(Len(e) - 1) : e[k] >= e[x]
          BY <1>14, <5>1 DEF Reading, Rereads, RereadsTo
        <5> QED
          BY <1>4, <5>2, <5>3
      <4>2. CASE fs[Len(fs)].kind = "probe"
        <5>1. \A i \in 1..Len(fs) : fs[i].kind \notin Replayed
          BY <1>2, <3>1, <4>2 DEF Replayed
        <5>2. p = Len(e)
          BY <5>1 DEF Reading, Rereads
        <5>3. \A k \in x..Len(e) : e[k] >= e[x]
          BY <1>14, <4>2, <5>1 DEF Reading, Rereads, RereadsTo
        <5> QED
          BY <5>2, <5>3 DEF ReadTo
      <4> QED
        BY <4>1, <4>2
    <3>3. \A k \in x..p : f[k] = e[k]
      <4>1. \A k \in x..p : k \in 1..p
        BY <1>4, <1>12
      <4> QED
        BY <1>4, <4>1
    <3> QED
      <4>1. Len(f) - 1 = p /\ x < Len(f) /\ f[Len(f)] = e[x] - 1 /\ e[x] \in Int
        <5>3. p \in Nat /\ x \in Nat /\ x <= p /\ Len(f) = p + 1
          BY <1>4, <1>6, <3>2
        <5>1. Len(f) - 1 = p /\ x < Len(f)
          BY <5>3
        <5>2. f[Len(f)] = f[p + 1]
          BY <3>2
        <5> QED
          BY <1>1, <1>6, <5>1, <5>2
      <4>2. \A k \in x..p : f[k] >= f[x]
        BY <1>6, <3>2, <3>3
      <4> QED
        BY <1>6, <4>1, <4>2
  <2>2. ASSUME NEW r \in 1..n, FirstReplay(gs, r)
        PROVE  /\ x < Len(f) /\ f[Len(f)] < f[gs[r].first]
               /\ \A k \in gs[r].first..(Len(f) - 1) : f[k] >= f[gs[r].first]
    <3>1. /\ p + 1 < Len(f) /\ f[Len(f)] < f[gs[r].first]
          /\ \A k \in gs[r].first..(Len(f) - 1) : f[k] >= f[gs[r].first]
      BY <1>5, <2>2 DEF RereadsTo
    <3>2. p \in Nat /\ x \in Nat /\ x <= p /\ Len(f) \in Nat
      BY <1>4, <1>6
    <3>3. p + 1 < Len(f) => x < Len(f)
      BY <3>2
    <3> QED
      BY <3>1, <3>3
  <2>3. \A r \in 1..Len(gs) : gs[r].kind = "probe" => r \in 1..n
    BY <1>2 DEF Replayed
  <2>4. gs[Len(fs)].first = x
    BY <1>2 DEF x
  <2> QED
    BY <1>2, <1>5, <2>1, <2>2, <2>3, <2>4 DEF RereadsTo
<1>9. Nests(f, x, gs)
  <2>1. gs[Len(gs)].first = x
    BY <1>2 DEF x
  <2> QED
    BY <1>6, <1>7, <2>1 DEF Nests
<1>10. Rereads(f, x, gs)
  BY <1>1, <1>2, <1>8 DEF Rereads
<1> QED
  BY <1>4, <1>9, <1>10 DEF Reading, gs, x

-----------------------------------------------------------------------------
(* In what the interpreter reads, a variable that grows while a body is    *)
(* captured has been seen to change: the outermost loop's first visit      *)
(* counts it, and as something has been or will be captured in its circuit *)
(* (Emits) the loop is refused.  What is visited in place captures nothing.*)
Wrapping == {"body", "box", "true", "false", "while"}
Silently == {"bit", "assign", "for", "end"}

FirstLoop(fs, i) ==
  /\ i \in 1..Len(fs) /\ fs[i].kind \in Loop
  /\ \A j \in 1..(i - 1) : fs[j].kind \notin Loop

NoAssign(prog, n) == \A k \in n..Len(prog) : prog[k].do # "assign"
Silent(prog, n) == \A k \in n..Len(prog) : prog[k].do \in Silently

Emits(i) ==
  \/ \E j \in (i + 1)..Len(frames) : frames[j].kind \in Wrapping
  \/ \E k \in i..Len(stack) : circ[stack[k]].data # <<>>

LoopInv(i) ==
  LET b == frames[i]
  IN /\ b.kind = "probe" =>
          /\ captured => counter # b.before /\ Emits(i)
          /\ counter >= b.before
          /\ counter = b.before => NoAssign(program, b.first)
          /\ Emits(i) \/ Silent(program, b.first)
     /\ b.kind = "body" => ~captured /\ NoAssign(program, b.first)
     /\ b.kind = "unroll" => ~captured /\ Silent(program, b.first) /\ ~Emits(i)

InLoop == \E i \in 1..Len(frames) : frames[i].kind \in Loop
Quiet ==
  /\ ~InLoop => ~captured
  /\ \A i \in 1..Len(frames) : FirstLoop(frames, i) => LoopInv(i)

QuietInv == rising => Quiet

ReadInv ==
  /\ program \in Seq(Statements)
  /\ \E e : Depth(e, program) /\ Reading(e, pc, frames)

LEMMA SomeFirstLoop ==
  ASSUME NEW fs, Len(fs) \in Nat, NEW m \in 1..Len(fs), fs[m].kind \in Loop
  PROVE  \E i \in 1..m : FirstLoop(fs, i)
<1> DEFINE S == {i \in 1..Len(fs) : fs[i].kind \in Loop}
<1>1. S \subseteq Nat /\ m \in S
  OBVIOUS
<1>2. PICK i \in S : \A j \in S : i <= j
  BY <1>1, Least
<1>3. i \in 1..m
  BY <1>1, <1>2
<1>4. FirstLoop(fs, i)
  BY <1>2 DEF FirstLoop
<1> QED
  BY <1>3, <1>4

(* What is read is the next statement of a body read anew, or new.         *)
LEMMA ReadDepth ==
  ASSUME program \in Seq(Statements), NEW e, Depth(e, program),
         pc \in 1..Len(e), NEW s \in Statements, Read(s)
  PROVE  /\ program' \in Seq(Statements)
         /\ \E f : Depth(f, program') /\ ReadTo(e, f, pc, Weight(s))
<1>1. /\ e \in Seq(Int) /\ Len(e) = Len(program) + 1 /\ Len(program) \in Nat
      /\ pc \in Nat /\ Weight(s) \in Int
  BY DEF Depth, Weight
<1>2. CASE pc <= Len(program)
  <2>1. s = program[pc] /\ program' = program
    BY <1>2 DEF Read
  <2>2. ReadTo(e, e, pc, Weight(s))
    <3>1. e[pc + 1] = e[pc] + Weight(program[pc])
      BY <1>1, <1>2 DEF Depth
    <3> QED
      BY <1>1, <1>2, <2>1, <3>1 DEF ReadTo
  <2> QED
    BY <2>1, <2>2
<1>3. CASE ~(pc <= Len(program))
  <2> DEFINE d == e[pc] + Weight(s)
             f == Append(e, d)
  <2>1. program' = Append(program, s) /\ pc = Len(e)
    BY <1>1, <1>3 DEF Read
  <2>2. d \in Int
    BY <1>1, <2>1
  <2> HIDE DEF d
  <2>3. /\ f \in Seq(Int) /\ Len(f) = pc + 1 /\ f[pc + 1] = d
        /\ \A k \in 1..Len(e) : f[k] = e[k]
    BY <1>1, <2>1, <2>2
  <2>4. /\ program' \in Seq(Statements) /\ Len(program') = pc
        /\ program'[pc] = s /\ \A k \in 1..Len(program) : program'[k] = program[k]
    BY <1>1, <2>1
  <2> HIDE DEF f
  <2>5. ReadTo(e, f, pc, Weight(s))
    BY <2>1, <2>3 DEF ReadTo, d
  <2>6. ASSUME NEW k \in 1..Len(program') PROVE f[k + 1] = f[k] + Weight(program'[k])
    <3>1. CASE k \in 1..Len(program)
      <4>1. k \in 1..Len(e) /\ k + 1 \in 1..Len(e)
        BY <1>1, <3>1
      <4> QED
        BY <2>3, <2>4, <3>1, <4>1 DEF Depth
    <3>2. CASE k = pc
      BY <2>3, <2>4, <3>2 DEF d
    <3> QED
      BY <1>1, <2>1, <2>4, <3>1, <3>2
  <2>7. Depth(f, program')
    BY <2>3, <2>4, <2>6 DEF Depth
  <2> QED
    BY <2>4, <2>5, <2>7
<1> QED
  BY <1>2, <1>3

(* In a body read anew the statement is one of the body's.                 *)
LEMMA RereadStatement ==
  ASSUME frames \in Seq(Blocks), ReadInv, NEW s \in Statements, Read(s),
         NEW i, FirstLoop(frames, i), frames[i].kind \in Replayed
  PROVE  /\ pc \in frames[i].first..Len(program)
         /\ s = program[pc] /\ program' = program
<1>1. PICK e : Depth(e, program) /\ Reading(e, pc, frames)
  BY DEF ReadInv
<1>2. FirstReplay(frames, i)
  <2>1. \A j \in 1..(i - 1) : frames[j].kind \notin Replayed
    BY DEF FirstLoop, Loop, Replayed
  <2> QED
    BY <2>1 DEF FirstLoop, FirstReplay
<1>3. pc < Len(e) /\ pc \in 1..Len(e) /\ frames[i].first \in 1..pc
  BY <1>1, <1>2 DEF FirstReplay, Reading, Nests, NestsTo, Rereads, RereadsTo
<1>4. Len(e) = Len(program) + 1 /\ Len(program) \in Nat
  BY <1>1 DEF Depth, ReadInv
<1>5. pc \in frames[i].first..Len(program) /\ pc <= Len(program)
  BY <1>3, <1>4
<1> QED
  BY <1>5 DEF Read

(* Outside of loops what is read is new.                                   *)
LEMMA NewStatement ==
  ASSUME frames \in Seq(Blocks), ReadInv, NEW s \in Statements, Read(s), ~InLoop
  PROVE  program' = Append(program, s) /\ pc = Len(program) + 1
<1>1. PICK e : Depth(e, program) /\ Reading(e, pc, frames)
  BY DEF ReadInv
<1>2. \A r \in 1..Len(frames) : frames[r].kind \notin Replayed
  BY DEF InLoop, Loop, Replayed
<1>3. pc = Len(program) + 1 /\ Len(program) \in Nat
  BY <1>1, <1>2 DEF Reading, Rereads, Depth, ReadInv
<1> QED
  BY <1>3 DEF Read

(* A body stays without assignments or silent if what is read is.          *)
LEMMA ReadStaysSilent ==
  ASSUME program \in Seq(Statements), pc \in Nat, NEW s \in Statements, Read(s),
         NEW n \in Nat \ {0}
  PROVE  /\ NoAssign(program, n) /\ s.do # "assign" => NoAssign(program', n)
         /\ Silent(program, n) /\ s.do \in Silently => Silent(program', n)
<1>1. CASE program' = program
  BY <1>1
<1>2. CASE program' = Append(program, s)
  <2>1. /\ Len(program') = Len(program) + 1 /\ program'[Len(program) + 1] = s
        /\ \A k \in 1..Len(program) : program'[k] = program[k]
        /\ Len(program) \in Nat
    BY <1>2
  <2>2. \A k \in n..Len(program') : k = Len(program) + 1 \/ (k \in n..Len(program) /\ k \in 1..Len(program))
    BY <2>1
  <2> QED
    BY <2>1, <2>2 DEF NoAssign, Silent
<1> QED
  BY <1>1, <1>2 DEF Read

-----------------------------------------------------------------------------
(* Every step reads on as the blocks nest.                                 *)
LEMMA ReadNext ==
  ASSUME SharedInv, ReadInv, NEW s \in Statements, Read(s)
  PROVE  /\ frames \in Seq(Blocks) /\ Len(frames) \in Nat \ {0}
         /\ program' \in Seq(Statements)
         /\ \E e, f : /\ Reading(e, pc, frames) /\ Depth(f, program')
                      /\ ReadTo(e, f, pc, Weight(s))
<1>1. PICK e : Depth(e, program) /\ Reading(e, pc, frames)
  BY DEF ReadInv
<1>2. pc \in 1..Len(e)
  BY <1>1 DEF Reading, Nests
<1>3. /\ program' \in Seq(Statements)
      /\ \E f : Depth(f, program') /\ ReadTo(e, f, pc, Weight(s))
  BY <1>1, <1>2, ReadDepth DEF ReadInv
<1>4. frames \in Seq(Blocks) /\ Len(frames) \in Nat \ {0}
  BY DEF SharedInv, Framed
<1> QED
  BY <1>1, <1>3, <1>4

LEMMA PlainReads ==
  ASSUME SharedInv, ReadInv, NEW s \in Statements, Read(s), Weight(s) = 0,
         pc' = pc + 1, Len(frames') = Len(frames),
         SameBlocks(frames, frames', Len(frames))
  PROVE  ReadInv'
<1>1. PICK e, f : /\ Reading(e, pc, frames) /\ Depth(f, program')
                  /\ ReadTo(e, f, pc, Weight(s))
  BY ReadNext
<1>2. ReadTo(e, f, pc, 0)
  BY <1>1
<1>3. Reading(f, pc + 1, frames')
  BY <1>1, <1>2, ReadNext, ReadingOn
<1> QED
  BY <1>1, <1>3, ReadNext DEF ReadInv

LEMMA SameFrames ==
  ASSUME frames' = frames
  PROVE  Len(frames') = Len(frames) /\ SameBlocks(frames, frames', Len(frames))
BY DEF SameBlocks

LEMMA OpenReads ==
  ASSUME SharedInv, ReadInv, NEW s \in Statements, Read(s),
         NEW kind \in {"true", "while", "probe", "box"}, Weight(s) = Need(kind),
         NEW left \in Nat, NEW cond \in Nat, Open(kind, left, cond)
  PROVE  ReadInv'
<1> DEFINE b == Block(kind, pc + 1, left, cond, Nobody)
<1>1. PICK e, f : /\ Reading(e, pc, frames) /\ Depth(f, program')
                  /\ ReadTo(e, f, pc, Weight(s))
  BY ReadNext
<1>2. b \in Blocks /\ b.kind = kind /\ b.first = pc + 1
  <2>1. kind \in Kinds /\ pc + 1 \in Nat /\ counter \in Int /\ Nobody \in Nat
    BY DEF SharedInv, Kinds, Nobody
  <2>2. b \in Blocks
    BY <2>1, NewBlock
  <2> QED
    BY <2>2 DEF Block
<1>3. frames' = Append(frames, b) /\ pc' = pc + 1
  BY DEF Open, GoOn
<1> HIDE DEF b
<1>4. ReadTo(e, f, pc, Need(b.kind)) /\ b.kind \notin Replayed
  BY <1>1, <1>2 DEF Replayed
<1>5. Reading(f, pc + 1, Append(frames, b))
  BY <1>1, <1>2, <1>4, ReadNext, ReadingOpen
<1> QED
  BY <1>1, <1>3, <1>5, ReadNext DEF ReadInv

(* A block ends: what is below it is read on, or its body anew.            *)
LEMMA CloseReads ==
  ASSUME SharedInv, ReadInv, NEW s \in Statements, Read(s), s.do = "end",
         Frame.kind \notin {"program", "true"},
         frames' = Front(frames), pc' = pc + 1
  PROVE  ReadInv'
<1>1. PICK e, f : /\ Reading(e, pc, frames) /\ Depth(f, program')
                  /\ ReadTo(e, f, pc, Weight(s))
  BY ReadNext
<1>2. Weight(s) = -1
  BY DEF Weight
<1>3. Len(frames) > 1
  BY FramedPop DEF SharedInv, Frame
<1>4. ReadTo(e, f, pc, -1) /\ frames[Len(frames)].kind # "true"
  BY <1>1, <1>2 DEF Frame, Last
<1>5. Reading(f, pc + 1, Front(frames))
  BY <1>1, <1>3, <1>4, ReadNext, ReadingClose
<1> QED
  BY <1>1, <1>5, ReadNext DEF ReadInv

LEMMA AgainReads ==
  ASSUME SharedInv, ReadInv, NEW s \in Statements, Read(s), s.do = "end",
         Frame.kind \in {"probe", "unroll"},
         NEW kind \in {"unroll", "body"}, NEW left \in Nat, Again(kind, left)
  PROVE  ReadInv'
<1>1. PICK e, f : /\ Reading(e, pc, frames) /\ Depth(f, program')
                  /\ ReadTo(e, f, pc, Weight(s))
  BY ReadNext
<1>2. Weight(s) = -1
  BY DEF Weight
<1>3. Len(frames) > 1
  BY FramedPop DEF SharedInv, Frame
<1>4. /\ ReadTo(e, f, pc, -1)
      /\ frames[Len(frames)] = Frame
  BY <1>1, <1>2 DEF Frame, Last
<1>5. PICK b \in Blocks : /\ b.kind = kind /\ b.first = Frame.first
                          /\ frames' = Append(Front(frames), b)
  BY <1>3, AgainFacts
<1>6. b.kind \in Replayed /\ pc' = b.first
  BY <1>5 DEF Replayed, Again
<1>7. Reading(f, b.first, Append(Front(frames), b))
  BY <1>1, <1>3, <1>4, <1>5, <1>6, ReadNext, ReadingAgain
<1> QED
  BY <1>1, <1>5, <1>6, <1>7, ReadNext DEF ReadInv

LEMMA EndTrueReads ==
  ASSUME SharedInv, ReadInv, EndTrue
  PROVE  ReadInv'
<1> DEFINE b == Block("false", pc + 1, 0, Frame.cond, Active)
<1>1. PICK s \in Statements : s.do = "end" /\ Read(s)
  BY DEF EndTrue, End
<1>2. PICK e, f : /\ Reading(e, pc, frames) /\ Depth(f, program')
                  /\ ReadTo(e, f, pc, Weight(s))
  BY <1>1, ReadNext
<1>3. Weight(s) = -1
  BY <1>1 DEF Weight
<1>4. Frame.kind = "true" /\ frames' = Append(Front(frames), b) /\ pc' = pc + 1
  BY DEF EndTrue, End, GoOn
<1>5. Len(frames) > 1
  BY <1>4, FramedPop DEF SharedInv, Frame
<1>6. b \in Blocks /\ b.kind = "false" /\ b.first = pc + 1
  <2>1. /\ "false" \in Kinds /\ pc + 1 \in Nat /\ 0 \in Nat
        /\ Frame.cond \in Nat /\ Active \in Nat /\ counter \in Int
    BY FrameFacts DEF SharedInv, Kinds
  <2>2. b \in Blocks
    BY <2>1, NewBlock
  <2> QED
    BY <2>2 DEF Block
<1> HIDE DEF b
<1>7. ReadTo(e, f, pc, -1) /\ frames[Len(frames)].kind = "true"
  BY <1>2, <1>3, <1>4 DEF Frame, Last
<1>8. Reading(f, pc + 1, Append(Front(frames), b))
  BY <1>1, <1>2, <1>5, <1>6, <1>7, ReadNext, ReadingElse
<1> QED
  BY <1>1, <1>2, <1>4, <1>8, ReadNext DEF ReadInv
LEMMA ConditionIsNat ==
  ASSUME SharedInv, NEW name, Visible(name), HasClbit(name)
  PROVE  ClbitAt(name) \in Nat
<1>1. PICK i \in DOMAIN frames : name \in DOMAIN frames[i].scope
  BY DEF Visible, Depths
<1>2. i \in 1..Len(frames)
  BY <1>1, FrameFacts
<1>3. name \in DOMAIN offset
  BY <1>1, <1>2 DEF SharedInv, Named
<1> QED
  BY <1>3, ClbitIsNat

LEMMA StatementReads ==
  ASSUME SharedInv, ReadInv, NEW s \in Statements, Statement(s), status' = "running"
  PROVE  ReadInv'
<1>1. CASE Gate(s)
  <2>1. Read(s) /\ Weight(s) = 0 /\ pc' = pc + 1 /\ frames' = frames
    BY <1>1 DEF Gate, GoOn, Weight
  <2> QED
    BY <2>1, SameFrames, PlainReads
<1>2. CASE Barrier(s)
  <2>1. Read(s) /\ Weight(s) = 0 /\ pc' = pc + 1 /\ frames' = frames
    BY <1>2 DEF Barrier, Raise, GoOn, Weight
  <2> QED
    BY <2>1, SameFrames, PlainReads
<1>3. CASE Declare(s)
  <2>1. Read(s) /\ Weight(s) = 0 /\ pc' = pc + 1
    BY <1>3 DEF Declare, GoOn, Weight
  <2>2. Len(frames') = Len(frames) /\ SameBlocks(frames, frames', Len(frames))
    BY <1>3, DeclareFacts DEF SameBlocks
  <2> QED
    BY <2>1, <2>2, PlainReads
<1>4. CASE Measure(s)
  <2>1. Read(s) /\ Weight(s) = 0 /\ pc' = pc + 1 /\ frames' = frames
    BY <1>4 DEF Measure, Raise, GoOn, Weight
  <2> QED
    BY <2>1, SameFrames, PlainReads
<1>5. CASE Assign(s)
  <2>1. Read(s) /\ Weight(s) = 0 /\ pc' = pc + 1 /\ frames' = frames
    BY <1>5 DEF Assign, GoOn, Weight
  <2> QED
    BY <2>1, SameFrames, PlainReads
<1>6. CASE OpenConditional(s)
  <2> DEFINE kind == IF s.do = "if" THEN "true" ELSE "while"
  <2>1. Read(s) /\ s.do \in {"if", "while"} /\ Visible(s.name) /\ HasClbit(s.name)
        /\ Open(kind, 0, ClbitAt(s.name))
    BY <1>6 DEF OpenConditional, Raise
  <2>2. kind \in {"true", "while", "probe", "box"} /\ Weight(s) = Need(kind)
    BY <2>1 DEF Weight, Need
  <2>3. ClbitAt(s.name) \in Nat
    BY <2>1, ConditionIsNat
  <2> HIDE DEF kind
  <2> QED
    BY <2>1, <2>2, <2>3, OpenReads
<1>7. CASE OpenLoop(s)
  <2>1. Read(s) /\ Weight(s) = Need("probe") /\ s.n \in Nat /\ Open("probe", s.n, 0)
    BY <1>7, StatementsAssumption DEF OpenLoop, Weight, Need
  <2> QED
    BY <2>1, OpenReads
<1>8. CASE OpenBox(s)
  <2>1. Read(s) /\ Weight(s) = Need("box") /\ Open("box", 0, 0)
    BY <1>8 DEF OpenBox, Raise, Weight, Need
  <2> QED
    BY <2>1, OpenReads
<1> QED
  BY <1>1, <1>2, <1>3, <1>4, <1>5, <1>6, <1>7, <1>8 DEF Statement

LEMMA EndReads ==
  ASSUME SharedInv, ReadInv, EndOfBlock, status' = "running"
  PROVE  ReadInv'
<1>1. CASE EndTrue
  BY <1>1, EndTrueReads
<1>2. ASSUME End(Frame.kind), Frame.kind \notin {"program", "true"},
             frames' = Front(frames), pc' = pc + 1
      PROVE  ReadInv'
  BY <1>2, CloseReads DEF End
<1>3. ASSUME End(Frame.kind), Frame.kind \in {"probe", "unroll"},
             NEW kind \in {"unroll", "body"}, NEW left \in Nat, Again(kind, left)
      PROVE  ReadInv'
  BY <1>3, AgainReads DEF End
<1>4. CASE EndFalse \/ EndBody \/ EndWhile \/ EndBox
  <2>1. End(Frame.kind) /\ Frame.kind \notin {"program", "true"}
    BY <1>4 DEF EndFalse, EndBody, EndWhile, EndBox, End
  <2>2. frames' = Front(frames) /\ pc' = pc + 1
    BY <1>4 DEF EndFalse, EndBody, EndWhile, EndBox, Leave, Wrap, Raise, GoOn
  <2> QED
    BY <1>2, <2>1, <2>2
<1>5. CASE EndProbe
  <2>1. End(Frame.kind) /\ Frame.kind = "probe"
    BY <1>5 DEF EndProbe, End
  <2>2. \/ frames' = Front(frames) /\ pc' = pc + 1
        \/ Frame.left > 1 /\ Again("unroll", Frame.left - 2)
        \/ Again("body", 0)
    BY <1>5 DEF EndProbe, GoOn
  <2>3. Frame.left > 1 => Frame.left - 2 \in Nat
    BY FrameFacts
  <2> QED
    BY <1>2, <1>3, <2>1, <2>2, <2>3
<1>6. CASE EndUnroll
  <2>1. End(Frame.kind) /\ Frame.kind = "unroll"
    BY <1>6 DEF EndUnroll, End
  <2>2. \/ frames' = Front(frames) /\ pc' = pc + 1
        \/ Frame.left > 0 /\ Again("unroll", Frame.left - 1)
    BY <1>6 DEF EndUnroll, GoOn
  <2>3. Frame.left > 0 => Frame.left - 1 \in Nat
    BY FrameFacts
  <2> QED
    BY <1>2, <1>3, <2>1, <2>2, <2>3
<1> QED
  BY <1>1, <1>4, <1>5, <1>6 DEF EndOfBlock

-----------------------------------------------------------------------------
(* Where the outermost loop's circuit is: below it no block is visited in  *)
(* place, so that each has a circuit of its own.                           *)
LEMMA Straight ==
  ASSUME NEW fs, NEW st, Len(fs) \in Nat, Len(st) \in Nat,
         NEW at, Placed(fs, st, at),
         NEW m \in 1..Len(fs), \A i \in 1..m : fs[i].kind # "unroll"
  PROVE  \A i \in 1..m : at[i] = i
<1> DEFINE S == {i \in 1..m : at[i] # i}
<1> SUFFICES ASSUME S # {} PROVE FALSE
  OBVIOUS
<1>1. S \in SUBSET Nat
  OBVIOUS
<1>2. PICK i \in S : \A j \in S : i <= j
  BY <1>1, Least
<1>3. i \in 1..m /\ at[i] # i
  OBVIOUS
<1>4. i # 1 /\ i \in 2..Len(fs)
  BY <1>3 DEF Placed
<1>5. i - 1 \in 1..m /\ i - 1 \notin S
  BY <1>1, <1>2, <1>3, <1>4
<1>6. at[i - 1] = i - 1
  BY <1>5
<1>7. at[i] = at[i - 1] + 1
  BY <1>3, <1>4 DEF Placed
<1> QED
  BY <1>3, <1>6, <1>7

LEMMA PlaceOfLoop ==
  ASSUME SharedInv, NEW i, FirstLoop(frames, i)
  PROVE  /\ i \in 2..Len(frames) /\ Len(frames) \in Nat /\ Len(stack) \in Nat
         /\ frames[i].kind # "unroll" => i <= Len(stack)
         /\ frames[i].kind # "unroll" /\ i = Len(frames) => Len(stack) = i
         /\ i < Len(frames) /\ Frame.kind # "unroll" =>
              /\ i <= Len(stack)
              /\ frames[i].kind # "unroll" => i <= Len(stack) - 1
<1>1. /\ Len(frames) \in Nat \ {0} /\ Len(stack) \in Nat \ {0}
      /\ frames \in Seq(Blocks)
  BY DEF SharedInv, Framed
<1>2. PICK at : Placed(frames, stack, at)
  BY DEF SharedInv, Framed
<1>3. i \in 1..Len(frames) /\ frames[i].kind \in Loop
  BY DEF FirstLoop
<1>4. i # 1
  BY <1>2, <1>3 DEF Placed, Loop
<1>5. i - 1 \in 1..Len(frames) /\ \A j \in 1..(i - 1) : frames[j].kind # "unroll"
  BY <1>3, <1>4 DEF FirstLoop, Loop
<1>6. at[i - 1] = i - 1
  BY <1>1, <1>2, <1>5, Straight
<1>7. at[i] = IF frames[i].kind = "unroll" THEN i - 1 ELSE i
  BY <1>2, <1>3, <1>4, <1>6 DEF Placed
<1>8. \A j \in 1..Len(frames) : at[j] \in 1..Len(stack)
  BY <1>2 DEF Placed
<1>9. at[Len(frames)] = Len(stack)
  BY <1>2 DEF Placed
<1>10. ASSUME i < Len(frames), Frame.kind # "unroll"
       PROVE  at[i] + 1 <= Len(stack)
  <2>1. /\ Len(frames) - 1 \in 1..Len(frames) /\ Len(frames) \in 2..Len(frames)
        /\ i <= Len(frames) - 1
    BY <1>1, <1>3, <1>10
  <2>2. frames[Len(frames)].kind # "unroll"
    BY <1>10 DEF Frame, Last
  <2>3. at[Len(frames)] = at[Len(frames) - 1] + 1
    BY <1>2, <2>1, <2>2 DEF Placed
  <2>4. at[i] <= at[Len(frames) - 1]
    BY <1>2, <1>3, <2>1 DEF Placed
  <2>5. at[i] \in Nat /\ at[Len(frames) - 1] \in Nat
    BY <1>3, <1>8, <2>1
  <2> QED
    BY <1>9, <2>3, <2>4, <2>5
<1>11. at[i] \in 1..Len(stack) /\ i \in Nat
  BY <1>3, <1>8
<1> QED
  BY <1>1, <1>3, <1>4, <1>7, <1>9, <1>10, <1>11
-----------------------------------------------------------------------------
(* What a step that changes no variable does to the blocks and circuits.   *)
SameLoops(fs, gs, n) ==
  \A i \in 1..n : /\ gs[i].kind = fs[i].kind /\ gs[i].first = fs[i].first
                  /\ gs[i].before = fs[i].before

LEMMA SameFirstLoop ==
  ASSUME NEW fs, NEW gs, NEW n \in Nat, Len(fs) \in Nat, Len(gs) \in Nat,
         n <= Len(fs), n <= Len(gs), SameLoops(fs, gs, n), NEW i \in 1..n
  PROVE  FirstLoop(fs, i) <=> FirstLoop(gs, i)
<1>1. /\ i \in 1..Len(fs) /\ i \in 1..Len(gs)
      /\ \A j \in 1..(i - 1) : j \in 1..n
  OBVIOUS
<1> QED
  BY <1>1 DEF FirstLoop, SameLoops

LEMMA LoopStarts ==
  ASSUME SharedInv, ReadInv
  PROVE  /\ frames \in Seq(Blocks) /\ Len(frames) \in Nat \ {0} /\ pc \in Nat
         /\ program \in Seq(Statements) /\ counter \in Int
         /\ \A i \in 1..Len(frames) :
              frames[i].first \in Nat \ {0} /\ frames[i].before \in Int
<1>1. PICK e : Reading(e, pc, frames)
  BY DEF ReadInv
<1>2. frames \in Seq(Blocks) /\ Len(frames) \in Nat \ {0} /\ counter \in Int /\ pc \in Nat
  BY DEF SharedInv, Framed
<1>3. \A i \in 1..Len(frames) : frames[i].first \in 1..pc
  BY <1>1 DEF Reading, Nests, NestsTo
<1>4. \A i \in 1..Len(frames) : frames[i] \in Blocks
  BY <1>2
<1>5. \A i \in 1..Len(frames) : frames[i].before \in Int
  BY <1>4 DEF Blocks
<1>6. \A i \in 1..Len(frames) : frames[i].first \in Nat \ {0}
  BY <1>2, <1>3
<1>7. program \in Seq(Statements)
  BY DEF ReadInv
<1> QED
  BY <1>2, <1>5, <1>6, <1>7

(* The first n blocks stay.  Of an outermost loop among them, a first visit*)
(* keeps what is captured in it, and what is read captures something or is *)
(* silent; a visit in place goes on to capture nothing.                    *)
Keeps(s, n) ==
  /\ n \in Nat /\ n <= Len(frames) /\ n <= Len(frames') /\ Len(frames') \in Nat
  /\ SameLoops(frames, frames', n)
  /\ \A i \in 1..n :
       FirstLoop(frames, i) =>
         /\ frames[i].kind = "probe" =>
              /\ Emits(i) => Emits(i)'
              /\ Emits(i)' \/ s.do \in Silently
         /\ frames[i].kind = "unroll" /\ s.do \in Silently /\ ~Emits(i) => ~Emits(i)'

LEMMA QuietStep ==
  ASSUME SharedInv, ReadInv, Quiet, NEW s \in Statements, Read(s),
         s.do # "assign", UNCHANGED <<counter, captured>>,
         NEW n, Keeps(s, n),
         \A i \in (n + 1)..Len(frames') : FirstLoop(frames', i) => LoopInv(i)',
         (\A i \in 1..Len(frames') : frames'[i].kind \notin Loop) => ~captured
  PROVE  Quiet'
<1>1. ASSUME NEW i \in 1..n, FirstLoop(frames', i)
      PROVE  LoopInv(i)'
  <2> DEFINE b == frames[i]
  <2>1. /\ n \in Nat /\ n <= Len(frames) /\ n <= Len(frames') /\ Len(frames') \in Nat
        /\ Len(frames) \in Nat /\ i \in 1..Len(frames)
        /\ SameLoops(frames, frames', n)
    BY LoopStarts DEF Keeps
  <2>2. FirstLoop(frames, i)
    BY <1>1, <2>1, SameFirstLoop
  <2>3. /\ frames'[i].kind = b.kind /\ frames'[i].first = b.first
        /\ frames'[i].before = b.before
    BY <2>1 DEF SameLoops
  <2>4. LoopInv(i)
    BY <2>1, <2>2 DEF Quiet
  <2>5. /\ NoAssign(program, b.first) => NoAssign(program', b.first)
        /\ Silent(program, b.first) /\ s.do \in Silently => Silent(program', b.first)
    <3>1. b.first \in Nat \ {0} /\ program \in Seq(Statements) /\ pc \in Nat
      BY <2>1, LoopStarts
    <3> HIDE DEF b
    <3> QED
      BY <3>1, ReadStaysSilent
  <2>6. /\ b.kind = "probe" =>
             /\ Emits(i) => Emits(i)'
             /\ Emits(i)' \/ s.do \in Silently
        /\ b.kind = "unroll" /\ s.do \in Silently /\ ~Emits(i) => ~Emits(i)'
    BY <2>2 DEF Keeps
  <2>7. ASSUME b.kind = "unroll" PROVE s.do \in Silently
    <3>1. pc \in b.first..Len(program) /\ s = program[pc]
      BY <2>1, <2>2, <2>7, LoopStarts, RereadStatement DEF Replayed
    <3> QED
      BY <2>4, <2>7, <3>1 DEF LoopInv, Silent
  <2> QED
    BY <2>3, <2>4, <2>5, <2>6, <2>7 DEF LoopInv
<1>2. \A i \in 1..Len(frames') : i \in 1..n \/ i \in (n + 1)..Len(frames')
  BY DEF Keeps
<1>3. \A i \in 1..Len(frames') : FirstLoop(frames', i) => LoopInv(i)'
  BY <1>1, <1>2
<1>4. ~InLoop' => ~captured'
  BY DEF InLoop
<1> QED
  BY <1>3, <1>4 DEF Quiet

(* A statement that changes a variable: when a body is captured it is not  *)
(* in a loop visited for the first time unseen.                            *)
LEMMA AssignIsQuiet ==
  ASSUME SharedInv, ReadInv, Quiet, NEW s \in Statements, Assign(s), rising'
  PROVE  Quiet'
<1>1. /\ Read(s) /\ s.do = "assign" /\ counter' > counter
      /\ captured' => captured \/ \E i \in DOMAIN frames : frames[i].kind = "body"
      /\ UNCHANGED <<circ, stack, frames>>
  BY DEF Assign
<1>2. /\ Len(frames) \in Nat \ {0} /\ frames \in Seq(Blocks) /\ DOMAIN frames = 1..Len(frames)
      /\ program \in Seq(Statements) /\ pc \in Nat /\ counter \in Int
      /\ counter' \in Int
  BY LoopStarts, AssignKeepsShared DEF SharedInv
<1>3. \A i : Emits(i)' <=> Emits(i)
  BY <1>1 DEF Emits
<1>4. InLoop' <=> InLoop
  BY <1>1 DEF InLoop
<1>5. ASSUME ~InLoop PROVE ~captured'
  BY <1>1, <1>2, <1>5 DEF InLoop, Quiet, Loop
<1>6. ASSUME NEW i \in 1..Len(frames), FirstLoop(frames, i)
      PROVE  LoopInv(i)'
  <2> DEFINE b == frames[i]
  <2>1. LoopInv(i)
    BY <1>6 DEF Quiet
  <2>2. b.first \in Nat \ {0} /\ b.before \in Int
    BY LoopStarts
  <2>3. ASSUME captured', b.kind # "body" PROVE captured \/ Emits(i)
    <3>1. CASE captured
      BY <3>1
    <3>2. CASE ~captured
      <4>1. PICK j \in 1..Len(frames) : frames[j].kind = "body"
        BY <1>1, <1>2, <2>3, <3>2
      <4>2. j # i /\ j \notin 1..(i - 1)
        BY <1>6, <2>3, <4>1 DEF FirstLoop, Loop
      <4>3. j \in (i + 1)..Len(frames)
        BY <4>1, <4>2
      <4> QED
        BY <4>1, <4>3 DEF Emits, Wrapping
    <3> QED
      BY <3>1, <3>2
  <2>4. Silent(program, b.first) => Silent(program', b.first)
    <3> HIDE DEF b
    <3>1. s.do \in Silently
      BY <1>1 DEF Silently
    <3> QED
      BY <1>1, <1>2, <2>2, <3>1, ReadStaysSilent
  <2>5. ASSUME b.kind = "body" PROVE FALSE
    <3>1. pc \in b.first..Len(program) /\ s = program[pc]
      BY <1>1, <1>2, <1>6, <2>5, RereadStatement DEF Replayed
    <3> QED
      BY <1>1, <2>1, <2>5, <3>1 DEF LoopInv, NoAssign
  <2>6. frames'[i] = b
    BY <1>1
  <2>7. ASSUME b.kind = "probe"
        PROVE  /\ captured' => counter' # b.before /\ Emits(i)'
               /\ counter' >= b.before /\ counter' # b.before
               /\ Emits(i)' \/ Silent(program', b.first)
    <3>1. /\ captured => Emits(i)
          /\ counter >= b.before /\ (Emits(i) \/ Silent(program, b.first))
      BY <2>1, <2>7 DEF LoopInv
    <3>2. counter' > b.before
      <4> HIDE DEF b
      <4> QED
        BY <1>1, <1>2, <2>2, <3>1
    <3>3. captured' => Emits(i)
      BY <2>3, <2>7, <3>1
    <3> HIDE DEF b
    <3>4. counter' >= b.before /\ counter' # b.before
      BY <1>1, <1>2, <2>2, <3>2
    <3> QED
      BY <1>3, <2>4, <3>1, <3>3, <3>4
  <2>8. ASSUME b.kind = "unroll"
        PROVE  ~captured' /\ Silent(program', b.first) /\ ~Emits(i)'
    BY <1>3, <2>1, <2>3, <2>4, <2>8 DEF LoopInv
  <2> QED
    BY <2>5, <2>6, <2>7, <2>8 DEF LoopInv
<1>7. \A i \in 1..Len(frames') : FirstLoop(frames', i) => LoopInv(i)'
  BY <1>1, <1>6
<1> QED
  BY <1>4, <1>5, <1>7 DEF Quiet
-----------------------------------------------------------------------------
(* The statements that put an instruction into the circuit being built.    *)
LEMMA EmittingIsQuiet ==
  ASSUME SharedInv, ReadInv, Quiet, NEW s \in Statements, Read(s),
         s.do \notin Silently, UNCHANGED <<counter, captured, frames, stack>>,
         circ'[Active].data # <<>>
  PROVE  Quiet'
<1>1. /\ Len(frames) \in Nat \ {0} /\ frames \in Seq(Blocks)
  BY LoopStarts
<1>2. Keeps(s, Len(frames))
  <2>1. SameLoops(frames, frames', Len(frames))
    BY DEF SameLoops
  <2>2. ASSUME NEW i \in 1..Len(frames), FirstLoop(frames, i),
               frames[i].kind = "probe"
        PROVE  Emits(i)'
    <3>1. Len(stack) \in i..Len(stack) /\ stack[Len(stack)] = Active
      BY <2>2, PlaceOfLoop DEF Active, Last
    <3> QED
      BY <3>1 DEF Emits
  <2> QED
    BY <1>1, <2>1, <2>2 DEF Keeps
<1>3. s.do # "assign"
  BY DEF Silently
<1>4. (\A i \in 1..Len(frames') : frames'[i].kind \notin Loop) => ~captured
  BY DEF Quiet, InLoop
<1>5. \A i \in (Len(frames) + 1)..Len(frames') : FALSE
  BY <1>1
<1> QED
  BY <1>2, <1>3, <1>4, <1>5, QuietStep

LEMMA AppendNotEmpty ==
  ASSUME NEW q \in Seq(Instructions), NEW x
  PROVE  Append(q, x) # <<>>
<1>1. Len(Append(q, x)) = Len(q) + 1 /\ Len(q) \in Nat
  OBVIOUS
<1>2. Len(<<>>) = 0
  OBVIOUS
<1> QED
  BY <1>1, <1>2

LEMMA GateIsQuiet ==
  ASSUME SharedInv, ReadInv, Quiet, NEW s \in Statements, Gate(s)
  PROVE  Quiet'
<1> DEFINE cs == WithCapacity(s.q)
           new == Instruction("gate", <<cs[Active].qubits[s.q + 1]>>, <<>>, <<>>, 0)
<1>1. /\ s.do = "gate" /\ Read(s) /\ circ' = Appended(cs, Active, new)
      /\ UNCHANGED <<stack, counter, frames, captured>>
  BY DEF Gate
<1>2. cs \in Seq(Circuits) /\ Active \in 1..Len(cs) /\ cs[Active].data \in Seq(Instructions)
  <2>1. s.q \in Nat
    BY <1>1, StatementsAssumption
  <2>2. Shares(cs, stack)
    BY <2>1, SharesCapacity DEF SharedInv
  <2> HIDE DEF cs
  <2>3. cs \in Seq(Circuits) /\ Active \in 1..Len(cs)
    BY <2>2 DEF Shares, Active, Last
  <2>4. cs[Active] \in Circuits
    BY <2>3
  <2> QED
    BY <2>3, <2>4 DEF Circuits
<1>3. circ'[Active].data = Append(cs[Active].data, new)
  <2> HIDE DEF cs, new
  <2> QED
    BY <1>1, <1>2 DEF Appended, Circuits
<1>4. circ'[Active].data # <<>>
  <2> HIDE DEF cs, new
  <2> QED
    BY <1>2, <1>3, AppendNotEmpty
<1>5. s.do \notin Silently
  BY <1>1 DEF Silently
<1> QED
  BY <1>1, <1>4, <1>5, EmittingIsQuiet

LEMMA BarrierIsQuiet ==
  ASSUME SharedInv, ReadInv, Quiet, NEW s \in Statements, Barrier(s),
         status' = "running"
  PROVE  Quiet'
<1> DEFINE new == Instruction("barrier", <<>>, <<>>, <<>>, 0)
<1>1. /\ s.do = "barrier" /\ Read(s) /\ circ' = Appended(circ, Active, new)
      /\ UNCHANGED <<stack, counter, frames, captured>>
  BY DEF Barrier, Raise
<1>2. /\ circ \in Seq(Circuits) /\ Active \in 1..Len(circ)
      /\ circ[Active].data \in Seq(Instructions)
  BY FrameFacts DEF Circuits
<1> HIDE DEF new
<1>3. circ'[Active].data = Append(circ[Active].data, new)
  BY <1>1, <1>2 DEF Appended, Circuits
<1>4. circ'[Active].data # <<>>
  BY <1>2, <1>3, AppendNotEmpty
<1>5. s.do \notin Silently
  BY <1>1 DEF Silently
<1> QED
  BY <1>1, <1>4, <1>5, EmittingIsQuiet

LEMMA MeasureIsQuiet ==
  ASSUME SharedInv, ReadInv, Quiet, NEW s \in Statements, Measure(s),
         status' = "running"
  PROVE  Quiet'
<1> DEFINE cs == WithCapacity(s.q)
           new == Instruction("measure", <<cs[Active].qubits[s.q + 1]>>,
                              <<ClbitAt(s.name)>>, <<>>, 0)
<1>1. /\ s.do = "measure" /\ Read(s) /\ circ' = Appended(cs, Active, new)
      /\ UNCHANGED <<stack, counter, frames, captured>>
  BY DEF Measure, Raise
<1>2. cs \in Seq(Circuits) /\ Active \in 1..Len(cs) /\ cs[Active].data \in Seq(Instructions)
  <2>1. s.q \in Nat
    BY <1>1, StatementsAssumption
  <2>2. Shares(cs, stack)
    BY <2>1, SharesCapacity DEF SharedInv
  <2> HIDE DEF cs
  <2>3. cs \in Seq(Circuits) /\ Active \in 1..Len(cs)
    BY <2>2 DEF Shares, Active, Last
  <2>4. cs[Active] \in Circuits
    BY <2>3
  <2> QED
    BY <2>3, <2>4 DEF Circuits
<1> HIDE DEF cs, new
<1>3. circ'[Active].data = Append(cs[Active].data, new)
  BY <1>1, <1>2 DEF Appended, Circuits
<1>4. circ'[Active].data # <<>>
  BY <1>2, <1>3, AppendNotEmpty
<1>5. s.do \notin Silently
  BY <1>1 DEF Silently
<1> QED
  BY <1>1, <1>4, <1>5, EmittingIsQuiet

(* A declaration leaves the instructions as they are.                      *)
LEMMA DeclareIsQuiet ==
  ASSUME SharedInv, ReadInv, Quiet, NEW s \in Statements, Declare(s)
  PROVE  Quiet'
<1>1. /\ s.do = "bit" /\ Read(s) /\ UNCHANGED <<stack, counter, captured>>
  BY DEF Declare
<1>2. /\ Len(frames) \in Nat \ {0} /\ frames \in Seq(Blocks)
  BY LoopStarts
<1>3. Len(frames') = Len(frames) /\ SameLoops(frames, frames', Len(frames))
  BY DeclareFacts DEF SameLoops
<1>4. \A k \in 1..Len(stack) : circ'[stack[k]].data = circ[stack[k]].data
  <2>1. circ' = [circ EXCEPT ![Active].clbits = @ \o New(Size[s.name])]
    BY DeclareFacts
  <2>2. circ \in Seq(Circuits) /\ \A k \in 1..Len(stack) : stack[k] \in 1..Len(circ)
    BY DEF SharedInv, Shares
  <2>3. \A c \in 1..Len(circ) : circ[c] \in Circuits
    BY <2>2
  <2>4. \A c \in 1..Len(circ) : circ'[c].data = circ[c].data
    BY <2>1, <2>2, <2>3 DEF Circuits
  <2> QED
    BY <2>2, <2>4
<1>5. ASSUME NEW i \in 1..Len(frames) PROVE Emits(i)' <=> Emits(i)
  <2>1. \A j \in (i + 1)..Len(frames) : frames'[j].kind = frames[j].kind
    BY <1>2, <1>3 DEF SameLoops
  <2>2. Len(stack) \in Nat /\ \A k \in i..Len(stack) : k \in 1..Len(stack)
    BY FrameFacts
  <2> QED
    BY <1>1, <1>3, <1>4, <2>1, <2>2 DEF Emits
<1>6. s.do \in Silently /\ s.do # "assign"
  BY <1>1 DEF Silently
<1>7. Keeps(s, Len(frames))
  BY <1>2, <1>3, <1>5, <1>6 DEF Keeps
<1>8. (\A i \in 1..Len(frames') : frames'[i].kind \notin Loop) => ~captured
  BY <1>3 DEF Quiet, InLoop, SameLoops
<1>9. \A i \in (Len(frames) + 1)..Len(frames') : FALSE
  BY <1>2, <1>3
<1> QED
  BY <1>1, <1>6, <1>7, <1>8, <1>9, QuietStep
-----------------------------------------------------------------------------
(* A block is opened, with an empty circuit.  A loop outside of loops reads*)
(* its body for the first time.                                            *)
LEMMA OpenIsQuiet ==
  ASSUME SharedInv, ReadInv, Quiet, NEW s \in Statements, Read(s),
         NEW kind \in {"true", "while", "probe", "box"},
         s.do # "assign", s.do \in Silently => kind = "probe",
         s.do \notin Silently => kind # "probe",
         NEW left \in Nat, NEW cond \in Nat, Open(kind, left, cond)
  PROVE  Quiet'
<1> DEFINE b == Block(kind, pc + 1, left, cond, Nobody)
           n == Len(frames)
<1>1. b.kind = kind /\ b.first = pc + 1 /\ b.before = counter
  BY DEF Block
<1>2. /\ circ' = Pushed(circ, stack) /\ stack' = Append(stack, Len(circ) + 1)
      /\ frames' = Append(frames, b) /\ UNCHANGED <<counter, captured>>
  BY DEF Open
<1>3. frames \in Seq(Blocks) /\ n \in Nat \ {0} /\ counter \in Int
  BY LoopStarts
<1> HIDE DEF b
<1>4. /\ Len(frames') = n + 1 /\ frames'[n + 1] = b
      /\ \A i \in 1..n : frames'[i] = frames[i]
  BY <1>2, <1>3
<1>5. /\ Len(stack) \in Nat \ {0} /\ Len(stack') = Len(stack) + 1
      /\ \A k \in 1..Len(stack) : stack'[k] = stack[k]
      /\ stack'[Len(stack) + 1] = Len(circ) + 1
  <2>1. stack \in Seq(Nat) /\ Len(circ) + 1 \in Nat
    BY FrameFacts
  <2>2. Len(stack) \in Nat \ {0}
    BY <2>1 DEF SharedInv, Shares
  <2>3. /\ Len(Append(stack, Len(circ) + 1)) = Len(stack) + 1
        /\ Append(stack, Len(circ) + 1)[Len(stack) + 1] = Len(circ) + 1
        /\ \A k \in 1..Len(stack) : Append(stack, Len(circ) + 1)[k] = stack[k]
    BY <2>1, AppendFacts
  <2> QED
    BY <1>2, <2>2, <2>3
<1>6. /\ circ'[Len(circ) + 1].data = <<>>
      /\ \A k \in 1..Len(stack) : circ'[stack[k]].data = circ[stack[k]].data
  <2>1. Shares(circ, stack)
    BY DEF SharedInv
  <2>2. \A k \in 1..Len(stack) : stack[k] \in 1..Len(circ)
    BY <2>1 DEF Shares
  <2> QED
    BY <1>2, <2>1, <2>2, PushedFacts
<1> HIDE DEF n
<1>7. ASSUME NEW i \in 1..n
      PROVE  /\ Emits(i) => Emits(i)'
             /\ kind # "probe" => Emits(i)'
             /\ kind = "probe" /\ ~Emits(i) => ~Emits(i)'
  <2>1. Emits(i)' <=> \/ \E j \in (i + 1)..(n + 1) : frames'[j].kind \in Wrapping
                      \/ \E k \in i..(Len(stack) + 1) : circ'[stack'[k]].data # <<>>
    BY <1>4, <1>5 DEF Emits
  <2>2. Emits(i) <=> \/ \E j \in (i + 1)..n : frames[j].kind \in Wrapping
                     \/ \E k \in i..Len(stack) : circ[stack[k]].data # <<>>
    BY DEF Emits, n
  <2>3. \A j \in (i + 1)..n : j \in (i + 1)..(n + 1) /\ frames'[j].kind = frames[j].kind
    BY <1>3, <1>4
  <2>4. \A k \in i..Len(stack) :
          k \in i..(Len(stack) + 1) /\ circ'[stack'[k]].data = circ[stack[k]].data
    BY <1>5, <1>6
  <2>5. /\ \A j \in (i + 1)..(n + 1) : j \in (i + 1)..n \/ j = n + 1
        /\ \A k \in i..(Len(stack) + 1) : k \in i..Len(stack) \/ k = Len(stack) + 1
        /\ n + 1 \in (i + 1)..(n + 1)
    BY <1>3, <1>5
  <2>6. frames'[n + 1].kind = kind /\ (kind \in Wrapping <=> kind # "probe")
    BY <1>1, <1>4 DEF Wrapping
  <2>7. circ'[stack'[Len(stack) + 1]].data = <<>>
    BY <1>5, <1>6
  <2>8. Emits(i) => Emits(i)'
    BY <2>1, <2>2, <2>3, <2>4
  <2>9. kind # "probe" => Emits(i)'
    BY <2>1, <2>5, <2>6
  <2>10. ASSUME kind = "probe", Emits(i)' PROVE Emits(i)
    <3>1. CASE \E j \in (i + 1)..(n + 1) : frames'[j].kind \in Wrapping
      BY <2>2, <2>3, <2>5, <2>6, <2>10, <3>1
    <3>2. CASE \E k \in i..(Len(stack) + 1) : circ'[stack'[k]].data # <<>>
      BY <2>2, <2>4, <2>5, <2>7, <3>2
    <3> QED
      BY <2>1, <2>10, <3>1, <3>2
  <2> QED
    BY <2>8, <2>9, <2>10
<1>8. Keeps(s, n)
  <2>1. SameLoops(frames, frames', n)
    BY <1>4 DEF SameLoops
  <2>2. n \in Nat /\ n <= Len(frames) /\ n <= Len(frames') /\ Len(frames') \in Nat
    BY <1>3, <1>4 DEF n
  <2> QED
    BY <1>7, <2>1, <2>2 DEF Keeps
<1>9. ASSUME NEW i \in (n + 1)..Len(frames'), FirstLoop(frames', i)
      PROVE  LoopInv(i)'
  <2>1. i = n + 1 /\ i \in Nat /\ n + 1 \in 1..Len(frames')
    BY <1>3, <1>4, <1>9
  <2>2. b.kind \in Loop
    BY <1>4, <1>9, <2>1 DEF FirstLoop
  <2>3. kind = "probe"
    BY <1>1, <2>2 DEF Loop
  <2>4. ~InLoop
    <3>1. \A j \in 1..n : j \in 1..(i - 1) /\ frames[j].kind = frames'[j].kind
      BY <1>3, <1>4, <2>1
    <3> QED
      BY <1>9, <3>1 DEF InLoop, FirstLoop, n
  <2>5. ~captured
    BY <2>4 DEF Quiet
  <2>6. program' = Append(program, s) /\ pc = Len(program) + 1 /\ program \in Seq(Statements)
    BY <1>3, <2>4, NewStatement, LoopStarts
  <2>7. \A k \in (pc + 1)..Len(program') : FALSE
    BY <2>6
  <2>8. NoAssign(program', b.first) /\ Silent(program', b.first)
    BY <1>1, <2>7 DEF NoAssign, Silent
  <2>9. counter >= b.before
    BY <1>1, <1>3
  <2>10. frames'[i] = b
    BY <1>4, <2>1
  <2> QED
    BY <1>1, <1>2, <2>3, <2>5, <2>8, <2>9, <2>10 DEF LoopInv
<1>10. ASSUME \A i \in 1..Len(frames') : frames'[i].kind \notin Loop PROVE ~captured
  <2>1. \A i \in 1..n : i \in 1..Len(frames') /\ frames[i].kind = frames'[i].kind
    BY <1>3, <1>4
  <2> QED
    BY <1>10, <2>1 DEF Quiet, InLoop, n
<1> QED
  BY <1>2, <1>8, <1>9, <1>10, QuietStep

LEMMA OpeningIsQuiet ==
  ASSUME SharedInv, ReadInv, Quiet, NEW s \in Statements,
         OpenConditional(s) \/ OpenLoop(s) \/ OpenBox(s), status' = "running"
  PROVE  Quiet'
<1>1. CASE OpenConditional(s)
  <2> DEFINE kind == IF s.do = "if" THEN "true" ELSE "while"
  <2>1. Read(s) /\ s.do \in {"if", "while"} /\ Visible(s.name) /\ HasClbit(s.name)
        /\ Open(kind, 0, ClbitAt(s.name))
    BY <1>1 DEF OpenConditional, Raise
  <2>2. kind \in {"true", "while", "probe", "box"} /\ kind # "probe"
    OBVIOUS
  <2>3. ClbitAt(s.name) \in Nat
    BY <2>1, ConditionIsNat
  <2>4. s.do \notin Silently /\ s.do # "assign"
    BY <2>1 DEF Silently
  <2> HIDE DEF kind
  <2> QED
    BY <2>1, <2>2, <2>3, <2>4, OpenIsQuiet
<1>2. CASE OpenLoop(s)
  <2>1. Read(s) /\ s.do = "for" /\ s.n \in Nat /\ Open("probe", s.n, 0)
    BY <1>2, StatementsAssumption DEF OpenLoop
  <2>2. s.do \in Silently /\ s.do # "assign"
    BY <2>1 DEF Silently
  <2> QED
    BY <2>1, <2>2, OpenIsQuiet
<1>3. CASE OpenBox(s)
  <2>1. Read(s) /\ s.do = "box" /\ Open("box", 0, 0)
    BY <1>3 DEF OpenBox, Raise
  <2>2. s.do \notin Silently /\ s.do # "assign"
    BY <2>1 DEF Silently
  <2> QED
    BY <2>1, <2>2, OpenIsQuiet
<1> QED
  BY <1>1, <1>2, <1>3
-----------------------------------------------------------------------------
(* A block that ends: what is below it, and what it is followed by.        *)
LEMMA EndFacts ==
  ASSUME SharedInv, ReadInv, Frame.kind # "program"
  PROVE  /\ frames \in Seq(Blocks) /\ Len(frames) \in Nat /\ Len(frames) > 1
         /\ frames[Len(frames)] = Frame /\ Len(frames) - 1 \in Nat
         /\ Len(Front(frames)) = Len(frames) - 1 /\ Front(frames) \in Seq(Blocks)
         /\ \A i \in 1..(Len(frames) - 1) : Front(frames)[i] = frames[i]
         /\ SameLoops(frames, Front(frames), Len(frames) - 1)
         /\ \A b : /\ Len(Append(Front(frames), b)) = Len(frames)
                   /\ Append(Front(frames), b)[Len(frames)] = b
                   /\ SameLoops(frames, Append(Front(frames), b), Len(frames) - 1)
<1>1. frames \in Seq(Blocks) /\ Len(frames) \in Nat /\ Len(frames) > 1
  BY LoopStarts, FramedPop DEF SharedInv, Frame
<1>2. frames[Len(frames)] = Frame
  BY DEF Frame, Last
<1>3. /\ Len(Front(frames)) = Len(frames) - 1 /\ Front(frames) \in Seq(Blocks)
      /\ \A i \in 1..(Len(frames) - 1) : Front(frames)[i] = frames[i]
  BY <1>1 DEF Front
<1>4. ASSUME NEW b
      PROVE  /\ Len(Append(Front(frames), b)) = Len(frames)
             /\ Append(Front(frames), b)[Len(frames)] = b
             /\ \A i \in 1..(Len(frames) - 1) : Append(Front(frames), b)[i] = frames[i]
  BY <1>1, <1>3
<1> QED
  BY <1>1, <1>2, <1>3, <1>4 DEF SameLoops

LEMMA StackBelow ==
  ASSUME SharedInv, Frame.kind \notin {"program", "unroll"}
  PROVE  /\ Len(stack) \in Nat /\ Len(stack) > 1 /\ Len(Front(stack)) = Len(stack) - 1
         /\ Front(stack) \in Seq(Nat)
         /\ \A k \in 1..(Len(stack) - 1) :
              /\ Front(stack)[k] = stack[k]
              /\ stack[k] \in 1..(Active - 1)
         /\ stack[Len(stack)] = Active /\ stack[Len(stack) - 1] = Below
<1>1. Len(stack) > 1 /\ stack \in Seq(Nat)
  BY FramedPop DEF SharedInv, Frame, Framed
<1>2. /\ Len(stack) \in Nat /\ Len(Front(stack)) = Len(stack) - 1
      /\ Front(stack) \in Seq(Nat)
      /\ \A k \in 1..(Len(stack) - 1) : Front(stack)[k] = stack[k]
  BY <1>1 DEF Front
<1>3. stack[Len(stack)] = Active /\ Len(stack) \in 1..Len(stack)
  BY <1>1 DEF Active, Last
<1>4. stack[Len(stack) - 1] = Below
  BY <1>1, <1>2 DEF Below, Last
<1>5. ASSUME NEW k \in 1..(Len(stack) - 1) PROVE stack[k] \in 1..(Active - 1)
  <2>1. k \in 1..Len(stack) /\ k < Len(stack)
    BY <1>1
  <2>2. stack[k] < stack[Len(stack)] /\ stack[k] \in 1..Len(circ)
    BY <1>3, <2>1 DEF SharedInv, Shares
  <2>3. Active \in Nat
    BY <1>1, <1>3
  <2> QED
    BY <1>3, <2>2, <2>3
<1> QED
  BY <1>1, <1>2, <1>3, <1>4, <1>5

(* The outermost loop is further out when a block in it ends.              *)
LEMMA WrappingEmits ==
  ASSUME SharedInv, ReadInv, Frame.kind \in Wrapping,
         NEW i \in 1..(Len(frames) - 1)
  PROVE  Emits(i)
<1>1. Frame.kind # "program"
  BY DEF Wrapping
<1>2. Len(frames) \in (i + 1)..Len(frames) /\ frames[Len(frames)] = Frame
  BY <1>1, EndFacts
<1> QED
  BY <1>2 DEF Emits

(* A block is wrapped, into the circuit below.                             *)
LEMMA CloseIsQuiet ==
  ASSUME SharedInv, ReadInv, Quiet, NEW s \in Statements, Read(s), s.do = "end",
         Frame.kind \in {"false", "body", "while", "box"},
         Leave, UNCHANGED <<counter, captured>>, circ'[Below].data # <<>>
  PROVE  Quiet'
<1> DEFINE n == Len(frames) - 1
<1>1. Frame.kind \in Wrapping /\ Frame.kind \notin {"program", "unroll"}
  BY DEF Wrapping
<1>2. frames' = Front(frames) /\ stack' = Front(stack)
  BY DEF Leave
<1>3. /\ n \in Nat /\ n < Len(frames) /\ Len(frames) \in Nat /\ Len(frames') = n
      /\ SameLoops(frames, frames', n)
  BY <1>1, <1>2, EndFacts
<1>4. ASSUME NEW i \in 1..n, FirstLoop(frames, i)
      PROVE  /\ frames[i].kind = "probe" => Emits(i)'
             /\ Emits(i)
  <2>1. Emits(i)
    BY <1>1, WrappingEmits
  <2>2. ASSUME frames[i].kind = "probe" PROVE Emits(i)'
    <3>1. i < Len(frames) /\ i \in Nat
      BY <1>3
    <3>2. i <= Len(stack) - 1
      BY <1>1, <1>4, <2>2, <3>1, PlaceOfLoop
    <3>3. Len(stack) - 1 \in i..Len(stack') /\ stack'[Len(stack) - 1] = Below
      <4>1. /\ Len(stack) \in Nat /\ Len(stack) > 1 /\ Len(Front(stack)) = Len(stack) - 1
            /\ stack[Len(stack) - 1] = Below
            /\ \A k \in 1..(Len(stack) - 1) : Front(stack)[k] = stack[k]
        BY <1>1, StackBelow
      <4>2. Len(stack) - 1 \in 1..(Len(stack) - 1) /\ Len(stack) - 1 \in i..(Len(stack) - 1)
        BY <3>1, <3>2, <4>1
      <4> QED
        BY <1>2, <4>1, <4>2
    <3> QED
      BY <3>3 DEF Emits
  <2> QED
    BY <2>1, <2>2
<1>5. Keeps(s, n)
  <2> HIDE DEF n
  <2> QED
    BY <1>3, <1>4 DEF Keeps
<1>6. ASSUME \A i \in 1..Len(frames') : frames'[i].kind \notin Loop PROVE ~captured
  <2>1. \A i \in 1..n : frames[i].kind \notin Loop
    BY <1>3, <1>6 DEF SameLoops
  <2>2. CASE Frame.kind \in Loop
    <3>1. FirstLoop(frames, Len(frames)) /\ Len(frames) \in 1..Len(frames)
      BY <1>1, <1>3, <2>1, <2>2, EndFacts DEF FirstLoop
    <3>2. Frame.kind = "body"
      BY <2>2 DEF Loop
    <3> QED
      BY <1>1, <3>1, <3>2, EndFacts DEF Quiet, LoopInv
  <2>3. CASE Frame.kind \notin Loop
    <3>1. \A i \in 1..Len(frames) : i \in 1..n \/ i = Len(frames)
      BY <1>3
    <3>2. frames[Len(frames)] = Frame
      BY <1>1, EndFacts
    <3> QED
      BY <2>1, <2>3, <3>1, <3>2 DEF Quiet, InLoop
  <2> QED
    BY <2>2, <2>3
<1>7. \A i \in (n + 1)..Len(frames') : FALSE
  BY <1>3
<1>8. s.do # "assign"
  OBVIOUS
<1> HIDE DEF n
<1> QED
  BY <1>5, <1>6, <1>7, <1>8, QuietStep

LEMMA WrapFills ==
  ASSUME NEW cs \in Seq(Circuits), NEW op, NEW bodies, NEW main \in 1..Len(cs),
         Wrap(cs, main, op, bodies), status' = "running"
  PROVE  circ'[main].data # <<>>
<1> DEFINE new == Instruction(op, cs[main].qubits, cs[main].clbits, bodies, Frame.cond)
<1>1. circ' = Appended(cs, main, new)
  BY DEF Wrap
<1>2. cs[main].data \in Seq(Instructions)
  <2>1. cs[main] \in Circuits
    OBVIOUS
  <2> QED
    BY <2>1 DEF Circuits
<1> HIDE DEF new
<1>3. circ'[main].data = Append(cs[main].data, new)
  BY <1>1 DEF Appended, Circuits
<1> QED
  BY <1>2, <1>3, AppendNotEmpty

LEMMA EndFalseIsQuiet ==
  ASSUME SharedInv, ReadInv, Quiet, EndFalse, status' = "running"
  PROVE  Quiet'
<1> DEFINE yes == Frame.other
           bodies == IF circ[Active].data = <<>> THEN <<yes>> ELSE <<yes, Active>>
           cs == Synced(Below, yes, Active)
<1>1. /\ Frame.kind = "false" /\ Wrap(cs, Below, "if", bodies) /\ Leave
      /\ UNCHANGED <<counter, captured>>
  BY DEF EndFalse, End
<1>2. PICK s \in Statements : s.do = "end" /\ Read(s)
  BY DEF EndFalse, End
<1>3. Len(stack) > 1 /\ yes \in 1..(Active - 1)
  BY <1>1, FramedPop DEF SharedInv, Frame, Active
<1>4. yes \in 1..Len(circ) /\ Active \in 1..Len(circ)
  BY <1>3, FrameFacts
<1>5. Shares(circ, Front(stack)) /\ Below \in 1..Len(circ)
  BY <1>3, BelowFacts
<1>6. Shares(cs, Front(stack)) /\ Len(cs) = Len(circ)
  BY <1>3, <1>4, <1>5, FrameFacts, BelowFacts, SharesSynced
<1>7. cs \in Seq(Circuits) /\ Below \in 1..Len(cs)
  BY <1>5, <1>6 DEF Shares
<1> HIDE DEF cs, bodies, yes
<1>8. circ'[Below].data # <<>>
  BY <1>1, <1>7, WrapFills
<1> QED
  BY <1>1, <1>2, <1>8, CloseIsQuiet

LEMMA ExtendedIsQuiet ==
  ASSUME SharedInv, ReadInv, Quiet, NEW op,
         End(Frame.kind), Frame.kind \in {"body", "while", "box"},
         Wrap(ExtendBits(circ, Below, Active), Below, op, <<Active>>), Leave,
         UNCHANGED <<counter, captured>>, status' = "running"
  PROVE  Quiet'
<1> DEFINE cs == ExtendBits(circ, Below, Active)
<1>1. PICK s \in Statements : s.do = "end" /\ Read(s)
  BY DEF End
<1>2. Len(stack) > 1
  BY FramedPop DEF SharedInv, Frame
<1>3. Shares(circ, Front(stack)) /\ Below \in 1..Len(circ)
  BY <1>2, BelowFacts
<1>4. Active \in 1..Len(circ) /\ circ[Active].qubits = circ[1].qubits
  BY FrameFacts
<1>5. Shares(cs, Front(stack)) /\ Len(cs) = Len(circ)
  BY <1>3, <1>4, SharesExtended
<1>6. cs \in Seq(Circuits) /\ Below \in 1..Len(cs)
  BY <1>3, <1>5 DEF Shares
<1>7. Wrap(cs, Below, op, <<Active>>)
  OBVIOUS
<1> HIDE DEF cs
<1>8. circ'[Below].data # <<>>
  BY <1>6, <1>7, WrapFills
<1> QED
  BY <1>1, <1>8, CloseIsQuiet
-----------------------------------------------------------------------------
(* The `else` block is open where the `if` one was.                        *)
LEMMA EndTrueIsQuiet ==
  ASSUME SharedInv, ReadInv, Quiet, EndTrue
  PROVE  Quiet'
<1> DEFINE b == Block("false", pc + 1, 0, Frame.cond, Active)
           n == Len(frames) - 1
<1>1. PICK s \in Statements : s.do = "end" /\ Read(s)
  BY DEF EndTrue, End
<1>2. /\ Frame.kind = "true" /\ frames' = Append(Front(frames), b)
      /\ UNCHANGED <<counter, captured>>
  BY DEF EndTrue, End
<1>3. b.kind = "false"
  BY DEF Block
<1> HIDE DEF b
<1>4. /\ n \in Nat /\ n < Len(frames) /\ Len(frames) \in Nat
      /\ Len(frames') = Len(frames) /\ frames'[Len(frames)] = b
      /\ frames[Len(frames)] = Frame /\ SameLoops(frames, frames', n)
  BY <1>2, EndFacts
<1>5. ASSUME NEW i \in 1..n PROVE Emits(i) /\ Emits(i)'
  <2>1. Emits(i)
    BY <1>2, WrappingEmits DEF Wrapping
  <2>2. Len(frames) \in (i + 1)..Len(frames') /\ b.kind \in Wrapping
    BY <1>3, <1>4 DEF Wrapping
  <2> QED
    BY <1>4, <2>1, <2>2 DEF Emits
<1>6. Keeps(s, n)
  <2> HIDE DEF n
  <2> QED
    BY <1>4, <1>5 DEF Keeps
<1>7. ASSUME NEW i \in (n + 1)..Len(frames'), FirstLoop(frames', i) PROVE FALSE
  <2>1. i = Len(frames)
    BY <1>4
  <2> QED
    BY <1>3, <1>4, <1>7, <2>1 DEF FirstLoop, Loop
<1>8. ASSUME \A i \in 1..Len(frames') : frames'[i].kind \notin Loop PROVE ~captured
  <2>1. \A i \in 1..n : frames[i].kind = frames'[i].kind /\ i \in 1..Len(frames')
    BY <1>4 DEF SameLoops
  <2>2. \A i \in 1..Len(frames) : i \in 1..n \/ i = Len(frames)
    BY <1>4
  <2>3. frames[Len(frames)].kind \notin Loop
    BY <1>2, <1>4 DEF Loop
  <2> QED
    BY <1>8, <2>1, <2>2, <2>3 DEF Quiet, InLoop
<1>9. s.do # "assign"
  BY <1>1
<1> HIDE DEF n
<1> QED
  BY <1>1, <1>2, <1>6, <1>7, <1>8, <1>9, QuietStep

(* What is below the last block captures as much without it.               *)
LEMMA NoMoreEmits ==
  ASSUME SharedInv, ReadInv, Frame.kind \in {"probe", "unroll"},
         SameLoops(frames, frames', Len(frames) - 1), Len(frames') \in Nat,
         Len(frames') \in {Len(frames) - 1, Len(frames)},
         Len(frames') = Len(frames) => frames'[Len(frames)].kind = "unroll",
         \/ UNCHANGED <<circ, stack>>
         \/ /\ Frame.kind = "probe" /\ circ[Active].data = <<>>
            /\ circ' = Dropped /\ stack' = Front(stack)
  PROVE  \A i \in 1..Len(frames) : Emits(i)' <=> Emits(i)
<1> SUFFICES ASSUME NEW i \in 1..Len(frames) PROVE Emits(i)' <=> Emits(i)
  OBVIOUS
<1>1. Frame.kind # "program"
  OBVIOUS
<1>2. /\ Len(frames) \in Nat /\ Len(frames) > 1 /\ frames[Len(frames)] = Frame
  BY <1>1, EndFacts
<1>3. (\E j \in (i + 1)..Len(frames) : frames[j].kind \in Wrapping)
        <=> \E j \in (i + 1)..(Len(frames) - 1) : frames[j].kind \in Wrapping
  <2>1. \A j \in (i + 1)..Len(frames) :
          j \in (i + 1)..(Len(frames) - 1) \/ j = Len(frames)
    BY <1>2
  <2>2. \A j \in (i + 1)..(Len(frames) - 1) : j \in (i + 1)..Len(frames)
    BY <1>2
  <2>3. frames[Len(frames)].kind \notin Wrapping
    BY <1>2 DEF Wrapping
  <2> QED
    BY <2>1, <2>2, <2>3
<1>4. (\E j \in (i + 1)..Len(frames') : frames'[j].kind \in Wrapping)
        <=> \E j \in (i + 1)..(Len(frames) - 1) : frames[j].kind \in Wrapping
  <2>1. \A j \in (i + 1)..Len(frames') :
          \/ j \in (i + 1)..(Len(frames) - 1)
          \/ j = Len(frames) /\ frames'[j].kind \notin Wrapping
    BY <1>2 DEF Wrapping
  <2>2. \A j \in (i + 1)..(Len(frames) - 1) :
          j \in (i + 1)..Len(frames') /\ frames'[j].kind = frames[j].kind
    BY <1>2 DEF SameLoops
  <2> QED
    BY <2>1, <2>2
<1>5. (\E k \in i..Len(stack') : circ'[stack'[k]].data # <<>>)
        <=> \E k \in i..Len(stack) : circ[stack[k]].data # <<>>
  <2>1. CASE UNCHANGED <<circ, stack>>
    BY <2>1
  <2>2. CASE /\ Frame.kind = "probe" /\ circ[Active].data = <<>>
             /\ circ' = Dropped /\ stack' = Front(stack)
    <3>1. /\ Len(stack) \in Nat /\ Len(stack) > 1 /\ Len(stack') = Len(stack) - 1
          /\ \A k \in 1..(Len(stack) - 1) :
               stack'[k] = stack[k] /\ stack[k] \in 1..(Active - 1)
          /\ stack[Len(stack)] = Active
      BY <2>2, StackBelow
    <3>2. circ \in Seq(Circuits) /\ Active \in 1..Len(circ) /\ Len(circ) \in Nat
      BY FrameFacts
    <3>3. \A c \in 1..(Active - 1) : circ'[c] = circ[c]
      BY <2>2, <3>2 DEF Dropped
    <3>4. \A k \in i..(Len(stack) - 1) :
            k \in i..Len(stack) /\ circ'[stack'[k]] = circ[stack[k]]
      BY <3>1, <3>3
    <3>5. \A k \in i..Len(stack) : k \in i..(Len(stack) - 1) \/ k = Len(stack)
      BY <3>1
    <3>6. Len(stack') = Len(stack) - 1 /\ circ[stack[Len(stack)]].data = <<>>
      BY <2>2, <3>1
    <3>7. (\E k \in i..Len(stack) : circ[stack[k]].data # <<>>)
            => \E k \in i..(Len(stack) - 1) : circ[stack[k]].data # <<>>
      BY <3>5, <3>6
    <3>8. (\E k \in i..Len(stack') : circ'[stack'[k]].data # <<>>)
            <=> \E k \in i..(Len(stack) - 1) : circ[stack[k]].data # <<>>
      BY <3>4, <3>6
    <3> QED
      BY <3>4, <3>7, <3>8
  <2> QED
    BY <2>1, <2>2
<1> QED
  BY <1>3, <1>4, <1>5 DEF Emits

(* A first visit that captured nothing, and that is the outermost loop's.  *)
LEMMA EmptyProbe ==
  ASSUME SharedInv, ReadInv, Quiet, Frame.kind = "probe", circ[Active].data = <<>>,
         FirstLoop(frames, Len(frames))
  PROVE  /\ ~Emits(Len(frames)) /\ ~captured
         /\ Silent(program, Frame.first)
<1>1. /\ Len(frames) \in Nat /\ Len(frames) \in 1..Len(frames)
      /\ frames[Len(frames)] = Frame
  BY EndFacts
<1>2. Len(stack) = Len(frames)
  BY <1>1, PlaceOfLoop
<1>3. /\ \A j \in (Len(frames) + 1)..Len(frames) : FALSE
      /\ \A k \in Len(frames)..Len(stack) : k = Len(stack)
  BY <1>1, <1>2
<1>4. stack[Len(stack)] = Active
  BY DEF Active, Last
<1>5. ~Emits(Len(frames))
  BY <1>3, <1>4 DEF Emits
<1>6. LoopInv(Len(frames))
  BY <1>1 DEF Quiet
<1> QED
  BY <1>1, <1>5, <1>6 DEF LoopInv
(* A visit that captured nothing ends, and is followed by visits in place. *)
LEMMA InPlaceIsQuiet ==
  ASSUME SharedInv, ReadInv, Quiet, NEW s \in Statements, Read(s), s.do = "end",
         Frame.kind \in {"probe", "unroll"}, UNCHANGED <<counter, captured>>,
         \/ Frame.kind = "unroll" /\ UNCHANGED <<circ, stack>>
         \/ /\ Frame.kind = "probe" /\ circ[Active].data = <<>>
            /\ circ' = Dropped /\ stack' = Front(stack),
         \/ frames' = Front(frames)
         \/ \E left \in Nat : Again("unroll", left)
  PROVE  Quiet'
<1> DEFINE n == Len(frames) - 1
<1>1. Frame.kind # "program"
  OBVIOUS
<1>2. /\ n \in Nat /\ n < Len(frames) /\ Len(frames) \in Nat
      /\ Len(frames) \in 1..Len(frames) /\ frames[Len(frames)] = Frame
      /\ Frame.first \in Nat \ {0} /\ program \in Seq(Statements) /\ pc \in Nat
  BY <1>1, EndFacts, LoopStarts
<1>3. /\ Len(frames') \in Nat /\ Len(frames') \in {Len(frames) - 1, Len(frames)}
      /\ SameLoops(frames, frames', n)
      /\ Len(frames') = Len(frames) => /\ frames'[Len(frames)].kind = "unroll"
                                       /\ frames'[Len(frames)].first = Frame.first
  <2>1. CASE frames' = Front(frames)
    BY <1>1, <1>2, <2>1, EndFacts
  <2>2. ASSUME NEW left \in Nat, Again("unroll", left)
        PROVE  /\ Len(frames') = Len(frames) /\ SameLoops(frames, frames', n)
               /\ frames'[Len(frames)].kind = "unroll"
               /\ frames'[Len(frames)].first = Frame.first
    <3>1. frames' = Append(Front(frames), Block("unroll", Frame.first, left, 0, Nobody))
      BY <2>2 DEF Again
    <3> QED
      BY <1>1, <3>1, EndFacts DEF Block
  <2> QED
    BY <1>2, <2>1, <2>2
<1>4. \A i \in 1..Len(frames) : Emits(i)' <=> Emits(i)
  BY <1>3, NoMoreEmits
<1>5. s.do \in Silently /\ s.do # "assign"
  BY DEF Silently
<1>6. Keeps(s, n)
  <2>1. \A i \in 1..n : i \in 1..Len(frames)
    BY <1>2
  <2>2. n <= Len(frames')
    BY <1>2, <1>3
  <2> HIDE DEF n
  <2> QED
    BY <1>2, <1>3, <1>4, <1>5, <2>1, <2>2 DEF Keeps
<1>7. FirstLoop(frames, Len(frames)) =>
        ~captured /\ ~Emits(Len(frames)) /\ Silent(program, Frame.first)
  BY <1>2, EmptyProbe DEF Quiet, LoopInv
<1>8. \A i \in 1..n : frames[i].kind = frames'[i].kind /\ i \in 1..Len(frames')
  BY <1>2, <1>3 DEF SameLoops
<1>9. (\A i \in 1..n : frames[i].kind \notin Loop) => FirstLoop(frames, Len(frames))
  BY <1>2 DEF FirstLoop, Loop
<1>10. ASSUME NEW i \in (n + 1)..Len(frames'), FirstLoop(frames', i)
       PROVE  LoopInv(i)'
  <2>1. i = Len(frames) /\ Len(frames') = Len(frames)
    BY <1>2, <1>3
  <2>2. \A j \in 1..n : j \in 1..(i - 1)
    BY <2>1
  <2>3. FirstLoop(frames, Len(frames))
    BY <1>8, <1>9, <1>10, <2>2 DEF FirstLoop
  <2>4. Silent(program', Frame.first)
    BY <1>2, <1>5, <1>7, <2>3, ReadStaysSilent
  <2>5. ~captured' /\ ~Emits(i)'
    BY <1>2, <1>4, <1>7, <2>1, <2>3
  <2> QED
    BY <1>3, <2>1, <2>4, <2>5 DEF LoopInv
<1>11. ASSUME \A i \in 1..Len(frames') : frames'[i].kind \notin Loop PROVE ~captured
  BY <1>7, <1>8, <1>9, <1>11
<1> HIDE DEF n
<1> QED
  BY <1>5, <1>6, <1>10, <1>11, QuietStep

(* A first visit that captured something ends: when it is the outermost    *)
(* loop's it changed no variable, and so it does not when it is captured.  *)
LEMMA CaptureIsQuiet ==
  ASSUME SharedInv, ReadInv, Quiet, NEW s \in Statements, Read(s), s.do = "end",
         Frame.kind = "probe", UNCHANGED <<counter, captured>>,
         circ[Active].data # <<>>, ~Modifies(Frame, Front(frames)), Again("body", 0)
  PROVE  Quiet'
<1> DEFINE n == Len(frames) - 1
           b == Block("body", Frame.first, 0, 0, Nobody)
<1>1. /\ Frame.kind # "program" /\ Frame.kind # "unroll"
      /\ frames' = Append(Front(frames), b)
  BY DEF Again
<1>2. /\ n \in Nat /\ n < Len(frames) /\ Len(frames) \in Nat
      /\ Len(frames) \in 1..Len(frames) /\ frames[Len(frames)] = Frame
      /\ Frame.first \in Nat \ {0} /\ program \in Seq(Statements) /\ pc \in Nat
  BY <1>1, EndFacts, LoopStarts
<1>3. b.kind = "body" /\ b.first = Frame.first
  BY DEF Block
<1> HIDE DEF b
<1>4. /\ Len(frames') = Len(frames) /\ frames'[Len(frames)] = b
      /\ SameLoops(frames, frames', n)
  BY <1>1, EndFacts
<1>5. s.do \in Silently /\ s.do # "assign"
  BY DEF Silently
<1>6. ASSUME NEW i \in 1..n, FirstLoop(frames, i) PROVE Emits(i) /\ Emits(i)'
  <2>1. Emits(i)'
    <3>1. Len(frames) \in (i + 1)..Len(frames') /\ frames'[Len(frames)].kind \in Wrapping
      BY <1>2, <1>3, <1>4 DEF Wrapping
    <3> QED
      BY <3>1 DEF Emits
  <2>2. Emits(i)
    <3>1. i < Len(frames)
      BY <1>2
    <3>2. i <= Len(stack) /\ Len(stack) \in Nat
      BY <1>1, <1>6, <3>1, PlaceOfLoop
    <3>3. Len(stack) \in i..Len(stack) /\ stack[Len(stack)] = Active
      BY <3>2 DEF Active, Last
    <3> QED
      BY <3>3 DEF Emits
  <2> QED
    BY <2>1, <2>2
<1>7. Keeps(s, n)
  <2>1. n <= Len(frames')
    BY <1>2, <1>4
  <2> HIDE DEF n
  <2> QED
    BY <1>2, <1>4, <1>6, <2>1 DEF Keeps
<1>8. ASSUME NEW i \in (n + 1)..Len(frames'), FirstLoop(frames', i)
      PROVE  LoopInv(i)'
  <2>1. i = Len(frames)
    BY <1>2, <1>4
  <2>2. \A j \in 1..n : frames[j].kind \notin Loop
    <3>1. \A j \in 1..n : j \in 1..(i - 1) /\ frames'[j].kind = frames[j].kind
      BY <1>4, <2>1 DEF SameLoops
    <3> QED
      BY <1>8, <3>1 DEF FirstLoop
  <2>3. FirstLoop(frames, Len(frames))
    BY <1>2, <2>2 DEF FirstLoop, Loop
  <2>4. LoopInv(Len(frames))
    BY <1>2, <2>3 DEF Quiet
  <2>5. InScopeOfCounter(Front(frames))
    <3>1. /\ Len(Front(frames)) = n /\ Front(frames) \in Seq(Blocks)
          /\ \A j \in 1..n : Front(frames)[j] = frames[j]
      BY <1>1, EndFacts
    <3>2. DOMAIN Front(frames) = 1..n
      BY <3>1
    <3> QED
      BY <2>2, <3>1, <3>2 DEF InScopeOfCounter
  <2>6. counter = Frame.before
    BY <2>5 DEF Modifies
  <2>7. ~captured /\ NoAssign(program, Frame.first)
    BY <1>2, <2>4, <2>6 DEF LoopInv
  <2>8. NoAssign(program', Frame.first)
    BY <1>2, <1>5, <2>7, ReadStaysSilent
  <2> QED
    BY <1>3, <1>4, <2>1, <2>7, <2>8 DEF LoopInv
<1>9. ASSUME \A i \in 1..Len(frames') : frames'[i].kind \notin Loop PROVE FALSE
  BY <1>2, <1>3, <1>4, <1>9 DEF Loop
<1> HIDE DEF n
<1> QED
  BY <1>5, <1>7, <1>8, <1>9, QuietStep

LEMMA EndIsQuiet ==
  ASSUME SharedInv, ReadInv, Quiet, EndOfBlock, status' = "running"
  PROVE  Quiet'
<1>1. CASE EndTrue
  BY <1>1, EndTrueIsQuiet
<1>2. CASE EndFalse
  BY <1>2, EndFalseIsQuiet
<1>3. CASE EndProbe
  <2>1. /\ Frame.kind = "probe" /\ UNCHANGED <<counter, captured>>
        /\ \E s \in Statements : s.do = "end" /\ Read(s)
    BY <1>3 DEF EndProbe, End
  <2>2. CASE circ[Active].data = <<>>
    <3>1. circ' = Dropped /\ stack' = Front(stack)
      BY <1>3, <2>2 DEF EndProbe
    <3>2. frames' = Front(frames) \/ \E left \in Nat : Again("unroll", left)
      <4>1. Frame.left > 1 => Frame.left - 2 \in Nat
        BY FrameFacts
      <4>2. \/ frames' = Front(frames)
            \/ Frame.left > 1 /\ Again("unroll", Frame.left - 2)
        BY <1>3, <2>2 DEF EndProbe
      <4> QED
        BY <4>1, <4>2
    <3> QED
      BY <2>1, <2>2, <3>1, <3>2, InPlaceIsQuiet
  <2>3. CASE circ[Active].data # <<>>
    <3>1. ~Modifies(Frame, Front(frames)) /\ Again("body", 0)
      BY <1>3, <2>3 DEF EndProbe
    <3> QED
      BY <2>1, <2>3, <3>1, CaptureIsQuiet
  <2> QED
    BY <2>2, <2>3
<1>4. CASE EndUnroll
  <2>1. /\ Frame.kind = "unroll" /\ UNCHANGED <<circ, stack, counter, captured>>
        /\ \E s \in Statements : s.do = "end" /\ Read(s)
    BY <1>4 DEF EndUnroll, End
  <2>2. frames' = Front(frames) \/ \E left \in Nat : Again("unroll", left)
    <3>1. Frame.left > 0 => Frame.left - 1 \in Nat
      BY FrameFacts
    <3>2. \/ frames' = Front(frames)
          \/ Frame.left > 0 /\ Again("unroll", Frame.left - 1)
      BY <1>4 DEF EndUnroll
    <3> QED
      BY <3>1, <3>2
  <2> QED
    BY <2>1, <2>2, InPlaceIsQuiet
<1>5. CASE EndBody
  BY <1>5, ExtendedIsQuiet DEF EndBody, End
<1>6. CASE EndWhile
  BY <1>6, ExtendedIsQuiet DEF EndWhile, End, Raise
<1>7. CASE EndBox
  BY <1>7, ExtendedIsQuiet DEF EndBox, End
<1> QED
  BY <1>1, <1>2, <1>3, <1>4, <1>5, <1>6, <1>7 DEF EndOfBlock

LEMMA StatementIsQuiet ==
  ASSUME SharedInv, ReadInv, Quiet, NEW s \in Statements, Statement(s),
         status' = "running", rising'
  PROVE  Quiet'
BY GateIsQuiet, BarrierIsQuiet, DeclareIsQuiet, MeasureIsQuiet, AssignIsQuiet,
   OpeningIsQuiet DEF Statement

(* A variable that once did not grow is out of what is claimed.            *)
LEMMA StaysRising ==
  /\ \A s \in Statements : Statement(s) /\ rising' => rising
  /\ EndOfBlock /\ rising' => rising
BY DEF Statement, Gate, Barrier, Declare, Measure, Assign, OpenConditional,
   OpenLoop, OpenBox, EndOfBlock, EndTrue, EndFalse, EndProbe, EndUnroll,
   EndBody, EndWhile, EndBox, Open, Raise

-----------------------------------------------------------------------------
(* The invariant of what is captured, and the end of a program, which is   *)
(* outside of all loops.                                                   *)
CaptureInv ==
  /\ status = "running" => SharedInv /\ ReadInv /\ QuietInv
  /\ status = "done" /\ rising => ~captured

LEMMA InitCapture == Init => CaptureInv
<1> SUFFICES ASSUME Init PROVE ReadInv /\ QuietInv
  BY InitShared DEF Init, CaptureInv
<1>1. /\ program = <<>> /\ pc = 1 /\ captured = FALSE /\ Len(frames) = 1
      /\ frames[1].kind = "program" /\ frames[1].first = 1
  BY DEF Init
<1>2. QuietInv
  <2>1. frames[1].kind \notin Loop
    BY <1>1 DEF Loop
  <2> QED
    BY <1>1, <2>1 DEF QuietInv, Quiet, FirstLoop
<1>3. ReadInv
  <2> DEFINE e == <<0>>
  <2>1. program \in Seq(Statements) /\ Len(program) = 0
    BY <1>1
  <2>2. e \in Seq(Int) /\ Len(e) = 1
    OBVIOUS
  <2> HIDE DEF e
  <2>3. Depth(e, program)
    BY <2>1, <2>2 DEF Depth
  <2>4. Nests(e, pc, frames)
    BY <1>1, <2>2 DEF Nests, NestsTo
  <2>5. \A r \in 1..Len(frames) : frames[r].kind \notin Replayed \cup {"probe"}
    BY <1>1 DEF Replayed
  <2>6. Rereads(e, pc, frames)
    BY <1>1, <2>2, <2>5 DEF Rereads, RereadsTo, FirstReplay
  <2> QED
    BY <2>1, <2>2, <2>3, <2>4, <2>6 DEF ReadInv, Reading
<1> QED
  BY <1>2, <1>3

LEMMA NextCapture ==
  ASSUME CaptureInv, [Next]_vars
  PROVE  CaptureInv'
<1>1. CASE UNCHANGED vars
  <2>1. UNCHANGED <<circ, stack, made, offset, counter, program, pc, frames,
                  captured, rising, status>>
    BY <1>1 DEF vars
  <2>2. SharedInv => SharedInv'
    BY <2>1 DEF SharedInv, Named
  <2>3. ReadInv => ReadInv'
    BY <2>1 DEF ReadInv
  <2>4. QuietInv => QuietInv'
    BY <2>1 DEF QuietInv, Quiet, InLoop, LoopInv, Emits
  <2> QED
    BY <2>1, <2>2, <2>3, <2>4 DEF CaptureInv
<1>2. CASE status = "running" /\ Finish
  <2>1. /\ SharedInv /\ QuietInv /\ Len(frames) = 1 /\ status' = "done"
        /\ captured' = captured /\ rising' = rising
    BY <1>2 DEF Finish, CaptureInv
  <2>2. frames[1].kind = "program"
    BY <2>1 DEF SharedInv, Framed, Placed
  <2>3. rising => ~captured
    BY <2>1, <2>2 DEF QuietInv, Quiet, InLoop, Loop
  <2> QED
    BY <2>1, <2>3 DEF CaptureInv
<1>3. ASSUME status = "running", NEW s \in Statements, Statement(s)
      PROVE  CaptureInv'
  <2>1. /\ SharedInv /\ ReadInv /\ QuietInv /\ status' # "done"
        /\ rising' => rising
    BY <1>3, StatusSteps, StaysRising DEF CaptureInv
  <2>2. status' = "running" => QuietInv'
    BY <1>3, <2>1, StatementIsQuiet DEF QuietInv
  <2> QED
    BY <1>3, <2>1, <2>2, StatementKeepsShared, StatementReads DEF CaptureInv
<1>4. CASE status = "running" /\ EndOfBlock
  <2>1. /\ SharedInv /\ ReadInv /\ QuietInv /\ status' # "done"
        /\ rising' => rising
    BY <1>4, StatusSteps, StaysRising DEF CaptureInv
  <2>2. status' = "running" => QuietInv'
    BY <1>4, <2>1, EndIsQuiet DEF QuietInv
  <2> QED
    BY <1>4, <2>1, <2>2, EndKeepsShared, EndReads DEF CaptureInv
<1> QED
  BY <1>1, <1>2, <1>3, <1>4, Steps

-----------------------------------------------------------------------------
(* However a program nests branches, loops visited twice and boxes, a      *)
(* qubit index means the same qubit in every circuit, open, closed or      *)
(* finished: _ensure_qubit_capacity extends every circuit on the stack by  *)
(* the same qubits, _extend_bits fills up by position, and what the        *)
(* property circuit adds at the end comes in the order of the circuit's.   *)
THEOREM QubitsShared == Spec => []QubitsAreShared
<1>1. Init => CircuitsInv
  BY InitCircuits
<1>2. CircuitsInv /\ [Next]_vars => CircuitsInv'
  BY NextCircuits
<1>3. CircuitsInv => QubitsAreShared
  BY CircuitsAreShared
<1> QED
  BY <1>1, <1>2, <1>3, PTL DEF Spec

(* Whatever names a program declares, a circuit that the property circuit  *)
(* returns has all qubits in every body, every bare barrier covers them,   *)
(* and every block is as wide as its bodies.                               *)
THEOREM FinishedCircuitsAreWide == Spec => [](status = "done" => Wide)
<1>1. Init => CircuitsInv
  BY InitCircuits
<1>2. CircuitsInv /\ [Next]_vars => CircuitsInv'
  BY NextCircuits
<1>3. CircuitsInv => (status = "done" => Wide)
  BY DEF CircuitsInv
<1> QED
  BY <1>1, <1>2, <1>3, PTL DEF Spec

(* When no block declares a name of an enclosing one, the offset that      *)
(* declare_variable keeps for a register's name leads to the bits of the   *)
(* declaration in scope, in whichever circuit is being built.              *)
THEOREM NamesMeanBits ==
  ASSUME ~Shadowing
  PROVE  Spec => []NamesMeanTheirBits
<1>1. Init => CircuitsInv /\ NamesMean
  BY InitCircuits, InitNamesMean
<1>2. CircuitsInv /\ NamesMean /\ [Next]_vars => (CircuitsInv /\ NamesMean)'
  BY NextCircuits, NextNames
<1>3. CircuitsInv /\ NamesMean => NamesMeanTheirBits
  BY NamesLeadToBits DEF CircuitsInv, NamesMean
<1> QED
  BY <1>1, <1>2, <1>3, PTL DEF Spec

(* When no block declares a name of an enclosing one, Qiskit refuses no    *)
(* block for its width and no bit for being beyond the circuit's, and what *)
(* is finished is wide: _pop_scoped_circuit and _sync_block_bits leave the *)
(* bodies and the circuit they go in equally wide.                         *)
THEOREM FinishedWide ==
  ASSUME ~Shadowing
  PROVE  Spec => []FinishedIsWide
<1>1. Init => CircuitsInv /\ NamesMean
  BY InitCircuits, InitNamesMean
<1>2. CircuitsInv /\ NamesMean /\ [Next]_vars => (CircuitsInv /\ NamesMean)'
  BY NextCircuits, NextNames
<1>3. CircuitsInv /\ NamesMean => FinishedIsWide
  BY DEF CircuitsInv, NamesMean, FinishedIsWide, Wide
<1> QED
  BY <1>1, <1>2, <1>3, PTL DEF Spec

(* When no block declares a name of an enclosing one, add_measure puts a   *)
(* measurement into the bit that the declaration in scope has made.        *)
THEOREM MeasuresDeclared ==
  ASSUME ~Shadowing
  PROVE  Spec => MeasuresDeclaredRegister
<1> DEFINE Right == \A s \in Statements :
             Measure(s) /\ status' = "running" =>
               Last(circ'[Active].data).bits = <<DeclaredBit(s.name)>>
<1>1. Init => CircuitsInv /\ NamesMean
  BY InitCircuits, InitNamesMean
<1>2. CircuitsInv /\ NamesMean /\ [Next]_vars => (CircuitsInv /\ NamesMean)'
  BY NextCircuits, NextNames
<1>3. CircuitsInv /\ NamesMean => Right
  BY MeasureTakesDeclaredBit DEF CircuitsInv, NamesMean
<1>4. CircuitsInv /\ NamesMean /\ [Next]_vars => [Right]_vars
  BY <1>3
<1>5. MeasuresDeclaredRegister <=> [][Right]_vars
  BY DEF MeasuresDeclaredRegister
<1> HIDE DEF Right
<1> QED
  BY <1>1, <1>2, <1>4, <1>5, PTL DEF Spec

(* evaluate_for_range visits a body once to look at it and refuses the loop*)
(* when a variable of its scope has another value than before and there is *)
(* something to capture; a loop in the loop is not refused, its scope being*)
(* another.  A program whose assignments all make the variable larger, and *)
(* that is converted, has none in the captured body of a `for`, however its*)
(* loops, branches and boxes nest.                                         *)
THEOREM NothingCaptured == Spec => []NoChangeIsCaptured
<1>1. Init => CaptureInv
  BY InitCapture
<1>2. CaptureInv /\ [Next]_vars => CaptureInv'
  BY NextCapture
<1>3. CaptureInv => NoChangeIsCaptured
  BY DEF CaptureInv, NoChangeIsCaptured
<1> QED
  BY <1>1, <1>2, <1>3, PTL DEF Spec
=============================================================================
