-------------------------- MODULE ToBraket_proofs ---------------------------
(***************************************************************************)
(* Proofs about ToBraket, for any circuit of any length under any          *)
(* arguments, and every exchange, layout and loss of the transpiler: the   *)
(* variables keep their types; a refusal has a reason; every qubit gets    *)
(* its gates, each once and in their order; a box's gates stay on their    *)
(* qubits; and the measurements at the end find what the circuit's found.  *)
(***************************************************************************)
EXTENDS ToBraket, FiniteSetTheorems, WellFoundedInduction, TLAPS

-----------------------------------------------------------------------------
(* Instructions with other qubits.                                         *)
Made(op, qs, cs, label, id, body) ==
  [op |-> op, qs |-> qs, cs |-> cs, label |-> label, id |-> id, body |-> body]
OnQubits(x, qs) == Made(x.op, qs, x.cs, x.label, x.id, x.body)
Whole(x) == x = OnQubits(x, x.qs)

(* A source: what Numbered makes of statements.                            *)
SourceOK ==
  /\ source \in Seq(Range(source))
  /\ \A i \in DOMAIN source :
       LET x == source[i]
       IN /\ Whole(x) /\ x.id = <<i, 0>> /\ x.op # "placeholder"
          /\ IsInstruction(x, Qubit, Nat)
          /\ x.body \in Seq(Range(x.body))
          /\ \A j \in DOMAIN x.body :
               /\ Whole(x.body[j]) /\ x.body[j].id = <<i, j>>
               /\ x.body[j].label = NoLabel
               /\ IsInstruction(x.body[j], DOMAIN x.qs, DOMAIN x.cs)

(* The instructions to translate: those of the source, and instead of a    *)
(* verbatim box those of its body, known by their ids.                     *)
BoxPlaces == {i \in DOMAIN source : IsVerbatimBox(source[i])}
ItemIds ==
  {id \in (DOMAIN source) \X Nat :
     IF id[1] \in BoxPlaces THEN id[2] \in DOMAIN source[id[1]].body ELSE id[2] = 0}
Item(id) ==
  IF id[1] \in BoxPlaces THEN Placed(source[id[1]], source[id[1]].body)[id[2]]
                     ELSE source[id[1]]

LaidBy(lay, x) == OnQubits(x, [k \in DOMAIN x.qs |-> lay[x.qs[k]]])
Laid(x) == LaidBy(layout, x)
Labelled(x) == OnQubits(x, LabelsOf(x))

Once(c) == \A a, b \in DOMAIN c : c[a].id = c[b].id => a = b
InOrder(c) ==
  \A a, b \in DOMAIN c :
    a < b /\ ~Independent(c[a], c[b]) => Before(c[a].id, c[b].id)

Path == PathOf(options)
LayoutInv ==
  /\ layout \in [Qubit -> Qubit] /\ IsInjective(layout)
  /\ Path # "transpile" => layout = [q \in Qubit |-> q]

(* Before the transpiler.                                                  *)
UntouchedInv ==
  phase \in {"check", "extract", "inline"} =>
    /\ circuit = source
    /\ layout = [q \in Qubit |-> q] /\ lost = FALSE
    /\ out = << >> /\ measured = << >>
    /\ phase # "check" => phase = Path /\ ~Refused(source, options)

(* In the transpiler's hands: every instruction once, wherever it was put, *)
(* those on one wire in order; but a box may be lost.                      *)
Standing(i) ==
  IF Path = "extract" /\ i \in BoxPlaces THEN Placeholder(source, i) ELSE source[i]
Held(c, lay) ==
  c \in Seq({LaidBy(lay, Standing(i)) : i \in DOMAIN source}) /\ Once(c) /\ InOrder(c)
Present(c, i) == \E a \in DOMAIN c : c[a].id = <<i, 0>>

Stashed(s) ==
  /\ DOMAIN s = {PlaceholderLabel(source, i) : i \in BoxPlaces}
  /\ \A i \in BoxPlaces : s[PlaceholderLabel(source, i)] = source[i].body

TranspileInv ==
  phase \in {"transpile", "restore"} =>
    /\ Path = "extract" => Stashed(stash)
    /\ Path # "extract" => Path = "transpile" /\ BoxPlaces = {} /\ phase = "transpile"
    /\ Held(circuit, layout)
    /\ lost \/ \A i \in DOMAIN source : Present(circuit, i)
    /\ lost => Path = "extract" /\ \E i \in BoxPlaces : ~Present(circuit, i)
    /\ out = << >> /\ measured = << >>

(* In the translation: what is still to come and what is out.              *)
Share(id, jd) == Range(Item(id).qs) \cap Range(Item(jd).qs) # {}
Near(id, jd) == ~Independent(Item(id), Item(jd))
At(c, id) == \E a \in DOMAIN c : c[a].id = id
ToCome(id) == At(circuit, id)
IsOut(id) == \E i \in DOMAIN out : out[i].id = id

IsMeasure(id) == id \in ItemIds /\ Item(id).op = "measure"
LastWrite(c, id) ==
  /\ IsMeasure(id) /\ Item(id).cs[1] = c
  /\ measured[c] = LabelOf(layout[Item(id).qs[1]])
  /\ \A jd \in ItemIds : ToCome(jd) /\ Near(id, jd) => Before(id, jd)
  /\ \A jd \in ItemIds :
       IsMeasure(jd) /\ Item(jd).cs[1] = c /\ ~ToCome(jd) => jd = id \/ Before(jd, id)
  /\ \A jd \in ItemIds :
       IsOut(jd) /\ Item(jd).op = "gate" /\ Share(jd, id) => Before(jd, id)

Coming(c, lay) ==
  c \in Seq({LaidBy(lay, Item(id)) : id \in ItemIds}) /\ Once(c) /\ InOrder(c)

OutInOrder ==
  /\ out \in Seq({Labelled(Laid(Item(id))) : id \in ItemIds})
  /\ \A i \in DOMAIN out : IsOperation(out[i])
  /\ \A i, k \in DOMAIN out :
       i < k /\ Share(out[i].id, out[k].id) => Before(out[i].id, out[k].id)
  /\ \A i \in DOMAIN out, id \in ItemIds :
       ToCome(id) /\ Share(out[i].id, id) => Before(out[i].id, id)

NothingMissing ==
  /\ \A id \in ItemIds : IsOperation(Item(id)) => ToCome(id) \/ IsOut(id)
  /\ \A id \in ItemIds :
       IsMeasure(id) => ToCome(id) \/ Item(id).cs[1] \in DOMAIN measured

BitsWritten ==
  /\ IsFiniteSet(DOMAIN measured)
  /\ \A c \in DOMAIN measured : \E id \in ItemIds : LastWrite(c, id)

TranslateInv ==
  phase \in {"translate", "done"} =>
    /\ Coming(circuit, layout)
    /\ OutInOrder /\ NothingMissing /\ BitsWritten
    /\ phase = "done" =>
         /\ circuit = << >>
         /\ ends = [k \in 1..Cardinality(DOMAIN measured) |->
                      measured[FinalOrder(DOMAIN measured)[k]]]

Inv ==
  /\ phase \in Phase
  /\ SourceOK /\ LayoutInv
  /\ UntouchedInv /\ TranspileInv /\ TranslateInv
  /\ RefusalHasAReason

-----------------------------------------------------------------------------
(* Instructions and their fields.                                          *)
LEMMA Fields ==
  ASSUME NEW x, NEW qs
  PROVE  /\ OnQubits(x, qs).op = x.op /\ OnQubits(x, qs).qs = qs
         /\ OnQubits(x, qs).cs = x.cs /\ OnQubits(x, qs).label = x.label
         /\ OnQubits(x, qs).id = x.id /\ OnQubits(x, qs).body = x.body
         /\ Whole(OnQubits(x, qs))
         /\ \A rs : OnQubits(OnQubits(x, qs), rs) = OnQubits(x, rs)
BY DEF OnQubits, Made, Whole

LEMMA QubitsReplaced ==
  ASSUME NEW x, Whole(x), NEW qs
  PROVE  [x EXCEPT !.qs = qs] = OnQubits(x, qs)
<1>1. x = Made(x.op, x.qs, x.cs, x.label, x.id, x.body)
  BY DEF Whole, OnQubits
<1>2. \A op, rs, cs, label, id, body :
        [Made(op, rs, cs, label, id, body) EXCEPT !.qs = qs]
          = Made(op, qs, cs, label, id, body)
  BY DEF Made
<1>3. [Made(x.op, x.qs, x.cs, x.label, x.id, x.body) EXCEPT !.qs = qs]
        = Made(x.op, qs, x.cs, x.label, x.id, x.body)
  BY <1>2
<1> QED
  BY <1>1, <1>3 DEF OnQubits

LEMMA WiresReplaced ==
  ASSUME NEW x, Whole(x), NEW qs, NEW cs
  PROVE  [x EXCEPT !.qs = qs, !.cs = cs] = Made(x.op, qs, cs, x.label, x.id, x.body)
<1>1. [x EXCEPT !.qs = qs, !.cs = cs] = [[x EXCEPT !.qs = qs] EXCEPT !.cs = cs]
  OBVIOUS
<1>2. [x EXCEPT !.qs = qs] = Made(x.op, qs, x.cs, x.label, x.id, x.body)
  BY QubitsReplaced DEF OnQubits
<1>3. \A op, rs, ds, label, id, body :
        [Made(op, rs, ds, label, id, body) EXCEPT !.cs = cs]
          = Made(op, rs, cs, label, id, body)
  BY DEF Made
<1>4. [Made(x.op, qs, x.cs, x.label, x.id, x.body) EXCEPT !.cs = cs]
        = Made(x.op, qs, cs, x.label, x.id, x.body)
  BY <1>3
<1> QED
  BY <1>1, <1>2, <1>4

LEMMA BoxReplaced ==
  ASSUME NEW c, NEW i, Whole(c[i])
  PROVE  Placeholder(c, i)
           = Made("placeholder", c[i].qs, c[i].cs, PlaceholderLabel(c, i), c[i].id, << >>)
<1> DEFINE x == c[i]
           l == PlaceholderLabel(c, i)
           y == [x EXCEPT !.op = "placeholder"]
           z == [y EXCEPT !.label = l]
<1>1. x = Made(x.op, x.qs, x.cs, x.label, x.id, x.body)
  BY DEF Whole, OnQubits
<1>2. Placeholder(c, i) = [z EXCEPT !.body = << >>]
  BY DEF Placeholder
<1> HIDE DEF l, x
<1>3. \A op, rs, ds, label, id, body, new :
        /\ [Made(op, rs, ds, label, id, body) EXCEPT !.op = new]
             = Made(new, rs, ds, label, id, body)
        /\ [Made(op, rs, ds, label, id, body) EXCEPT !.label = new]
             = Made(op, rs, ds, new, id, body)
        /\ [Made(op, rs, ds, label, id, body) EXCEPT !.body = new]
             = Made(op, rs, ds, label, id, new)
  BY DEF Made
<1>4. y = Made("placeholder", x.qs, x.cs, x.label, x.id, x.body)
  BY <1>1, <1>3
<1> HIDE DEF y
<1>5. z = Made("placeholder", x.qs, x.cs, l, x.id, x.body)
  BY <1>3, <1>4
<1> HIDE DEF z
<1>6. Placeholder(c, i) = Made("placeholder", x.qs, x.cs, l, x.id, << >>)
  BY <1>2, <1>3, <1>5
<1> QED
  BY <1>6 DEF x, l

LEMMA FieldsMade ==
  ASSUME NEW op, NEW qs, NEW cs, NEW label, NEW id, NEW body
  PROVE  LET x == Made(op, qs, cs, label, id, body)
         IN /\ x.op = op /\ x.qs = qs /\ x.cs = cs
            /\ x.label = label /\ x.id = id /\ x.body = body
            /\ Whole(x)
BY DEF Made, Whole, OnQubits

-----------------------------------------------------------------------------
(* What Numbered makes of statements is a source.                          *)
LEMMA NumberedIsSource ==
  ASSUME NEW n \in Nat, NEW c, DOMAIN c = 1..n, \A i \in 1..n : IsStatement(c[i]),
         source = Numbered(c)
  PROVE  SourceOK
<1>1. DOMAIN source = 1..n
  BY DEF Numbered
<1>2. source \in Seq(Range(source))
  <2>1. source = [i \in 1..n |-> source[i]]
    BY <1>1 DEF Numbered
  <2>2. \A i \in 1..n : source[i] \in Range(source)
    BY <1>1 DEF Range
  <2> QED
    BY <2>1, <2>2
<1>3. ASSUME NEW i \in DOMAIN source
      PROVE  LET x == source[i]
             IN /\ Whole(x) /\ x.id = <<i, 0>> /\ x.op # "placeholder"
                /\ IsInstruction(x, Qubit, Nat)
                /\ x.body \in Seq(Range(x.body))
                /\ \A j \in DOMAIN x.body :
                     /\ Whole(x.body[j]) /\ x.body[j].id = <<i, j>>
                     /\ x.body[j].label = NoLabel
                     /\ IsInstruction(x.body[j], DOMAIN x.qs, DOMAIN x.cs)
  <2> DEFINE s == c[i]
             body == [j \in DOMAIN s.body |->
                        Made(s.body[j].op, s.body[j].qs, s.body[j].cs, NoLabel,
                             <<i, j>>, << >>)]
  <2>1. source[i] = Made(s.op, s.qs, s.cs, s.label, <<i, 0>>, body)
    BY <1>1, <1>3 DEF Numbered, Made
  <2>2. /\ IsInstruction(s, Qubit, Nat) /\ s.op # "placeholder"
        /\ s.body \in Seq(Range(s.body))
        /\ \A x \in Range(s.body) : IsInstruction(x, DOMAIN s.qs, DOMAIN s.cs)
    BY <1>1, <1>3 DEF IsStatement
  <2>3. \A j \in DOMAIN s.body : s.body[j] \in Range(s.body)
    BY DEF Range
  <2>4. ASSUME NEW j \in DOMAIN s.body
        PROVE  /\ Whole(body[j]) /\ body[j].id = <<i, j>> /\ body[j].label = NoLabel
               /\ IsInstruction(body[j], DOMAIN s.qs, DOMAIN s.cs)
    <3>1. body[j] = Made(s.body[j].op, s.body[j].qs, s.body[j].cs, NoLabel,
                         <<i, j>>, << >>)
      OBVIOUS
    <3>2. IsInstruction(s.body[j], DOMAIN s.qs, DOMAIN s.cs)
      BY <2>2, <2>3
    <3> HIDE DEF body, s
    <3>3. /\ Whole(body[j]) /\ body[j].id = <<i, j>> /\ body[j].label = NoLabel
          /\ body[j].op = s.body[j].op /\ body[j].qs = s.body[j].qs
          /\ body[j].cs = s.body[j].cs
      BY <3>1, FieldsMade
    <3> QED
      BY <3>2, <3>3 DEF IsInstruction
  <2>5. body \in Seq(Range(body))
    <3>1. DOMAIN body = 1..Len(s.body) /\ Len(s.body) \in Nat
      BY <2>2
    <3>2. body = [j \in 1..Len(s.body) |-> body[j]]
      BY <3>1
    <3>3. \A j \in 1..Len(s.body) : body[j] \in Range(body)
      BY <3>1 DEF Range
    <3> HIDE DEF body
    <3> QED
      BY <3>1, <3>2, <3>3
  <2>6. DOMAIN body = DOMAIN s.body
    OBVIOUS
  <2> HIDE DEF body
  <2>7. /\ source[i].op = s.op /\ source[i].qs = s.qs /\ source[i].cs = s.cs
        /\ source[i].id = <<i, 0>> /\ source[i].body = body /\ Whole(source[i])
    BY <2>1, FieldsMade
  <2> QED
    BY <2>2, <2>4, <2>5, <2>6, <2>7 DEF IsInstruction
<1> QED
  BY <1>2, <1>3 DEF SourceOK

-----------------------------------------------------------------------------
(* Every set of numbers has a least one.                                   *)
LEMMA Least ==
  ASSUME NEW S \in SUBSET Nat, S # {}
  PROVE  \E n \in S : \A m \in S : n <= m
<1> DEFINE R == OpToRel(<, Nat)
<1>1. IsWellFoundedOn(R, Nat)
  BY NatLessThanWellFounded
<1>2. \A m, n \in Nat : <<m, n>> \in R <=> m < n
  BY DEF OpToRel
<1> HIDE DEF R
<1>3. PICK n \in S : \A m \in S : ~(<<m, n>> \in R)
  BY <1>1, WFMin
<1>4. ASSUME NEW m \in S PROVE n <= m
  <2>1. n \in Nat /\ m \in Nat /\ ~(m < n)
    BY <1>2, <1>3
  <2> QED
    BY <2>1
<1> QED
  BY <1>4

(* FlattenSeq: each element of the whole has its row, the sequence it comes*)
(* from, and its column there, and they come row by row.                   *)
Flattening(f, ss, n) ==
  f = [i \in 1..n |-> IF i = 1 THEN ss[i] ELSE f[i - 1] \o ss[i]]

IsGrid(c, ss, m, row, col) ==
  /\ row \in [1..Len(c) -> 1..m] /\ col \in [1..Len(c) -> Nat]
  /\ \A b \in 1..Len(c) : col[b] \in 1..Len(ss[row[b]]) /\ c[b] = ss[row[b]][col[b]]
  /\ \A b, d \in 1..Len(c) :
       b < d => row[b] < row[d] \/ (row[b] = row[d] /\ col[b] < col[d])
  /\ \A i \in 1..m : \A j \in 1..Len(ss[i]) :
       \E b \in 1..Len(c) : row[b] = i /\ col[b] = j

LEMMA GridGrows ==
  ASSUME NEW S, NEW ss \in Seq(Seq(S)), NEW m \in Nat, m + 1 \in 1..Len(ss),
         NEW c \in Seq(S), NEW row, NEW col, IsGrid(c, ss, m, row, col)
  PROVE  \E rows, cols : IsGrid(c \o ss[m + 1], ss, m + 1, rows, cols)
<1> DEFINE t == ss[m + 1]
           d == c \o t
           rows == [b \in 1..Len(d) |-> IF b <= Len(c) THEN row[b] ELSE m + 1]
           cols == [b \in 1..Len(d) |-> IF b <= Len(c) THEN col[b] ELSE b - Len(c)]
<1>1. t \in Seq(S)
  OBVIOUS
<1> HIDE DEF t
<1>2. /\ Len(d) = Len(c) + Len(t) /\ Len(c) \in Nat /\ Len(t) \in Nat
      /\ \A b \in 1..Len(d) : d[b] = IF b <= Len(c) THEN c[b] ELSE t[b - Len(c)]
  BY <1>1
<1> HIDE DEF d
<1>3. rows \in [1..Len(d) -> 1..(m + 1)] /\ cols \in [1..Len(d) -> Nat]
  BY <1>2 DEF IsGrid
<1>4. ASSUME NEW b \in 1..Len(d)
      PROVE  cols[b] \in 1..Len(ss[rows[b]]) /\ d[b] = ss[rows[b]][cols[b]]
  <2>1. CASE b <= Len(c)
    <3>1. b \in 1..Len(c) /\ rows[b] = row[b] /\ cols[b] = col[b] /\ d[b] = c[b]
      BY <1>2, <2>1
    <3> HIDE DEF rows, cols
    <3> QED
      BY <3>1 DEF IsGrid
  <2>2. CASE ~(b <= Len(c))
    <3>1. rows[b] = m + 1 /\ cols[b] = b - Len(c) /\ d[b] = t[b - Len(c)]
      BY <1>2, <2>2
    <3>2. b - Len(c) \in 1..Len(t)
      BY <1>2, <2>2
    <3> HIDE DEF rows, cols
    <3> QED
      BY <3>1, <3>2 DEF t
  <2> QED
    BY <2>1, <2>2
<1>5. \A b, e \in 1..Len(d) :
        b < e => rows[b] < rows[e] \/ (rows[b] = rows[e] /\ cols[b] < cols[e])
  <2> SUFFICES ASSUME NEW b \in 1..Len(d), NEW e \in 1..Len(d), b < e
               PROVE  rows[b] < rows[e] \/ (rows[b] = rows[e] /\ cols[b] < cols[e])
    OBVIOUS
  <2>1. CASE e <= Len(c)
    BY <1>2, <2>1 DEF IsGrid
  <2>2. CASE b <= Len(c) /\ ~(e <= Len(c))
    <3>1. b \in 1..Len(c) /\ row \in [1..Len(c) -> 1..m]
      BY <1>2, <2>2 DEF IsGrid
    <3>2. row[b] \in 1..m
      BY <3>1
    <3>3. rows[b] = row[b] /\ rows[e] = m + 1
      BY <2>2
    <3> QED
      BY <3>2, <3>3
  <2>3. CASE ~(b <= Len(c))
    BY <1>2, <2>3
  <2> QED
    BY <2>1, <2>2, <2>3
<1>6. ASSUME NEW i \in 1..(m + 1), NEW j \in 1..Len(ss[i])
      PROVE  \E b \in 1..Len(d) : rows[b] = i /\ cols[b] = j
  <2>1. CASE i \in 1..m
    <3>1. PICK b \in 1..Len(c) : row[b] = i /\ col[b] = j
      BY <1>6, <2>1 DEF IsGrid
    <3>2. b \in 1..Len(d) /\ b <= Len(c)
      BY <1>2
    <3> QED
      BY <3>1, <3>2
  <2>2. CASE i = m + 1
    <3>1. j \in 1..Len(t)
      BY <1>6, <2>2 DEF t
    <3>2. Len(c) + j \in 1..Len(d) /\ ~(Len(c) + j <= Len(c)) /\ (Len(c) + j) - Len(c) = j
      BY <1>2, <3>1
    <3> QED
      BY <2>2, <3>2
  <2> QED
    BY <2>1, <2>2
<1> HIDE DEF rows, cols
<1>7. IsGrid(d, ss, m + 1, rows, cols)
  BY <1>3, <1>4, <1>5, <1>6 DEF IsGrid
<1> QED
  BY <1>7 DEF d, t

LEMMA FlattenSeqIsGrid ==
  ASSUME NEW S, NEW ss \in Seq(Seq(S))
  PROVE  /\ FlattenSeq(ss) \in Seq(S)
         /\ \E row, col : IsGrid(FlattenSeq(ss), ss, Len(ss), row, col)
<1> DEFINE n == Len(ss)
           Good(f, m) ==
             \A i \in 1..m :
               /\ f[i] \in Seq(S) /\ \E row, col : IsGrid(f[i], ss, i, row, col)
<1>1. n \in Nat
  OBVIOUS
<1>2. ASSUME n = 0
      PROVE  /\ FlattenSeq(ss) \in Seq(S)
             /\ \E row, col : IsGrid(FlattenSeq(ss), ss, Len(ss), row, col)
  <2>1. FlattenSeq(ss) = << >> /\ ss = << >>
    BY <1>2 DEF FlattenSeq
  <2>2. IsGrid(<< >>, ss, 0, [b \in 1..0 |-> 0], [b \in 1..0 |-> 0])
    BY DEF IsGrid
  <2> QED
    BY <1>2, <2>1, <2>2
<1>3. ASSUME NEW m \in 1..n, NEW f, Flattening(f, ss, m)
      PROVE  Good(f, m)
  <2> DEFINE Bad == {i \in 1..m : ~(f[i] \in Seq(S) /\ \E row, col : IsGrid(f[i], ss, i, row, col))}
  <2>1. \A i \in 1..m : f[i] = IF i = 1 THEN ss[i] ELSE f[i - 1] \o ss[i]
    BY <1>3 DEF Flattening
  <2>2. f[1] \in Seq(S) /\ \E row, col : IsGrid(f[1], ss, 1, row, col)
    <3>1. f[1] = ss[1] /\ ss[1] \in Seq(S) /\ 0 + 1 \in 1..Len(ss) /\ 0 \in Nat
      BY <1>1, <2>1
    <3>2. IsGrid(<< >>, ss, 0, [b \in 1..0 |-> 0], [b \in 1..0 |-> 0]) /\ << >> \in Seq(S)
      BY DEF IsGrid
    <3>3. \E row, col : IsGrid(<< >> \o ss[0 + 1], ss, 0 + 1, row, col)
      BY <3>1, <3>2, GridGrows
    <3>4. << >> \o ss[0 + 1] = ss[1] /\ 0 + 1 = 1
      BY <3>1
    <3> QED
      BY <3>1, <3>3, <3>4
  <2>3. ASSUME NEW i \in 1..m, i # 1, f[i - 1] \in Seq(S),
               \E row, col : IsGrid(f[i - 1], ss, i - 1, row, col)
        PROVE  f[i] \in Seq(S) /\ \E row, col : IsGrid(f[i], ss, i, row, col)
    <3>1. i - 1 \in Nat /\ (i - 1) + 1 = i /\ i \in 1..Len(ss) /\ f[i] = f[i - 1] \o ss[i]
      <4>1. i \in Nat /\ i # 0 /\ i <= m /\ m <= n
        BY <1>1
      <4>2. f[i] = f[i - 1] \o ss[i]
        BY <2>1, <2>3
      <4> HIDE DEF Bad, Good
      <4>3. i - 1 \in Nat /\ (i - 1) + 1 = i
        BY <4>1
      <4>4. i \in 1..Len(ss)
        BY <1>1, <4>1
      <4> QED
        BY <4>2, <4>3, <4>4
    <3>2. ss[i] \in Seq(S)
      BY <3>1
    <3>3. PICK row, col : IsGrid(f[i - 1], ss, i - 1, row, col)
      BY <2>3
    <3>4. \E rows, cols : IsGrid(f[i - 1] \o ss[(i - 1) + 1], ss, (i - 1) + 1, rows, cols)
      BY <2>3, <3>1, <3>3, GridGrows
    <3> QED
      BY <2>3, <3>1, <3>2, <3>4
  <2>4. Bad = {}
    <3> SUFFICES ASSUME Bad # {} PROVE FALSE
      OBVIOUS
    <3>1. PICK i \in Bad : \A k \in Bad : i <= k
      <4>1. Bad \in SUBSET Nat
        OBVIOUS
      <4> HIDE DEF Bad
      <4> QED
        BY <4>1, Least
    <3>2. i \in 1..m /\ i # 1
      BY <2>2, <3>1
    <3>3. i - 1 \in 1..m /\ ~(i <= i - 1)
      BY <3>2
    <3>4. i - 1 \notin Bad
      BY <3>1, <3>3
    <3> QED
      BY <2>3, <3>1, <3>2, <3>3, <3>4
  <2> QED
    BY <2>4
<1>4. ASSUME NEW m \in 1..n
      PROVE  \E f : Flattening(f, ss, m)
  <2> DEFINE Bad == {k \in 1..n : ~\E f : Flattening(f, ss, k)}
  <2>1. \E f : Flattening(f, ss, 1)
    <3>1. Flattening([i \in 1..1 |-> ss[1]], ss, 1)
      BY DEF Flattening
    <3> QED
      BY <3>1
  <2>2. ASSUME NEW k \in 1..n, k # 1, NEW f, Flattening(f, ss, k - 1)
        PROVE  \E g : Flattening(g, ss, k)
    <3> DEFINE g == [i \in 1..k |-> IF i = k THEN f[k - 1] \o ss[k] ELSE f[i]]
    <3>1. \A i \in 1..(k - 1) : f[i] = IF i = 1 THEN ss[i] ELSE f[i - 1] \o ss[i]
      BY <2>2 DEF Flattening
    <3>2. \A i \in 1..k : g[i] = IF i = 1 THEN ss[i] ELSE g[i - 1] \o ss[i]
      <4> SUFFICES ASSUME NEW i \in 1..k
                   PROVE  g[i] = IF i = 1 THEN ss[i] ELSE g[i - 1] \o ss[i]
        OBVIOUS
      <4>1. CASE i = k
        <5>1. i - 1 \in 1..k /\ i - 1 # k /\ i # 1
          BY <2>2, <4>1
        <5> QED
          BY <4>1, <5>1
      <4>2. CASE i # k
        <5>1. i \in 1..(k - 1)
          BY <4>2
        <5>2. i # 1 => i - 1 \in 1..k /\ i - 1 # k
          BY <5>1
        <5> QED
          BY <3>1, <4>2, <5>1, <5>2
      <4> QED
        BY <4>1, <4>2
    <3>3. g = [i \in 1..k |-> IF i = 1 THEN ss[i] ELSE g[i - 1] \o ss[i]]
      <4>1. DOMAIN g = 1..k /\ g = [i \in 1..k |-> g[i]]
        OBVIOUS
      <4> HIDE DEF g
      <4> QED
        BY <3>2, <4>1
    <3> HIDE DEF g
    <3> QED
      BY <3>3 DEF Flattening
  <2>3. Bad = {}
    <3> SUFFICES ASSUME Bad # {} PROVE FALSE
      OBVIOUS
    <3>1. PICK k \in Bad : \A j \in Bad : k <= j
      <4>1. Bad \in SUBSET Nat
        OBVIOUS
      <4> HIDE DEF Bad
      <4> QED
        BY <4>1, Least
    <3>2. k \in 1..n /\ k # 1
      BY <2>1, <3>1
    <3>3. k - 1 \in 1..n /\ ~(k <= k - 1)
      BY <3>2
    <3>4. k - 1 \notin Bad
      BY <3>1, <3>3
    <3> QED
      BY <2>2, <3>1, <3>2, <3>3, <3>4
  <2> QED
    BY <2>3
<1>5. CASE n # 0
  <2>1. n \in 1..n
    BY <1>1, <1>5
  <2>2. \E f : Flattening(f, ss, n)
    BY <1>4, <2>1
  <2>3. PICK f : Flattening(f, ss, n) /\ FlattenSeq(ss) = f[n]
    BY <1>5, <2>2 DEF Flattening, FlattenSeq
  <2>4. Good(f, n)
    BY <1>3, <2>1, <2>3
  <2> QED
    BY <2>1, <2>3, <2>4
<1> QED
  BY <1>2, <1>5

-----------------------------------------------------------------------------
(* Items, and the sequences they are arranged in when boxes are inlined.   *)
LEMMA PlacedFacts ==
  ASSUME SourceOK, NEW i \in DOMAIN source, NEW j \in DOMAIN source[i].body
  PROVE  LET x == source[i]
             y == x.body[j]
         IN Placed(x, x.body)[j]
              = Made(y.op, [k \in DOMAIN y.qs |-> x.qs[y.qs[k]]],
                     [k \in DOMAIN y.cs |-> x.cs[y.cs[k]]], NoLabel, <<i, j>>, y.body)
<1> DEFINE x == source[i]
           y == x.body[j]
           qs == [k \in DOMAIN y.qs |-> x.qs[y.qs[k]]]
           cs == [k \in DOMAIN y.cs |-> x.cs[y.cs[k]]]
<1>1. Placed(x, x.body)[j] = [y EXCEPT !.qs = qs, !.cs = cs]
  BY DEF Placed
<1>2. Whole(y) /\ y.id = <<i, j>> /\ y.label = NoLabel
  BY DEF SourceOK
<1> HIDE DEF qs, cs, y
<1>3. [y EXCEPT !.qs = qs, !.cs = cs] = Made(y.op, qs, cs, y.label, y.id, y.body)
  BY <1>2, WiresReplaced
<1>4. Placed(x, x.body)[j] = Made(y.op, qs, cs, NoLabel, <<i, j>>, y.body)
  BY <1>1, <1>2, <1>3
<1> QED
  BY <1>4 DEF qs, cs, y

LEMMA Rewired ==
  ASSUME NEW S, NEW wires \in Seq(S), NEW places \in Seq(DOMAIN wires)
  PROVE  LET new == [k \in DOMAIN places |-> wires[places[k]]]
         IN new \in Seq(S) /\ Len(new) = Len(places) /\ Range(new) \subseteq Range(wires)
<1> DEFINE new == [k \in DOMAIN places |-> wires[places[k]]]
<1>1. DOMAIN places = 1..Len(places) /\ Len(places) \in Nat
  OBVIOUS
<1>2. \A k \in DOMAIN places : places[k] \in DOMAIN wires
  BY <1>1
<1>3. \A k \in DOMAIN places : wires[places[k]] \in S
  BY <1>2
<1>4. new \in [1..Len(places) -> S]
  BY <1>1, <1>3
<1>5. new \in Seq(S) /\ Len(new) = Len(places)
  BY <1>1, <1>4
<1>6. Range(new) \subseteq Range(wires)
  BY <1>2 DEF Range
<1> QED
  BY <1>5, <1>6

LEMMA ItemFacts ==
  ASSUME SourceOK, NEW id \in ItemIds
  PROVE  /\ id[1] \in DOMAIN source /\ id[1] \in Nat /\ id[2] \in Nat
         /\ id = <<id[1], id[2]>>
         /\ Whole(Item(id)) /\ Item(id).id = id
         /\ IsInstruction(Item(id), Qubit, Nat)
         /\ Range(Item(id).qs) \subseteq Range(source[id[1]].qs)
         /\ Range(Item(id).cs) \subseteq Range(source[id[1]].cs)
         /\ ~IsPlaceholder(Item(id))
<1> DEFINE i == id[1]
           j == id[2]
           x == source[i]
<1>1. id \in (DOMAIN source) \X Nat
  BY DEF ItemIds
<1>2. i \in DOMAIN source /\ j \in Nat /\ id = <<i, j>> /\ i \in Nat
  <2>1. DOMAIN source = 1..Len(source)
    BY DEF SourceOK
  <2> QED
    BY <1>1, <2>1
<1>3. /\ Whole(x) /\ x.id = <<i, 0>> /\ x.op # "placeholder"
      /\ IsInstruction(x, Qubit, Nat)
  BY <1>2 DEF SourceOK
<1>4. CASE i \in BoxPlaces
  <2>1. j \in DOMAIN x.body
    BY <1>4 DEF ItemIds
  <2> DEFINE y == x.body[j]
             qs == [k \in DOMAIN y.qs |-> x.qs[y.qs[k]]]
             cs == [k \in DOMAIN y.cs |-> x.cs[y.cs[k]]]
  <2>2. Item(id) = Made(y.op, qs, cs, NoLabel, <<i, j>>, y.body)
    BY <1>2, <1>4, <2>1, PlacedFacts DEF Item
  <2>3. IsInstruction(y, DOMAIN x.qs, DOMAIN x.cs)
    BY <1>2, <2>1 DEF SourceOK
  <2> HIDE DEF y, x
  <2>4. /\ x.qs \in Seq(Qubit) /\ x.cs \in Seq(Nat)
        /\ y.qs \in Seq(DOMAIN x.qs) /\ y.cs \in Seq(DOMAIN x.cs)
    BY <1>3, <2>3 DEF IsInstruction
  <2>8. qs \in Seq(Qubit) /\ Len(qs) = Len(y.qs) /\ Range(qs) \subseteq Range(x.qs)
    <3>1. \A S : \A w \in Seq(S) : \A p \in Seq(DOMAIN w) :
            LET new == [k \in DOMAIN p |-> w[p[k]]]
            IN new \in Seq(S) /\ Len(new) = Len(p) /\ Range(new) \subseteq Range(w)
      BY Rewired
    <3> QED
      BY <2>4, <3>1, Zenon
  <2>9. cs \in Seq(Nat) /\ Len(cs) = Len(y.cs) /\ Range(cs) \subseteq Range(x.cs)
    <3>1. \A S : \A w \in Seq(S) : \A p \in Seq(DOMAIN w) :
            LET new == [k \in DOMAIN p |-> w[p[k]]]
            IN new \in Seq(S) /\ Len(new) = Len(p) /\ Range(new) \subseteq Range(w)
      BY Rewired
    <3> QED
      BY <2>4, <3>1, Zenon
  <2> HIDE DEF qs, cs, y
  <2>5. /\ Whole(Item(id)) /\ Item(id).id = <<i, j>> /\ Item(id).qs = qs
        /\ Item(id).cs = cs /\ Item(id).op = y.op /\ Item(id).label = NoLabel
    BY <2>2, FieldsMade
  <2>6. IsInstruction(Item(id), Qubit, Nat)
    BY <2>3, <2>5, <2>8, <2>9 DEF IsInstruction
  <2>7. ~IsPlaceholder(Item(id))
    BY <2>5 DEF IsPlaceholder, IsVerbatimLabel, NoLabel
  <2> QED
    BY <1>2, <2>5, <2>6, <2>7, <2>8, <2>9 DEF x
<1>5. CASE i \notin BoxPlaces
  <2>1. Item(id) = x /\ j = 0
    BY <1>2, <1>5 DEF Item, ItemIds
  <2> QED
    BY <1>2, <1>3, <2>1 DEF IsPlaceholder
<1> QED
  BY <1>4, <1>5

(* What comes in the place of the source's i-th instruction.               *)
Content(i) ==
  IF i \in BoxPlaces THEN Placed(source[i], source[i].body) ELSE <<source[i]>>
Column(i, j) == IF i \in BoxPlaces THEN j ELSE 0
Items == {Item(id) : id \in ItemIds}

LEMMA ContentFacts ==
  ASSUME SourceOK, NEW i \in DOMAIN source
  PROVE  /\ Content(i) \in Seq(Items)
         /\ \A j \in 1..Len(Content(i)) :
              /\ <<i, Column(i, j)>> \in ItemIds
              /\ Content(i)[j] = Item(<<i, Column(i, j)>>)
         /\ \A id \in ItemIds : id[1] = i =>
              \E j \in 1..Len(Content(i)) : id = <<i, Column(i, j)>>
<1>1. i \in Nat /\ DOMAIN source = 1..Len(source)
  BY DEF SourceOK
<1>2. CASE i \in BoxPlaces
  <2> DEFINE body == source[i].body
  <2>1. body \in Seq(Range(body))
    BY DEF SourceOK
  <2>2. DOMAIN body = 1..Len(body) /\ Len(body) \in Nat
    BY <2>1
  <2>3. \A j \in 1..Len(body) :
          /\ <<i, j>> \in ItemIds /\ Item(<<i, j>>) = Placed(source[i], body)[j]
    BY <1>2, <2>2 DEF ItemIds, Item
  <2>4. \A j \in 1..Len(body) : Placed(source[i], body)[j] \in Items
    BY <2>3 DEF Items
  <2>5. /\ Placed(source[i], body) = [j \in 1..Len(body) |-> Placed(source[i], body)[j]]
    BY <2>2 DEF Placed
  <2>6. Placed(source[i], body) \in Seq(Items) /\ Len(Placed(source[i], body)) = Len(body)
    <3> DEFINE p == Placed(source[i], body)
    <3> HIDE DEF p
    <3>1. p = [j \in 1..Len(body) |-> p[j]] /\ \A j \in 1..Len(body) : p[j] \in Items
      BY <2>4, <2>5 DEF p
    <3>2. p \in Seq(Items) /\ Len(p) = Len(body)
      BY <2>2, <3>1
    <3> QED
      BY <3>2 DEF p
  <2>7. \A id \in ItemIds : id[1] = i => id = <<i, id[2]>> /\ id[2] \in 1..Len(body)
    BY <1>2, <2>2, ItemFacts DEF ItemIds
  <2> HIDE DEF body
  <2>8. Content(i) = Placed(source[i], body)
    BY <1>2 DEF Content, body
  <2> QED
    BY <1>2, <2>3, <2>6, <2>7, <2>8 DEF Column
<1>3. CASE i \notin BoxPlaces
  <2>1. <<i, 0>> \in ItemIds /\ Item(<<i, 0>>) = source[i]
    BY <1>3 DEF ItemIds, Item
  <2>2. source[i] \in Items
    BY <2>1 DEF Items
  <2>3. \A id \in ItemIds : id[1] = i => id = <<i, 0>>
    BY <1>3, ItemFacts DEF ItemIds
  <2>4. /\ <<source[i]>> \in Seq(Items) /\ Len(<<source[i]>>) = 1
        /\ <<source[i]>>[1] = source[i] /\ 1 \in 1..1 /\ \A j \in 1..1 : j = 1
    BY <2>2
  <2>5. Content(i) = <<source[i]>>
    BY <1>3 DEF Content
  <2> QED
    BY <1>3, <2>1, <2>3, <2>4, <2>5 DEF Column
<1> QED
  BY <1>2, <1>3

Joined(n, p) == FlattenSeq([a \in 1..n |-> Content(p[a])])
IsArranged(c, n, p) ==
  /\ c \in Seq(Items)
  /\ \A b \in 1..Len(c) :
       /\ c[b].id \in ItemIds /\ c[b] = Item(c[b].id)
       /\ \E a \in 1..n : p[a] = c[b].id[1]
  /\ \A b, d \in 1..Len(c) :
       b < d => \E a, e \in 1..n :
                  /\ c[b].id[1] = p[a] /\ c[d].id[1] = p[e]
                  /\ a < e \/ (a = e /\ c[b].id[2] < c[d].id[2])
  /\ \A a \in 1..n, id \in ItemIds :
       id[1] = p[a] => \E b \in 1..Len(c) : c[b].id = id

LEMMA Arranged ==
  ASSUME SourceOK, NEW n \in Nat, NEW p \in [1..n -> DOMAIN source]
  PROVE  IsArranged(Joined(n, p), n, p)
<1> DEFINE ss == [a \in 1..n |-> Content(p[a])]
           c == FlattenSeq(ss)
<1>1. \A a \in 1..n : p[a] \in DOMAIN source /\ Content(p[a]) \in Seq(Items)
  BY ContentFacts
<1>2. ss \in Seq(Seq(Items)) /\ Len(ss) = n /\ \A a \in 1..n : ss[a] = Content(p[a])
  BY <1>1
<1> HIDE DEF ss
<1>3. c \in Seq(Items) /\ \E row, col : IsGrid(c, ss, n, row, col)
  BY <1>2, FlattenSeqIsGrid
<1>4. PICK row, col : IsGrid(c, ss, n, row, col)
  BY <1>3
<1> HIDE DEF c
<1>5. ASSUME NEW b \in 1..Len(c)
      PROVE  /\ row[b] \in 1..n /\ col[b] \in Nat
             /\ c[b].id = <<p[row[b]], Column(p[row[b]], col[b])>>
             /\ c[b].id \in ItemIds /\ c[b] = Item(c[b].id)
             /\ col[b] \in 1..Len(Content(p[row[b]]))
  <2>1. row[b] \in 1..n /\ col[b] \in Nat
    BY <1>4 DEF IsGrid
  <2>2. col[b] \in 1..Len(Content(p[row[b]])) /\ c[b] = Content(p[row[b]])[col[b]]
    BY <1>2, <1>4, <2>1 DEF IsGrid
  <2>3. p[row[b]] \in DOMAIN source
    BY <2>1
  <2>4. /\ <<p[row[b]], Column(p[row[b]], col[b])>> \in ItemIds
        /\ c[b] = Item(<<p[row[b]], Column(p[row[b]], col[b])>>)
    BY <2>2, <2>3, ContentFacts
  <2> QED
    BY <2>1, <2>2, <2>4, ItemFacts
<1>6. ASSUME NEW b \in 1..Len(c), NEW d \in 1..Len(c), b < d
      PROVE  \E a, e \in 1..n :
               /\ c[b].id[1] = p[a] /\ c[d].id[1] = p[e]
               /\ a < e \/ (a = e /\ c[b].id[2] < c[d].id[2])
  <2>1. /\ row[b] \in 1..n /\ c[b].id = <<p[row[b]], Column(p[row[b]], col[b])>>
        /\ row[d] \in 1..n /\ c[d].id = <<p[row[d]], Column(p[row[d]], col[d])>>
    BY <1>5
  <2>2. row[b] < row[d] \/ (row[b] = row[d] /\ col[b] < col[d])
    BY <1>4, <1>6 DEF IsGrid
  <2>3. c[b].id[1] = p[row[b]] /\ c[d].id[1] = p[row[d]]
    BY <2>1
  <2>4. CASE row[b] = row[d] /\ col[b] < col[d]
    <3>1. p[row[b]] \in BoxPlaces
      <4> SUFFICES ASSUME p[row[b]] \notin BoxPlaces PROVE FALSE
        OBVIOUS
      <4>1. Len(Content(p[row[b]])) = 1
        BY DEF Content
      <4>2. col[b] \in 1..1 /\ col[d] \in 1..1
        BY <1>5, <2>4, <4>1
      <4> QED
        BY <2>4, <4>2
    <3>2. c[b].id[2] = col[b] /\ c[d].id[2] = col[d]
      BY <2>1, <2>4, <3>1 DEF Column
    <3> QED
      BY <2>1, <2>3, <2>4, <3>2
  <2> QED
    BY <2>1, <2>2, <2>3, <2>4
<1>7. ASSUME NEW a \in 1..n, NEW id \in ItemIds, id[1] = p[a]
      PROVE  \E b \in 1..Len(c) : c[b].id = id
  <2>1. PICK j \in 1..Len(Content(p[a])) : id = <<p[a], Column(p[a], j)>>
    BY <1>1, <1>7, ContentFacts
  <2>2. j \in 1..Len(ss[a])
    BY <1>2
  <2>3. PICK b \in 1..Len(c) : row[b] = a /\ col[b] = j
    BY <1>4, <2>2 DEF IsGrid
  <2> QED
    BY <1>5, <2>1, <2>3
<1>8. \A b \in 1..Len(c) : \E a \in 1..n : p[a] = c[b].id[1]
  BY <1>5
<1>9. IsArranged(c, n, p)
  BY <1>3, <1>5, <1>6, <1>7, <1>8 DEF IsArranged
<1> QED
  BY <1>9 DEF c, ss, Joined

(* The contents of the boxes in their place: every item, in the order of   *)
(* the ids.                                                                *)
LEMMA FlatFacts ==
  ASSUME SourceOK
  PROVE  /\ Flat \in Seq(Items)
         /\ \A b \in DOMAIN Flat : Flat[b].id \in ItemIds /\ Flat[b] = Item(Flat[b].id)
         /\ \A b, d \in DOMAIN Flat : b < d => Before(Flat[b].id, Flat[d].id)
         /\ \A id \in ItemIds : \E b \in DOMAIN Flat : Flat[b].id = id
<1> DEFINE n == Len(source)
           p == [a \in 1..n |-> a]
           c == Joined(n, p)
<1>1. n \in Nat /\ DOMAIN source = 1..n /\ p \in [1..n -> DOMAIN source]
  BY DEF SourceOK
<1>2. Flat = c
  <2>1. [i \in DOMAIN source |->
            IF IsVerbatimBox(source[i]) THEN Placed(source[i], source[i].body)
                                        ELSE <<source[i]>>]
          = [a \in 1..n |-> Content(p[a])]
    BY <1>1 DEF Content, BoxPlaces
  <2> QED
    BY <2>1 DEF Flat, Inlined, Joined
<1>3. \A a \in 1..n : p[a] = a
  OBVIOUS
<1> HIDE DEF p, n
<1>4. /\ c \in Seq(Items)
      /\ \A b \in 1..Len(c) : c[b].id \in ItemIds /\ c[b] = Item(c[b].id)
      /\ \A b, d \in 1..Len(c) :
           b < d => \E a, e \in 1..n :
                      /\ c[b].id[1] = p[a] /\ c[d].id[1] = p[e]
                      /\ a < e \/ (a = e /\ c[b].id[2] < c[d].id[2])
      /\ \A a \in 1..n, id \in ItemIds :
           id[1] = p[a] => \E b \in 1..Len(c) : c[b].id = id
  BY <1>1, Arranged DEF IsArranged
<1> HIDE DEF c
<1>5. DOMAIN c = 1..Len(c)
  BY <1>4
<1>6. ASSUME NEW b \in DOMAIN c, NEW d \in DOMAIN c, b < d
      PROVE  Before(c[b].id, c[d].id)
  <2>1. PICK a \in 1..n, e \in 1..n :
          /\ c[b].id[1] = p[a] /\ c[d].id[1] = p[e]
          /\ a < e \/ (a = e /\ c[b].id[2] < c[d].id[2])
    BY <1>4, <1>5, <1>6
  <2> QED
    BY <1>3, <2>1 DEF Before
<1>7. \A id \in ItemIds : \E b \in DOMAIN c : c[b].id = id
  BY <1>1, <1>3, <1>4, <1>5, ItemFacts
<1> QED
  BY <1>2, <1>4, <1>5, <1>6, <1>7

(* Ids are in one order only.                                              *)
LEMMA BeforeFacts ==
  ASSUME NEW S, S = Nat \X Nat, NEW a \in S, NEW b \in S
  PROVE  /\ ~(Before(a, b) /\ Before(b, a)) /\ ~Before(a, a)
         /\ a = b \/ Before(a, b) \/ Before(b, a)
         /\ \A d \in S : Before(a, b) /\ Before(b, d) => Before(a, d)
<1>1. /\ a[1] \in Nat /\ a[2] \in Nat /\ b[1] \in Nat /\ b[2] \in Nat
      /\ a = <<a[1], a[2]>> /\ b = <<b[1], b[2]>>
  OBVIOUS
<1>2. \A d \in S : d[1] \in Nat /\ d[2] \in Nat
  OBVIOUS
<1> QED
  BY <1>1, <1>2 DEF Before

LEMMA IdsInOrder ==
  ASSUME SourceOK, NEW a \in ItemIds, NEW b \in ItemIds
  PROVE  /\ ~(Before(a, b) /\ Before(b, a)) /\ ~Before(a, a)
         /\ a = b \/ Before(a, b) \/ Before(b, a)
         /\ \A d \in ItemIds : Before(a, b) /\ Before(b, d) => Before(a, d)
<1>1. ItemIds \subseteq Nat \X Nat
  <2>1. DOMAIN source = 1..Len(source)
    BY DEF SourceOK
  <2> QED
    BY <2>1 DEF ItemIds
<1> QED
  BY <1>1, BeforeFacts

-----------------------------------------------------------------------------
(* Labels and layouts tell qubits apart.                                   *)
LEMMA LabelsDiffer == \A q, r \in Qubit : LabelOf(q) = LabelOf(r) => q = r
<1>1. Qubit = 1..Len(Labels) /\ Len(Labels) \in Nat
  BY LabelsAssumption DEF Qubit
<1>2. CASE HasLabels
  BY <1>2, LabelsAssumption DEF LabelOf, IsInjective, Qubit
<1>3. CASE ~HasLabels
  BY <1>1, <1>3 DEF LabelOf
<1> QED
  BY <1>2, <1>3

LEMMA LaidFacts ==
  ASSUME NEW lay \in [Qubit -> Qubit], NEW x, x.qs \in Seq(Qubit)
  PROVE  /\ LaidBy(lay, x).op = x.op /\ LaidBy(lay, x).cs = x.cs /\ LaidBy(lay, x).label = x.label
         /\ LaidBy(lay, x).id = x.id /\ LaidBy(lay, x).body = x.body /\ Whole(LaidBy(lay, x))
         /\ LaidBy(lay, x).qs = [k \in DOMAIN x.qs |-> lay[x.qs[k]]]
         /\ LaidBy(lay, x).qs \in Seq(Qubit) /\ Len(LaidBy(lay, x).qs) = Len(x.qs)
         /\ Range(x.qs) \subseteq Qubit
         /\ Range(LaidBy(lay, x).qs) = {lay[q] : q \in Range(x.qs)}
<1> DEFINE qs == [k \in DOMAIN x.qs |-> lay[x.qs[k]]]
<1>1. DOMAIN x.qs = 1..Len(x.qs) /\ \A k \in DOMAIN x.qs : x.qs[k] \in Qubit
  OBVIOUS
<1>2. qs \in [1..Len(x.qs) -> Qubit] /\ Len(x.qs) \in Nat
  BY <1>1
<1>3. qs \in Seq(Qubit) /\ Len(qs) = Len(x.qs)
  BY <1>2
<1>4. Range(x.qs) \subseteq Qubit
  BY <1>1 DEF Range
<1>5. Range(qs) = {lay[q] : q \in Range(x.qs)}
  BY DEF Range
<1>6. LaidBy(lay, x) = OnQubits(x, qs)
  BY DEF LaidBy
<1>7. qs = [k \in DOMAIN x.qs |-> lay[x.qs[k]]]
  OBVIOUS
<1> HIDE DEF qs
<1> QED
  BY <1>3, <1>4, <1>5, <1>6, <1>7, Fields

LEMMA LaidShare ==
  ASSUME NEW lay \in [Qubit -> Qubit], IsInjective(lay),
         NEW x, x.qs \in Seq(Qubit), NEW y, y.qs \in Seq(Qubit)
  PROVE  /\ Range(LaidBy(lay, x).qs) \cap Range(LaidBy(lay, y).qs) = {} <=>
              Range(x.qs) \cap Range(y.qs) = {}
         /\ Independent(LaidBy(lay, x), LaidBy(lay, y)) <=> Independent(x, y)
<1>1. /\ Range(LaidBy(lay, x).qs) = {lay[q] : q \in Range(x.qs)}
      /\ Range(LaidBy(lay, y).qs) = {lay[q] : q \in Range(y.qs)}
      /\ Range(x.qs) \subseteq Qubit /\ Range(y.qs) \subseteq Qubit
      /\ LaidBy(lay, x).cs = x.cs /\ LaidBy(lay, y).cs = y.cs
  BY LaidFacts
<1>2. \A q, r \in Qubit : lay[q] = lay[r] => q = r
  BY DEF IsInjective
<1>3. Range(LaidBy(lay, x).qs) \cap Range(LaidBy(lay, y).qs) = {} <=>
        Range(x.qs) \cap Range(y.qs) = {}
  <2> DEFINE A == Range(x.qs)
             B == Range(y.qs)
  <2> HIDE DEF A, B
  <2>2. A \subseteq Qubit /\ B \subseteq Qubit
    BY <1>1 DEF A, B
  <2>3. ASSUME NEW l \in {lay[q] : q \in A} \cap {lay[q] : q \in B}
        PROVE  A \cap B # {}
    <3>1. PICK q \in A : l = lay[q]
      OBVIOUS
    <3>2. PICK r \in B : l = lay[r]
      OBVIOUS
    <3> QED
      BY <1>2, <2>2, <3>1, <3>2
  <2>4. \A q \in A \cap B :
          lay[q] \in {lay[r] : r \in A} \cap {lay[r] : r \in B}
    OBVIOUS
  <2>1. {lay[q] : q \in A} \cap {lay[q] : q \in B} = {} <=> A \cap B = {}
    BY <2>3, <2>4
  <2> QED
    BY <1>1, <2>1 DEF A, B
<1> QED
  BY <1>1, <1>3 DEF Independent

LEMMA LaidStays ==
  ASSUME NEW lay, lay = [q \in Qubit |-> q], NEW x, Whole(x), x.qs \in Seq(Qubit)
  PROVE  LaidBy(lay, x) = x
<1>1. DOMAIN x.qs = 1..Len(x.qs) /\ \A k \in DOMAIN x.qs : x.qs[k] \in Qubit
  OBVIOUS
<1>2. x.qs = [k \in DOMAIN x.qs |-> x.qs[k]]
  OBVIOUS
<1>3. \A k \in DOMAIN x.qs : lay[x.qs[k]] = x.qs[k]
  BY <1>1
<1>4. [k \in DOMAIN x.qs |-> lay[x.qs[k]]] = x.qs
  BY <1>2, <1>3
<1> QED
  BY <1>4 DEF LaidBy, Whole

-----------------------------------------------------------------------------
(* The boxes' placeholders.                                                *)
LEMMA PlaceholdersDiffer ==
  ASSUME SourceOK, NEW i \in BoxPlaces, NEW j \in BoxPlaces,
         PlaceholderLabel(source, i) = PlaceholderLabel(source, j)
  PROVE  i = j
<1>1. DOMAIN source = 1..Len(source)
  BY DEF SourceOK
<1>2. \A k \in BoxPlaces : k \in Nat /\ k \in DOMAIN source /\ IsVerbatimBox(source[k])
  BY <1>1 DEF BoxPlaces
<1>3. ASSUME NEW k \in BoxPlaces
      PROVE  /\ IsFiniteSet(BoxesBefore(source, k))
             /\ Cardinality(BoxesBefore(source, k)) \in Nat
  <2>2. k \in Int /\ k - 1 \in Int /\ 1 \in Int
    BY <1>2
  <2>1. IsFiniteSet(1..(k - 1)) /\ BoxesBefore(source, k) \subseteq 1..(k - 1)
    BY <2>2, FS_Interval DEF BoxesBefore
  <2> QED
    BY <2>1, FS_Subset, FS_CardinalityType
<1>4. ASSUME NEW k \in BoxPlaces, NEW m \in BoxPlaces, k < m
      PROVE  Cardinality(BoxesBefore(source, k)) < Cardinality(BoxesBefore(source, m))
  <2> DEFINE B == BoxesBefore(source, k)
             C == BoxesBefore(source, m)
  <2>3. k \in Nat /\ m \in Nat /\ k \in 1..(m - 1) /\ IsVerbatimBox(source[k])
    <3>1. k \in Nat /\ m \in Nat /\ k \in 1..Len(source) /\ IsVerbatimBox(source[k])
      BY <1>1, <1>2
    <3> QED
      BY <1>4, <3>1
  <2>4. 1..(k - 1) \subseteq 1..(m - 1) /\ k \notin 1..(k - 1)
    BY <1>4, <2>3
  <2>1. B \subseteq C /\ k \in C /\ k \notin B
    BY <2>3, <2>4 DEF BoxesBefore
  <2>2. B \subseteq C /\ B # C /\ IsFiniteSet(B) /\ IsFiniteSet(C)
    BY <1>3, <2>1
  <2>5. Cardinality(B) \in Nat /\ Cardinality(C) \in Nat
    BY <1>3
  <2> HIDE DEF B, C
  <2>6. Cardinality(B) <= Cardinality(C) /\ Cardinality(B) # Cardinality(C)
    BY <2>2, FS_Subset
  <2>7. Cardinality(B) < Cardinality(C)
    BY <2>5, <2>6
  <2> QED
    BY <2>7 DEF B, C
<1>5. Cardinality(BoxesBefore(source, i)) = Cardinality(BoxesBefore(source, j))
  BY DEF PlaceholderLabel, IndexedLabel
<1>6. i \in Nat /\ j \in Nat
  BY <1>2
<1> HIDE DEF PlaceholderLabel
<1> QED
  BY <1>3, <1>4, <1>5, <1>6

LEMMA StandingFacts ==
  ASSUME SourceOK, NEW i \in DOMAIN source
  PROVE  LET x == Standing(i)
         IN /\ Whole(x) /\ x.qs = source[i].qs /\ x.cs = source[i].cs
            /\ x.id = <<i, 0>> /\ x.qs \in Seq(Qubit)
            /\ IsPlaceholder(x) <=> Path = "extract" /\ i \in BoxPlaces
            /\ x.op = "placeholder" <=> Path = "extract" /\ i \in BoxPlaces
            /\ IF Path = "extract" /\ i \in BoxPlaces
                 THEN x.label = PlaceholderLabel(source, i)
                 ELSE x = source[i]
<1>1. /\ Whole(source[i]) /\ source[i].id = <<i, 0>> /\ source[i].op # "placeholder"
      /\ source[i].qs \in Seq(Qubit)
  BY DEF SourceOK, IsInstruction
<1>2. CASE Path = "extract" /\ i \in BoxPlaces
  <2> DEFINE l == PlaceholderLabel(source, i)
  <2>1. IsVerbatimLabel(l)
    BY DEF PlaceholderLabel, IndexedLabel, IsVerbatimLabel
  <2> HIDE DEF l
  <2>2. Standing(i) = Made("placeholder", source[i].qs, source[i].cs, l,
                           source[i].id, << >>)
    BY <1>1, <1>2, BoxReplaced DEF Standing, l
  <2>3. /\ Whole(Standing(i)) /\ Standing(i).qs = source[i].qs
        /\ Standing(i).cs = source[i].cs /\ Standing(i).id = source[i].id
        /\ Standing(i).op = "placeholder" /\ Standing(i).label = l
    BY <2>2, FieldsMade
  <2> QED
    BY <1>1, <1>2, <2>1, <2>3 DEF IsPlaceholder, l
<1>3. CASE ~(Path = "extract" /\ i \in BoxPlaces)
  BY <1>1, <1>3 DEF Standing, IsPlaceholder
<1> QED
  BY <1>2, <1>3

(* The circuit as the transpiler gets it.                                  *)
LEMMA HeldAtFirst ==
  ASSUME SourceOK, NEW lay, lay = [q \in Qubit |-> q],
         NEW c, c = [i \in DOMAIN source |-> Standing(i)]
  PROVE  Held(c, lay) /\ \A i \in DOMAIN source : Present(c, i)
<1>1. DOMAIN source = 1..Len(source) /\ Len(source) \in Nat
  BY DEF SourceOK
<1>2. \A i \in DOMAIN source :
        /\ c[i] = LaidBy(lay, Standing(i)) /\ c[i].id = <<i, 0>> /\ DOMAIN c = DOMAIN source
  BY StandingFacts, LaidStays
<1>3. c \in Seq({LaidBy(lay, Standing(i)) : i \in DOMAIN source})
  BY <1>1, <1>2
<1>4. Once(c) /\ \A i \in DOMAIN source : Present(c, i)
  BY <1>2 DEF Once, Present
<1>5. InOrder(c)
  <2>1. \A i, j \in DOMAIN source : i < j => Before(<<i, 0>>, <<j, 0>>)
    BY DEF Before
  <2>2. \A i \in DOMAIN c : i \in DOMAIN source /\ c[i].id = <<i, 0>>
    BY <1>2
  <2> QED
    BY <2>1, <2>2 DEF InOrder
<1> QED
  BY <1>3, <1>4, <1>5 DEF Held

LEMMA SourceKept ==
  ASSUME source' = source, options' = options, others' = others
  PROVE  /\ BoxPlaces' = BoxPlaces /\ ItemIds' = ItemIds /\ Path' = Path
         /\ \A id : Item(id)' = Item(id)
         /\ \A i : Standing(i)' = Standing(i)
         /\ SourceOK => SourceOK'
         /\ HasVerbatimBoxes' = HasVerbatimBoxes /\ Flat' = Flat
         /\ \A q : LabelOf(q)' = LabelOf(q)
         /\ \A x : Labelled(x)' = Labelled(x)
<1>1. BoxPlaces' = BoxPlaces
  BY DEF BoxPlaces
<1>2. ItemIds' = ItemIds
  BY <1>1 DEF ItemIds
<1>3. Path' = Path
  BY DEF Path, PathOf, HasVerbatimBoxes
<1>4. \A id : Item(id)' = Item(id)
  BY <1>1 DEF Item
<1>5. \A i : Standing(i)' = Standing(i)
  BY <1>1, <1>3 DEF Standing
<1>6. SourceOK => SourceOK'
  BY DEF SourceOK
<1>7. HasVerbatimBoxes' = HasVerbatimBoxes
  BY DEF HasVerbatimBoxes
<1>8. Flat' = Flat
  BY DEF Flat
<1>9. \A q : LabelOf(q)' = LabelOf(q)
  BY DEF LabelOf, HasLabels
<1>10. \A x : Labelled(x)' = Labelled(x)
  BY <1>9 DEF Labelled, LabelsOf
<1> QED
  BY <1>1, <1>2, <1>3, <1>4, <1>5, <1>6, <1>7, <1>8, <1>9, <1>10

LEMMA Transpiles ==
  ASSUME source' = source, options' = options, others' = others,
         Path = "extract" => Stashed(stash'),
         Path # "extract" => Path = "transpile" /\ BoxPlaces = {} /\ phase' = "transpile",
         Held(circuit', layout'),
         lost' \/ \A i \in DOMAIN source : Present(circuit', i),
         lost' => Path = "extract" /\ \E i \in BoxPlaces : ~Present(circuit', i),
         out' = << >>, measured' = << >>
  PROVE  TranspileInv'
<1>1. /\ BoxPlaces' = BoxPlaces /\ Path' = Path
      /\ \A i : Standing(i)' = Standing(i)
  BY SourceKept
<1>2. Path' = "extract" => Stashed(stash)'
  BY <1>1 DEF Stashed
<1>3. Held(circuit, layout)'
  <2>1. {LaidBy(layout', Standing(i)') : i \in DOMAIN source'}
          = {LaidBy(layout', Standing(i)) : i \in DOMAIN source}
    BY <1>1
  <2> QED
    BY <2>1 DEF Held
<1> QED
  BY <1>1, <1>2, <1>3 DEF TranspileInv, Present

-----------------------------------------------------------------------------
(* The circuit as the translation gets it.                                 *)
Arrives(c, lay) ==
  Coming(c, lay) /\ \A id \in ItemIds : \E a \in DOMAIN c : c[a].id = id

LEMMA Starts ==
  ASSUME source' = source, options' = options, others' = others,
         Arrives(circuit', layout'), out' = << >>, measured' = << >>,
         phase' # "done"
  PROVE  TranslateInv'
<1>1. /\ ItemIds' = ItemIds /\ \A id : Item(id)' = Item(id)
  BY SourceKept
<1>2. Coming(circuit, layout)'
  <2>1. {LaidBy(layout', Item(id)') : id \in ItemIds'}
          = {LaidBy(layout', Item(id)) : id \in ItemIds}
    BY <1>1
  <2> QED
    BY <2>1 DEF Coming, Arrives
<1>3. DOMAIN out' = {} /\ DOMAIN measured' = {}
  OBVIOUS
<1>4. OutInOrder'
  <2>1. << >> \in Seq({Labelled(Laid(Item(id)))' : id \in ItemIds'})
    OBVIOUS
  <2> QED
    BY <1>3, <2>1 DEF OutInOrder
<1>5. NothingMissing'
  BY <1>1 DEF NothingMissing, Arrives, ToCome, At
<1>6. BitsWritten'
  BY <1>3, FS_EmptySet DEF BitsWritten
<1> QED
  BY <1>2, <1>4, <1>5, <1>6 DEF TranslateInv

(* Of a circuit without a box, what the transpiler gives back.             *)
LEMMA ArrivesUnboxed ==
  ASSUME SourceOK, BoxPlaces = {}, NEW c, NEW lay, Held(c, lay),
         \A i \in DOMAIN source : Present(c, i)
  PROVE  Arrives(c, lay)
<1>1. \A i \in DOMAIN source : <<i, 0>> \in ItemIds /\ Standing(i) = Item(<<i, 0>>)
  BY DEF ItemIds, Item, Standing
<1>2. \A id \in ItemIds : id = <<id[1], 0>> /\ id[1] \in DOMAIN source
  BY ItemFacts DEF ItemIds
<1>3. {LaidBy(lay, Standing(i)) : i \in DOMAIN source}
        = {LaidBy(lay, Item(id)) : id \in ItemIds}
  <2>1. \A i \in DOMAIN source :
          LaidBy(lay, Standing(i)) \in {LaidBy(lay, Item(id)) : id \in ItemIds}
    BY <1>1
  <2>2. \A id \in ItemIds :
          LaidBy(lay, Item(id)) \in {LaidBy(lay, Standing(i)) : i \in DOMAIN source}
    BY <1>1, <1>2
  <2> QED
    BY <2>1, <2>2
<1>4. Coming(c, lay)
  BY <1>3 DEF Held, Coming
<1>5. ASSUME NEW id \in ItemIds PROVE \E a \in DOMAIN c : c[a].id = id
  BY <1>2 DEF Present
<1> QED
  BY <1>4, <1>5 DEF Arrives

(* Of a circuit whose boxes were put in the place of their placeholders,   *)
(* or inlined at once.                                                     *)
LEMMA NearSources ==
  ASSUME SourceOK, NEW id \in ItemIds, NEW jd \in ItemIds,
         Independent(source[id[1]], source[jd[1]])
  PROVE  Independent(Item(id), Item(jd))
BY ItemFacts DEF Independent

LEMMA ArrivesJoined ==
  ASSUME SourceOK, NEW lay, lay = [q \in Qubit |-> q],
         NEW n \in Nat, NEW p \in [1..n -> DOMAIN source],
         \A i \in DOMAIN source : \E a \in 1..n : p[a] = i,
         \A a, e \in 1..n : p[a] = p[e] => a = e,
         \A a, e \in 1..n :
           a < e /\ ~Independent(source[p[a]], source[p[e]]) => p[a] < p[e]
  PROVE  Arrives(Joined(n, p), lay)
<1> DEFINE c == Joined(n, p)
<1>1. IsArranged(c, n, p)
  BY Arranged
<1> HIDE DEF c
<1>2. c \in Seq(Items) /\ DOMAIN c = 1..Len(c)
  BY <1>1 DEF IsArranged
<1>3. \A b \in DOMAIN c : c[b].id \in ItemIds /\ c[b] = Item(c[b].id)
  BY <1>1, <1>2 DEF IsArranged
<1>4. Items = {LaidBy(lay, Item(id)) : id \in ItemIds}
  <2>1. \A id \in ItemIds : LaidBy(lay, Item(id)) = Item(id)
    BY ItemFacts, LaidStays DEF IsInstruction
  <2> QED
    BY <2>1 DEF Items
<1>5. ASSUME NEW b \in DOMAIN c, NEW d \in DOMAIN c, b < d
      PROVE  /\ c[b].id # c[d].id
             /\ ~Independent(c[b], c[d]) => Before(c[b].id, c[d].id)
  <2>1. PICK a \in 1..n, e \in 1..n :
          /\ c[b].id[1] = p[a] /\ c[d].id[1] = p[e]
          /\ a < e \/ (a = e /\ c[b].id[2] < c[d].id[2])
    BY <1>1, <1>2, <1>5 DEF IsArranged
  <2>2. /\ c[b].id \in ItemIds /\ c[d].id \in ItemIds
        /\ c[b] = Item(c[b].id) /\ c[d] = Item(c[d].id)
    BY <1>3
  <2>3. /\ c[b].id[2] \in Nat /\ c[d].id[2] \in Nat /\ p[a] \in Nat /\ p[e] \in Nat
    BY <2>1, <2>2, ItemFacts
  <2>4. CASE a < e
    <3>1. p[a] # p[e]
      BY <2>4
    <3>2. ~Independent(c[b], c[d]) => p[a] < p[e]
      BY <2>1, <2>2, <2>4, NearSources
    <3> QED
      BY <2>1, <3>1, <3>2 DEF Before
  <2>5. CASE a = e /\ c[b].id[2] < c[d].id[2]
    BY <2>1, <2>3, <2>5 DEF Before
  <2> QED
    BY <2>1, <2>4, <2>5
<1>6. Once(c) /\ InOrder(c)
  BY <1>2, <1>5 DEF Once, InOrder
<1>7. \A id \in ItemIds : \E b \in DOMAIN c : c[b].id = id
  BY <1>1, <1>2, ItemFacts DEF IsArranged
<1>8. Coming(c, lay)
  BY <1>2, <1>4, <1>6 DEF Coming
<1> QED
  BY <1>7, <1>8 DEF Arrives, c

LEMMA HeldFacts ==
  ASSUME SourceOK, NEW c, NEW lay \in [Qubit -> Qubit], Held(c, lay)
  PROVE  /\ DOMAIN c = 1..Len(c) /\ Len(c) \in Nat
         /\ \A a \in DOMAIN c :
              /\ c[a].id[1] \in DOMAIN source /\ c[a].id = <<c[a].id[1], 0>>
              /\ c[a] = LaidBy(lay, Standing(c[a].id[1]))
              /\ IsPlaceholder(c[a]) <=> Path = "extract" /\ c[a].id[1] \in BoxPlaces
              /\ IsPlaceholder(c[a]) =>
                   c[a].label = PlaceholderLabel(source, c[a].id[1])
              /\ c[a].op = "placeholder" <=> Path = "extract" /\ c[a].id[1] \in BoxPlaces
<1>1. c \in Seq({LaidBy(lay, Standing(i)) : i \in DOMAIN source})
  BY DEF Held
<1>2. DOMAIN c = 1..Len(c) /\ Len(c) \in Nat
  BY <1>1
<1>3. ASSUME NEW a \in DOMAIN c
      PROVE  /\ c[a].id[1] \in DOMAIN source /\ c[a].id = <<c[a].id[1], 0>>
             /\ c[a] = LaidBy(lay, Standing(c[a].id[1]))
             /\ IsPlaceholder(c[a]) <=> Path = "extract" /\ c[a].id[1] \in BoxPlaces
             /\ IsPlaceholder(c[a]) => c[a].label = PlaceholderLabel(source, c[a].id[1])
             /\ c[a].op = "placeholder" <=> Path = "extract" /\ c[a].id[1] \in BoxPlaces
  <2>1. PICK i \in DOMAIN source : c[a] = LaidBy(lay, Standing(i))
    <3>1. c[a] \in {LaidBy(lay, Standing(i)) : i \in DOMAIN source}
      BY <1>1, <1>2
    <3> QED
      BY <3>1
  <2> DEFINE x == Standing(i)
  <2>2. /\ x.id = <<i, 0>> /\ x.qs \in Seq(Qubit)
        /\ IsPlaceholder(x) <=> Path = "extract" /\ i \in BoxPlaces
        /\ x.op = "placeholder" <=> Path = "extract" /\ i \in BoxPlaces
        /\ IsPlaceholder(x) => x.label = PlaceholderLabel(source, i)
    BY StandingFacts
  <2> HIDE DEF x
  <2>3. LaidBy(lay, x).id = x.id /\ LaidBy(lay, x).op = x.op /\ LaidBy(lay, x).label = x.label
    BY <2>2, LaidFacts
  <2>4. c[a].id = <<i, 0>> /\ c[a].op = x.op /\ c[a].label = x.label
    BY <2>1, <2>2, <2>3 DEF x
  <2>5. c[a].id[1] = i
    BY <2>4
  <2> QED
    BY <2>1, <2>2, <2>4, <2>5 DEF IsPlaceholder
<1> QED
  BY <1>2, <1>3

(* Placeholders and boxes find each other, unless one was lost.            *)
LEMMA RestoresBoxes ==
  ASSUME SourceOK, Path = "extract", Stashed(stash),
         NEW lay, lay = [q \in Qubit |-> q], NEW c, Held(c, lay)
  PROVE  /\ CanRestore(c) <=> \A i \in BoxPlaces : Present(c, i)
         /\ (\A i \in DOMAIN source : Present(c, i)) => Arrives(Restored(c), lay)
<1>1. lay \in [Qubit -> Qubit]
  OBVIOUS
<1>2. DOMAIN c = 1..Len(c) /\ Len(c) \in Nat
  BY <1>1, HeldFacts
<1>3. \A a \in DOMAIN c :
        /\ c[a].id[1] \in DOMAIN source /\ c[a].id = <<c[a].id[1], 0>>
        /\ c[a] = LaidBy(lay, Standing(c[a].id[1]))
        /\ IsPlaceholder(c[a]) <=> c[a].id[1] \in BoxPlaces
        /\ IsPlaceholder(c[a]) => c[a].label = PlaceholderLabel(source, c[a].id[1])
  BY <1>1, HeldFacts
<1>4. \A a \in Placeholders(c) :
        /\ a \in DOMAIN c /\ c[a].id[1] \in BoxPlaces /\ c[a].id = <<c[a].id[1], 0>>
        /\ LabelAt(c, a) = PlaceholderLabel(source, c[a].id[1])
  BY <1>3 DEF Placeholders, LabelAt
<1>5. \A i \in BoxPlaces : PlaceholderLabel(source, i) \in DOMAIN stash
  BY DEF Stashed
<1>6. ASSUME NEW a \in Placeholders(c), NEW e \in Placeholders(c),
             LabelAt(c, a) = LabelAt(c, e)
      PROVE  a = e
  <2>1. c[a].id[1] = c[e].id[1]
    BY <1>4, <1>6, PlaceholdersDiffer
  <2>2. c[a].id = c[e].id
    BY <1>4, <2>1
  <2> QED
    BY <1>4, <2>2 DEF Held, Once
<1>7. LeftOver(c) = {} <=> \A i \in BoxPlaces : Present(c, i)
  <2>1. ASSUME NEW i \in BoxPlaces
        PROVE  PlaceholderLabel(source, i) \in {LabelAt(c, a) : a \in Placeholders(c)}
                 <=> Present(c, i)
    <3>1. ASSUME NEW a \in Placeholders(c), PlaceholderLabel(source, i) = LabelAt(c, a)
          PROVE  Present(c, i)
      <4>1. c[a].id[1] = i
        BY <1>4, <3>1, PlaceholdersDiffer
      <4> QED
        BY <1>4, <4>1 DEF Present
    <3>2. ASSUME NEW a \in DOMAIN c, c[a].id = <<i, 0>>
          PROVE  a \in Placeholders(c) /\ PlaceholderLabel(source, i) = LabelAt(c, a)
      <4>1. c[a].id[1] = i
        BY <3>2
      <4>2. a \in Placeholders(c)
        BY <1>3, <4>1 DEF Placeholders
      <4> QED
        BY <1>4, <4>1, <4>2
    <3> QED
      BY <3>1, <3>2 DEF Present
  <2>2. DOMAIN stash = {PlaceholderLabel(source, i) : i \in BoxPlaces}
    BY DEF Stashed
  <2> QED
    BY <2>1, <2>2 DEF LeftOver
<1>8. CanRestore(c) <=> \A i \in BoxPlaces : Present(c, i)
  BY <1>4, <1>5, <1>6, <1>7 DEF CanRestore
<1>9. ASSUME \A i \in DOMAIN source : Present(c, i)
      PROVE  Arrives(Restored(c), lay)
  <2> DEFINE n == Len(c)
             p == [a \in 1..n |-> c[a].id[1]]
             P(a) == IF IsPlaceholder(c[a])
                       THEN Placed(c[a], stash[LabelAt(c, a)]) ELSE <<c[a]>>
  <2>1. n \in Nat /\ DOMAIN c = 1..n /\ p \in [1..n -> DOMAIN source]
    BY <1>2, <1>3
  <2>2. \A a \in 1..n : p[a] = c[a].id[1] /\ c[a].id = <<p[a], 0>>
    BY <1>2, <1>3
  <2>3. ASSUME NEW a \in 1..n PROVE P(a) = Content(p[a])
    <3> DEFINE x == Standing(p[a])
    <3>1. /\ x.qs = source[p[a]].qs /\ x.cs = source[p[a]].cs
          /\ Whole(x) /\ x.qs \in Seq(Qubit)
          /\ p[a] \notin BoxPlaces => x = source[p[a]]
      BY <2>1, StandingFacts
    <3>2. LaidBy(lay, x) = x
      BY <3>1, LaidStays
    <3>3. c[a] = x /\ a \in DOMAIN c
      BY <1>3, <2>1, <2>2, <3>2
    <3> HIDE DEF x
    <3>4. CASE p[a] \in BoxPlaces
      <4>1. IsPlaceholder(c[a]) /\ LabelAt(c, a) = PlaceholderLabel(source, p[a])
        BY <1>3, <2>1, <2>2, <3>4 DEF LabelAt
      <4>2. stash[LabelAt(c, a)] = source[p[a]].body
        BY <3>4, <4>1 DEF Stashed
      <4>3. Placed(c[a], source[p[a]].body) = Placed(source[p[a]], source[p[a]].body)
        BY <3>1, <3>3 DEF Placed
      <4> QED
        BY <3>4, <4>1, <4>2, <4>3 DEF Content
    <3>5. CASE p[a] \notin BoxPlaces
      <4>1. ~IsPlaceholder(c[a])
        BY <1>3, <2>1, <2>2, <3>5
      <4> QED
        BY <3>1, <3>3, <3>5, <4>1 DEF Content
    <3> QED
      BY <3>4, <3>5
  <2>4. Restored(c) = Joined(n, p)
    <3>1. [a \in DOMAIN c |-> P(a)] = [a \in 1..n |-> Content(p[a])]
      BY <2>1, <2>3
    <3> QED
      BY <3>1 DEF Restored, Joined
  <2> HIDE DEF p, n
  <2>5. \A i \in DOMAIN source : \E a \in 1..n : p[a] = i
    <3> TAKE i \in DOMAIN source
    <3>1. PICK a \in DOMAIN c : c[a].id = <<i, 0>>
      BY <1>9 DEF Present
    <3>2. <<p[a], 0>> = <<i, 0>>
      BY <2>1, <2>2, <3>1
    <3> QED
      BY <2>1, <3>2
  <2>6. ASSUME NEW a \in 1..n, NEW e \in 1..n, p[a] = p[e] PROVE a = e
    <3>1. c[a].id = c[e].id
      BY <2>2, <2>6
    <3> QED
      BY <2>1, <3>1 DEF Held, Once
  <2>7. ASSUME NEW a \in 1..n, NEW e \in 1..n, a < e,
               ~Independent(source[p[a]], source[p[e]])
        PROVE  p[a] < p[e]
    <3>1. \A b \in 1..n :
            LET x == Standing(p[b])
            IN /\ x.qs = source[p[b]].qs /\ x.cs = source[p[b]].cs
               /\ Whole(x) /\ x.qs \in Seq(Qubit)
      BY <2>1, StandingFacts
    <3>2. \A b \in 1..n : LaidBy(lay, Standing(p[b])) = Standing(p[b])
      BY <3>1, LaidStays
    <3>3. ASSUME NEW b \in 1..n
          PROVE  c[b].qs = source[p[b]].qs /\ c[b].cs = source[p[b]].cs
      <4>1. c[b].id[1] = p[b] /\ b \in DOMAIN c
        BY <2>1, <2>2
      <4>2. c[b] = Standing(p[b])
        BY <1>3, <3>2, <4>1
      <4> QED
        BY <3>1, <4>2
    <3>4. ~Independent(c[a], c[e])
      BY <2>7, <3>3 DEF Independent
    <3>5. Before(c[a].id, c[e].id)
      BY <2>1, <2>7, <3>4 DEF Held, InOrder
    <3>6. Before(<<p[a], 0>>, <<p[e], 0>>)
      BY <2>2, <3>5
    <3> QED
      BY <3>6 DEF Before
  <2>8. Arrives(Joined(n, p), lay)
    BY <2>1, <2>5, <2>6, <2>7, ArrivesJoined
  <2> QED
    BY <2>4, <2>8
<1> QED
  BY <1>8, <1>9

LEMMA FlatArrives ==
  ASSUME SourceOK, NEW lay, lay = [q \in Qubit |-> q]
  PROVE  Arrives(Flat, lay)
<1>1. \A b, d \in DOMAIN Flat :
        b < d => Before(Flat[b].id, Flat[d].id) /\ Flat[b].id # Flat[d].id
  BY FlatFacts, IdsInOrder
<1>2. DOMAIN Flat = 1..Len(Flat) /\ Flat \in Seq(Items)
  BY FlatFacts
<1>3. Once(Flat) /\ InOrder(Flat)
  BY <1>1, <1>2 DEF Once, InOrder
<1>4. Items = {LaidBy(lay, Item(id)) : id \in ItemIds}
  <2>1. \A id \in ItemIds : LaidBy(lay, Item(id)) = Item(id)
    BY ItemFacts, LaidStays DEF IsInstruction
  <2> QED
    BY <2>1 DEF Items
<1> QED
  BY <1>2, <1>3, <1>4, FlatFacts DEF Arrives, Coming

-----------------------------------------------------------------------------
(* The steps before the translation.                                       *)
LEMMA InitInv == Init => Inv
<1> SUFFICES ASSUME Init PROVE Inv
  OBVIOUS
<1>1. SourceOK
  <2>1. PICK n \in 0..MaxLength, c \in [1..MaxLength -> Statements] :
          source = Numbered(SubSeq(c, 1, n))
    BY DEF Init
  <2> DEFINE d == SubSeq(c, 1, n)
  <2>2. n \in Nat /\ n <= MaxLength
    BY MaxLengthAssumption
  <2>3. c \in Seq(Statements) /\ Len(c) = MaxLength
    BY MaxLengthAssumption
  <2>4. DOMAIN d = 1..n /\ \A i \in 1..n : d[i] = c[i] /\ i \in 1..MaxLength
    BY <2>2, <2>3, MaxLengthAssumption
  <2>5. \A i \in 1..n : IsStatement(d[i])
    BY <2>4, StatementsAssumption
  <2> HIDE DEF d
  <2> QED
    BY <2>1, <2>2, <2>4, <2>5, NumberedIsSource DEF d
<1>2. LayoutInv
  BY DEF Init, LayoutInv, IsInjective
<1> QED
  BY <1>1, <1>2 DEF Inv, Init, Phase, UntouchedInv, TranspileInv, TranslateInv,
                    RefusalHasAReason

LEMMA BoxesSeen == SourceOK => (HasVerbatimBoxes <=> others \/ BoxPlaces # {})
BY DEF HasVerbatimBoxes, BoxPlaces, Range

LEMMA CheckInv ==
  ASSUME Inv, CheckArguments
  PROVE  Inv'
<1>1. /\ SourceOK /\ LayoutInv /\ phase = "check"
      /\ circuit = source /\ layout = [q \in Qubit |-> q] /\ lost = FALSE
      /\ out = << >> /\ measured = << >>
  BY DEF Inv, CheckArguments, UntouchedInv
<1>2. /\ source' = source /\ options' = options /\ others' = others
      /\ circuit' = source /\ layout' = layout /\ lost' = FALSE
      /\ out' = << >> /\ measured' = << >>
      /\ phase' = IF Refused(source, options) THEN "raised" ELSE Path
  BY <1>1 DEF CheckArguments, given, emitted, Path
<1>3. SourceOK' /\ Path' = Path
  BY <1>1, <1>2, SourceKept
<1>4. LayoutInv'
  BY <1>1, <1>2, <1>3 DEF LayoutInv
<1>5. Path \in {"transpile", "inline", "extract"}
  BY DEF Path, PathOf
<1>6. CASE Refused(source, options)
  <2>1. phase' = "raised"
    BY <1>2, <1>6
  <2>2. RefusalHasAReason'
    BY <1>2, <1>6 DEF RefusalHasAReason, Refused, HasVerbatimBoxes
  <2> QED
    BY <1>3, <1>4, <2>1, <2>2 DEF Inv, Phase, UntouchedInv, TranspileInv, TranslateInv
<1>7. CASE ~Refused(source, options)
  <2>1. phase' = Path
    BY <1>2, <1>7
  <2>2. ~Refused(source, options)'
    BY <1>2, <1>7 DEF Refused, HasVerbatimBoxes
  <2>3. UntouchedInv'
    BY <1>1, <1>2, <1>3, <2>1, <2>2 DEF UntouchedInv
  <2>4. TranspileInv'
    <3>1. CASE Path = "transpile"
      <4>1. BoxPlaces = {}
        BY <1>1, <1>7, <3>1, BoxesSeen DEF Path, PathOf, Refused
      <4>2. source = [i \in DOMAIN source |-> Standing(i)]
        <5>1. source = [i \in DOMAIN source |-> source[i]]
          BY <1>1 DEF SourceOK
        <5> QED
          BY <5>1, <3>1 DEF Standing
      <4>3. Held(source, layout') /\ \A i \in DOMAIN source : Present(source, i)
        BY <1>1, <1>2, <4>2, HeldAtFirst
      <4> QED
        BY <1>2, <2>1, <3>1, <4>1, <4>3, Transpiles
    <3>2. CASE Path # "transpile"
      BY <1>5, <2>1, <3>2 DEF TranspileInv
    <3> QED
      BY <3>1, <3>2
  <2>5. phase' \in Phase /\ TranslateInv' /\ RefusalHasAReason'
    BY <1>5, <2>1 DEF Phase, TranslateInv, RefusalHasAReason
  <2> QED
    BY <1>3, <1>4, <2>3, <2>4, <2>5 DEF Inv
<1> QED
  BY <1>6, <1>7

LEMMA ExtractInv ==
  ASSUME Inv, Extract
  PROVE  Inv'
<1>1. /\ SourceOK /\ LayoutInv /\ phase = "extract" /\ Path = "extract"
      /\ circuit = source /\ layout = [q \in Qubit |-> q] /\ lost = FALSE
      /\ out = << >> /\ measured = << >>
  BY DEF Inv, Extract, UntouchedInv
<1>2. /\ source' = source /\ options' = options /\ others' = others
      /\ layout' = layout /\ lost' = FALSE /\ out' = << >> /\ measured' = << >>
  BY <1>1 DEF Extract, given, emitted
<1>3. SourceOK' /\ Path' = Path
  BY <1>1, <1>2, SourceKept
<1>4. LayoutInv'
  BY <1>1, <1>2, <1>3 DEF LayoutInv
<1>5. CASE \E x \in Range(source) : x.op = "barrier" /\ IsVerbatimLabel(x.label)
  <2>1. phase' = "raised"
    BY <1>1, <1>5 DEF Extract
  <2>2. RefusalHasAReason'
    BY <1>1, <1>2, <1>3, <1>5 DEF RefusalHasAReason, Path
  <2> QED
    BY <1>3, <1>4, <2>1, <2>2 DEF Inv, Phase, UntouchedInv, TranspileInv, TranslateInv
<1>6. CASE ~\E x \in Range(source) : x.op = "barrier" /\ IsVerbatimLabel(x.label)
  <2> DEFINE ls == {PlaceholderLabel(source, i) : i \in BoxPlaces}
             at(l) == CHOOSE i \in BoxPlaces :
                        /\ PlaceholderLabel(source, i) = l
                        /\ \A j \in BoxPlaces : PlaceholderLabel(source, j) = l => j <= i
  <2>1. /\ phase' = "transpile" /\ stash' = [l \in ls |-> source[at(l)].body]
        /\ circuit' = [i \in DOMAIN source |->
                         IF i \in BoxPlaces THEN Placeholder(source, i) ELSE source[i]]
    BY <1>1, <1>6 DEF Extract, BoxPlaces
  <2>2. circuit' = [i \in DOMAIN source |-> Standing(i)]
    BY <1>1, <2>1 DEF Standing
  <2>3. ASSUME NEW i \in BoxPlaces PROVE at(PlaceholderLabel(source, i)) = i
    <3> DEFINE l == PlaceholderLabel(source, i)
    <3>1. i \in Nat
      BY <1>1 DEF BoxPlaces, SourceOK
    <3>2. \A j \in BoxPlaces : PlaceholderLabel(source, j) = l => j = i
      BY <1>1, PlaceholdersDiffer
    <3> HIDE DEF l
    <3>3. /\ PlaceholderLabel(source, i) = l
          /\ \A j \in BoxPlaces : PlaceholderLabel(source, j) = l => j <= i
      BY <3>1, <3>2 DEF l
    <3> QED
      BY <3>2, <3>3 DEF l
  <2> HIDE DEF at
  <2>4. \A i \in BoxPlaces : PlaceholderLabel(source, i) \in ls
    OBVIOUS
  <2>5. Stashed(stash')
    BY <2>1, <2>3, <2>4 DEF Stashed
  <2>6. Held(circuit', layout') /\ \A i \in DOMAIN source : Present(circuit', i)
    BY <1>1, <1>2, <2>2, HeldAtFirst
  <2>7. TranspileInv'
    BY <1>1, <1>2, <2>5, <2>6, Transpiles
  <2>8. phase' \in Phase /\ UntouchedInv' /\ TranslateInv' /\ RefusalHasAReason'
    BY <2>1 DEF Phase, UntouchedInv, TranslateInv, RefusalHasAReason
  <2> QED
    BY <1>3, <1>4, <2>7, <2>8 DEF Inv
<1> QED
  BY <1>5, <1>6

LEMMA LayOutKeepsInv ==
  ASSUME Inv, LayOut
  PROVE  Inv'
<1>1. /\ SourceOK /\ phase = "transpile" /\ layout = [q \in Qubit |-> q]
      /\ Held(circuit, layout) /\ out = << >> /\ measured = << >> /\ BoxPlaces = {}
      /\ lost \/ \A i \in DOMAIN source : Present(circuit, i)
      /\ lost => Path = "extract" /\ \E i \in BoxPlaces : ~Present(circuit, i)
  BY BoxesSeen DEF Inv, LayOut, TranspileInv, FreeLayout
<1>2. /\ source' = source /\ options' = options /\ others' = others
      /\ lost' = lost /\ out' = out /\ measured' = measured /\ phase' = "transpile"
      /\ stash' = stash
      /\ layout' \in [Qubit -> Qubit] /\ IsInjective(layout')
      /\ circuit' = [i \in DOMAIN circuit |->
                      [circuit[i] EXCEPT !.qs = [k \in DOMAIN @ |-> layout'[@[k]]]]]
  BY <1>1 DEF LayOut, given, emitted
<1>3. SourceOK' /\ Path' = Path
  BY <1>1, <1>2, SourceKept
<1>4. Path = "transpile"
  <2>1. Path # "extract"
    BY DEF LayOut, FreeLayout, Path, PathOf
  <2> QED
    BY <1>1, <2>1 DEF Inv, TranspileInv
<1>5. LayoutInv'
  BY <1>2, <1>3, <1>4 DEF LayoutInv
<1>6. layout \in [Qubit -> Qubit] /\ IsInjective(layout)
  BY <1>1 DEF IsInjective
<1>7. DOMAIN circuit = 1..Len(circuit) /\ Len(circuit) \in Nat
  BY <1>1, <1>6, HeldFacts
<1>8. ASSUME NEW a \in DOMAIN circuit
      PROVE  LET x == Standing(circuit[a].id[1])
             IN /\ circuit[a] = x /\ circuit'[a] = LaidBy(layout', x)
                /\ circuit[a].id[1] \in DOMAIN source
                /\ x.qs \in Seq(Qubit) /\ circuit'[a].id = x.id
  <2> DEFINE i == circuit[a].id[1]
             x == Standing(i)
  <2>1. i \in DOMAIN source /\ circuit[a] = LaidBy(layout, x)
    BY <1>1, <1>6, HeldFacts
  <2>2. Whole(x) /\ x.qs \in Seq(Qubit)
    BY <1>1, <2>1, StandingFacts
  <2> HIDE DEF x, i
  <2>3. circuit[a] = x
    BY <1>1, <2>1, <2>2, LaidStays
  <2> DEFINE qs == [k \in DOMAIN x.qs |-> layout'[x.qs[k]]]
  <2>4. circuit'[a] = [x EXCEPT !.qs = qs]
    BY <1>2, <2>3
  <2>5. LaidBy(layout', x) = OnQubits(x, qs)
    BY DEF LaidBy
  <2> HIDE DEF qs
  <2>6. circuit'[a] = LaidBy(layout', x)
    BY <2>2, <2>4, <2>5, QubitsReplaced
  <2>7. circuit'[a].id = x.id
    BY <2>5, <2>6, Fields
  <2> QED
    BY <2>1, <2>2, <2>3, <2>6, <2>7 DEF x, i
<1>9. DOMAIN circuit' = DOMAIN circuit
  BY <1>2
<1>10. Held(circuit', layout')
  <2>1. circuit' \in Seq({LaidBy(layout', Standing(i)) : i \in DOMAIN source})
    <3>1. \A a \in DOMAIN circuit :
            circuit'[a] \in {LaidBy(layout', Standing(i)) : i \in DOMAIN source}
      BY <1>8
    <3>2. circuit' = [a \in 1..Len(circuit) |-> circuit'[a]]
      BY <1>2, <1>7
    <3> QED
      BY <1>7, <3>1, <3>2
  <2>2. Once(circuit')
    BY <1>1, <1>8, <1>9 DEF Held, Once
  <2>3. ASSUME NEW a \in DOMAIN circuit, NEW b \in DOMAIN circuit,
               a < b, ~Independent(circuit'[a], circuit'[b])
        PROVE  Before(circuit'[a].id, circuit'[b].id)
    <3> DEFINE x == Standing(circuit[a].id[1])
               y == Standing(circuit[b].id[1])
    <3>1. /\ circuit[a] = x /\ circuit'[a] = LaidBy(layout', x) /\ x.qs \in Seq(Qubit)
          /\ circuit[b] = y /\ circuit'[b] = LaidBy(layout', y) /\ y.qs \in Seq(Qubit)
          /\ circuit'[a].id = x.id /\ circuit'[b].id = y.id
      BY <1>8
    <3> HIDE DEF x, y
    <3>2. ~Independent(circuit[a], circuit[b])
      BY <1>2, <2>3, <3>1, LaidShare
    <3> QED
      BY <1>1, <2>3, <3>1, <3>2 DEF Held, InOrder
  <2> QED
    BY <1>9, <2>1, <2>2, <2>3 DEF Held, InOrder
<1>11. \A i \in DOMAIN source : Present(circuit, i) => Present(circuit', i)
  BY <1>8, <1>9 DEF Present
<1>12. TranspileInv'
  BY <1>1, <1>2, <1>4, <1>10, <1>11, Transpiles
<1>13. phase' \in Phase /\ UntouchedInv' /\ TranslateInv' /\ RefusalHasAReason'
  BY <1>2 DEF Phase, UntouchedInv, TranslateInv, RefusalHasAReason
<1> QED
  BY <1>3, <1>5, <1>12, <1>13 DEF Inv

(* A circuit made of another's instructions, at places that keep the order *)
(* of those that share a wire.                                             *)
Moved(d, c, n, p) ==
  /\ n \in Nat /\ (\E T : d \in Seq(T)) /\ Len(d) = n
  /\ \A a \in 1..n : p[a] \in DOMAIN c /\ d[a] = c[p[a]]
  /\ \A a, b \in 1..n : p[a] = p[b] => a = b
  /\ \A a, b \in 1..n : a < b /\ ~Independent(c[p[a]], c[p[b]]) => p[a] < p[b]

LEMMA HeldMoved ==
  ASSUME NEW c, NEW lay, Held(c, lay), NEW n, NEW p, NEW d, Moved(d, c, n, p)
  PROVE  Held(d, lay)
<1> DEFINE S == {LaidBy(lay, Standing(i)) : i \in DOMAIN source}
<1>1. c \in Seq(S) /\ Once(c) /\ InOrder(c)
  BY DEF Held
<1> HIDE DEF S
<1>2. \A a \in 1..n : d[a] = c[p[a]] /\ p[a] \in DOMAIN c /\ c[p[a]] \in S
  BY <1>1 DEF Moved
<1>3. d \in Seq(S) /\ DOMAIN d = 1..n
  BY <1>2 DEF Moved
<1>4. Once(d)
  BY <1>1, <1>2, <1>3 DEF Once, Moved
<1>5. InOrder(d)
  BY <1>1, <1>2, <1>3 DEF InOrder, Moved
<1> QED
  BY <1>3, <1>4, <1>5 DEF Held, S

LEMMA ExchangeInv ==
  ASSUME Inv, Exchange
  PROVE  Inv'
<1>1. /\ SourceOK /\ phase = "transpile" /\ LayoutInv /\ TranspileInv
      /\ Held(circuit, layout) /\ out = << >> /\ measured = << >>
  BY DEF Inv, Exchange, TranspileInv
<1>2. /\ source' = source /\ options' = options /\ others' = others /\ layout' = layout
      /\ lost' = lost /\ out' = << >> /\ measured' = << >> /\ phase' = "transpile"
      /\ stash' = stash
  BY <1>1 DEF Exchange, given, emitted
<1>3. SourceOK' /\ Path' = Path
  BY <1>1, <1>2, SourceKept
<1>4. LayoutInv'
  BY <1>1, <1>2, <1>3 DEF LayoutInv
<1>5. DOMAIN circuit = 1..Len(circuit) /\ Len(circuit) \in Nat
  BY <1>1, HeldFacts DEF LayoutInv
<1>6. PICK i \in 1..(Len(circuit) - 1) :
        /\ Independent(circuit[i], circuit[i + 1])
        /\ circuit' = [circuit EXCEPT ![i] = circuit[i + 1], ![i + 1] = circuit[i]]
  BY DEF Exchange
<1> DEFINE n == Len(circuit)
           p == [a \in 1..n |-> IF a = i THEN i + 1 ELSE IF a = i + 1 THEN i ELSE a]
<1>7. i \in 1..n /\ i + 1 \in 1..n /\ i \in Nat
  BY <1>5
<1>8. p \in [1..n -> 1..n] /\ \A a \in 1..n : p[p[a]] = a
  BY <1>5, <1>7
<1>9. \A a, b \in 1..n : a < b => p[a] < p[b] \/ (a = i /\ b = i + 1)
  BY <1>5, <1>7
<1>10. /\ circuit' \in Seq({circuit[a] : a \in 1..n}) /\ Len(circuit') = n
       /\ DOMAIN circuit' = 1..n /\ \A a \in 1..n : circuit'[a] = circuit[p[a]]
  <2>1. DOMAIN circuit' = 1..n
    BY <1>5, <1>6
  <2>2. \A a \in 1..n :
          circuit'[a] = IF a = i + 1 THEN circuit[i]
                        ELSE IF a = i THEN circuit[i + 1] ELSE circuit[a]
    BY <1>5, <1>6, <1>7
  <2>3. circuit' = [a \in 1..n |-> circuit'[a]]
    BY <1>5, <1>6
  <2>4. \A a \in 1..n : circuit'[a] = circuit[p[a]] /\ p[a] \in 1..n
    BY <1>7, <1>8, <2>2
  <2> HIDE DEF p
  <2> DEFINE T == {circuit[e] : e \in 1..n}
  <2>5. \A a \in 1..n : circuit'[a] \in T
    BY <2>4
  <2> HIDE DEF T
  <2>6. circuit' \in [1..n -> T] /\ n \in Nat
    BY <1>5, <2>3, <2>5
  <2> HIDE DEF n
  <2>7. circuit' \in Seq(T) /\ Len(circuit') = n
    BY <2>6
  <2> QED
    BY <2>1, <2>4, <2>7 DEF T
<1>11. p[i] = i + 1 /\ p[i + 1] = i
  BY <1>7
<1> HIDE DEF p, n
<1>12. \A a, b \in 1..n : a < b /\ ~Independent(circuit[p[a]], circuit[p[b]]) => p[a] < p[b]
  BY <1>6, <1>9, <1>11 DEF Independent
<1>13. n \in Nat /\ DOMAIN circuit = 1..n
  BY <1>5 DEF n
<1>14. Held(circuit', layout')
  <2>1. \A a \in 1..n : p[a] \in DOMAIN circuit
    BY <1>8, <1>13
  <2>2. \A a, b \in 1..n : p[a] = p[b] => a = b
    BY <1>8
  <2>3. Moved(circuit', circuit, n, p)
    BY <1>10, <1>12, <1>13, <2>1, <2>2 DEF Moved
  <2> QED
    BY <1>1, <1>2, <2>3, HeldMoved
<1>15. \A k \in DOMAIN source : Present(circuit', k) <=> Present(circuit, k)
  <2>1. \A a \in 1..n : p[a] \in 1..n /\ circuit'[a] = circuit[p[a]] /\ circuit[a] = circuit'[p[a]]
    BY <1>8, <1>10
  <2>2. DOMAIN circuit' = 1..n
    BY <1>10
  <2> TAKE k \in DOMAIN source
  <2>3. ASSUME NEW a \in 1..n, circuit'[a].id = <<k, 0>> PROVE Present(circuit, k)
    <3>1. p[a] \in DOMAIN circuit /\ circuit[p[a]].id = <<k, 0>>
      BY <1>13, <2>1, <2>3
    <3> QED
      BY <3>1 DEF Present
  <2>4. ASSUME NEW a \in 1..n, circuit[a].id = <<k, 0>> PROVE Present(circuit', k)
    <3>1. p[a] \in DOMAIN circuit' /\ circuit'[p[a]].id = <<k, 0>>
      BY <2>1, <2>2, <2>4
    <3> QED
      BY <3>1 DEF Present
  <2> QED
    BY <1>13, <2>2, <2>3, <2>4 DEF Present
<1>16. \A k \in BoxPlaces : k \in DOMAIN source
  BY DEF BoxPlaces
<1>17. TranspileInv'
  BY <1>1, <1>2, <1>14, <1>15, <1>16, Transpiles DEF TranspileInv
<1>18. phase' \in Phase /\ UntouchedInv' /\ TranslateInv' /\ RefusalHasAReason'
  BY <1>2 DEF Phase, UntouchedInv, TranslateInv, RefusalHasAReason
<1> QED
  BY <1>3, <1>4, <1>17, <1>18 DEF Inv

LEMMA LoseInv ==
  ASSUME Inv, LosePlaceholder
  PROVE  Inv'
<1>1. /\ SourceOK /\ phase = "transpile" /\ LayoutInv /\ TranspileInv
      /\ Held(circuit, layout) /\ out = << >> /\ measured = << >>
  BY DEF Inv, LosePlaceholder, TranspileInv
<1>2. /\ source' = source /\ options' = options /\ others' = others /\ layout' = layout
      /\ lost' = TRUE /\ out' = << >> /\ measured' = << >> /\ phase' = "transpile"
      /\ stash' = stash
  BY <1>1 DEF LosePlaceholder, given, emitted
<1>3. SourceOK' /\ Path' = Path
  BY <1>1, <1>2, SourceKept
<1>4. LayoutInv'
  BY <1>1, <1>2, <1>3 DEF LayoutInv
<1>5. DOMAIN circuit = 1..Len(circuit) /\ Len(circuit) \in Nat
  BY <1>1, HeldFacts DEF LayoutInv
<1>6. PICK i \in DOMAIN circuit :
        circuit[i].op = "placeholder" /\ circuit' = RemoveAt(circuit, i)
  BY DEF LosePlaceholder
<1>7. /\ Path = "extract" /\ circuit[i].id[1] \in BoxPlaces
      /\ circuit[i].id = <<circuit[i].id[1], 0>>
  BY <1>1, <1>6, HeldFacts DEF LayoutInv
<1> DEFINE n == Len(circuit) - 1
           p == [a \in 1..n |-> IF a < i THEN a ELSE a + 1]
<1>8. i \in Nat /\ i \in 1..Len(circuit) /\ n \in Nat
  BY <1>5
<1>9. \E T : /\ circuit' \in Seq(T) /\ Len(circuit') = n
             /\ \A a \in 1..n : circuit'[a] = circuit[p[a]]
  <2> DEFINE S == {LaidBy(layout, Standing(k)) : k \in DOMAIN source}
             c == circuit
             s == SubSeq(c, 1, i - 1)
             t == SubSeq(c, i + 1, Len(c))
  <2>1. c \in Seq(S)
    BY <1>1 DEF Held
  <2> HIDE DEF S, c
  <2>2. i \in 1..Len(c) /\ Len(c) \in Nat
    BY <1>5 DEF c
  <2>3. /\ s \in Seq(S) /\ t \in Seq(S)
        /\ Len(s) = i - 1 /\ Len(t) = Len(c) - i
        /\ \A a \in 1..(i - 1) : s[a] = c[a]
        /\ \A a \in 1..(Len(c) - i) : t[a] = c[i + a]
    BY <2>1, <2>2
  <2> HIDE DEF s, t
  <2>4. s \o t \in Seq(S) /\ Len(s \o t) = Len(c) - 1
    BY <2>2, <2>3
  <2>7. ASSUME NEW a \in 1..(Len(c) - 1)
        PROVE  (s \o t)[a] = c[IF a < i THEN a ELSE a + 1]
    <3>1. (s \o t)[a] = IF a <= i - 1 THEN s[a] ELSE t[a - (i - 1)]
      BY <2>2, <2>3
    <3>2. CASE a < i
      <4>1. a \in 1..(i - 1)
        BY <2>2, <3>2
      <4> QED
        BY <2>3, <3>1, <3>2, <4>1
    <3>3. CASE ~(a < i)
      <4>1. a - (i - 1) \in 1..(Len(c) - i) /\ ~(a <= i - 1) /\ i + (a - (i - 1)) = a + 1
        BY <2>2, <3>3
      <4> QED
        BY <2>3, <3>1, <3>3, <4>1
    <3> QED
      BY <3>2, <3>3
  <2>10. circuit' = s \o t
    BY <1>6 DEF RemoveAt, s, t, c
  <2> QED
    BY <2>4, <2>7, <2>10 DEF c
<1>10. /\ p \in [1..n -> 1..Len(circuit)] /\ \A a \in 1..n : p[a] # i
       /\ \A a, b \in 1..n : a < b => p[a] < p[b]
       /\ \A a, b \in 1..n : p[a] = p[b] => a = b
       /\ \A b \in 1..Len(circuit) : b # i => \E a \in 1..n : p[a] = b
  <2>1. p \in [1..n -> 1..Len(circuit)] /\ \A a \in 1..n : p[a] # i
    BY <1>5, <1>8
  <2>2. \A a, b \in 1..n : a < b => p[a] < p[b]
    BY <1>5, <1>8
  <2>3. \A a, b \in 1..n : p[a] = p[b] => a = b
    BY <1>5, <1>8
  <2>4. ASSUME NEW b \in 1..Len(circuit), b # i PROVE \E a \in 1..n : p[a] = b
    <3>1. CASE b < i
      <4>1. b \in 1..n /\ p[b] = b
        BY <1>5, <1>8, <3>1
      <4> QED
        BY <4>1
    <3>2. CASE b > i
      <4>1. b - 1 \in 1..n /\ ~(b - 1 < i) /\ (b - 1) + 1 = b
        BY <1>5, <1>8, <3>2
      <4>2. p[b - 1] = b
        BY <4>1
      <4> QED
        BY <4>1, <4>2
    <3> QED
      BY <1>8, <2>4, <3>1, <3>2
  <2> QED
    BY <2>1, <2>2, <2>3, <2>4
<1> HIDE DEF p, n
<1>11. Held(circuit', layout')
  <2>1. \A a \in 1..n : p[a] \in DOMAIN circuit
    BY <1>5, <1>10
  <2>2. \A a, b \in 1..n : a < b /\ ~Independent(circuit[p[a]], circuit[p[b]]) => p[a] < p[b]
    BY <1>10
  <2>3. Moved(circuit', circuit, n, p)
    BY <1>8, <1>9, <1>10, <2>1, <2>2 DEF Moved
  <2> QED
    BY <1>1, <1>2, <2>3, HeldMoved
<1>12. DOMAIN circuit' = 1..n /\ \A a \in 1..n : circuit'[a] = circuit[p[a]]
  BY <1>9
<1>13. ~Present(circuit', circuit[i].id[1])
  <2> SUFFICES ASSUME NEW a \in 1..n, circuit'[a].id = <<circuit[i].id[1], 0>>
               PROVE  FALSE
    BY <1>12 DEF Present
  <2>1. circuit[p[a]].id = circuit[i].id
    BY <1>7, <1>12
  <2>2. p[a] \in DOMAIN circuit /\ p[a] # i
    BY <1>5, <1>10
  <2> QED
    BY <1>1, <2>1, <2>2 DEF Held, Once
<1>14. TranspileInv'
  BY <1>1, <1>2, <1>7, <1>11, <1>13, Transpiles DEF TranspileInv
<1>15. phase' \in Phase /\ UntouchedInv' /\ TranslateInv' /\ RefusalHasAReason'
  BY <1>2 DEF Phase, UntouchedInv, TranslateInv, RefusalHasAReason
<1> QED
  BY <1>3, <1>4, <1>14, <1>15 DEF Inv

LEMMA EndTranspilerInv ==
  ASSUME Inv, EndTranspiler
  PROVE  Inv'
<1>1. /\ SourceOK /\ phase = "transpile" /\ LayoutInv /\ TranspileInv
      /\ Held(circuit, layout) /\ out = << >> /\ measured = << >>
  BY DEF Inv, EndTranspiler, TranspileInv
<1>2. /\ source' = source /\ options' = options /\ others' = others /\ layout' = layout
      /\ circuit' = circuit /\ lost' = lost /\ stash' = stash
      /\ out' = << >> /\ measured' = << >>
      /\ phase' = IF ~options.pass_manager /\ HasVerbatimBoxes THEN "restore"
                                                              ELSE "translate"
  BY <1>1 DEF EndTranspiler, given, emitted
<1>3. SourceOK' /\ Path' = Path
  BY <1>1, <1>2, SourceKept
<1>4. LayoutInv'
  BY <1>1, <1>2, <1>3 DEF LayoutInv
<1>5. phase' \in Phase /\ UntouchedInv' /\ RefusalHasAReason' /\ phase' # "done"
  BY <1>2 DEF Phase, UntouchedInv, RefusalHasAReason
<1>6. CASE Path = "extract"
  <2>1. phase' = "restore"
    BY <1>2, <1>6 DEF Path, PathOf
  <2>2. TranspileInv'
    BY <1>1, <1>2, <1>6, Transpiles DEF TranspileInv
  <2>3. TranslateInv'
    BY <2>1 DEF TranslateInv
  <2> QED
    BY <1>3, <1>4, <1>5, <2>2, <2>3 DEF Inv
<1>7. CASE Path # "extract"
  <2>1. BoxPlaces = {} /\ Path = "transpile" /\ ~lost
        /\ \A i \in DOMAIN source : Present(circuit, i)
    BY <1>1, <1>7 DEF TranspileInv
  <2>2. phase' = "translate"
    BY <1>2, <2>1 DEF Path, PathOf
  <2>3. TranspileInv'
    BY <2>2 DEF TranspileInv
  <2>4. TranslateInv'
    BY <1>1, <1>2, <1>5, <2>1, ArrivesUnboxed, Starts
  <2> QED
    BY <1>3, <1>4, <1>5, <2>3, <2>4 DEF Inv
<1> QED
  BY <1>6, <1>7

LEMMA RestoreInv ==
  ASSUME Inv, Restore
  PROVE  Inv'
<1>1. /\ SourceOK /\ phase = "restore" /\ LayoutInv /\ TranspileInv
      /\ Held(circuit, layout) /\ out = << >> /\ measured = << >>
      /\ Path = "extract" /\ Stashed(stash)
      /\ lost \/ \A i \in DOMAIN source : Present(circuit, i)
      /\ lost => \E i \in BoxPlaces : ~Present(circuit, i)
  BY DEF Inv, Restore, TranspileInv
<1>2. /\ source' = source /\ options' = options /\ others' = others /\ layout' = layout
      /\ lost' = lost /\ out' = << >> /\ measured' = << >>
  BY <1>1 DEF Restore, given, emitted
<1>3. SourceOK' /\ Path' = Path
  BY <1>1, <1>2, SourceKept
<1>4. LayoutInv' /\ layout = [q \in Qubit |-> q] /\ layout' = [q \in Qubit |-> q]
  BY <1>1, <1>2, <1>3 DEF LayoutInv
<1>5. /\ CanRestore(circuit) <=> \A i \in BoxPlaces : Present(circuit, i)
      /\ (\A i \in DOMAIN source : Present(circuit, i)) => Arrives(Restored(circuit), layout)
  BY <1>1, <1>4, RestoresBoxes
<1>6. \A i \in BoxPlaces : i \in DOMAIN source
  BY DEF BoxPlaces
<1>7. ASSUME phase' = "translate", Arrives(circuit', layout')
      PROVE  Inv'
  <2>1. TranslateInv'
    BY <1>2, <1>7, Starts
  <2>2. phase' \in Phase /\ UntouchedInv' /\ TranspileInv' /\ RefusalHasAReason'
    BY <1>7 DEF Phase, UntouchedInv, TranspileInv, RefusalHasAReason
  <2> QED
    BY <1>3, <1>4, <2>1, <2>2 DEF Inv
<1>8. CASE DOMAIN stash = {}
  <2>1. BoxPlaces = {}
    BY <1>1, <1>8 DEF Stashed
  <2>2. circuit' = circuit /\ phase' = "translate"
    BY <1>8 DEF Restore
  <2>3. Arrives(circuit', layout')
    BY <1>1, <1>2, <2>1, <2>2, ArrivesUnboxed
  <2> QED
    BY <1>7, <2>2, <2>3
<1>9. CASE DOMAIN stash # {} /\ CanRestore(circuit)
  <2>1. circuit' = Restored(circuit) /\ phase' = "translate"
    BY <1>9 DEF Restore
  <2>2. \A i \in DOMAIN source : Present(circuit, i)
    BY <1>1, <1>5, <1>9
  <2>3. Arrives(circuit', layout')
    BY <1>2, <1>5, <2>1, <2>2
  <2> QED
    BY <1>7, <2>1, <2>3
<1>10. CASE DOMAIN stash # {} /\ ~CanRestore(circuit)
  <2>1. phase' = "raised" /\ lost' = TRUE
    BY <1>1, <1>2, <1>5, <1>6, <1>10 DEF Restore, Inv
  <2>2. /\ phase' \in Phase /\ UntouchedInv' /\ TranspileInv' /\ TranslateInv'
        /\ RefusalHasAReason'
    BY <2>1 DEF Phase, UntouchedInv, TranspileInv, TranslateInv, RefusalHasAReason
  <2> QED
    BY <1>3, <1>4, <2>2 DEF Inv
<1> QED
  BY <1>8, <1>9, <1>10

LEMMA InlineInv ==
  ASSUME Inv, Inline
  PROVE  Inv'
<1>1. /\ SourceOK /\ phase = "inline" /\ LayoutInv /\ Path = "inline"
      /\ circuit = source /\ layout = [q \in Qubit |-> q]
      /\ out = << >> /\ measured = << >>
  BY DEF Inv, Inline, UntouchedInv
<1>2. /\ source' = source /\ options' = options /\ others' = others /\ layout' = layout
      /\ out' = << >> /\ measured' = << >>
      /\ circuit' = Flat /\ phase' = "translate"
  BY <1>1 DEF Inline, given, emitted, Flat
<1>3. SourceOK' /\ Path' = Path
  BY <1>1, <1>2, SourceKept
<1>4. LayoutInv'
  BY <1>1, <1>2, <1>3 DEF LayoutInv
<1>5. Arrives(circuit', layout')
  BY <1>1, <1>2, FlatArrives
<1>6. TranslateInv'
  BY <1>2, <1>5, Starts
<1>7. phase' \in Phase /\ UntouchedInv' /\ TranspileInv' /\ RefusalHasAReason'
  BY <1>2 DEF Phase, UntouchedInv, TranspileInv, RefusalHasAReason
<1> QED
  BY <1>3, <1>4, <1>6, <1>7 DEF Inv

-----------------------------------------------------------------------------
(* The translation of one instruction.                                     *)
LEMMA HeadFacts ==
  ASSUME SourceOK, NEW lay \in [Qubit -> Qubit], IsInjective(lay),
         NEW c, Coming(c, lay), c # << >>
  PROVE  LET h == Head(c).id
         IN /\ h \in ItemIds /\ Head(c) = LaidBy(lay, Item(h))
            /\ Coming(Tail(c), lay)
            /\ \A id : At(c, id) <=> id = h \/ At(Tail(c), id)
            /\ ~At(Tail(c), h)
            /\ \A id : At(Tail(c), id) =>
                 /\ id \in ItemIds
                 /\ ~Independent(Item(h), Item(id)) => Before(h, id)
<1> DEFINE S == {LaidBy(lay, Item(id)) : id \in ItemIds}
           t == Tail(c)
           h == Head(c).id
<1>1. c \in Seq(S) /\ Once(c) /\ InOrder(c)
  BY DEF Coming
<1>2. \A x \in S : x.id \in ItemIds /\ x = LaidBy(lay, Item(x.id))
  <2>1. ASSUME NEW id \in ItemIds PROVE LaidBy(lay, Item(id)).id = id
    BY ItemFacts, LaidFacts DEF IsInstruction
  <2> QED
    BY <2>1
<1> HIDE DEF S
<1>3. /\ DOMAIN c = 1..Len(c) /\ Len(c) \in Nat /\ Len(c) > 0
      /\ Head(c) = c[1] /\ c[1] \in S
  BY <1>1
<1>4. /\ t \in Seq(S) /\ Len(t) = Len(c) - 1 /\ DOMAIN t = 1..(Len(c) - 1)
      /\ \A a \in 1..(Len(c) - 1) : t[a] = c[a + 1]
  BY <1>1, <1>3
<1> HIDE DEF t
<1>5. /\ \A a \in DOMAIN t : a \in Nat /\ a + 1 \in DOMAIN c /\ t[a] = c[a + 1]
      /\ \A a \in DOMAIN c : a # 1 => a - 1 \in DOMAIN t /\ t[a - 1] = c[a]
      /\ 1 \in DOMAIN c
  BY <1>3, <1>4
<1>6. Once(t)
  <2> SUFFICES ASSUME NEW a \in DOMAIN t, NEW b \in DOMAIN t, t[a].id = t[b].id
               PROVE  a = b
    BY DEF Once
  <2>1. a + 1 = b + 1
    BY <1>1, <1>5 DEF Once
  <2> QED
    BY <1>5, <2>1
<1>7. InOrder(t)
  <2> SUFFICES ASSUME NEW a \in DOMAIN t, NEW b \in DOMAIN t, a < b,
                      ~Independent(t[a], t[b])
               PROVE  Before(t[a].id, t[b].id)
    BY DEF InOrder
  <2>1. a + 1 < b + 1
    BY <1>5
  <2> QED
    BY <1>1, <1>5, <2>1 DEF InOrder
<1>8. Coming(t, lay)
  BY <1>4, <1>6, <1>7 DEF Coming, S
<1>9. h \in ItemIds /\ Head(c) = LaidBy(lay, Item(h)) /\ h = c[1].id
  BY <1>2, <1>3
<1>10. \A id : At(c, id) <=> id = h \/ At(t, id)
  <2> TAKE id
  <2>1. ASSUME NEW a \in DOMAIN c, c[a].id = id PROVE id = h \/ At(t, id)
    BY <1>5, <1>9, <2>1 DEF At
  <2>2. ASSUME NEW a \in DOMAIN t, t[a].id = id PROVE At(c, id)
    BY <1>5, <2>2 DEF At
  <2>3. id = h => At(c, id)
    BY <1>5, <1>9 DEF At
  <2> QED
    BY <2>1, <2>2, <2>3 DEF At
<1>11. ASSUME NEW id, At(t, id)
       PROVE  /\ id \in ItemIds /\ id # h
              /\ ~Independent(Item(h), Item(id)) => Before(h, id)
  <2>1. PICK a \in DOMAIN t : t[a].id = id
    BY <1>11 DEF At
  <2>2. a + 1 \in DOMAIN c /\ c[a + 1].id = id /\ 1 < a + 1 /\ t[a] \in S
    BY <1>3, <1>4, <1>5, <2>1
  <2>3. id # h
    BY <1>1, <1>5, <1>9, <2>2 DEF Once
  <2>4. id \in ItemIds /\ t[a] = LaidBy(lay, Item(id))
    BY <1>2, <2>1, <2>2
  <2>5. c[1] = LaidBy(lay, Item(h)) /\ c[a + 1] = LaidBy(lay, Item(id))
    BY <1>3, <1>5, <1>9, <2>1, <2>4
  <2>6. Item(h).qs \in Seq(Qubit) /\ Item(id).qs \in Seq(Qubit)
    BY <1>9, <2>4, ItemFacts DEF IsInstruction
  <2>7. ~Independent(Item(h), Item(id)) => ~Independent(c[1], c[a + 1])
    BY <2>5, <2>6, LaidShare
  <2>8. ~Independent(c[1], c[a + 1]) => Before(c[1].id, c[a + 1].id)
    BY <1>1, <1>5, <2>2 DEF InOrder
  <2> QED
    BY <1>9, <2>2, <2>3, <2>4, <2>7, <2>8
<1> QED
  BY <1>8, <1>9, <1>10, <1>11 DEF t

(* A measurement's one qubit and one bit.                                  *)
LEMMA MeasureFacts ==
  ASSUME SourceOK, NEW id \in ItemIds, Item(id).op = "measure"
  PROVE  /\ Item(id).qs[1] \in Qubit /\ Range(Item(id).qs) = {Item(id).qs[1]}
         /\ Item(id).cs[1] \in Nat /\ Range(Item(id).cs) = {Item(id).cs[1]}
<1>1. /\ Item(id).qs \in Seq(Qubit) /\ Len(Item(id).qs) = 1
      /\ Item(id).cs \in Seq(Nat) /\ Len(Item(id).cs) = 1
  BY ItemFacts DEF IsInstruction
<1>2. ASSUME NEW S, NEW s \in Seq(S), Len(s) = 1 PROVE s[1] \in S /\ DOMAIN s = {1}
  <2>1. DOMAIN s = 1..Len(s) /\ \A k \in 1..Len(s) : s[k] \in S
    OBVIOUS
  <2>2. 1..Len(s) = {1}
    BY <1>2
  <2> QED
    BY <2>1, <2>2
<1>3. \A s : DOMAIN s = {1} => Range(s) = {s[1]}
  BY DEF Range
<1> QED
  BY <1>1, <1>2, <1>3

LEMMA LabelsOfLaid ==
  ASSUME SourceOK, layout \in [Qubit -> Qubit], NEW id \in ItemIds
  PROVE  /\ Range(LabelsOf(Laid(Item(id)))) = {LabelOf(layout[q]) : q \in Range(Item(id).qs)}
         /\ Range(Item(id).qs) \subseteq Qubit
<1> DEFINE x == Item(id)
           y == Laid(x)
<1>1. x.qs \in Seq(Qubit)
  BY ItemFacts DEF IsInstruction
<1>2. Range(y.qs) = {layout[q] : q \in Range(x.qs)} /\ Range(x.qs) \subseteq Qubit
  BY <1>1, LaidFacts DEF Laid
<1> HIDE DEF x, y
<1>3. Range(LabelsOf(y)) = {LabelOf(r) : r \in Range(y.qs)}
  BY DEF LabelsOf, Range
<1>4. {LabelOf(r) : r \in {layout[q] : q \in Range(x.qs)}}
        = {LabelOf(layout[q]) : q \in Range(x.qs)}
  OBVIOUS
<1> QED
  BY <1>2, <1>3, <1>4 DEF x, y

LEMMA SharedQubit ==
  ASSUME SourceOK, layout \in [Qubit -> Qubit], IsInjective(layout),
         NEW id \in ItemIds, NEW q \in Qubit
  PROVE  LabelOf(layout[q]) \in Range(LabelsOf(Laid(Item(id)))) <=> q \in Range(Item(id).qs)
<1>1. /\ Range(LabelsOf(Laid(Item(id)))) = {LabelOf(layout[r]) : r \in Range(Item(id).qs)}
      /\ Range(Item(id).qs) \subseteq Qubit
  BY LabelsOfLaid
<1>2. \A r \in Qubit : LabelOf(layout[r]) = LabelOf(layout[q]) => r = q
  BY LabelsDiffer DEF IsInjective
<1> QED
  BY <1>1, <1>2

LEMMA AfterMeasure ==
  ASSUME SourceOK, NEW m \in ItemIds, NEW h \in ItemIds, NEW ops,
         Item(m).op = "measure", Item(h).op \in ops, Share(m, h), Before(m, h)
  PROVE  After(ops)
<1>1. PICK b \in DOMAIN Flat : Flat[b].id = m
  BY FlatFacts
<1>2. PICK d \in DOMAIN Flat : Flat[d].id = h
  BY FlatFacts
<1>3. Flat[b] = Item(m) /\ Flat[d] = Item(h)
  BY <1>1, <1>2, FlatFacts
<1>4. b \in Nat /\ d \in Nat
  BY FlatFacts
<1>5. ~(d < b) /\ b # d
  BY <1>1, <1>2, FlatFacts, IdsInOrder
<1>6. b < d
  BY <1>4, <1>5
<1> QED
  BY <1>3, <1>6 DEF After, Share

(* One measurement more.                                                   *)
LEMMA MeasureInv ==
  ASSUME Inv, phase = "translate", circuit # << >>,
         source' = source, options' = options, others' = others, layout' = layout,
         circuit' = Tail(circuit), phase' = phase, out' = out,
         Head(circuit).op = "measure",
         measured' = [c \in DOMAIN measured \cup {Head(circuit).cs[1]} |->
                        IF c = Head(circuit).cs[1] THEN LabelOf(Head(circuit).qs[1])
                                                   ELSE measured[c]]
  PROVE  TranslateInv'
<1>1. /\ SourceOK /\ layout \in [Qubit -> Qubit] /\ IsInjective(layout)
      /\ Coming(circuit, layout) /\ OutInOrder /\ NothingMissing /\ BitsWritten
  BY DEF Inv, LayoutInv, TranslateInv
<1> DEFINE h == Head(circuit).id
           b == Item(h).cs[1]
           q == Item(h).qs[1]
<1>2. /\ h \in ItemIds /\ Head(circuit) = Laid(Item(h)) /\ Coming(circuit', layout)
      /\ \A id : ToCome(id) <=> id = h \/ At(circuit', id)
      /\ ~At(circuit', h)
      /\ \A id : At(circuit', id) =>
           id \in ItemIds /\ (~Independent(Item(h), Item(id)) => Before(h, id))
  BY <1>1, HeadFacts DEF Laid, ToCome
<1>3. Item(h).qs \in Seq(Qubit) /\ Item(h).cs \in Seq(Nat)
  BY <1>1, <1>2, ItemFacts DEF IsInstruction
<1>4. /\ Head(circuit).op = Item(h).op /\ Head(circuit).cs = Item(h).cs
      /\ Head(circuit).qs = [k \in DOMAIN Item(h).qs |-> layout[Item(h).qs[k]]]
  BY <1>1, <1>2, <1>3, LaidFacts DEF Laid
<1>5. IsMeasure(h)
  BY <1>2, <1>4 DEF IsMeasure
<1>6. Len(Item(h).qs) = 1 /\ 1 \in DOMAIN Item(h).qs
  <2>1. Len(Item(h).qs) = 1
    BY <1>1, <1>2, <1>5, ItemFacts DEF IsInstruction, IsMeasure
  <2> QED
    BY <1>3, <2>1
<1>7. Head(circuit).qs[1] = layout[q] /\ Head(circuit).cs[1] = b
  BY <1>4, <1>6
<1>8. measured' = [c \in DOMAIN measured \cup {b} |->
                     IF c = b THEN LabelOf(layout[q]) ELSE measured[c]]
  BY <1>7
<1>9. /\ ItemIds' = ItemIds /\ \A id : Item(id)' = Item(id)
      /\ \A l : LabelOf(l)' = LabelOf(l)
      /\ \A x : Labelled(x)' = Labelled(x)
  BY SourceKept
<1> HIDE DEF h
<1>10. Coming(circuit, layout)'
  <2>1. {LaidBy(layout', Item(id)') : id \in ItemIds'}
          = {LaidBy(layout, Item(id)) : id \in ItemIds}
    BY <1>9
  <2> QED
    BY <1>2, <2>1 DEF Coming
<1>11. OutInOrder'
  <2>1. \A x : Laid(x)' = Laid(x)
    BY DEF Laid, LaidBy
  <2>2. {Labelled(Laid(Item(id)))' : id \in ItemIds'}
          = {Labelled(Laid(Item(id))) : id \in ItemIds}
    BY <1>9, <2>1 DEF Labelled, LabelsOf
  <2>3. \A id : ToCome(id)' => ToCome(id)
    BY <1>2 DEF ToCome
  <2> QED
    BY <1>1, <1>9, <2>2, <2>3 DEF OutInOrder, Share
<1>12. \A id, jd : Near(id, jd)' = Near(id, jd) /\ Share(id, jd)' = Share(id, jd)
  BY <1>9 DEF Near, Share
<1>13. \A id : /\ ToCome(id)' <=> At(circuit', id)
               /\ IsOut(id)' <=> IsOut(id)
               /\ IsMeasure(id)' <=> IsMeasure(id)
  BY <1>9 DEF ToCome, At, IsOut, IsMeasure
<1>14. NothingMissing'
  <2>1. ~IsOperation(Item(h))
    BY <1>5 DEF IsMeasure, IsOperation
  <2>2. DOMAIN measured' = DOMAIN measured \cup {b}
    BY <1>8
  <2> QED
    BY <1>1, <1>2, <1>9, <1>13, <2>1, <2>2 DEF NothingMissing
<1>15. BitsWritten'
  <2>1. IsFiniteSet(DOMAIN measured')
    <3>1. DOMAIN measured' = DOMAIN measured \cup {b}
      BY <1>8
    <3> QED
      BY <1>1, <3>1, FS_AddElement DEF BitsWritten
  <2>2. ASSUME NEW c \in DOMAIN measured', c # b
        PROVE  \E id \in ItemIds : LastWrite(c, id)'
    <3>1. c \in DOMAIN measured /\ measured'[c] = measured[c]
      BY <1>8, <2>2
    <3>2. PICK id \in ItemIds : LastWrite(c, id)
      BY <1>1, <3>1 DEF BitsWritten
    <3>3. measured'[c] = LabelOf(layout'[Item(id).qs[1]])
      BY <3>1, <3>2 DEF LastWrite
    <3>4. \A jd \in ItemIds : At(circuit', jd) /\ Near(id, jd) => Before(id, jd)
      BY <1>2, <3>2 DEF LastWrite
    <3>5. \A jd \in ItemIds :
            IsMeasure(jd) /\ Item(jd).cs[1] = c /\ ~At(circuit', jd)
              => jd = id \/ Before(jd, id)
      BY <1>2, <2>2, <3>2 DEF LastWrite
    <3>6. \A jd \in ItemIds :
            IsOut(jd) /\ Item(jd).op = "gate" /\ Share(jd, id) => Before(jd, id)
      BY <3>2 DEF LastWrite
    <3>7. LastWrite(c, id)'
      BY <1>9, <1>12, <1>13, <3>2, <3>3, <3>4, <3>5, <3>6 DEF LastWrite
    <3> QED
      BY <3>7
  <2>3. ASSUME NEW c, c = b, NEW id \in ItemIds, id = h PROVE LastWrite(c, id)'
    <3>1. measured'[b] = LabelOf(layout'[q])
      BY <1>8
    <3>2. \A jd \in ItemIds : At(circuit', jd) /\ Near(h, jd) => Before(h, jd)
      BY <1>2 DEF Near
    <3>3. ASSUME NEW jd \in ItemIds, IsMeasure(jd), Item(jd).cs[1] = b,
                 ~At(circuit', jd), jd # h
          PROVE  Before(jd, h)
      <4>1. ~ToCome(jd)
        BY <1>2, <3>3
      <4>2. b \in DOMAIN measured
        BY <1>1, <3>3, <4>1 DEF NothingMissing
      <4>3. PICK m \in ItemIds : LastWrite(b, m)
        BY <1>1, <4>2 DEF BitsWritten
      <4>4. jd = m \/ Before(jd, m)
        BY <3>3, <4>1, <4>3 DEF LastWrite
      <4>5. b \in Range(Item(m).cs) /\ b \in Range(Item(h).cs)
        BY <1>1, <1>2, <1>5, <4>3, MeasureFacts DEF LastWrite, IsMeasure
      <4>6. Near(m, h)
        BY <4>5 DEF Near, Independent
      <4>7. Before(m, h)
        BY <1>2, <4>3, <4>6 DEF LastWrite
      <4> QED
        BY <1>1, <1>2, <4>4, <4>7, IdsInOrder
    <3>4. ASSUME NEW jd \in ItemIds, IsOut(jd), Share(jd, h)
          PROVE  Before(jd, h)
      <4>1. PICK i \in DOMAIN out : out[i].id = jd
        BY <3>4 DEF IsOut
      <4> QED
        BY <1>1, <1>2, <3>4, <4>1 DEF OutInOrder
    <3> QED
      BY <1>5, <1>9, <1>12, <1>13, <2>3, <3>1, <3>2, <3>3, <3>4 DEF LastWrite
  <2> QED
    BY <1>2, <1>9, <2>1, <2>2, <2>3 DEF BitsWritten
<1> QED
  BY <1>10, <1>11, <1>14, <1>15 DEF TranslateInv

(* One operation more, on qubits that were not measured if it is a gate.   *)
LEMMA OperationInv ==
  ASSUME Inv, phase = "translate", circuit # << >>,
         source' = source, options' = options, others' = others, layout' = layout,
         circuit' = Tail(circuit), phase' = phase, measured' = measured,
         IsOperation(Head(circuit)),
         Head(circuit).op = "gate" => ~ActsOnMeasured(Head(circuit)),
         out' = Append(out, [Head(circuit) EXCEPT !.qs = LabelsOf(Head(circuit))])
  PROVE  TranslateInv'
<1>1. /\ SourceOK /\ layout \in [Qubit -> Qubit] /\ IsInjective(layout)
      /\ Coming(circuit, layout) /\ OutInOrder /\ NothingMissing /\ BitsWritten
  BY DEF Inv, LayoutInv, TranslateInv
<1> DEFINE h == Head(circuit).id
           S == {Labelled(Laid(Item(id))) : id \in ItemIds}
           new == Labelled(Laid(Item(h)))
<1>2. /\ h \in ItemIds /\ Head(circuit) = Laid(Item(h)) /\ Coming(circuit', layout)
      /\ \A id : ToCome(id) <=> id = h \/ At(circuit', id)
      /\ ~At(circuit', h)
      /\ \A id : At(circuit', id) =>
           id \in ItemIds /\ (~Independent(Item(h), Item(id)) => Before(h, id))
  BY <1>1, HeadFacts DEF Laid, ToCome
<1>3. Item(h).qs \in Seq(Qubit) /\ Item(h).id = h
  BY <1>1, <1>2, ItemFacts DEF IsInstruction
<1>4. Head(circuit).op = Item(h).op /\ Whole(Head(circuit)) /\ Head(circuit).id = h
  <2>1. \A x : x.qs \in Seq(Qubit) =>
          Laid(x).op = x.op /\ Laid(x).id = x.id /\ Whole(Laid(x))
    BY <1>1, LaidFacts DEF Laid
  <2> HIDE DEF h
  <2> QED
    BY <1>2, <1>3, <2>1
<1>5. /\ [Head(circuit) EXCEPT !.qs = LabelsOf(Head(circuit))] = new
      /\ new.id = h /\ new.op = Item(h).op
  BY <1>2, <1>4, QubitsReplaced, Fields DEF Labelled
<1>6. out' = Append(out, new) /\ new \in S
  BY <1>2, <1>5
<1>7. /\ ItemIds' = ItemIds /\ \A id : Item(id)' = Item(id)
      /\ \A l : LabelOf(l)' = LabelOf(l)
  BY SourceKept
<1>8. IsOperation(Item(h))
  BY <1>4 DEF IsOperation
<1> HIDE DEF h, S, new
<1>9. /\ out \in Seq(S) /\ out' \in Seq(S)
      /\ DOMAIN out = 1..Len(out) /\ DOMAIN out' = 1..(Len(out) + 1) /\ Len(out) \in Nat
      /\ out'[Len(out) + 1] = new /\ \A i \in DOMAIN out : out'[i] = out[i]
  <2>1. out \in Seq(S)
    BY <1>1 DEF OutInOrder, S
  <2> QED
    BY <1>6, <2>1
<1>10. \A i \in DOMAIN out' : i \in DOMAIN out \/ i = Len(out) + 1
  BY <1>9
<1>11. \A id, jd : Near(id, jd)' = Near(id, jd) /\ Share(id, jd)' = Share(id, jd)
  BY <1>7 DEF Near, Share
<1>12. \A id : /\ ToCome(id)' <=> At(circuit', id)
               /\ IsOut(id)' <=> IsOut(id) \/ id = h
               /\ IsMeasure(id)' <=> IsMeasure(id)
  <2>1. \A id : ToCome(id)' <=> At(circuit', id)
    BY DEF ToCome, At
  <2>2. \A id : IsMeasure(id)' <=> IsMeasure(id)
    BY <1>7 DEF IsMeasure
  <2>3. ASSUME NEW id PROVE IsOut(id)' <=> IsOut(id) \/ id = h
    <3>1. IsOut(id) => IsOut(id)'
      <4>1. \A i \in DOMAIN out : i \in DOMAIN out'
        BY <1>9
      <4> QED
        BY <1>9, <4>1 DEF IsOut
    <3>2. id = h => IsOut(id)'
      <4>1. Len(out) + 1 \in DOMAIN out'
        BY <1>9
      <4> QED
        BY <1>5, <1>9, <4>1 DEF IsOut
    <3>3. IsOut(id)' => IsOut(id) \/ id = h
      BY <1>5, <1>9, <1>10 DEF IsOut
    <3> QED
      BY <3>1, <3>2, <3>3
  <2> QED
    BY <2>1, <2>2, <2>3
<1>13. Coming(circuit, layout)'
  <2>1. {LaidBy(layout', Item(id)') : id \in ItemIds'}
          = {LaidBy(layout, Item(id)) : id \in ItemIds}
    BY <1>7
  <2> QED
    BY <1>2, <2>1 DEF Coming
<1>14. OutInOrder'
  <2>1. \A x : Laid(x)' = Laid(x)
    BY DEF Laid, LaidBy
  <2>2. {Labelled(Laid(Item(id)))' : id \in ItemIds'} = S
    BY <1>7, <2>1 DEF Labelled, LabelsOf, S
  <2>3. \A i \in DOMAIN out' : IsOperation(out'[i])
    BY <1>1, <1>5, <1>8, <1>9, <1>10 DEF OutInOrder, IsOperation
  <2>4. \A i \in DOMAIN out : Share(out[i].id, h) => Before(out[i].id, h)
    BY <1>1, <1>2 DEF OutInOrder
  <2>5. ASSUME NEW i \in DOMAIN out', NEW k \in DOMAIN out', i < k,
               Share(out'[i].id, out'[k].id)
        PROVE  Before(out'[i].id, out'[k].id)
    <3>1. i \in DOMAIN out
      BY <1>9, <1>10, <2>5
    <3>2. CASE k \in DOMAIN out
      BY <1>1, <1>9, <2>5, <3>1, <3>2 DEF OutInOrder
    <3>3. CASE k = Len(out) + 1
      BY <1>5, <1>9, <2>4, <2>5, <3>1, <3>3
    <3> QED
      BY <1>10, <3>2, <3>3
  <2>6. ASSUME NEW i \in DOMAIN out', NEW id \in ItemIds, At(circuit', id),
               Share(out'[i].id, id)
        PROVE  Before(out'[i].id, id)
    <3>1. CASE i \in DOMAIN out
      BY <1>1, <1>2, <1>9, <2>6, <3>1 DEF OutInOrder
    <3>2. CASE i = Len(out) + 1
      <4>1. out'[i].id = h
        BY <1>5, <1>9, <3>2
      <4>2. ~Independent(Item(h), Item(id))
        BY <2>6, <4>1 DEF Share, Independent
      <4> QED
        BY <1>2, <2>6, <4>1, <4>2
    <3> QED
      BY <1>10, <3>1, <3>2
  <2>7. out' \in Seq({Labelled(Laid(Item(id)))' : id \in ItemIds'})
    BY <1>9, <2>2
  <2> QED
    BY <2>3, <2>5, <2>6, <2>7, <1>7, <1>12 DEF OutInOrder, Share
<1>15. NothingMissing'
  <2>1. ~IsMeasure(h)
    BY <1>8 DEF IsMeasure, IsOperation
  <2> QED
    BY <1>1, <1>2, <1>7, <1>12, <2>1 DEF NothingMissing
<1>16. BitsWritten'
  <2>1. ASSUME NEW c \in DOMAIN measured
        PROVE  \E id \in ItemIds : LastWrite(c, id)'
    <3>1. PICK id \in ItemIds : LastWrite(c, id)
      BY <1>1 DEF BitsWritten
    <3>2. measured'[c] = LabelOf(layout'[Item(id).qs[1]])
      BY <3>1 DEF LastWrite
    <3>3. \A jd \in ItemIds : At(circuit', jd) /\ Near(id, jd) => Before(id, jd)
      BY <1>2, <3>1 DEF LastWrite
    <3>4. ~IsMeasure(h)
      BY <1>8 DEF IsMeasure, IsOperation
    <3>5. \A jd \in ItemIds :
            IsMeasure(jd) /\ Item(jd).cs[1] = c /\ ~At(circuit', jd)
              => jd = id \/ Before(jd, id)
      BY <1>2, <3>1, <3>4 DEF LastWrite
    <3>6. Item(h).op = "gate" => ~Share(h, id)
      <4> SUFFICES ASSUME Item(h).op = "gate", Share(h, id) PROVE FALSE
        OBVIOUS
      <4> DEFINE q == Item(id).qs[1]
      <4>1. q \in Qubit /\ Range(Item(id).qs) = {q}
        BY <1>1, <3>1, MeasureFacts DEF LastWrite, IsMeasure
      <4>2. q \in Range(Item(h).qs)
        BY <4>1 DEF Share
      <4>3. LabelOf(layout[q]) \in Range(LabelsOf(Laid(Item(h))))
        BY <1>1, <1>2, <4>1, <4>2, SharedQubit
      <4>4. measured[c] = LabelOf(layout[q])
        BY <3>1 DEF LastWrite
      <4>5. measured[c] \in Range(measured)
        BY DEF Range
      <4>6. ActsOnMeasured(Head(circuit))
        BY <1>2, <4>3, <4>4, <4>5 DEF ActsOnMeasured
      <4> QED
        BY <1>4, <4>6
    <3>7. \A jd \in ItemIds :
            (IsOut(jd) \/ jd = h) /\ Item(jd).op = "gate" /\ Share(jd, id) => Before(jd, id)
      BY <3>1, <3>6 DEF LastWrite
    <3>8. LastWrite(c, id)'
      BY <1>7, <1>11, <1>12, <3>1, <3>2, <3>3, <3>5, <3>7 DEF LastWrite
    <3> QED
      BY <3>8
  <2> QED
    BY <1>1, <1>7, <2>1 DEF BitsWritten
<1> QED
  BY <1>13, <1>14, <1>15, <1>16 DEF TranslateInv

(* A barrier is passed over.                                               *)
LEMMA BarrierInv ==
  ASSUME Inv, phase = "translate", circuit # << >>,
         source' = source, options' = options, others' = others, layout' = layout,
         circuit' = Tail(circuit), phase' = phase, measured' = measured, out' = out,
         Head(circuit).op = "barrier"
  PROVE  TranslateInv'
<1>1. /\ SourceOK /\ layout \in [Qubit -> Qubit] /\ IsInjective(layout)
      /\ Coming(circuit, layout) /\ OutInOrder /\ NothingMissing /\ BitsWritten
  BY DEF Inv, LayoutInv, TranslateInv
<1> DEFINE h == Head(circuit).id
<1>2. /\ h \in ItemIds /\ Head(circuit) = Laid(Item(h)) /\ Coming(circuit', layout)
      /\ \A id : ToCome(id) <=> id = h \/ At(circuit', id)
  BY <1>1, HeadFacts DEF Laid, ToCome
<1>3. Item(h).op = "barrier"
  <2>1. Item(h).qs \in Seq(Qubit)
    BY <1>1, <1>2, ItemFacts DEF IsInstruction
  <2>2. \A x : x.qs \in Seq(Qubit) => Laid(x).op = x.op
    BY <1>1, LaidFacts DEF Laid
  <2> HIDE DEF h
  <2> QED
    BY <1>2, <2>1, <2>2
<1> HIDE DEF h
<1>4. /\ ItemIds' = ItemIds /\ \A id : Item(id)' = Item(id)
      /\ \A l : LabelOf(l)' = LabelOf(l)
  BY SourceKept
<1>5. \A id, jd : Near(id, jd)' = Near(id, jd) /\ Share(id, jd)' = Share(id, jd)
  BY <1>4 DEF Near, Share
<1>6. \A id : /\ ToCome(id)' <=> At(circuit', id)
              /\ IsOut(id)' <=> IsOut(id)
              /\ IsMeasure(id)' <=> IsMeasure(id)
  BY <1>4 DEF ToCome, At, IsOut, IsMeasure
<1>7. ~IsOperation(Item(h)) /\ ~IsMeasure(h)
  BY <1>3 DEF IsOperation, IsMeasure
<1>8. Coming(circuit, layout)'
  <2>1. {LaidBy(layout', Item(id)') : id \in ItemIds'}
          = {LaidBy(layout, Item(id)) : id \in ItemIds}
    BY <1>4
  <2> QED
    BY <1>2, <2>1 DEF Coming
<1>9. OutInOrder'
  <2>1. \A x : Laid(x)' = Laid(x)
    BY DEF Laid, LaidBy
  <2>2. {Labelled(Laid(Item(id)))' : id \in ItemIds'}
          = {Labelled(Laid(Item(id))) : id \in ItemIds}
    BY <1>4, <2>1 DEF Labelled, LabelsOf
  <2>3. \A id : ToCome(id)' => ToCome(id)
    BY <1>2, <1>6
  <2> QED
    BY <1>1, <1>4, <2>2, <2>3 DEF OutInOrder, Share
<1>10. NothingMissing'
  BY <1>1, <1>2, <1>4, <1>6, <1>7 DEF NothingMissing
<1>11. BitsWritten'
  <2>1. ASSUME NEW c \in DOMAIN measured, NEW id \in ItemIds, LastWrite(c, id)
        PROVE  LastWrite(c, id)'
    <3>1. measured'[c] = LabelOf(layout'[Item(id).qs[1]])
      BY <2>1 DEF LastWrite
    <3>2. \A jd \in ItemIds : At(circuit', jd) /\ Near(id, jd) => Before(id, jd)
      BY <1>2, <2>1 DEF LastWrite
    <3>3. \A jd \in ItemIds :
            IsMeasure(jd) /\ Item(jd).cs[1] = c /\ ~At(circuit', jd)
              => jd = id \/ Before(jd, id)
      BY <1>2, <1>7, <2>1 DEF LastWrite
    <3>4. \A jd \in ItemIds :
            IsOut(jd) /\ Item(jd).op = "gate" /\ Share(jd, id) => Before(jd, id)
      BY <2>1 DEF LastWrite
    <3> QED
      BY <1>4, <1>5, <1>6, <2>1, <3>1, <3>2, <3>3, <3>4 DEF LastWrite
  <2> QED
    BY <1>1, <1>4, <2>1 DEF BitsWritten
<1> QED
  BY <1>8, <1>9, <1>10, <1>11 DEF TranslateInv

LEMMA TranslateStep ==
  ASSUME Inv, Translate
  PROVE  Inv'
<1>1. /\ SourceOK /\ LayoutInv /\ phase = "translate" /\ circuit # << >>
      /\ layout \in [Qubit -> Qubit] /\ IsInjective(layout)
      /\ Coming(circuit, layout) /\ BitsWritten
  BY DEF Inv, Translate, LayoutInv, TranslateInv
<1>2. /\ source' = source /\ options' = options /\ others' = others /\ layout' = layout
      /\ circuit' = Tail(circuit) /\ lost' = lost
  BY DEF Translate, given
<1>3. SourceOK' /\ Path' = Path /\ Flat' = Flat
  BY <1>1, <1>2, SourceKept
<1>4. LayoutInv'
  BY <1>1, <1>2, <1>3 DEF LayoutInv
<1> DEFINE x == Head(circuit)
           h == x.id
<1>5. h \in ItemIds /\ x = Laid(Item(h)) /\ ToCome(h)
  BY <1>1, HeadFacts DEF Laid, ToCome
<1>6. x.op = Item(h).op
  <2>1. Item(h).qs \in Seq(Qubit)
    BY <1>1, <1>5, ItemFacts DEF IsInstruction
  <2>2. \A y : y.qs \in Seq(Qubit) => Laid(y).op = y.op
    BY <1>1, LaidFacts DEF Laid
  <2> HIDE DEF h, x
  <2> QED
    BY <1>5, <2>1, <2>2
<1>7. ASSUME ActsOnMeasured(x), Item(h).op \in {"measure", "gate"}
      PROVE  After({"measure", "gate"})
  <2>1. PICK l \in Range(LabelsOf(x)) : l \in Range(measured)
    BY <1>7 DEF ActsOnMeasured
  <2>2. PICK c \in DOMAIN measured : measured[c] = l
    BY <2>1 DEF Range
  <2>3. PICK m \in ItemIds : LastWrite(c, m)
    BY <1>1, <2>2 DEF BitsWritten
  <2> DEFINE q == Item(m).qs[1]
  <2>4. q \in Qubit /\ Range(Item(m).qs) = {q} /\ l = LabelOf(layout[q])
    BY <1>1, <2>2, <2>3, MeasureFacts DEF LastWrite, IsMeasure
  <2> HIDE DEF h, x
  <2>5. q \in Range(Item(h).qs)
    BY <1>1, <1>5, <2>1, <2>4, SharedQubit
  <2>6. Share(m, h) /\ Near(m, h)
    BY <2>4, <2>5 DEF Share, Near, Independent
  <2>7. Before(m, h)
    BY <1>5, <2>3, <2>6 DEF LastWrite
  <2> QED
    BY <1>1, <1>5, <1>7, <2>3, <2>6, <2>7, AfterMeasure DEF LastWrite, IsMeasure
<1>8. ASSUME phase' = phase, TranslateInv' PROVE Inv'
  <2>1. phase' \in Phase /\ UntouchedInv' /\ TranspileInv' /\ RefusalHasAReason'
    BY <1>1, <1>8 DEF Phase, UntouchedInv, TranspileInv, RefusalHasAReason
  <2> QED
    BY <1>3, <1>4, <1>8, <2>1 DEF Inv
<1>9. ASSUME phase' = "raised", RefusalHasAReason' PROVE Inv'
  <2>1. phase' \in Phase /\ UntouchedInv' /\ TranspileInv' /\ TranslateInv'
    BY <1>9 DEF Phase, UntouchedInv, TranspileInv, TranslateInv
  <2> QED
    BY <1>3, <1>4, <1>9, <2>1 DEF Inv
<1>10. After({"measure", "gate"}) => RefusalHasAReason'
  BY <1>3 DEF RefusalHasAReason, After
<1>11. CASE x.op = "measure" /\ TranslateMeasure(x) /\ UNCHANGED out
  <2>1. CASE ActsOnMeasured(x)
    <3>1. phase' = "raised"
      BY <1>11, <2>1 DEF TranslateMeasure
    <3>2. RefusalHasAReason'
      BY <1>6, <1>7, <1>10, <1>11, <2>1
    <3> QED
      BY <1>9, <3>1, <3>2
  <2>2. CASE ~ActsOnMeasured(x)
    <3>1. /\ measured' = [c \in DOMAIN measured \cup {x.cs[1]} |->
                           IF c = x.cs[1] THEN LabelOf(x.qs[1]) ELSE measured[c]]
          /\ phase' = phase
      BY <1>11, <2>2 DEF TranslateMeasure
    <3>2. TranslateInv'
      BY <1>1, <1>2, <1>11, <3>1, MeasureInv
    <3> QED
      BY <1>8, <3>1, <3>2
  <2> QED
    BY <2>1, <2>2
<1>12. CASE x.op = "barrier" /\ UNCHANGED <<phase, measured, out>>
  <2>1. TranslateInv'
    BY <1>1, <1>2, <1>12, BarrierInv
  <2> QED
    BY <1>8, <1>12, <2>1
<1>13. CASE x.op = "reset" /\ phase' = "raised" /\ UNCHANGED <<measured, out>>
  <2>1. PICK b \in DOMAIN Flat : Flat[b].id = h
    BY <1>1, <1>5, FlatFacts
  <2>2. Flat[b] = Item(h)
    BY <1>1, <2>1, FlatFacts
  <2>3. \E y \in Range(Flat) : y.op = "reset"
    BY <1>6, <1>13, <2>2 DEF Range
  <2>4. RefusalHasAReason'
    BY <1>3, <2>3 DEF RefusalHasAReason
  <2> QED
    BY <1>9, <1>13, <2>4
<1>14. CASE IsOperation(x) /\ TranslateOperation(x) /\ UNCHANGED measured
  <2>1. CASE x.op = "gate" /\ ActsOnMeasured(x)
    <3>1. phase' = "raised"
      BY <1>14, <2>1 DEF TranslateOperation
    <3>2. RefusalHasAReason'
      BY <1>6, <1>7, <1>10, <2>1
    <3> QED
      BY <1>9, <3>1, <3>2
  <2>2. CASE ~(x.op = "gate" /\ ActsOnMeasured(x))
    <3>1. out' = Append(out, [x EXCEPT !.qs = LabelsOf(x)]) /\ phase' = phase
      BY <1>14, <2>2 DEF TranslateOperation
    <3>2. TranslateInv'
      BY <1>1, <1>2, <1>14, <2>2, <3>1, OperationInv
    <3> QED
      BY <1>8, <3>1, <3>2
  <2> QED
    BY <2>1, <2>2
<1> QED
  BY <1>11, <1>12, <1>13, <1>14 DEF Translate

LEMMA FinishInv ==
  ASSUME Inv, Finish
  PROVE  Inv'
<1>1. /\ SourceOK /\ LayoutInv /\ phase = "translate" /\ circuit = << >>
      /\ Coming(circuit, layout) /\ OutInOrder /\ NothingMissing /\ BitsWritten
  BY DEF Inv, Finish, TranslateInv
<1>2. /\ source' = source /\ options' = options /\ others' = others /\ layout' = layout
      /\ circuit' = circuit /\ measured' = measured /\ out' = out /\ phase' = "done"
      /\ ends' = [k \in 1..Cardinality(DOMAIN measured) |->
                   measured[FinalOrder(DOMAIN measured)[k]]]
  BY DEF Finish, given
<1>3. /\ SourceOK' /\ Path' = Path /\ ItemIds' = ItemIds
      /\ \A id : Item(id)' = Item(id)
      /\ \A l : LabelOf(l)' = LabelOf(l)
  BY <1>1, <1>2, SourceKept
<1>4. LayoutInv'
  BY <1>1, <1>2, <1>3 DEF LayoutInv
<1>5. \A x : Laid(x)' = Laid(x)
  BY <1>2 DEF Laid, LaidBy
<1>6. Coming(circuit, layout)'
  <2>1. {LaidBy(layout', Item(id)') : id \in ItemIds'}
          = {LaidBy(layout, Item(id)) : id \in ItemIds}
    BY <1>2, <1>3
  <2> QED
    BY <1>1, <1>2, <2>1 DEF Coming
<1>7. \A id : /\ ToCome(id)' <=> ToCome(id)
              /\ IsOut(id)' <=> IsOut(id)
              /\ IsMeasure(id)' <=> IsMeasure(id)
  BY <1>2, <1>3 DEF ToCome, At, IsOut, IsMeasure
<1>8. OutInOrder'
  <2>1. {Labelled(Laid(Item(id)))' : id \in ItemIds'}
          = {Labelled(Laid(Item(id))) : id \in ItemIds}
    BY <1>3, <1>5 DEF Labelled, LabelsOf
  <2> QED
    BY <1>1, <1>2, <1>3, <1>7, <2>1 DEF OutInOrder, Share
<1>9. NothingMissing'
  BY <1>1, <1>2, <1>3, <1>7 DEF NothingMissing
<1>10. \A id, jd : Near(id, jd)' = Near(id, jd) /\ Share(id, jd)' = Share(id, jd)
  BY <1>3 DEF Near, Share
<1>11. BitsWritten'
  <2>1. \A c, id : LastWrite(c, id) => LastWrite(c, id)'
    BY <1>2, <1>3, <1>7, <1>10 DEF LastWrite
  <2> QED
    BY <1>1, <1>2, <1>3, <2>1 DEF BitsWritten
<1>12. TranslateInv'
  BY <1>1, <1>2, <1>6, <1>8, <1>9, <1>11 DEF TranslateInv
<1>13. phase' \in Phase /\ UntouchedInv' /\ TranspileInv' /\ RefusalHasAReason'
  BY <1>2 DEF Phase, UntouchedInv, TranspileInv, RefusalHasAReason
<1> QED
  BY <1>3, <1>4, <1>12, <1>13 DEF Inv

LEMMA StutterInv ==
  ASSUME Inv, UNCHANGED vars
  PROVE  Inv'
<1>1. /\ source' = source /\ options' = options /\ others' = others /\ layout' = layout
      /\ circuit' = circuit /\ measured' = measured /\ out' = out /\ phase' = phase
      /\ ends' = ends /\ stash' = stash /\ lost' = lost
  BY DEF vars
<1>2. /\ SourceOK' /\ Path' = Path /\ ItemIds' = ItemIds /\ BoxPlaces' = BoxPlaces
      /\ \A id : Item(id)' = Item(id)
      /\ \A i : Standing(i)' = Standing(i)
      /\ \A l : LabelOf(l)' = LabelOf(l)
      /\ Flat' = Flat
  BY <1>1, SourceKept DEF Inv
<1>3. phase' \in Phase /\ LayoutInv' /\ UntouchedInv' /\ RefusalHasAReason'
  <2>1. phase' \in Phase /\ LayoutInv'
    BY <1>1, <1>2 DEF Inv, LayoutInv
  <2>2. UntouchedInv'
    <3>1. Refused(source, options)' <=> Refused(source, options)
      BY <1>1 DEF Refused, HasVerbatimBoxes
    <3> QED
      BY <1>1, <1>2, <3>1 DEF Inv, UntouchedInv
  <2>3. RefusalHasAReason'
    <3>1. Refused(source, options)' <=> Refused(source, options)
      BY <1>1 DEF Refused, HasVerbatimBoxes
    <3>2. After({"measure", "gate"})' <=> After({"measure", "gate"})
      BY <1>2 DEF After
    <3>3. PathOf(options)' = PathOf(options)
      BY <1>2 DEF Path
    <3> QED
      BY <1>1, <1>2, <3>1, <3>2, <3>3 DEF Inv, RefusalHasAReason
  <2> QED
    BY <2>1, <2>2, <2>3
<1>4. TranspileInv'
  <2> SUFFICES ASSUME phase \in {"transpile", "restore"} PROVE TranspileInv'
    BY <1>1 DEF TranspileInv
  <2> QED
    BY <1>1, Transpiles DEF Inv, TranspileInv
<1>5. \A x : Laid(x)' = Laid(x)
  BY <1>1 DEF Laid, LaidBy
<1>6. \A id : /\ ToCome(id)' <=> ToCome(id)
              /\ IsOut(id)' <=> IsOut(id)
              /\ IsMeasure(id)' <=> IsMeasure(id)
  BY <1>1, <1>2 DEF ToCome, At, IsOut, IsMeasure
<1>7. Coming(circuit, layout) => Coming(circuit, layout)'
  <2>1. {LaidBy(layout', Item(id)') : id \in ItemIds'}
          = {LaidBy(layout, Item(id)) : id \in ItemIds}
    BY <1>1, <1>2
  <2> QED
    BY <1>1, <2>1 DEF Coming
<1>8. OutInOrder => OutInOrder'
  <2>1. {Labelled(Laid(Item(id)))' : id \in ItemIds'}
          = {Labelled(Laid(Item(id))) : id \in ItemIds}
    BY <1>2, <1>5 DEF Labelled, LabelsOf
  <2> QED
    BY <1>1, <1>2, <1>6, <2>1 DEF OutInOrder, Share
<1>9. NothingMissing => NothingMissing'
  BY <1>1, <1>2, <1>6 DEF NothingMissing
<1>10. \A id, jd : Near(id, jd)' = Near(id, jd) /\ Share(id, jd)' = Share(id, jd)
  BY <1>2 DEF Near, Share
<1>11. BitsWritten => BitsWritten'
  <2>1. \A c, id : LastWrite(c, id) => LastWrite(c, id)'
    BY <1>1, <1>2, <1>6, <1>10 DEF LastWrite
  <2> QED
    BY <1>1, <1>2, <2>1 DEF BitsWritten
<1>12. TranslateInv'
  BY <1>1, <1>7, <1>8, <1>9, <1>11 DEF Inv, TranslateInv
<1> QED
  BY <1>2, <1>3, <1>4, <1>12 DEF Inv

(* Only a circuit that is not refused gets past the arguments.             *)
Accepted == phase \notin {"check", "raised"} => ~Refused(source, options)

LEMMA InvHolds == Spec => [](Inv /\ Accepted)
<1>1. Init => Inv /\ Accepted
  BY InitInv DEF Init, Accepted
<1>2. Inv /\ [Next]_vars => Inv'
  BY CheckInv, ExtractInv, LayOutKeepsInv, ExchangeInv, LoseInv, EndTranspilerInv,
     RestoreInv, InlineInv, TranslateStep, FinishInv, StutterInv DEF Next
<1>3. Accepted /\ [Next]_vars => Accepted'
  <2> SUFFICES ASSUME Accepted, [Next]_vars PROVE Accepted'
    OBVIOUS
  <2>1. source' = source /\ options' = options /\ others' = others
    BY DEF Next, vars, given, CheckArguments, Extract, LayOut, Exchange, LosePlaceholder,
           EndTranspiler, Restore, Inline, Translate, Finish
  <2>2. Refused(source, options)' <=> Refused(source, options)
    BY <2>1 DEF Refused, HasVerbatimBoxes
  <2>3. phase' \notin {"check", "raised"} =>
          phase \notin {"check", "raised"} \/ ~Refused(source, options)
    BY DEF Next, vars, CheckArguments, Extract, LayOut, Exchange, LosePlaceholder,
           EndTranspiler, Restore, Inline, Translate, Finish, TranslateMeasure,
           TranslateOperation
  <2> QED
    BY <2>1, <2>2, <2>3 DEF Accepted
<1> QED
  BY <1>1, <1>2, <1>3, PTL DEF Spec

(* A circuit is refused only for a reason the caller can see, or because   *)
(* the transpiler lost a placeholder: not by the extraction, the           *)
(* restoration or the translation of any circuit whatever.                 *)
THEOREM RefusalsHaveAReason == Spec => []RefusalHasAReason
<1>1. Inv => RefusalHasAReason
  BY DEF Inv
<1> QED
  BY <1>1, InvHolds, PTL

-----------------------------------------------------------------------------
(* The result.                                                             *)
LEMMA OutFacts ==
  ASSUME Inv, phase = "done"
  PROVE  /\ \A i \in DOMAIN out :
              /\ i \in Nat /\ out[i].id \in ItemIds
              /\ out[i].qs = LabelsOf(Laid(Item(out[i].id)))
              /\ IsOperation(out[i]) /\ IsOperation(Item(out[i].id))
         /\ \A id \in ItemIds : ~ToCome(id)
         /\ \A id \in ItemIds : IsOperation(Item(id)) => IsOut(id)
<1>1. /\ SourceOK /\ layout \in [Qubit -> Qubit] /\ IsInjective(layout)
      /\ OutInOrder /\ NothingMissing /\ circuit = << >>
  BY DEF Inv, LayoutInv, TranslateInv
<1>2. \A id \in ItemIds : ~ToCome(id)
  BY <1>1 DEF ToCome, At
<1>3. ASSUME NEW id \in ItemIds
      PROVE  LET z == Labelled(Laid(Item(id)))
             IN z.id = id /\ z.qs = LabelsOf(Laid(Item(id))) /\ z.op = Item(id).op
  <2>1. Item(id).qs \in Seq(Qubit) /\ Item(id).id = id
    BY <1>1, ItemFacts DEF IsInstruction
  <2>2. Laid(Item(id)).id = id /\ Laid(Item(id)).op = Item(id).op
    BY <1>1, <2>1, LaidFacts DEF Laid
  <2> DEFINE y == Laid(Item(id))
  <2> HIDE DEF y
  <2>3. Labelled(y).id = y.id /\ Labelled(y).op = y.op /\ Labelled(y).qs = LabelsOf(y)
    BY Fields DEF Labelled
  <2> QED
    BY <2>2, <2>3 DEF y
<1>4. ASSUME NEW i \in DOMAIN out
      PROVE  /\ i \in Nat /\ out[i].id \in ItemIds
             /\ out[i].qs = LabelsOf(Laid(Item(out[i].id)))
             /\ IsOperation(out[i]) /\ IsOperation(Item(out[i].id))
  <2> DEFINE S == {Labelled(Laid(Item(id))) : id \in ItemIds}
  <2>1. out \in Seq(S) /\ IsOperation(out[i])
    BY <1>1 DEF OutInOrder
  <2>2. i \in Nat /\ out[i] \in S
    BY <2>1
  <2>3. PICK id \in ItemIds : out[i] = Labelled(Laid(Item(id)))
    BY <2>2
  <2>4. out[i].id = id /\ out[i].qs = LabelsOf(Laid(Item(id))) /\ out[i].op = Item(id).op
    BY <1>3, <2>3
  <2> QED
    BY <2>1, <2>2, <2>4 DEF IsOperation
<1> QED
  BY <1>1, <1>2, <1>4 DEF NothingMissing

(* The gates of a verbatim box come out on the qubits the program put them *)
(* on, of every circuit: a layout is chosen only where there is no box.    *)
THEOREM BoxesStay == Spec => []BoxesStayOnTheirQubits
<1>1. ASSUME Inv, Accepted, phase = "done" PROVE BoxesStayOnTheirQubits
  <2>1. /\ SourceOK /\ LayoutInv /\ layout \in [Qubit -> Qubit]
    BY <1>1 DEF Inv, LayoutInv
  <2> SUFFICES ASSUME NEW i \in DOMAIN out, NEW b \in DOMAIN Flat,
                      out[i].id = Flat[b].id, out[i].id[2] > 0
               PROVE  out[i].qs = LabelsOf(Flat[b])
    BY DEF BoxesStayOnTheirQubits, Range
  <2> DEFINE id == out[i].id
  <2>2. id \in ItemIds /\ out[i].qs = LabelsOf(Laid(Item(id))) /\ Flat[b] = Item(id)
    BY <1>1, <2>1, OutFacts, FlatFacts
  <2> HIDE DEF id
  <2>3. id[1] \in BoxPlaces
    BY <2>2 DEF ItemIds, id
  <2>4. HasVerbatimBoxes /\ ~Refused(source, options)
    BY <1>1, <2>1, <2>3, BoxesSeen DEF Accepted
  <2>5. Path # "transpile"
    BY <2>4 DEF Path, PathOf, Refused
  <2>6. layout = [q \in Qubit |-> q]
    BY <2>1, <2>5 DEF LayoutInv
  <2>7. Whole(Item(id)) /\ Item(id).qs \in Seq(Qubit)
    BY <2>1, <2>2, ItemFacts DEF IsInstruction
  <2>8. Laid(Item(id)) = Item(id)
    BY <2>6, <2>7, LaidStays DEF Laid
  <2> QED
    BY <2>2, <2>8
<1>2. Inv /\ Accepted => BoxesStayOnTheirQubits
  BY <1>1 DEF BoxesStayOnTheirQubits
<1> QED
  BY <1>2, InvHolds, PTL

LEMMA IdsOnFacts ==
  ASSUME Inv, phase = "done", NEW q \in Qubit
  PROVE  /\ IdsOn(out, LabelOf(layout[q]))
              = {id \in ItemIds : IsOperation(Item(id)) /\ q \in Range(Item(id).qs)}
         /\ IdsOn(Flat, q)
              = {id \in ItemIds : IsOperation(Item(id)) /\ q \in Range(Item(id).qs)}
<1>1. /\ SourceOK /\ layout \in [Qubit -> Qubit] /\ IsInjective(layout)
  BY DEF Inv, LayoutInv
<1> DEFINE there == LabelOf(layout[q])
           S == {id \in ItemIds : IsOperation(Item(id)) /\ q \in Range(Item(id).qs)}
<1>2. ASSUME NEW i \in DOMAIN out
      PROVE  there \in Range(out[i].qs) <=> q \in Range(Item(out[i].id).qs)
  <2>1. out[i].id \in ItemIds /\ out[i].qs = LabelsOf(Laid(Item(out[i].id)))
    BY OutFacts
  <2> QED
    BY <1>1, <2>1, SharedQubit
<1>3. IdsOn(out, there) \subseteq S
  <2> SUFFICES ASSUME NEW i \in GatesOn(out, there) PROVE out[i].id \in S
    BY DEF IdsOn
  <2>1. i \in DOMAIN out /\ there \in Range(out[i].qs)
    BY DEF GatesOn
  <2> QED
    BY <1>2, <2>1, OutFacts
<1>4. S \subseteq IdsOn(out, there)
  <2> SUFFICES ASSUME NEW id \in ItemIds, IsOperation(Item(id)), q \in Range(Item(id).qs)
               PROVE  id \in IdsOn(out, there)
    OBVIOUS
  <2>1. PICK i \in DOMAIN out : out[i].id = id
    BY OutFacts DEF IsOut
  <2>2. i \in GatesOn(out, there)
    BY <1>2, <2>1, OutFacts DEF GatesOn
  <2> QED
    BY <2>1, <2>2 DEF IdsOn
<1>5. IdsOn(Flat, q) \subseteq S
  <2> SUFFICES ASSUME NEW b \in GatesOn(Flat, q) PROVE Flat[b].id \in S
    BY DEF IdsOn
  <2>1. b \in DOMAIN Flat /\ IsOperation(Flat[b]) /\ q \in Range(Flat[b].qs)
    BY DEF GatesOn
  <2>2. Flat[b].id \in ItemIds /\ Flat[b] = Item(Flat[b].id)
    BY <1>1, <2>1, FlatFacts
  <2> QED
    BY <2>1, <2>2
<1>6. S \subseteq IdsOn(Flat, q)
  <2> SUFFICES ASSUME NEW id \in ItemIds, IsOperation(Item(id)), q \in Range(Item(id).qs)
               PROVE  id \in IdsOn(Flat, q)
    OBVIOUS
  <2>1. PICK b \in DOMAIN Flat : Flat[b].id = id
    BY <1>1, FlatFacts
  <2>2. Flat[b] = Item(id)
    BY <1>1, <2>1, FlatFacts
  <2>3. b \in GatesOn(Flat, q)
    BY <2>2 DEF GatesOn
  <2> QED
    BY <2>1, <2>3 DEF IdsOn
<1> QED
  BY <1>3, <1>4, <1>5, <1>6

(* On every qubit, what comes out has the gates the circuit had there,     *)
(* each once and in their order, of every circuit and through every        *)
(* exchange the transpiler may make.                                       *)
THEOREM GatesInOrder == Spec => []GatesKeepTheirOrder
<1>1. ASSUME Inv, phase = "done", NEW q \in Qubit,
             NEW i \in GatesOn(out, LabelOf(layout[q])),
             NEW k \in GatesOn(out, LabelOf(layout[q])), i < k
      PROVE  Before(out[i].id, out[k].id)
  <2>1. /\ SourceOK /\ layout \in [Qubit -> Qubit] /\ IsInjective(layout) /\ OutInOrder
    BY <1>1 DEF Inv, LayoutInv, TranslateInv
  <2>2. /\ i \in DOMAIN out /\ LabelOf(layout[q]) \in Range(out[i].qs)
        /\ k \in DOMAIN out /\ LabelOf(layout[q]) \in Range(out[k].qs)
    BY DEF GatesOn
  <2>3. /\ out[i].id \in ItemIds /\ out[i].qs = LabelsOf(Laid(Item(out[i].id)))
        /\ out[k].id \in ItemIds /\ out[k].qs = LabelsOf(Laid(Item(out[k].id)))
    BY <1>1, <2>2, OutFacts
  <2>4. q \in Range(Item(out[i].id).qs)
    BY <2>1, <2>2, <2>3, SharedQubit
  <2>5. q \in Range(Item(out[k].id).qs)
    BY <2>1, <2>2, <2>3, SharedQubit
  <2> QED
    BY <1>1, <2>1, <2>2, <2>4, <2>5 DEF OutInOrder, Share
<1>2. Inv => GatesKeepTheirOrder
  BY <1>1, IdsOnFacts DEF GatesKeepTheirOrder
<1> QED
  BY <1>2, InvHolds, PTL

-----------------------------------------------------------------------------
(* The measurements at the end.                                            *)
LEMMA FinalOrderFacts ==
  ASSUME NEW cs, IsFiniteSet(cs), cs \subseteq Nat, NEW c \in cs
  PROVE  LET k == Cardinality({d \in cs : d <= c})
         IN k \in 1..Cardinality(cs) /\ FinalOrder(cs)[k] = c
<1> DEFINE Upto(e) == {d \in cs : d <= e}
           k == Cardinality(Upto(c))
<1>1. ASSUME NEW e \in cs
      PROVE  /\ IsFiniteSet(Upto(e)) /\ Cardinality(Upto(e)) \in Nat
             /\ Cardinality(Upto(e)) <= Cardinality(cs)
             /\ Cardinality(Upto(e)) # 0
  <2>1. Upto(e) \in SUBSET cs /\ e \in Upto(e)
    OBVIOUS
  <2> HIDE DEF Upto
  <2>2. IsFiniteSet(Upto(e)) /\ Cardinality(Upto(e)) <= Cardinality(cs)
    BY <2>1, FS_Subset
  <2>3. Cardinality(Upto(e)) \in Nat /\ Cardinality(Upto(e)) # 0
    BY <2>1, <2>2, FS_CardinalityType, FS_EmptySet
  <2> QED
    BY <2>2, <2>3
<1>2. ASSUME NEW e \in cs, NEW f \in cs, e < f
      PROVE  Cardinality(Upto(e)) # Cardinality(Upto(f))
  <2>3. e \in Nat /\ f \in Nat /\ \A d \in cs : d \in Nat
    OBVIOUS
  <2>4. f <= f /\ ~(f <= e) /\ \A d \in cs : d <= e => d <= f
    BY <1>2, <2>3
  <2>1. Upto(e) \in SUBSET Upto(f) /\ f \in Upto(f) /\ f \notin Upto(e)
    BY <2>4
  <2>2. IsFiniteSet(Upto(f))
    BY <1>1
  <2> HIDE DEF Upto
  <2> QED
    BY <2>1, <2>2, FS_Subset
<1> HIDE DEF Upto
<1>3. ASSUME NEW e \in cs, Cardinality(Upto(e)) = k PROVE e = c
  <2>1. e \in Nat /\ c \in Nat
    OBVIOUS
  <2>2. ~(e < c) /\ ~(c < e)
    BY <1>2, <1>3
  <2> QED
    BY <2>1, <2>2
<1>4. Cardinality(cs) \in Nat /\ k \in 1..Cardinality(cs)
  BY <1>1, FS_CardinalityType
<1>5. FinalOrder(cs)[k] = CHOOSE e \in cs : Cardinality(Upto(e)) = k
  BY <1>4 DEF FinalOrder, Upto
<1>6. FinalOrder(cs)[k] = c
  BY <1>3, <1>5
<1> QED
  BY <1>4, <1>6 DEF Upto

LEMMA WritesFacts ==
  ASSUME SourceOK, NEW c
  PROVE  /\ \A i \in Writes(c) : /\ i \in DOMAIN Flat /\ IsMeasure(Flat[i].id)
                                 /\ Flat[i].id \in ItemIds
                                 /\ Flat[i] = Item(Flat[i].id)
                                 /\ Item(Flat[i].id).cs[1] = c
         /\ \A id \in ItemIds : IsMeasure(id) /\ Item(id).cs[1] = c =>
              \E i \in Writes(c) : Flat[i].id = id
         /\ c \in WrittenBits <=>
              \E id \in ItemIds : IsMeasure(id) /\ Item(id).cs[1] = c
<1>1. ASSUME NEW i \in Writes(c)
      PROVE  /\ i \in DOMAIN Flat /\ IsMeasure(Flat[i].id) /\ Flat[i].id \in ItemIds
             /\ Flat[i] = Item(Flat[i].id) /\ Item(Flat[i].id).cs[1] = c
  <2>1. i \in DOMAIN Flat /\ Flat[i].op = "measure" /\ Flat[i].cs[1] = c
    BY DEF Writes
  <2>2. Flat[i].id \in ItemIds /\ Flat[i] = Item(Flat[i].id)
    BY <2>1, FlatFacts
  <2> QED
    BY <2>1, <2>2 DEF IsMeasure
<1>2. ASSUME NEW id \in ItemIds, IsMeasure(id), Item(id).cs[1] = c
      PROVE  \E i \in Writes(c) : Flat[i].id = id
  <2>1. PICK i \in DOMAIN Flat : Flat[i].id = id
    BY FlatFacts
  <2>2. Flat[i] = Item(id)
    BY <2>1, FlatFacts
  <2> QED
    BY <1>2, <2>1, <2>2 DEF IsMeasure, Writes
<1>3. c \in WrittenBits <=> \E i \in Writes(c) : TRUE
  BY DEF WrittenBits, Writes
<1> QED
  BY <1>1, <1>2, <1>3

(* The k-th measurement at the end is of the k-th bit written, and nothing *)
(* acted on its qubit since that bit was last written: of every circuit    *)
(* without a unitary on a measured qubit.                                  *)
THEOREM BitsHeld == Spec => []MeasuresWhatTheBitHolds
<1>1. ASSUME Inv, phase = "done", ~After({"unitary"})
      PROVE  /\ Len(ends) = Cardinality(WrittenBits)
             /\ \A c \in WrittenBits :
                  LET last == CHOOSE i \in Writes(c) : \A j \in Writes(c) : j <= i
                      q == Flat[last].qs[1]
                      k == Cardinality({d \in WrittenBits : d <= c})
                  IN /\ ends[k] = LabelOf(layout[q])
                     /\ IdsOn(out, ends[k]) = IdsOn(SubSeq(Flat, 1, last), q)
  <2>1. /\ SourceOK /\ layout \in [Qubit -> Qubit] /\ IsInjective(layout)
        /\ NothingMissing /\ BitsWritten
        /\ ends = [k \in 1..Cardinality(DOMAIN measured) |->
                     measured[FinalOrder(DOMAIN measured)[k]]]
    BY <1>1 DEF Inv, LayoutInv, TranslateInv
  <2>2. \A id \in ItemIds : ~ToCome(id)
    BY <1>1, OutFacts
  <2>3. DOMAIN measured = WrittenBits
    <3>1. \A c \in DOMAIN measured : c \in WrittenBits
      BY <2>1, WritesFacts DEF BitsWritten, LastWrite
    <3>2. \A c \in WrittenBits : c \in DOMAIN measured
      BY <2>1, <2>2, WritesFacts DEF NothingMissing
    <3> QED
      BY <3>1, <3>2
  <2>4. WrittenBits \subseteq Nat
    <3> SUFFICES ASSUME NEW c \in WrittenBits PROVE c \in Nat
      OBVIOUS
    <3>1. PICK id \in ItemIds : IsMeasure(id) /\ Item(id).cs[1] = c
      BY <2>1, WritesFacts
    <3> QED
      BY <2>1, <3>1, MeasureFacts DEF IsMeasure
  <2>5. IsFiniteSet(WrittenBits) /\ Cardinality(WrittenBits) \in Nat
    BY <2>1, <2>3, FS_CardinalityType DEF BitsWritten
  <2>6. Len(ends) = Cardinality(WrittenBits)
    BY <2>1, <2>3, <2>5
  <2>7. ASSUME NEW c \in WrittenBits
        PROVE  LET last == CHOOSE i \in Writes(c) : \A j \in Writes(c) : j <= i
                   q == Flat[last].qs[1]
                   k == Cardinality({d \in WrittenBits : d <= c})
               IN /\ ends[k] = LabelOf(layout[q])
                  /\ IdsOn(out, ends[k]) = IdsOn(SubSeq(Flat, 1, last), q)
    <3> DEFINE last == CHOOSE i \in Writes(c) : \A j \in Writes(c) : j <= i
               q == Flat[last].qs[1]
               k == Cardinality({d \in WrittenBits : d <= c})
    <3>1. PICK id \in ItemIds : LastWrite(c, id)
      BY <2>1, <2>3 DEF BitsWritten
    <3>2. IsMeasure(id) /\ Item(id).op = "measure" /\ Item(id).cs[1] = c
      BY <3>1 DEF LastWrite, IsMeasure
    <3>3. PICK m \in Writes(c) : Flat[m].id = id
      BY <2>1, <3>2, WritesFacts
    <3>4. m \in DOMAIN Flat /\ Flat[m] = Item(id) /\ m \in Nat
      BY <2>1, <3>3, FlatFacts, WritesFacts
    <3>5. \A j \in Writes(c) : j \in Nat /\ j <= m
      <4> TAKE j \in Writes(c)
      <4>1. /\ j \in DOMAIN Flat /\ j \in Nat /\ Flat[j].id \in ItemIds
            /\ IsMeasure(Flat[j].id) /\ Item(Flat[j].id).cs[1] = c
        BY <2>1, FlatFacts, WritesFacts
      <4>2. Flat[j].id = id \/ Before(Flat[j].id, id)
        BY <2>2, <3>1, <4>1 DEF LastWrite
      <4>3. ~(m < j)
        BY <2>1, <3>3, <3>4, <4>1, <4>2, FlatFacts, IdsInOrder
      <4> QED
        BY <3>4, <4>1, <4>3
    <3>6. last = m
      <4>1. last \in Writes(c) /\ \A j \in Writes(c) : j <= last
        <5>1. \E i \in Writes(c) : \A j \in Writes(c) : j <= i
          BY <3>5
        <5> QED
          BY <5>1
      <4> HIDE DEF last
      <4> QED
        BY <3>5, <4>1
    <3> HIDE DEF last
    <3>7. q = Item(id).qs[1]
      BY <3>4, <3>6
    <3>8. q \in Qubit /\ Range(Item(id).qs) = {q}
      BY <2>1, <3>2, <3>7, MeasureFacts
    <3>9. k \in 1..Cardinality(WrittenBits) /\ FinalOrder(WrittenBits)[k] = c
      BY <2>4, <2>5, FinalOrderFacts
    <3> HIDE DEF k, q
    <3>10. ends[k] = measured[c]
      BY <2>1, <2>3, <3>9
    <3>11. ends[k] = LabelOf(layout[q])
      BY <3>1, <3>7, <3>10 DEF LastWrite
    <3>12. IdsOn(out, LabelOf(layout[q])) = IdsOn(Flat, q)
      BY <1>1, <3>8, IdsOnFacts
    <3> DEFINE part == SubSeq(Flat, 1, m)
    <3>13. /\ DOMAIN part = 1..m
           /\ \A a \in 1..m : a \in DOMAIN Flat /\ part[a] = Flat[a]
      <4>1. Flat \in Seq(Items) /\ m \in 1..Len(Flat)
        BY <2>1, <3>4, FlatFacts
      <4> HIDE DEF Flat
      <4> QED
        BY <4>1
    <3> HIDE DEF part
    <3>14. ASSUME NEW a \in GatesOn(Flat, q) PROVE a < m
      <4>1. /\ a \in DOMAIN Flat /\ a \in Nat /\ Flat[a].id \in ItemIds
            /\ Flat[a] = Item(Flat[a].id) /\ IsOperation(Flat[a]) /\ q \in Range(Flat[a].qs)
        BY <2>1, FlatFacts DEF GatesOn
      <4>2. Share(Flat[a].id, id) /\ Range(Flat[m].qs) \cap Range(Flat[a].qs) # {}
        BY <3>4, <3>8, <4>1 DEF Share
      <4>3. a # m
        BY <3>2, <3>4, <4>1 DEF IsOperation
      <4>4. CASE Flat[a].op = "gate"
        <5>1. Before(Flat[a].id, id)
          BY <1>1, <3>1, <4>1, <4>2, <4>4, OutFacts DEF LastWrite
        <5>2. ~(m < a)
          BY <2>1, <3>3, <3>4, <4>1, <5>1, FlatFacts, IdsInOrder
        <5> QED
          BY <3>4, <4>1, <4>3, <5>2
      <4>5. CASE Flat[a].op = "unitary"
        <5>1. ~(m < a)
          BY <1>1, <3>2, <3>4, <4>1, <4>2, <4>5 DEF After
        <5> QED
          BY <3>4, <4>1, <4>3, <5>1
      <4> QED
        BY <4>1, <4>4, <4>5 DEF IsOperation
    <3>15. GatesOn(part, q) = GatesOn(Flat, q)
      <4>1. \A a \in GatesOn(part, q) : a \in GatesOn(Flat, q)
        BY <3>13 DEF GatesOn
      <4>2. ASSUME NEW a \in GatesOn(Flat, q) PROVE a \in GatesOn(part, q)
        <5>1. a \in DOMAIN Flat /\ a \in 1..m
          BY <2>1, <3>4, <3>14, FlatFacts DEF GatesOn
        <5> QED
          BY <3>13, <4>2, <5>1 DEF GatesOn
      <4> QED
        BY <4>1, <4>2
    <3>16. IdsOn(part, q) = IdsOn(Flat, q)
      <4>1. \A a \in GatesOn(part, q) : part[a] = Flat[a]
        BY <3>13 DEF GatesOn
      <4> QED
        BY <3>15, <4>1 DEF IdsOn
    <3> QED
      BY <3>6, <3>11, <3>12, <3>16 DEF last, q, k, part
  <2> QED
    BY <2>6, <2>7
<1>2. Inv => MeasuresWhatTheBitHolds
  BY <1>1 DEF MeasuresWhatTheBitHolds
<1> QED
  BY <1>2, InvHolds, PTL

(* Every bit written has its place among the measurements at the end.      *)
LEMMA FinalOrderFull ==
  ASSUME NEW cs, IsFiniteSet(cs), cs \subseteq Nat, NEW k \in 1..Cardinality(cs)
  PROVE  FinalOrder(cs)[k] \in cs
<1> DEFINE n == Cardinality(cs)
           rank == [c \in cs |-> Cardinality({d \in cs : d <= c})]
<1>1. n \in Nat /\ IsFiniteSet(1..n) /\ Cardinality(1..n) = n
  <2>1. n \in Nat /\ n \in Int /\ 1 \in Int
    BY FS_CardinalityType
  <2> QED
    BY <2>1, FS_Interval
<1>2. \A c \in cs : rank[c] \in 1..n /\ FinalOrder(cs)[rank[c]] = c
  BY FinalOrderFacts
<1> HIDE DEF n
<1>3. rank \in [cs -> 1..n]
  <2>1. rank = [c \in cs |-> rank[c]]
    OBVIOUS
  <2> HIDE DEF rank
  <2> QED
    BY <1>2, <2>1
<1> HIDE DEF rank
<1>4. \A c, d \in cs : rank[c] = rank[d] => c = d
  BY <1>2
<1>5. rank \in Injection(cs, 1..n)
  BY <1>3, <1>4 DEF Injection, IsInjective
<1>6. rank \in Surjection(cs, 1..n)
  BY <1>1, <1>5, FS_Injection DEF n
<1>7. PICK c \in cs : rank[c] = k
  BY <1>6 DEF Surjection, n
<1> QED
  BY <1>2, <1>7

(* What the labels of qubits are.                                          *)
LabelSet == {LabelOf(q) : q \in Qubit}

LEMMA LabelSetFacts ==
  /\ LabelSet \subseteq IF HasLabels THEN Range(Labels) ELSE 0..(Len(Labels) - 1)
  /\ IsFiniteSet(LabelSet) /\ Cardinality(LabelSet) = Len(Labels)
<1>1. Qubit = 1..Len(Labels) /\ Len(Labels) \in Nat
  BY LabelsAssumption DEF Qubit
<1>2. LabelSet \subseteq IF HasLabels THEN Range(Labels) ELSE 0..(Len(Labels) - 1)
  <2>1. CASE HasLabels
    BY <2>1 DEF LabelSet, LabelOf, Range, Qubit
  <2>2. CASE ~HasLabels
    BY <1>1, <2>2 DEF LabelSet, LabelOf
  <2> QED
    BY <2>1, <2>2
<1> DEFINE f == [q \in Qubit |-> LabelOf(q)]
<1>3. f \in [Qubit -> LabelSet]
  BY DEF LabelSet
<1>4. f \in Injection(Qubit, LabelSet)
  BY <1>3, LabelsDiffer DEF Injection, IsInjective
<1>5. f \in Surjection(Qubit, LabelSet)
  BY <1>3 DEF Surjection, LabelSet
<1>6. f \in Bijection(Qubit, LabelSet)
  BY <1>4, <1>5 DEF Bijection
<1>7. ExistsBijection(Qubit, LabelSet)
  BY <1>6 DEF ExistsBijection
<1>8. IsFiniteSet(Qubit) /\ Cardinality(Qubit) = Len(Labels)
  <2>1. Len(Labels) \in Int /\ 1 \in Int
    BY <1>1
  <2> DEFINE m == Len(Labels)
  <2> HIDE DEF m
  <2>3. m \in Nat /\ m \in Int /\ 1 \in Int
    BY <1>1 DEF m
  <2>4. IsFiniteSet(1..m) /\ Cardinality(1..m) = IF 1 > m THEN 0 ELSE m - 1 + 1
    BY <2>3, FS_Interval
  <2>5. Cardinality(1..m) = m
    BY <2>3, <2>4
  <2>2. IsFiniteSet(1..Len(Labels)) /\ Cardinality(1..Len(Labels)) = Len(Labels)
    BY <2>4, <2>5 DEF m
  <2> QED
    BY <1>1, <2>2
<1> QED
  BY <1>2, <1>7, <1>8, FS_Bijection

TypeInv ==
  /\ others \in BOOLEAN /\ lost \in BOOLEAN
  /\ \A l \in DOMAIN stash : IsVerbatimLabel(l)
  /\ measured = [c \in DOMAIN measured |-> measured[c]]
  /\ IsInjective(measured) /\ Range(measured) \subseteq LabelSet
  /\ phase # "done" => ends = << >>

LEMMA NewLabel ==
  ASSUME Inv, phase = "translate", circuit # << >>, Head(circuit).op = "measure"
  PROVE  /\ LabelOf(Head(circuit).qs[1]) \in LabelSet
         /\ LabelOf(Head(circuit).qs[1]) \in Range(LabelsOf(Head(circuit)))
<1>1. /\ SourceOK /\ layout \in [Qubit -> Qubit] /\ IsInjective(layout)
      /\ Coming(circuit, layout)
  BY DEF Inv, LayoutInv, TranslateInv
<1> DEFINE x == Head(circuit)
           h == x.id
<1>2. h \in ItemIds /\ x = Laid(Item(h))
  BY <1>1, HeadFacts DEF Laid
<1>3. Item(h).qs \in Seq(Qubit) /\ (Item(h).op = "measure" => Len(Item(h).qs) = 1)
  BY <1>1, <1>2, ItemFacts DEF IsInstruction
<1>4. \A y : y.qs \in Seq(Qubit) =>
        Laid(y).op = y.op /\ Laid(y).qs \in Seq(Qubit) /\ Len(Laid(y).qs) = Len(y.qs)
  BY <1>1, LaidFacts DEF Laid
<1> HIDE DEF h
<1>5. x.qs \in Seq(Qubit) /\ Len(x.qs) = 1
  BY <1>2, <1>3, <1>4
<1> HIDE DEF x
<1>6. 1 \in DOMAIN x.qs /\ x.qs[1] \in Qubit
  BY <1>5
<1>7. LabelOf(x.qs[1]) \in LabelSet /\ LabelOf(x.qs[1]) \in Range(LabelsOf(x))
  BY <1>6 DEF LabelSet, LabelsOf, Range
<1> QED
  BY <1>7 DEF x

LEMMA TypeInvStep ==
  ASSUME Inv, TypeInv, [Next]_vars
  PROVE  TypeInv'
<1>1. source' = source /\ options' = options /\ others' = others
  BY DEF Next, vars, given, CheckArguments, Extract, LayOut, Exchange, LosePlaceholder,
         EndTranspiler, Restore, Inline, Translate, Finish
<1>2. others' \in BOOLEAN
  BY <1>1 DEF TypeInv
<1>3. lost' \in BOOLEAN
  BY DEF TypeInv, Next, vars, CheckArguments, Extract, LayOut, Exchange, LosePlaceholder,
         EndTranspiler, Restore, Inline, Translate, Finish
<1>4. \A l \in DOMAIN stash' : IsVerbatimLabel(l)
  <2>1. CASE Extract
    <3>1. CASE stash' = stash
      BY <3>1 DEF TypeInv
    <3>2. CASE stash' # stash
      <4> DEFINE boxes == {i \in DOMAIN circuit : IsVerbatimBox(circuit[i])}
      <4>1. DOMAIN stash' = {PlaceholderLabel(circuit, i) : i \in boxes}
        BY <2>1, <3>2 DEF Extract
      <4> QED
        BY <4>1 DEF PlaceholderLabel, IndexedLabel, IsVerbatimLabel
    <3> QED
      BY <3>1, <3>2
  <2>2. CASE ~Extract
    <3>1. stash' = stash \/ stash' = << >>
      BY <2>2 DEF Next, vars, CheckArguments, LayOut, Exchange, LosePlaceholder,
             EndTranspiler, Restore, Inline, Translate, Finish
    <3> QED
      BY <3>1 DEF TypeInv
  <2> QED
    BY <2>1, <2>2
<1>5. LabelSet' = LabelSet
  BY <1>1, SourceKept DEF LabelSet
<1>6. /\ measured' = [c \in DOMAIN measured' |-> measured'[c]]
      /\ IsInjective(measured') /\ Range(measured') \subseteq LabelSet
  <2>1. CASE measured' = measured
    BY <2>1 DEF TypeInv
  <2>2. CASE measured' # measured
    <3> DEFINE x == Head(circuit)
               b == x.cs[1]
               l == LabelOf(x.qs[1])
    <3>1. Translate
      BY <2>2 DEF Next, vars, emitted, CheckArguments, Extract, LayOut, Exchange,
         LosePlaceholder, EndTranspiler, Restore, Inline, Finish
    <3>2. /\ phase = "translate" /\ circuit # << >> /\ x.op = "measure"
          /\ ~ActsOnMeasured(x)
          /\ measured' = [c \in DOMAIN measured \cup {b} |->
                            IF c = b THEN l ELSE measured[c]]
      BY <2>2, <3>1 DEF Translate, TranslateMeasure
    <3>3. l \in LabelSet /\ l \in Range(LabelsOf(x))
      BY <3>2, NewLabel
    <3>4. l \notin Range(measured)
      BY <3>2, <3>3 DEF ActsOnMeasured
    <3> HIDE DEF l, b, x
    <3>5. \A c \in DOMAIN measured : measured[c] \in LabelSet /\ measured[c] # l
      BY <3>4 DEF TypeInv, Range
    <3>6. /\ DOMAIN measured' = DOMAIN measured \cup {b} /\ measured'[b] = l
          /\ \A c \in DOMAIN measured' :
               c # b => c \in DOMAIN measured /\ measured'[c] = measured[c]
      BY <3>2
    <3>9. measured' = [c \in DOMAIN measured' |-> measured'[c]]
      BY <3>2
    <3>7. Range(measured') \subseteq LabelSet
      BY <3>3, <3>5, <3>6 DEF Range
    <3>8. IsInjective(measured')
      BY <3>5, <3>6 DEF IsInjective, TypeInv
    <3> QED
      BY <3>7, <3>8, <3>9
  <2> QED
    BY <2>1, <2>2
<1>7. phase' # "done" => ends' = << >>
  BY DEF TypeInv, Next, vars, emitted, CheckArguments, Extract, LayOut, Exchange,
         LosePlaceholder, EndTranspiler, Restore, Inline, Translate, Finish,
         TranslateMeasure, TranslateOperation
<1> QED
  BY <1>2, <1>3, <1>4, <1>5, <1>6, <1>7 DEF TypeInv

LEMMA EndsTyped ==
  ASSUME Inv, TypeInv, phase = "done"
  PROVE  Range(ends) \subseteq LabelSet /\ Len(ends) <= Len(Labels)
<1> DEFINE cs == DOMAIN measured
           n == Cardinality(cs)
<1>1. /\ SourceOK /\ IsFiniteSet(cs) /\ BitsWritten
      /\ ends = [k \in 1..n |-> measured[FinalOrder(cs)[k]]]
  BY DEF Inv, TranslateInv, BitsWritten
<1>2. cs \subseteq Nat
  <2> SUFFICES ASSUME NEW c \in cs PROVE c \in Nat
    OBVIOUS
  <2>1. PICK id \in ItemIds : LastWrite(c, id)
    BY <1>1 DEF BitsWritten
  <2> QED
    BY <1>1, <2>1, MeasureFacts DEF LastWrite, IsMeasure
<1>3. measured \in [cs -> LabelSet]
  <2>1. \A c \in cs : measured[c] \in LabelSet
    BY DEF TypeInv, Range
  <2>2. measured = [c \in cs |-> measured[c]]
    BY DEF TypeInv
  <2> QED
    BY <2>1, <2>2
<1> HIDE DEF cs
<1>4. n \in Nat /\ \A k \in 1..n : FinalOrder(cs)[k] \in cs
  BY <1>1, <1>2, FinalOrderFull, FS_CardinalityType
<1>5. Range(ends) \subseteq LabelSet
  BY <1>1, <1>3, <1>4 DEF Range
<1>6. measured \in Injection(cs, LabelSet)
  BY <1>3 DEF Injection, IsInjective, TypeInv
<1>7. n <= Len(Labels)
  BY <1>6, LabelSetFacts, FS_Injection
<1> HIDE DEF n
<1>8. Len(ends) = n
  BY <1>1, <1>4
<1> QED
  BY <1>5, <1>7, <1>8

(* The variables have their types; in particular no circuit ends with more *)
(* measurements than there are qubits.                                     *)
THEOREM Typed == Spec => []TypeOK
<1>1. ASSUME Init PROVE TypeInv
  <2>1. lost = FALSE /\ stash = << >> /\ measured = << >> /\ ends = << >>
    BY <1>1 DEF Init
  <2>5. others \in BOOLEAN
    BY <1>1 DEF Init
  <2>6. lost \in BOOLEAN
    BY <2>1
  <2>2. DOMAIN measured = {} /\ DOMAIN stash = {}
    BY <2>1
  <2>3. measured = [c \in DOMAIN measured |-> measured[c]]
    BY <2>1
  <2>4. IsInjective(measured) /\ Range(measured) = {}
    BY <2>2 DEF IsInjective, Range
  <2> QED
    BY <2>1, <2>2, <2>3, <2>4, <2>5, <2>6 DEF TypeInv
<1>2. Inv /\ TypeInv /\ [Next]_vars => TypeInv'
  BY TypeInvStep
<1>3. Inv /\ TypeInv => TypeOK
  <2> SUFFICES ASSUME Inv, TypeInv PROVE TypeOK
    OBVIOUS
  <2>1. Range(ends) \subseteq LabelSet /\ Len(ends) <= Len(Labels)
    <3>1. CASE phase = "done"
      BY <3>1, EndsTyped
    <3>2. CASE phase # "done"
      <4>1. ends = << >> /\ Len(Labels) \in Nat
        BY <3>2, LabelsAssumption DEF TypeInv
      <4> QED
        BY <4>1 DEF Range
    <3> QED
      BY <3>1, <3>2
  <2>2. Range(measured) \cup Range(ends) \subseteq
          IF HasLabels THEN Range(Labels) ELSE 0..(Len(Labels) - 1)
    BY <2>1, LabelSetFacts DEF TypeInv
  <2> QED
    BY <2>1, <2>2 DEF TypeOK, Inv, LayoutInv, TypeInv
<1> QED
  BY <1>1, <1>2, <1>3, InvHolds, PTL DEF Spec
=============================================================================
