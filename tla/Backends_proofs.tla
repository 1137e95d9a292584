-------------------------- MODULE Backends_proofs --------------------------
(***************************************************************************)
(* Proofs about Backends, for any devices and any number of programs: what *)
(* holds of a target that is built (Targets) and of a run that is submitted*)
(* (BackendRun), and that the backend they are composed in does what each  *)
(* of them does.                                                           *)
(***************************************************************************)
EXTENDS Backends, FiniteSetTheorems, WellFoundedInduction, TLAPS

-----------------------------------------------------------------------------
(***************************************************************************)
(* What FlattenSeq gives, for sequences of any length: the elements of its *)
(* rows, row by row, and nothing else.                                     *)
(***************************************************************************)

(* Every set of numbers has a least one.                                   *)
LEMMA Least ==
  ASSUME NEW S \in SUBSET Nat, S # {}
  PROVE  \E n \in S : \A m \in S : n <= m
<1> DEFINE R == OpToRel(<, Nat)
<1>1. IsWellFoundedOn(R, Nat)
  BY NatLessThanWellFounded
<1>2. \A m, n \in Nat : <<m, n>> \in R <=> m < n
  BY DEF OpToRel
<1> HIDE DEF R
<1>3. PICK n \in S : \A m \in S : ~(<<m, n>> \in R)
  BY <1>1, WFMin
<1>4. ASSUME NEW m \in S PROVE n <= m
  <2>1. n \in Nat /\ m \in Nat /\ ~(m < n)
    BY <1>2, <1>3
  <2> QED
    BY <2>1
<1> QED
  BY <1>4

(* FlattenSeq: each element of the whole has its row, the sequence it comes*)
(* from, and its column there, and they come row by row.                   *)
Flattening(f, ss, n) ==
  f = [i \in 1..n |-> IF i = 1 THEN ss[i] ELSE f[i - 1] \o ss[i]]

IsGrid(c, ss, m, row, col) ==
  /\ row \in [1..Len(c) -> 1..m] /\ col \in [1..Len(c) -> Nat]
  /\ \A b \in 1..Len(c) : col[b] \in 1..Len(ss[row[b]]) /\ c[b] = ss[row[b]][col[b]]
  /\ \A b, d \in 1..Len(c) :
       b < d => row[b] < row[d] \/ (row[b] = row[d] /\ col[b] < col[d])
  /\ \A i \in 1..m : \A j \in 1..Len(ss[i]) :
       \E b \in 1..Len(c) : row[b] = i /\ col[b] = j

(* A row more extends a grid by that row's elements.                       *)
LEMMA GridGrows ==
  ASSUME NEW S, NEW ss \in Seq(Seq(S)), NEW m \in Nat, m + 1 \in 1..Len(ss),
         NEW c \in Seq(S), NEW row, NEW col, IsGrid(c, ss, m, row, col)
  PROVE  \E rows, cols : IsGrid(c \o ss[m + 1], ss, m + 1, rows, cols)
<1> DEFINE t == ss[m + 1]
           d == c \o t
           rows == [b \in 1..Len(d) |-> IF b <= Len(c) THEN row[b] ELSE m + 1]
           cols == [b \in 1..Len(d) |-> IF b <= Len(c) THEN col[b] ELSE b - Len(c)]
<1>1. t \in Seq(S)
  OBVIOUS
<1> HIDE DEF t
<1>2. /\ Len(d) = Len(c) + Len(t) /\ Len(c) \in Nat /\ Len(t) \in Nat
      /\ \A b \in 1..Len(d) : d[b] = IF b <= Len(c) THEN c[b] ELSE t[b - Len(c)]
  BY <1>1
<1> HIDE DEF d
<1>3. rows \in [1..Len(d) -> 1..(m + 1)] /\ cols \in [1..Len(d) -> Nat]
  BY <1>2 DEF IsGrid
<1>4. ASSUME NEW b \in 1..Len(d)
      PROVE  cols[b] \in 1..Len(ss[rows[b]]) /\ d[b] = ss[rows[b]][cols[b]]
  <2>1. CASE b <= Len(c)
    <3>1. b \in 1..Len(c) /\ rows[b] = row[b] /\ cols[b] = col[b] /\ d[b] = c[b]
      BY <1>2, <2>1
    <3> HIDE DEF rows, cols
    <3> QED
      BY <3>1 DEF IsGrid
  <2>2. CASE ~(b <= Len(c))
    <3>1. rows[b] = m + 1 /\ cols[b] = b - Len(c) /\ d[b] = t[b - Len(c)]
      BY <1>2, <2>2
    <3>2. b - Len(c) \in 1..Len(t)
      BY <1>2, <2>2
    <3> HIDE DEF rows, cols
    <3> QED
      BY <3>1, <3>2 DEF t
  <2> QED
    BY <2>1, <2>2
<1>5. \A b, e \in 1..Len(d) :
        b < e => rows[b] < rows[e] \/ (rows[b] = rows[e] /\ cols[b] < cols[e])
  <2> SUFFICES ASSUME NEW b \in 1..Len(d), NEW e \in 1..Len(d), b < e
               PROVE  rows[b] < rows[e] \/ (rows[b] = rows[e] /\ cols[b] < cols[e])
    OBVIOUS
  <2>1. CASE e <= Len(c)
    BY <1>2, <2>1 DEF IsGrid
  <2>2. CASE b <= Len(c) /\ ~(e <= Len(c))
    <3>1. b \in 1..Len(c) /\ row \in [1..Len(c) -> 1..m]
      BY <1>2, <2>2 DEF IsGrid
    <3>2. row[b] \in 1..m
      BY <3>1
    <3>3. rows[b] = row[b] /\ rows[e] = m + 1
      BY <2>2
    <3> QED
      BY <3>2, <3>3
  <2>3. CASE ~(b <= Len(c))
    BY <1>2, <2>3
  <2> QED
    BY <2>1, <2>2, <2>3
<1>6. ASSUME NEW i \in 1..(m + 1), NEW j \in 1..Len(ss[i])
      PROVE  \E b \in 1..Len(d) : rows[b] = i /\ cols[b] = j
  <2>1. CASE i \in 1..m
    <3>1. PICK b \in 1..Len(c) : row[b] = i /\ col[b] = j
      BY <1>6, <2>1 DEF IsGrid
    <3>2. b \in 1..Len(d) /\ b <= Len(c)
      BY <1>2
    <3> QED
      BY <3>1, <3>2
  <2>2. CASE i = m + 1
    <3>1. j \in 1..Len(t)
      BY <1>6, <2>2 DEF t
    <3>2. Len(c) + j \in 1..Len(d) /\ ~(Len(c) + j <= Len(c)) /\ (Len(c) + j) - Len(c) = j
      BY <1>2, <3>1
    <3> QED
      BY <2>2, <3>2
  <2> QED
    BY <2>1, <2>2
<1> HIDE DEF rows, cols
<1>7. IsGrid(d, ss, m + 1, rows, cols)
  BY <1>3, <1>4, <1>5, <1>6 DEF IsGrid
<1> QED
  BY <1>7 DEF d, t

(* What FlattenSeq gives is a grid of all the rows.                        *)
LEMMA FlattenSeqIsGrid ==
  ASSUME NEW S, NEW ss \in Seq(Seq(S))
  PROVE  /\ FlattenSeq(ss) \in Seq(S)
         /\ \E row, col : IsGrid(FlattenSeq(ss), ss, Len(ss), row, col)
<1> DEFINE n == Len(ss)
           Good(f, m) ==
             \A i \in 1..m :
               /\ f[i] \in Seq(S) /\ \E row, col : IsGrid(f[i], ss, i, row, col)
<1>1. n \in Nat
  OBVIOUS
<1>2. ASSUME n = 0
      PROVE  /\ FlattenSeq(ss) \in Seq(S)
             /\ \E row, col : IsGrid(FlattenSeq(ss), ss, Len(ss), row, col)
  <2>1. FlattenSeq(ss) = << >> /\ ss = << >>
    BY <1>2 DEF FlattenSeq
  <2>2. IsGrid(<< >>, ss, 0, [b \in 1..0 |-> 0], [b \in 1..0 |-> 0])
    BY DEF IsGrid
  <2> QED
    BY <1>2, <2>1, <2>2
<1>3. ASSUME NEW m \in 1..n, NEW f, Flattening(f, ss, m)
      PROVE  Good(f, m)
  <2> DEFINE Bad == {i \in 1..m : ~(f[i] \in Seq(S) /\ \E row, col : IsGrid(f[i], ss, i, row, col))}
  <2>1. \A i \in 1..m : f[i] = IF i = 1 THEN ss[i] ELSE f[i - 1] \o ss[i]
    BY <1>3 DEF Flattening
  <2>2. f[1] \in Seq(S) /\ \E row, col : IsGrid(f[1], ss, 1, row, col)
    <3>1. f[1] = ss[1] /\ ss[1] \in Seq(S) /\ 0 + 1 \in 1..Len(ss) /\ 0 \in Nat
      BY <1>1, <2>1
    <3>2. IsGrid(<< >>, ss, 0, [b \in 1..0 |-> 0], [b \in 1..0 |-> 0]) /\ << >> \in Seq(S)
      BY DEF IsGrid
    <3>3. \E row, col : IsGrid(<< >> \o ss[0 + 1], ss, 0 + 1, row, col)
      BY <3>1, <3>2, GridGrows
    <3>4. << >> \o ss[0 + 1] = ss[1] /\ 0 + 1 = 1
      BY <3>1
    <3> QED
      BY <3>1, <3>3, <3>4
  <2>3. ASSUME NEW i \in 1..m, i # 1, f[i - 1] \in Seq(S),
               \E row, col : IsGrid(f[i - 1], ss, i - 1, row, col)
        PROVE  f[i] \in Seq(S) /\ \E row, col : IsGrid(f[i], ss, i, row, col)
    <3>1. i - 1 \in Nat /\ (i - 1) + 1 = i /\ i \in 1..Len(ss) /\ f[i] = f[i - 1] \o ss[i]
      <4>1. i \in Nat /\ i # 0 /\ i <= m /\ m <= n
        BY <1>1
      <4>2. f[i] = f[i - 1] \o ss[i]
        BY <2>1, <2>3
      <4> HIDE DEF Bad, Good
      <4>3. i - 1 \in Nat /\ (i - 1) + 1 = i
        BY <4>1
      <4>4. i \in 1..Len(ss)
        BY <1>1, <4>1
      <4> QED
        BY <4>2, <4>3, <4>4
    <3>2. ss[i] \in Seq(S)
      BY <3>1
    <3>3. PICK row, col : IsGrid(f[i - 1], ss, i - 1, row, col)
      BY <2>3
    <3>4. \E rows, cols : IsGrid(f[i - 1] \o ss[(i - 1) + 1], ss, (i - 1) + 1, rows, cols)
      BY <2>3, <3>1, <3>3, GridGrows
    <3> QED
      BY <2>3, <3>1, <3>2, <3>4
  <2>4. Bad = {}
    <3> SUFFICES ASSUME Bad # {} PROVE FALSE
      OBVIOUS
    <3>1. PICK i \in Bad : \A k \in Bad : i <= k
      <4>1. Bad \in SUBSET Nat
        OBVIOUS
      <4> HIDE DEF Bad
      <4> QED
        BY <4>1, Least
    <3>2. i \in 1..m /\ i # 1
      BY <2>2, <3>1
    <3>3. i - 1 \in 1..m /\ ~(i <= i - 1)
      BY <3>2
    <3>4. i - 1 \notin Bad
      BY <3>1, <3>3
    <3> QED
      BY <2>3, <3>1, <3>2, <3>3, <3>4
  <2> QED
    BY <2>4
<1>4. ASSUME NEW m \in 1..n
      PROVE  \E f : Flattening(f, ss, m)
  <2> DEFINE Bad == {k \in 1..n : ~\E f : Flattening(f, ss, k)}
  <2>1. \E f : Flattening(f, ss, 1)
    <3>1. Flattening([i \in 1..1 |-> ss[1]], ss, 1)
      BY DEF Flattening
    <3> QED
      BY <3>1
  <2>2. ASSUME NEW k \in 1..n, k # 1, NEW f, Flattening(f, ss, k - 1)
        PROVE  \E g : Flattening(g, ss, k)
    <3> DEFINE g == [i \in 1..k |-> IF i = k THEN f[k - 1] \o ss[k] ELSE f[i]]
    <3>1. \A i \in 1..(k - 1) : f[i] = IF i = 1 THEN ss[i] ELSE f[i - 1] \o ss[i]
      BY <2>2 DEF Flattening
    <3>2. \A i \in 1..k : g[i] = IF i = 1 THEN ss[i] ELSE g[i - 1] \o ss[i]
      <4> SUFFICES ASSUME NEW i \in 1..k
                   PROVE  g[i] = IF i = 1 THEN ss[i] ELSE g[i - 1] \o ss[i]
        OBVIOUS
      <4>1. CASE i = k
        <5>1. i - 1 \in 1..k /\ i - 1 # k /\ i # 1
          BY <2>2, <4>1
        <5> QED
          BY <4>1, <5>1
      <4>2. CASE i # k
        <5>1. i \in 1..(k - 1)
          BY <4>2
        <5>2. i # 1 => i - 1 \in 1..k /\ i - 1 # k
          BY <5>1
        <5> QED
          BY <3>1, <4>2, <5>1, <5>2
      <4> QED
        BY <4>1, <4>2
    <3>3. g = [i \in 1..k |-> IF i = 1 THEN ss[i] ELSE g[i - 1] \o ss[i]]
      <4>1. DOMAIN g = 1..k /\ g = [i \in 1..k |-> g[i]]
        OBVIOUS
      <4> HIDE DEF g
      <4> QED
        BY <3>2, <4>1
    <3> HIDE DEF g
    <3> QED
      BY <3>3 DEF Flattening
  <2>3. Bad = {}
    <3> SUFFICES ASSUME Bad # {} PROVE FALSE
      OBVIOUS
    <3>1. PICK k \in Bad : \A j \in Bad : k <= j
      <4>1. Bad \in SUBSET Nat
        OBVIOUS
      <4> HIDE DEF Bad
      <4> QED
        BY <4>1, Least
    <3>2. k \in 1..n /\ k # 1
      BY <2>1, <3>1
    <3>3. k - 1 \in 1..n /\ ~(k <= k - 1)
      BY <3>2
    <3>4. k - 1 \notin Bad
      BY <3>1, <3>3
    <3> QED
      BY <2>2, <3>1, <3>2, <3>3, <3>4
  <2> QED
    BY <2>3
<1>5. CASE n # 0
  <2>1. n \in 1..n
    BY <1>1, <1>5
  <2>2. \E f : Flattening(f, ss, n)
    BY <1>4, <2>1
  <2>3. PICK f : Flattening(f, ss, n) /\ FlattenSeq(ss) = f[n]
    BY <1>5, <2>2 DEF Flattening, FlattenSeq
  <2>4. Good(f, n)
    BY <1>3, <2>1, <2>3
  <2> QED
    BY <2>1, <2>3, <2>4
<1> QED
  BY <1>2, <1>5

(* There is one way only to put the rows one after the other.              *)
LEMMA GridsAgree ==
  ASSUME NEW ss, NEW m \in Nat, NEW c, NEW d, Len(c) \in Nat, Len(d) \in Nat,
         NEW row, NEW col, IsGrid(c, ss, m, row, col),
         NEW rows, NEW cols, IsGrid(d, ss, m, rows, cols)
  PROVE  \A b \in 1..Len(c) :
           b \in 1..Len(d) /\ rows[b] = row[b] /\ cols[b] = col[b]
<1> DEFINE Bad == {b \in 1..Len(c) :
                     ~(b \in 1..Len(d) /\ rows[b] = row[b] /\ cols[b] = col[b])}
<1>1. SUFFICES ASSUME Bad # {} PROVE FALSE
  OBVIOUS
<1>2. PICK b \in Bad : \A k \in Bad : b <= k
  <2>1. Bad \in SUBSET Nat
    OBVIOUS
  <2> HIDE DEF Bad
  <2> QED
    BY <1>1, <2>1, Least
<1>3. b \in 1..Len(c) /\ b \in Nat
  BY <1>2
<1>4. ASSUME NEW a \in 1..Len(c), a < b
      PROVE  a \in 1..Len(d) /\ rows[a] = row[a] /\ cols[a] = col[a]
  <2>1. a \notin Bad
    BY <1>2, <1>3, <1>4
  <2> QED
    BY <2>1
<1>5. /\ \A a \in 1..Len(c) : row[a] \in 1..m /\ col[a] \in Nat
                              /\ col[a] \in 1..Len(ss[row[a]])
      /\ \A a \in 1..Len(d) : rows[a] \in 1..m /\ cols[a] \in Nat
                              /\ cols[a] \in 1..Len(ss[rows[a]])
  BY DEF IsGrid
<1>6. PICK e \in 1..Len(d) : rows[e] = row[b] /\ cols[e] = col[b]
  <2>1. row[b] \in 1..m /\ col[b] \in 1..Len(ss[row[b]])
    BY <1>3, <1>5
  <2>2. \A i \in 1..m : \A j \in 1..Len(ss[i]) :
          \E a \in 1..Len(d) : rows[a] = i /\ cols[a] = j
    BY DEF IsGrid
  <2> QED
    BY <2>1, <2>2
<1>7. ~(e < b)
  <2> SUFFICES ASSUME e < b PROVE FALSE
    OBVIOUS
  <2>1. e \in 1..Len(c)
    BY <1>3
  <2>2. rows[e] = row[e] /\ cols[e] = col[e]
    BY <1>4, <2>1
  <2>3. row[e] < row[b] \/ (row[e] = row[b] /\ col[e] < col[b])
    BY <1>3, <2>1 DEF IsGrid
  <2> QED
    BY <1>3, <1>5, <1>6, <2>1, <2>2, <2>3
<1>8. e # b
  BY <1>2, <1>6
<1>9. b \in 1..Len(d) /\ b < e
  BY <1>3, <1>7, <1>8
<1>10. rows[b] < rows[e] \/ (rows[b] = rows[e] /\ cols[b] < cols[e])
  BY <1>9 DEF IsGrid
<1>11. PICK a \in 1..Len(c) : row[a] = rows[b] /\ col[a] = cols[b]
  <2>1. \A i \in 1..m : \A j \in 1..Len(ss[i]) :
          \E a \in 1..Len(c) : row[a] = i /\ col[a] = j
    BY DEF IsGrid
  <2> QED
    BY <1>5, <1>9, <2>1
<1>12. ~(b < a) /\ a # b
  <2>1. b < a => row[b] < row[a] \/ (row[b] = row[a] /\ col[b] < col[a])
    BY <1>3, <1>11 DEF IsGrid
  <2>2. /\ rows[e] \in Int /\ rows[b] \in Int /\ cols[e] \in Int /\ cols[b] \in Int
    BY <1>5, <1>9
  <2> QED
    BY <1>3, <1>5, <1>6, <1>10, <1>11, <2>1, <2>2
<1>13. a < b
  BY <1>3, <1>12
<1>14. a \in 1..Len(d) /\ rows[a] = row[a] /\ cols[a] = col[a]
  BY <1>4, <1>13
<1>15. rows[a] < rows[b] \/ (rows[a] = rows[b] /\ cols[a] < cols[b])
  BY <1>9, <1>13, <1>14 DEF IsGrid
<1> QED
  BY <1>5, <1>9, <1>11, <1>14, <1>15

(* So that a sequence that has the elements of the rows, row by row, is    *)
(* their flattening.                                                       *)
LEMMA FlatteningIs ==
  ASSUME NEW S, NEW ss \in Seq(Seq(S)), NEW c \in Seq(S), NEW row, NEW col,
         IsGrid(c, ss, Len(ss), row, col)
  PROVE  FlattenSeq(ss) = c
<1> DEFINE d == FlattenSeq(ss)
<1>1. d \in Seq(S) /\ \E rows, cols : IsGrid(d, ss, Len(ss), rows, cols)
  BY FlattenSeqIsGrid
<1> HIDE DEF d
<1>2. PICK rows, cols : IsGrid(d, ss, Len(ss), rows, cols)
  BY <1>1
<1>3. Len(ss) \in Nat /\ Len(c) \in Nat /\ Len(d) \in Nat
  BY <1>1
<1>4. \A b \in 1..Len(c) : b \in 1..Len(d) /\ rows[b] = row[b] /\ cols[b] = col[b]
  BY <1>2, <1>3, GridsAgree
<1>5. \A b \in 1..Len(d) : b \in 1..Len(c)
  BY <1>2, <1>3, GridsAgree
<1>6. Len(c) = Len(d)
  <2>1. ~(Len(c) < Len(d))
    <3>1. Len(c) < Len(d) => Len(d) \in 1..Len(d)
      BY <1>3
    <3> QED
      BY <1>3, <1>5, <3>1
  <2>2. ~(Len(d) < Len(c))
    <3>1. Len(d) < Len(c) => Len(c) \in 1..Len(c)
      BY <1>3
    <3> QED
      BY <1>3, <1>4, <3>1
  <2> QED
    BY <1>3, <2>1, <2>2
<1>7. ASSUME NEW b \in 1..Len(c) PROVE c[b] = d[b]
  <2>1. c[b] = ss[row[b]][col[b]]
    BY DEF IsGrid
  <2>2. d[b] = ss[rows[b]][cols[b]]
    BY <1>2, <1>4 DEF IsGrid
  <2> QED
    BY <1>4, <2>1, <2>2
<1>8. c = d
  BY <1>1, <1>6, <1>7
<1> QED
  BY <1>8 DEF d

(* The rows of tt are those of ss under a function.                       *)
IsImage(f, s, t) == Len(t) = Len(s) /\ \A j \in 1..Len(s) : t[j] = f[s[j]]
AreImages(f, ss, tt) ==
  Len(tt) = Len(ss) /\ \A i \in 1..Len(ss) : IsImage(f, ss[i], tt[i])

(* Elements that are changed one by one are changed alike in the whole.    *)
LEMMA FlatteningOfImages ==
  ASSUME NEW S, NEW T, NEW f \in [S -> T],
         NEW ss \in Seq(Seq(S)), NEW tt \in Seq(Seq(T)), AreImages(f, ss, tt)
  PROVE  /\ FlattenSeq(ss) \in Seq(S) /\ FlattenSeq(tt) \in Seq(T)
         /\ IsImage(f, FlattenSeq(ss), FlattenSeq(tt))
<1> DEFINE c == FlattenSeq(ss)
           d == [b \in 1..Len(c) |-> f[c[b]]]
<1>0. /\ Len(tt) = Len(ss)
      /\ \A i \in 1..Len(ss) : /\ Len(tt[i]) = Len(ss[i])
                              /\ \A j \in 1..Len(ss[i]) : tt[i][j] = f[ss[i][j]]
  BY DEF AreImages, IsImage
<1>1. c \in Seq(S) /\ \E row, col : IsGrid(c, ss, Len(ss), row, col)
  BY FlattenSeqIsGrid
<1> HIDE DEF c
<1>2. PICK row, col : IsGrid(c, ss, Len(ss), row, col)
  BY <1>1
<1>3. d \in Seq(T) /\ Len(d) = Len(c)
  BY <1>1
<1>4. \A b \in 1..Len(c) : d[b] = f[c[b]]
  OBVIOUS
<1> HIDE DEF d
<1>5. ASSUME NEW b \in 1..Len(d)
      PROVE  col[b] \in 1..Len(tt[row[b]]) /\ d[b] = tt[row[b]][col[b]]
  <2>1. /\ row[b] \in 1..Len(ss) /\ col[b] \in 1..Len(ss[row[b]])
        /\ c[b] = ss[row[b]][col[b]]
    BY <1>0, <1>2, <1>3 DEF IsGrid
  <2> QED
    BY <1>0, <1>3, <1>4, <2>1
<1>6. /\ row \in [1..Len(d) -> 1..Len(tt)] /\ col \in [1..Len(d) -> Nat]
      /\ \A b, e \in 1..Len(d) :
           b < e => row[b] < row[e] \/ (row[b] = row[e] /\ col[b] < col[e])
  BY <1>0, <1>2, <1>3 DEF IsGrid
<1>7. \A i \in 1..Len(tt) : \A j \in 1..Len(tt[i]) :
        \E b \in 1..Len(d) : row[b] = i /\ col[b] = j
  BY <1>0, <1>2, <1>3 DEF IsGrid
<1>8. IsGrid(d, tt, Len(tt), row, col)
  BY <1>5, <1>6, <1>7 DEF IsGrid
<1>9. FlattenSeq(tt) = d
  BY <1>3, <1>8, FlatteningIs
<1> QED
  BY <1>1, <1>3, <1>4, <1>9 DEF c, IsImage

-----------------------------------------------------------------------------
(* A label with a smaller label below it has a higher place.               *)
LEMMA IndexGrows ==
  ASSUME NEW dev, IsFiniteSet(dev.nodes), dev.nodes \subseteq Int,
         NEW p \in dev.nodes, NEW q \in dev.nodes, p < q
  PROVE  Index(dev, p) < Index(dev, q)
<1> DEFINE Under(x) == {y \in dev.nodes : y < x}
<1>1. IsFiniteSet(Under(q)) /\ Cardinality(Under(q)) \in Nat
  BY FS_Subset, FS_CardinalityType
<1>2. Under(p) \in SUBSET Under(q) /\ p \in Under(q) /\ p \notin Under(p)
  OBVIOUS
<1> QED
  BY <1>1, <1>2, FS_Subset, FS_CardinalityType DEF Index

(* A place is the place of one label, and leads back to it.                *)
LEMMA LabelOfItsIndex ==
  ASSUME NEW dev, IsFiniteSet(dev.nodes), dev.nodes \subseteq Int,
         NEW q \in dev.nodes
  PROVE  LabelOfIndex(dev, Index(dev, q)) = q
<1>1. \A p \in dev.nodes : Index(dev, p) \in Nat
  BY FS_Subset, FS_CardinalityType DEF Index
<1>2. ASSUME NEW p \in dev.nodes, Index(dev, p) = Index(dev, q)
      PROVE  p = q
  <2>1. ~(p < q) /\ ~(q < p)
    BY <1>1, <1>2, IndexGrows
  <2> QED
    BY <2>1
<1> QED
  BY <1>2 DEF LabelOfIndex

(* What a device states at some labels is found again from their places.   *)
LEMMA LabelsOfIndices ==
  ASSUME NEW labels \in Seq(Int), Range(labels) \subseteq device.nodes,
         IsFiniteSet(device.nodes), device.nodes \subseteq Int
  PROVE  LabelsAt(Indices(device, labels)) = labels
<1>1. DOMAIN Indices(device, labels) = DOMAIN labels
  BY DEF Indices
<1>2. \A k \in DOMAIN labels : labels[k] \in device.nodes
  BY DEF Range
<1>3. \A k \in DOMAIN labels :
        LabelOfIndex(device, Indices(device, labels)[k]) = labels[k]
  BY <1>2, LabelOfItsIndex DEF Indices
<1>4. labels = [k \in DOMAIN labels |-> labels[k]]
  OBVIOUS
<1> QED
  BY <1>1, <1>3, <1>4 DEF LabelsAt

-----------------------------------------------------------------------------
(* Finitely many have a highest: a smallest set without one would have     *)
(* one when an element is left out, and that or the element is highest.    *)
LEMMA HasHighest ==
  ASSUME NEW S, IsFiniteSet(S), S \subseteq Nat, S # {}
  PROVE  \E x \in S : \A y \in S : x >= y
<1> DEFINE Has(T) == \E x \in T : \A y \in T : x >= y
           Bad == {n \in Nat : \E T \in SUBSET S : T # {} /\ Cardinality(T) = n /\ ~Has(T)}
<1>1. SUFFICES Bad = {}
  BY FS_CardinalityType
<1>2. SUFFICES ASSUME NEW n \in Bad, \A m \in Bad : n <= m PROVE FALSE
  BY Least
<1>3. PICK T \in SUBSET S : T # {} /\ Cardinality(T) = n /\ ~Has(T)
  OBVIOUS
<1>4. PICK x \in T : TRUE
  BY <1>3
<1>5. IsFiniteSet(T \ {x}) /\ Cardinality(T \ {x}) = n - 1 /\ n - 1 \in Nat
  <2>1. IsFiniteSet(T)
    BY FS_Subset
  <2>2. IsFiniteSet(T \ {x}) /\ Cardinality(T \ {x}) = Cardinality(T) - 1
    BY <2>1, FS_RemoveElement
  <2>3. Cardinality(T \ {x}) \in Nat
    BY <2>2, FS_CardinalityType
  <2> QED
    BY <1>3, <2>2, <2>3
<1>6. T \ {x} # {}
  <2>1. T = {x} => Has(T)
    OBVIOUS
  <2> QED
    BY <1>3, <2>1
<1>7. Has(T \ {x})
  BY <1>2, <1>5, <1>6
<1>8. PICK y \in T \ {x} : \A z \in T \ {x} : y >= z
  BY <1>7
<1>9. CASE y >= x
  BY <1>3, <1>8, <1>9
<1>10. CASE x >= y
  <2>1. \A z \in T : x >= z
    BY <1>8, <1>10
  <2> QED BY <1>3, <2>1
<1> QED
  BY <1>9, <1>10

(* Highest, which looks at zero too, gives one of the errors.              *)
LEMMA HighestIs ==
  ASSUME NEW errors, IsFiniteSet(errors), errors \subseteq Nat, errors # {}
  PROVE  Max(errors \cup {0}) \in {x \in errors : \A y \in errors : x >= y}
<1>1. PICK x \in errors : \A y \in errors : x >= y
  BY HasHighest
<1>2. x \in errors \cup {0} /\ \A y \in errors \cup {0} : x >= y
  BY <1>1
<1>3. /\ Max(errors \cup {0}) \in errors \cup {0}
      /\ \A y \in errors \cup {0} : Max(errors \cup {0}) >= y
  BY <1>2 DEF Max
<1> QED
  BY <1>1, <1>2, <1>3

(* The errors of some fidelities are finitely many numbers.                *)
LEMMA ErrorsFinite ==
  ASSUME NEW F, IsFiniteSet(F), \A f \in F : f.error \in Nat
  PROVE  LET E == {f.error : f \in F} IN IsFiniteSet(E) /\ E \subseteq Nat
<1> DEFINE E == {f.error : f \in F}
           g == [f \in F |-> f.error]
<1>1. g \in Surjection(F, E)
  BY DEF Surjection
<1> HIDE DEF g
<1>2. IsFiniteSet(E)
  BY <1>1, FS_Surjection
<1> QED
  BY <1>2

-----------------------------------------------------------------------------
(* What the device states of a gate of one qubit or of two at a place.     *)
Of1q(i, error, kind) == Len(i) = 1 /\ error \in Highest1q(LabelsAt(i)[1], kind)
Of2q(n, i, error) ==
  \E d \in {LabelsAt(i), Reverse(LabelsAt(i))} \cap DOMAIN device.twos :
    Len(i) = 2 /\ error \in Highest2q(n, d)

Table1q(table, kind) ==
  \A i \in DOMAIN table :
    table[i] # NoError => table[i] \in Nat /\ Of1q(i, table[i], kind)
Table2q(n, table) ==
  \A i \in DOMAIN table :
    table[i] # NoError => table[i] \in Nat /\ Of2q(n, i, table[i])

KnownIsStated ==
  /\ Table1q(known.readout, "readout") /\ Table1q(known.one, "gate")
  /\ \A n \in DOMAIN known.two : Table2q(n, known.two[n])

(* _qpu_target's loop reads the errors of a qubit from the record of that  *)
(* qubit.                                                                  *)
LEMMA Read1qIsStated ==
  ASSUME device \in Devices, NEW kind
  PROVE  /\ Table1q(Read1q(device, kind), kind)
         /\ \A i \in DOMAIN Read1q(device, kind) : Read1q(device, kind)[i] \in Nat
<1> DEFINE table == Read1q(device, kind)
<1>1. SUFFICES ASSUME NEW i \in DOMAIN table
               PROVE  table[i] \in Nat /\ Of1q(i, table[i], kind)
  BY DEF Table1q
<1>2. PICK q \in device.nodes \cap DOMAIN device.ones :
        i = <<Index(device, q)>> /\ Errors(device.ones[q], kind) # {}
  BY DEF Read1q
<1>3. LabelOfIndex(device, i[1]) = q
  BY <1>2, DevicesAssumption, LabelOfItsIndex
<1>4. Len(i) = 1 /\ LabelsAt(i)[1] = q
  BY <1>2, <1>3 DEF LabelsAt
<1>5. table[i] = Highest(Errors(device.ones[q], kind))
  BY <1>3 DEF Read1q
<1>6. /\ IsFiniteSet(Errors(device.ones[q], kind))
      /\ Errors(device.ones[q], kind) \subseteq Nat
  <2> DEFINE F == {g \in device.ones[q] : g.kind = kind}
  <2>1. IsFiniteSet(F) /\ \A f \in F : f.error \in Nat
    BY DevicesAssumption, FS_Subset
  <2> HIDE DEF F
  <2>2. IsFiniteSet({f.error : f \in F}) /\ {f.error : f \in F} \subseteq Nat
    BY <2>1, ErrorsFinite
  <2> QED
    BY <2>2 DEF F, Errors
<1>7. table[i] \in Nat /\ table[i] \in Highest1q(q, kind)
  BY <1>2, <1>5, <1>6, HighestIs DEF Highest1q, Highest
<1> QED
  BY <1>4, <1>7 DEF Of1q

(* The labels of a pair the other way round are those of its indices so.   *)
LEMMA ReversedPair ==
  ASSUME NEW a, NEW b
  PROVE  /\ Reverse(<<a, b>>) = <<b, a>>
         /\ LabelsAt(<<b, a>>) = <<LabelOfIndex(device, b), LabelOfIndex(device, a)>>
<1>1. Reverse(<<a, b>>) = <<b, a>>
  BY DEF Reverse
<1> QED
  BY <1>1 DEF LabelsAt

(* _build_instruction_props_2q reads the errors of a pair from the record  *)
(* of that pair, and gives them to the pair reversed as well.              *)
LEMMA Read2qIsStated ==
  ASSUME device \in Devices, NEW n \in DOMAIN Read2q(device)
  PROVE  /\ Table2q(n, Read2q(device)[n])
         /\ \A i \in DOMAIN Read2q(device)[n] : Read2q(device)[n][i] \in Nat
<1> DEFINE pairs == Stated(device, n)
           labels(i) == <<LabelOfIndex(device, i[1]), LabelOfIndex(device, i[2])>>
           props == [i \in {Indices(device, e) : e \in pairs} |->
                       Highest(ErrorsOf(device, n, labels(i)))]
<1>1. Read2q(device)[n] = BothWays(props)
  BY DEF Read2q
<1>2. ASSUME NEW i \in DOMAIN props
      PROVE  \E e \in DOMAIN device.twos :
               /\ props[i] \in Nat /\ props[i] \in Highest2q(n, e)
               /\ i = <<i[1], i[2]>> /\ labels(i) = e
  <2>1. PICK e \in pairs : i = Indices(device, e)
    OBVIOUS
  <2>2. /\ e \in DOMAIN device.twos /\ Range(e) \subseteq device.nodes
        /\ \E f \in device.twos[e] : n \in QiskitNames({f.kind})
    BY DEF Stated
  <2>3. e \in Int \X Int
    BY <2>2, DevicesAssumption
  <2>4. e = <<e[1], e[2]>> /\ e \in Seq(Int) /\ DOMAIN e = 1..2
    <3>1. PICK a \in Int, b \in Int : e = <<a, b>>
      BY <2>3
    <3>2. e = <<e[1], e[2]>>
      BY <3>1
    <3>3. e \in Seq(Int) /\ DOMAIN e = 1..2
      BY <3>1
    <3> QED
      BY <3>2, <3>3
  <2>5. i = <<Index(device, e[1]), Index(device, e[2])>>
    BY <2>1, <2>4 DEF Indices
  <2>6. e[1] \in device.nodes /\ e[2] \in device.nodes
    BY <2>2, <2>4 DEF Range
  <2>7. i = <<i[1], i[2]>>
    BY <2>5
  <2>8. labels(i) = e
    BY <2>4, <2>5, <2>6, DevicesAssumption, LabelOfItsIndex
  <2>9. ErrorsOf(device, n, e) # {}
    BY <2>2 DEF ErrorsOf
  <2>10. IsFiniteSet(ErrorsOf(device, n, e)) /\ ErrorsOf(device, n, e) \subseteq Nat
    <3> DEFINE F == {g \in device.twos[e] : n \in QiskitNames({g.kind})}
    <3>1. IsFiniteSet(F) /\ \A f \in F : f.error \in Nat
      BY <2>2, DevicesAssumption, FS_Subset
    <3> HIDE DEF F
    <3>2. IsFiniteSet({f.error : f \in F}) /\ {f.error : f \in F} \subseteq Nat
      BY <3>1, ErrorsFinite
    <3> QED
      BY <3>2 DEF F, ErrorsOf
  <2>11. props[i] = Highest(ErrorsOf(device, n, e))
    BY <2>8
  <2>12. props[i] \in Nat /\ props[i] \in Highest2q(n, e)
    BY <2>9, <2>10, <2>11, HighestIs DEF Highest2q, Highest
  <2> QED
    BY <2>2, <2>7, <2>8, <2>12
<1> HIDE DEF props
<1>3. SUFFICES ASSUME NEW i \in DOMAIN BothWays(props)
               PROVE  BothWays(props)[i] \in Nat /\ Of2q(n, i, BothWays(props)[i])
  BY <1>1 DEF Table2q
<1>4. CASE i \in DOMAIN props /\ BothWays(props)[i] = props[i]
  <2>1. PICK e \in DOMAIN device.twos :
          /\ props[i] \in Nat /\ props[i] \in Highest2q(n, e)
          /\ i = <<i[1], i[2]>> /\ labels(i) = e
    BY <1>2, <1>4
  <2>2. LabelsAt(i) = e /\ Len(i) = 2
    BY <2>1, ReversedPair
  <2> QED
    BY <1>4, <2>1, <2>2 DEF Of2q
<1>5. ASSUME NEW d \in DOMAIN props, i = Reverse(d),
             BothWays(props)[i] = props[Reverse(i)]
      PROVE  BothWays(props)[i] \in Nat /\ Of2q(n, i, BothWays(props)[i])
  <2>1. PICK e \in DOMAIN device.twos :
          /\ props[d] \in Nat /\ props[d] \in Highest2q(n, e)
          /\ d = <<d[1], d[2]>> /\ labels(d) = e
    BY <1>2
  <2>2. i = <<d[2], d[1]>> /\ Reverse(i) = d
    <3>1. PICK a, b : d = <<a, b>>
      BY <2>1
    <3>2. d[1] = a /\ d[2] = b
      BY <3>1
    <3>3. i = <<b, a>> /\ Reverse(i) = <<a, b>>
      BY <1>5, <3>1, ReversedPair
    <3> QED
      BY <3>1, <3>2, <3>3
  <2>3. LabelsAt(i) = <<LabelOfIndex(device, d[2]), LabelOfIndex(device, d[1])>>
    BY <2>2, ReversedPair
  <2>4. Reverse(LabelsAt(i)) = e
    BY <2>1, <2>3, ReversedPair
  <2>5. Len(i) = 2
    BY <2>2
  <2> QED
    BY <1>5, <2>1, <2>2, <2>4, <2>5 DEF Of2q
<1>6. \/ i \in DOMAIN props /\ BothWays(props)[i] = props[i]
      \/ \E d \in DOMAIN props : i = Reverse(d) /\ BothWays(props)[i] = props[Reverse(i)]
  BY DEF BothWays, Over
<1> QED
  BY <1>4, <1>5, <1>6

(* A calibrated gate offered as n at i: one of the device's angles there,  *)
(* for which the table of substitutes has n.                               *)
Stands(n, i, by) ==
  \E r \in Restrictions(device) :
    /\ i \in r.at /\ by = Calibrated(r)
    /\ <<r.gate, r.param>> \in DOMAIN Substitutes
    /\ Substitutes[<<r.gate, r.param>>] = n

Offered ==
  \A n \in DOMAIN substitutes :
    /\ n \in DOMAIN entries
    /\ DOMAIN substitutes[n] = DOMAIN entries[n]
    /\ \A i \in DOMAIN substitutes[n] : Stands(n, i, substitutes[n][i])

(* The device's angles are all on its qubits once they have been read, and *)
(* no substitute is there before or without them.                          *)
OnItsQubits == \A c \in device.calibrations : Range(c.at) \subseteq device.nodes

TargetInv ==
  /\ device \in Devices
  /\ left \subseteq Restrictions(device)
  /\ Offered
  /\ stage \in {"read", "native"} => substitutes = << >>
  /\ stage = "calibrated" => OnItsQubits
  /\ substitutes = << >> \/ OnItsQubits

(* A device is given, and nothing is read of it yet.                       *)
LEMMA InitTarget == TargetInit => TargetInv
  BY DEF TargetInit, TargetInv, Offered, OnItsQubits

(* The places an angle is added at are places the device calibrates it at. *)
LEMMA AddsWhereCalibrated ==
  ASSUME NEW r \in Restrictions(device), AddsAs(r) # GateName(r.gate),
         NEW i \in DOMAIN PropertiesAt(r)
  PROVE  Stands(AddsAs(r), i, Calibrated(r))
<1>1. <<r.gate, r.param>> \in DOMAIN Substitutes
      /\ AddsAs(r) = Substitutes[<<r.gate, r.param>>]
  BY DEF AddsAs
<1>2. i \in r.at
  BY DEF PropertiesAt, Restrict
<1> QED
  BY <1>1, <1>2 DEF Stands

(* Restrictions depend on the device alone, so that Stands is kept.        *)
LEMMA StandsKept ==
  ASSUME device' = device, NEW n, NEW i, NEW by, Stands(n, i, by)
  PROVE  Stands(n, i, by)'
  BY DEF Stands

(* Every step of building a target keeps its invariant.                    *)
LEMMA NextTarget ==
  ASSUME TargetInv, [BuildTarget]_targetVars
  PROVE  TargetInv'
<1>1. CASE ReadDevice
  BY <1>1 DEF ReadDevice, TargetInv, Offered, OnItsQubits
<1>2. CASE AddNative
  BY <1>2 DEF AddNative, TargetInv, Offered, OnItsQubits
<1>3. CASE EndCalibrated
  BY <1>3, StandsKept DEF EndCalibrated, TargetInv, Offered, OnItsQubits
<1>4. CASE FinishTarget
  <2>1. \A n \in DOMAIN entries : n \in DOMAIN entries' /\ entries'[n] = entries[n]
    BY <1>4 DEF FinishTarget, Over
  <2>2. Offered'
    BY <1>4, <2>1, StandsKept DEF FinishTarget, TargetInv, Offered
  <2> QED
    BY <1>4, <2>2 DEF FinishTarget, TargetInv, OnItsQubits
<1>5. CASE SimulatorTarget
  BY <1>5 DEF SimulatorTarget, TargetInv, Offered, OnItsQubits
<1>6. CASE RefuseDevice
  BY <1>6 DEF RefuseDevice, TargetInv, Offered, OnItsQubits
<1>7. CASE UNCHANGED targetVars
  BY <1>7, StandsKept DEF targetVars, TargetInv, Offered, OnItsQubits
<1>8. ASSUME NEW r \in left, SkipCalibrated(r) \/ AddFirst(r) \/ AddAnother(r)
      PROVE  TargetInv'
  <2>1. /\ Turn(r) /\ stage = "calibrated" /\ device' = device
        /\ left' \subseteq left /\ r \in Restrictions(device)
    BY <1>8 DEF SkipCalibrated, AddFirst, AddAnother, Turn, TargetInv
  <2>2. stage' \in {"calibrated", "refused"}
    BY <1>8, <2>1 DEF SkipCalibrated, AddFirst, AddAnother
  <2>3. SUFFICES Offered'
    BY <2>1, <2>2 DEF TargetInv, OnItsQubits
  <2>4. CASE UNCHANGED <<entries, substitutes>>
    BY <2>1, <2>4, StandsKept DEF TargetInv, Offered
  <2>5. CASE AddFirst(r) /\ ~UNCHANGED <<entries, substitutes>>
    <3> DEFINE name == AddsAs(r)
    <3>1. /\ name \notin DOMAIN entries
          /\ entries' = Over(entries, [n \in {name} |-> PropertiesAt(r)])
          /\ substitutes' =
               IF name = GateName(r.gate) THEN substitutes
               ELSE Over(substitutes,
                         [n \in {name} |-> Everywhere(DOMAIN PropertiesAt(r), r)])
      BY <2>5 DEF AddFirst, CanAdd
    <3>2. /\ DOMAIN entries' = DOMAIN entries \cup {name}
          /\ entries'[name] = PropertiesAt(r)
          /\ \A n \in DOMAIN entries : entries'[n] = entries[n]
      BY <3>1 DEF Over
    <3>3. CASE name = GateName(r.gate)
      BY <2>1, <3>1, <3>2, <3>3, StandsKept DEF TargetInv, Offered
    <3>4. CASE name # GateName(r.gate)
      <4>1. name \notin DOMAIN substitutes
        BY <3>1 DEF TargetInv, Offered
      <4>2. /\ DOMAIN substitutes' = DOMAIN substitutes \cup {name}
            /\ substitutes'[name] = Everywhere(DOMAIN PropertiesAt(r), r)
            /\ \A n \in DOMAIN substitutes : substitutes'[n] = substitutes[n]
        BY <3>1, <3>4, <4>1 DEF Over
      <4>3. /\ DOMAIN substitutes'[name] = DOMAIN entries'[name]
            /\ \A i \in DOMAIN substitutes'[name] :
                 Stands(name, i, substitutes'[name][i])
        BY <2>1, <3>2, <3>4, <4>2, AddsWhereCalibrated DEF Everywhere
      <4> QED
        BY <2>1, <3>2, <4>2, <4>3, StandsKept DEF TargetInv, Offered
    <3> QED
      BY <3>3, <3>4
  <2>6. CASE AddAnother(r) /\ ~UNCHANGED <<entries, substitutes>>
    <3> DEFINE name == AddsAs(r)
               places == Better(name, PropertiesAt(r))
    <3>1. /\ name # GateName(r.gate)
          /\ name \in DOMAIN entries /\ name \in DOMAIN substitutes
          /\ entries' = [entries EXCEPT ![name] =
                           Over(Restrict(PropertiesAt(r), places), @)]
          /\ substitutes' = [substitutes EXCEPT ![name] = StandsFor(name, places, r)]
      BY <2>6 DEF AddAnother
    <3>2. places \subseteq DOMAIN PropertiesAt(r)
      BY DEF Better
    <3>3. /\ DOMAIN entries' = DOMAIN entries
          /\ DOMAIN substitutes' = DOMAIN substitutes
          /\ \A n \in DOMAIN entries : n # name => entries'[n] = entries[n]
          /\ \A n \in DOMAIN substitutes :
               n # name => substitutes'[n] = substitutes[n]
      BY <3>1
    <3>4. /\ entries'[name] = Over(Restrict(PropertiesAt(r), places), entries[name])
          /\ substitutes'[name] = Over(Everywhere(places, r), substitutes[name])
      BY <3>1 DEF StandsFor
    <3>5. /\ DOMAIN entries'[name] = places \cup DOMAIN entries[name]
          /\ DOMAIN substitutes'[name] = places \cup DOMAIN substitutes[name]
          /\ \A i \in DOMAIN substitutes'[name] :
               substitutes'[name][i] =
                 IF i \in places THEN Calibrated(r) ELSE substitutes[name][i]
      BY <3>4 DEF Over, Restrict, Everywhere
    <3>6. \A i \in DOMAIN substitutes'[name] :
            Stands(name, i, substitutes'[name][i])
      BY <2>1, <3>1, <3>2, <3>5, AddsWhereCalibrated DEF TargetInv, Offered
    <3>7. DOMAIN substitutes'[name] = DOMAIN entries'[name]
      BY <3>1, <3>5 DEF TargetInv, Offered
    <3> QED
      BY <2>1, <3>1, <3>3, <3>6, <3>7, StandsKept DEF TargetInv, Offered
  <2> QED
    BY <1>8, <2>4, <2>5, <2>6 DEF SkipCalibrated
<1> QED
  BY <1>1, <1>2, <1>3, <1>4, <1>5, <1>6, <1>7, <1>8 DEF BuildTarget

(* Each substitute stands for what the device has calibrated there.        *)
LEMMA SubstitutesStandFor ==
  ASSUME TargetInv
  PROVE  SubstitutesAreCalibrated
<1>1. SUFFICES ASSUME NEW n \in DOMAIN substitutes,
                      NEW i \in DOMAIN substitutes[n]
               PROVE  LET by == substitutes[n][i]
                      IN /\ \E c \in device.calibrations :
                              /\ c.gate = by.gate /\ c.param = by.param
                              /\ c.at = LabelsAt(i)
                         /\ <<by.param, n>> \in
                              {<<"pi", "x">>, <<"-pi", "x">>,
                               <<"pi/2", "sx">>, <<"-pi/2", "sxdg">>}
  BY DEF TargetInv, Offered, SubstitutesAreCalibrated
<1>2. PICK r \in Restrictions(device) :
        /\ i \in r.at /\ substitutes[n][i] = Calibrated(r)
        /\ <<r.gate, r.param>> \in DOMAIN Substitutes
        /\ Substitutes[<<r.gate, r.param>>] = n
  BY DEF TargetInv, Offered, Stands
<1>3. PICK d \in device.calibrations :
        d.gate = r.gate /\ d.param = r.param /\ i = Indices(device, d.at)
  BY <1>2 DEF Restrictions
<1>4. d.at = LabelsAt(i)
  <2>1. /\ OnItsQubits /\ d.at \in Seq(Int)
        /\ IsFiniteSet(device.nodes) /\ device.nodes \subseteq Int
    BY DevicesAssumption DEF TargetInv
  <2> QED
    BY <1>3, <2>1, LabelsOfIndices DEF OnItsQubits
<1>5. <<r.param, n>> \in {<<"pi", "x">>, <<"-pi", "x">>,
                          <<"pi/2", "sx">>, <<"-pi/2", "sxdg">>}
  BY <1>2 DEF Substitutes
<1>6. substitutes[n][i].gate = r.gate /\ substitutes[n][i].param = r.param
  BY <1>2 DEF Calibrated
<1> QED
  BY <1>3, <1>4, <1>5, <1>6

(* SubstitutesAreCalibrated: whatever qubits a device has and whichever of *)
(* them it calibrates, in whichever order its angles are added             *)
(* (target.py), a gate offered in place of an angle is offered exactly     *)
(* where the target has it, and stands there for an angle calibrated on    *)
(* that qubit.                                                             *)
THEOREM SubstitutesAlwaysCalibrated == TargetSpec => []SubstitutesAreCalibrated
BY SubstitutesStandFor, InitTarget, NextTarget, PTL DEF TargetSpec

-----------------------------------------------------------------------------
(* The gates that are added are named by the device, or stand for its      *)
(* angles: all but measure get the errors of gates.                        *)
Qubits12 == OneQubitGates \cup TwoQubitGates

(* Errors a gate has come from what the device states of it.               *)
LEMMA PropertiesAreStated ==
  ASSUME KnownIsStated, NEW b \in Qubits12, NEW n, Kind(n) = "gate",
         n = GateName(b) \/ NumQubits(b) = 1,
         NEW i \in DOMAIN Properties(b), Properties(b)[i] # NoError
  PROVE  Properties(b)[i] \in Nat /\ StatedAt(n, i, Properties(b)[i])
<1>1. CASE NumQubits(b) = 1
  BY <1>1 DEF Properties, KnownIsStated, Table1q, Of1q, StatedAt
<1>2. CASE NumQubits(b) # 1 /\ GateName(b) \in DOMAIN known.two
  BY <1>2 DEF Properties, KnownIsStated, Table2q, Of2q, StatedAt
<1>3. CASE NumQubits(b) # 1 /\ GateName(b) \notin DOMAIN known.two
  BY <1>3 DEF Properties, Default2q
<1> QED
  BY <1>1, <1>2, <1>3

(* What stands for another gate is a rotation about x.                     *)
LEMMA SubstitutesAreOfRx ==
  ASSUME NEW r, AddsAs(r) # GateName(r.gate)
  PROVE  r.gate = "rx" /\ NumQubits(r.gate) = 1 /\ Kind(AddsAs(r)) = "gate"
<1>1. /\ <<r.gate, r.param>> \in {"rx"} \X {"pi", "-pi", "pi/2", "-pi/2"}
      /\ AddsAs(r) = Substitutes[<<r.gate, r.param>>]
  BY DEF AddsAs, Substitutes
<1>2. r.gate = "rx" /\ AddsAs(r) \in {"x", "sx", "sxdg"}
  BY <1>1 DEF Substitutes
<1> QED
  BY <1>2 DEF NumQubits, OneQubitGates, Kind

(* A gate that is calibrated is added under the name of a gate.            *)
LEMMA NamesAreKinds ==
  ASSUME NEW r \in Restrictions(device)
  PROVE  Kind(GateName(r.gate)) = "gate"
<1>1. r.gate \in {c.gate : c \in device.calibrations} /\ device.calibrations # {}
  BY DEF Restrictions
<1>2. GateName(r.gate) \in GateNames
  BY <1>1 DEF GateNames
<1> QED
  BY <1>2 DEF Kind

(* Only measure is called measure.                                         *)
LEMMA MeasureIsMeasure ==
  /\ "measure" \in Qubits12
  /\ \A b : GateName(b) = "measure" <=> b = "measure"
<1>1. DOMAIN BraketToQiskitNames = DOMAIN Renamed \cup SameName
  BY DEF BraketToQiskitNames
<1>2. "measure" \notin DOMAIN Renamed /\ "measure" \notin SameName
  BY DEF Renamed, SameName
<1>3. \A b \in DOMAIN Renamed : Renamed[b] # "measure"
  BY DEF Renamed
<1>4. \A b \in DOMAIN BraketToQiskitNames : BraketToQiskitNames[b] # "measure"
  BY <1>1, <1>2, <1>3 DEF BraketToQiskitNames
<1> QED
  BY <1>1, <1>2, <1>4 DEF GateName, Qubits12, OneQubitGates

(* The errors in the target are those the device states, at every step;    *)
(* and a device that adds measure one by one has it before the end.        *)
EntriesStated ==
  \A n \in DOMAIN entries : \A i \in DOMAIN entries[n] :
    entries[n][i] # NoError =>
      entries[n][i] \in Nat /\ StatedAt(n, i, entries[n][i])

MeasureAdded ==
  /\ stage = "native" => device.calibrations = {}
  /\ stage = "calibrated" =>
       /\ device.calibrations # {}
       /\ \A r \in Restrictions(device) :
            r.gate = "measure" => r \in left \/ "measure" \in DOMAIN entries
  /\ stage = "finish" /\ "measure" \in GateNames => "measure" \in DOMAIN entries

ErrorsInv == KnownIsStated /\ EntriesStated /\ MeasureAdded

(* No errors are known at first.                                           *)
LEMMA InitErrors == TargetInit => ErrorsInv
BY DEF TargetInit, ErrorsInv, NothingKnown, KnownIsStated, Table1q, Table2q,
       EntriesStated, MeasureAdded

(* All of it is about the device, which stays the same.                    *)
LEMMA StatedKept ==
  ASSUME device' = device
  PROVE  /\ KnownIsStated /\ known' = known => KnownIsStated'
         /\ \A n, i, x : StatedAt(n, i, x) => StatedAt(n, i, x)'
         /\ GateNames' = GateNames
<1>1. /\ \A i : LabelsAt(i)' = LabelsAt(i)
      /\ \A q, kind : Highest1q(q, kind)' = Highest1q(q, kind)
      /\ \A n, e : Highest2q(n, e)' = Highest2q(n, e)
      /\ GateNames' = GateNames
  BY DEF LabelsAt, Highest1q, Highest2q, GateNames
<1>2. \A n : Kind(n)' = Kind(n)
  BY <1>1 DEF Kind
<1>3. /\ \A i, x, kind : Of1q(i, x, kind) => Of1q(i, x, kind)'
      /\ \A n, i, x : Of2q(n, i, x) => Of2q(n, i, x)'
  BY <1>1 DEF Of1q, Of2q
<1>4. \A n, i, x : StatedAt(n, i, x) => StatedAt(n, i, x)'
  BY <1>1, <1>2 DEF StatedAt
<1>5. KnownIsStated /\ known' = known => KnownIsStated'
  BY <1>3 DEF KnownIsStated, Table1q, Table2q
<1> QED
  BY <1>1, <1>4, <1>5

(* There is a restriction of every calibrated gate.                        *)
LEMMA RestrictionsOfGates ==
  /\ \A c \in device.calibrations : \E r \in Restrictions(device) : r.gate = c.gate
  /\ Restrictions(device) = {} <=> device.calibrations = {}
<1> DEFINE Of(c) ==
             [gate |-> c.gate, param |-> c.param,
              at |-> {Indices(device, d.at) :
                        d \in {e \in device.calibrations :
                                 e.gate = c.gate /\ e.param = c.param}}]
<1>1. Restrictions(device) = {Of(c) : c \in device.calibrations}
  BY DEF Restrictions
<1>2. \A c : Of(c).gate = c.gate
  OBVIOUS
<1> HIDE DEF Of
<1> QED
  BY <1>1, <1>2

(* What is read of a device is what the device states.                     *)
LEMMA ReadIsStated ==
  ASSUME TargetInv, ReadDevice
  PROVE  KnownIsStated'
<1>1. device \in Devices /\ device' = device
  BY DEF TargetInv, ReadDevice
<1>2. ASSUME NEW kind
      PROVE  Table1q(OrElse(Read1q(device, kind), Default1q(device)), kind)
  <2>1. Table1q(Read1q(device, kind), kind)
    BY <1>1, Read1qIsStated
  <2>2. Table1q(Default1q(device), kind)
    BY DEF Table1q, Default1q
  <2> QED
    BY <2>1, <2>2 DEF OrElse
<1>3. \A n \in DOMAIN Read2q(device) : Table2q(n, Read2q(device)[n])
  BY <1>1, Read2qIsStated
<1>4. /\ known'.readout = OrElse(Read1q(device, "readout"), Default1q(device))
      /\ known'.one = OrElse(Read1q(device, "gate"), Default1q(device))
      /\ known'.two = Read2q(device)
  BY DEF ReadDevice
<1>5. /\ Table1q(known'.readout, "readout") /\ Table1q(known'.one, "gate")
      /\ \A n \in DOMAIN known'.two : Table2q(n, known'.two[n])
  BY <1>2, <1>3, <1>4
<1>6. /\ \A i : LabelsAt(i)' = LabelsAt(i)
      /\ \A q, kind : Highest1q(q, kind)' = Highest1q(q, kind)
      /\ \A n, d : Highest2q(n, d)' = Highest2q(n, d)
  BY <1>1 DEF LabelsAt, Highest1q, Highest2q
<1>7. /\ \A i, error, kind : Of1q(i, error, kind)' = Of1q(i, error, kind)
      /\ \A n, i, error : Of2q(n, i, error)' = Of2q(n, i, error)
  BY <1>1, <1>6 DEF Of1q, Of2q
<1>8. /\ \A table, kind : Table1q(table, kind)' = Table1q(table, kind)
      /\ \A n, table : Table2q(n, table)' = Table2q(n, table)
  BY <1>7 DEF Table1q, Table2q
<1> QED
  BY <1>5, <1>8 DEF KnownIsStated

(* Every step of building a target keeps the errors stated.                *)
LEMMA NextErrors ==
  ASSUME TargetInv, ErrorsInv, [BuildTarget]_targetVars
  PROVE  ErrorsInv'
<1>1. CASE ReadDevice
  <2>1. KnownIsStated'
    BY <1>1, ReadIsStated
  <2>2. EntriesStated'
    BY <1>1, StatedKept DEF ReadDevice, ErrorsInv, EntriesStated
  <2>3. MeasureAdded'
    BY <1>1, RestrictionsOfGates DEF ReadDevice, MeasureAdded
  <2> QED
    BY <2>1, <2>2, <2>3 DEF ErrorsInv
<1>2. CASE AddNative
  <2> DEFINE gates == device.native \cap Qubits12
             of(n) == CHOOSE b \in gates : GateName(b) = n
  <2>1. /\ device' = device /\ known' = known /\ stage' = "finish"
        /\ stage = "native" /\ device.calibrations = {}
        /\ entries' = [n \in {GateName(b) : b \in gates} |-> Properties(of(n))]
    BY <1>2 DEF AddNative, ErrorsInv, MeasureAdded, Qubits12
  <2>2. ASSUME NEW n \in DOMAIN entries', NEW i \in DOMAIN entries'[n],
               entries'[n][i] # NoError
        PROVE  entries'[n][i] \in Nat /\ StatedAt(n, i, entries'[n][i])
    <3>1. of(n) \in gates /\ GateName(of(n)) = n
      BY <2>1
    <3>2. n \in GateNames
      BY <2>1, <3>1 DEF GateNames
    <3>3. entries'[n] = Properties(of(n))
      BY <2>1
    <3> HIDE DEF of
    <3> QED
      BY <2>2, <3>1, <3>2, <3>3, PropertiesAreStated DEF ErrorsInv, Kind
  <2>3. EntriesStated'
    BY <2>1, <2>2, StatedKept DEF EntriesStated
  <2>4. MeasureAdded'
    <3>1. "measure" \in GateNames => "measure" \in gates
      BY <2>1, MeasureIsMeasure DEF GateNames
    <3>2. "measure" \in gates => "measure" \in DOMAIN entries'
      BY <2>1, MeasureIsMeasure
    <3> QED
      BY <2>1, <3>1, <3>2, StatedKept DEF MeasureAdded
  <2> QED
    BY <2>1, <2>3, <2>4, StatedKept DEF ErrorsInv
<1>3. CASE EndCalibrated
  <2>1. ASSUME "measure" \in GateNames PROVE "measure" \in DOMAIN entries
    <3>1. PICK c \in device.calibrations : c.gate = "measure"
      BY <1>3, <2>1, MeasureIsMeasure DEF EndCalibrated, ErrorsInv, MeasureAdded, GateNames
    <3>2. \E r \in Restrictions(device) : r.gate = "measure"
      BY <3>1, RestrictionsOfGates
    <3> QED
      BY <1>3, <3>2 DEF EndCalibrated, ErrorsInv, MeasureAdded
  <2>2. MeasureAdded'
    BY <1>3, <2>1, StatedKept DEF EndCalibrated, MeasureAdded
  <2> QED
    BY <1>3, <2>2, StatedKept DEF EndCalibrated, ErrorsInv, EntriesStated
<1>4. CASE FinishTarget
  <2>1. /\ device' = device /\ known' = known /\ stage' = "built"
        /\ \A n \in DOMAIN entries' :
             \/ n \in DOMAIN entries /\ entries'[n] = entries[n]
             \/ n = "measure" /\ n \notin DOMAIN entries /\ entries'[n] = known.readout
             \/ entries'[n] = Anywhere
    BY <1>4 DEF FinishTarget, Over
  <2>2. "measure" \notin DOMAIN entries => "measure" \notin GateNames
    BY <1>4 DEF FinishTarget, ErrorsInv, MeasureAdded
  <2>3. ASSUME NEW n \in DOMAIN entries', NEW i \in DOMAIN entries'[n],
               entries'[n][i] # NoError
        PROVE  entries'[n][i] \in Nat /\ StatedAt(n, i, entries'[n][i])
    <3>1. CASE n \in DOMAIN entries /\ entries'[n] = entries[n]
      BY <2>3, <3>1 DEF ErrorsInv, EntriesStated
    <3>2. CASE n = "measure" /\ n \notin DOMAIN entries /\ entries'[n] = known.readout
      BY <2>2, <2>3, <3>2
         DEF ErrorsInv, KnownIsStated, Table1q, Of1q, StatedAt, Kind
    <3>3. CASE entries'[n] = Anywhere
      BY <2>3, <3>3 DEF Anywhere
    <3> QED
      BY <2>1, <3>1, <3>2, <3>3
  <2>4. EntriesStated'
    BY <2>1, <2>3, StatedKept DEF EntriesStated
  <2> QED
    BY <2>1, <2>4, StatedKept DEF ErrorsInv, MeasureAdded
<1>5. CASE SimulatorTarget
  <2>1. /\ device' = device /\ known' = known /\ stage' = "built"
        /\ \A n \in DOMAIN entries' : entries'[n] = Anywhere
    BY <1>5 DEF SimulatorTarget
  <2> QED
    BY <2>1, StatedKept DEF ErrorsInv, EntriesStated, MeasureAdded, Anywhere
<1>6. CASE RefuseDevice \/ UNCHANGED targetVars
  BY <1>6, StatedKept DEF RefuseDevice, targetVars, ErrorsInv, EntriesStated, MeasureAdded
<1>7. ASSUME NEW r \in left, SkipCalibrated(r) \/ AddFirst(r) \/ AddAnother(r)
      PROVE  ErrorsInv'
  <2>1. /\ r \in Restrictions(device) /\ stage = "calibrated"
        /\ device' = device /\ known' = known /\ left' = left \ {r}
    BY <1>7 DEF SkipCalibrated, AddFirst, AddAnother, Turn, TargetInv
  <2>2. /\ Restrictions(device') = Restrictions(device)
        /\ stage' \in {"calibrated", "refused"}
    BY <1>7, <2>1 DEF SkipCalibrated, AddFirst, AddAnother
  <2>3. ASSUME NEW i \in DOMAIN PropertiesAt(r), r.gate \in Qubits12,
               PropertiesAt(r)[i] # NoError
        PROVE  /\ PropertiesAt(r)[i] \in Nat
               /\ StatedAt(AddsAs(r), i, PropertiesAt(r)[i])
    <3>1. i \in DOMAIN Properties(r.gate) /\ PropertiesAt(r)[i] = Properties(r.gate)[i]
      BY DEF PropertiesAt, Restrict
    <3>2. /\ Kind(AddsAs(r)) = "gate"
          /\ AddsAs(r) = GateName(r.gate) \/ NumQubits(r.gate) = 1
      BY <2>1, NamesAreKinds, SubstitutesAreOfRx
    <3> QED
      BY <2>3, <3>1, <3>2, PropertiesAreStated DEF ErrorsInv
  <2>4. CASE UNCHANGED <<stage, entries>> /\ r.gate # "measure"
    BY <2>1, <2>4, StatedKept DEF ErrorsInv, EntriesStated, MeasureAdded
  <2>5. CASE stage' = "refused" /\ UNCHANGED entries
    BY <2>1, <2>5, StatedKept DEF ErrorsInv, EntriesStated, MeasureAdded
  <2>6. CASE AddFirst(r) /\ UNCHANGED stage
    <3>1. /\ AddsAs(r) \notin DOMAIN entries /\ r.gate \in Qubits12
          /\ entries' = Over(entries, [n \in {AddsAs(r)} |-> PropertiesAt(r)])
      BY <2>1, <2>6 DEF AddFirst, CanAdd, Qubits12
    <3>2. /\ DOMAIN entries' = DOMAIN entries \cup {AddsAs(r)}
          /\ entries'[AddsAs(r)] = PropertiesAt(r)
          /\ \A n \in DOMAIN entries : entries'[n] = entries[n]
      BY <3>1 DEF Over
    <3>3. EntriesStated'
      BY <2>1, <2>3, <3>1, <3>2, StatedKept DEF ErrorsInv, EntriesStated
    <3>4. r.gate = "measure" => AddsAs(r) = "measure"
      BY MeasureIsMeasure, SubstitutesAreOfRx
    <3>5. MeasureAdded'
      BY <2>1, <2>2, <2>6, <3>2, <3>4, StatedKept DEF ErrorsInv, MeasureAdded
    <3> QED
      BY <2>1, <3>3, <3>5, StatedKept DEF ErrorsInv
  <2>7. CASE AddAnother(r) /\ ~UNCHANGED entries
    <3> DEFINE name == AddsAs(r)
               props == PropertiesAt(r)
               places == Better(name, props)
    <3>1. /\ name # GateName(r.gate) /\ name \in DOMAIN entries /\ stage' = stage
          /\ entries' = [entries EXCEPT ![name] = Over(Restrict(props, places), @)]
      BY <2>7 DEF AddAnother
    <3>2. r.gate = "rx" /\ r.gate \in Qubits12
      BY <3>1, SubstitutesAreOfRx DEF Qubits12, OneQubitGates
    <3>3. /\ DOMAIN entries' = DOMAIN entries
          /\ \A n \in DOMAIN entries : n # name => entries'[n] = entries[n]
          /\ entries'[name] = Over(Restrict(props, places), entries[name])
      BY <3>1
    <3>4. /\ DOMAIN entries'[name] = places \cup DOMAIN entries[name]
          /\ \A i \in DOMAIN entries'[name] :
               entries'[name][i] = IF i \in places THEN props[i] ELSE entries[name][i]
      BY <3>3 DEF Over, Restrict
    <3>5. places \subseteq DOMAIN props
      BY DEF Better
    <3>6. \A i \in DOMAIN entries'[name] :
            entries'[name][i] # NoError =>
              entries'[name][i] \in Nat /\ StatedAt(name, i, entries'[name][i])
      BY <2>3, <3>1, <3>2, <3>4, <3>5 DEF ErrorsInv, EntriesStated
    <3>7. EntriesStated'
      BY <2>1, <3>3, <3>6, StatedKept DEF ErrorsInv, EntriesStated
    <3>8. MeasureAdded'
      BY <2>1, <2>2, <3>1, <3>2, <3>3, StatedKept DEF ErrorsInv, MeasureAdded
    <3> QED
      BY <2>1, <3>7, <3>8, StatedKept DEF ErrorsInv
  <2>8. SkipCalibrated(r) => UNCHANGED <<stage, entries>> /\ r.gate # "measure"
    BY MeasureIsMeasure DEF SkipCalibrated, Qubits12
  <2>9. AddFirst(r) => UNCHANGED stage \/ (stage' = "refused" /\ UNCHANGED entries)
    BY DEF AddFirst
  <2>10. AddAnother(r) /\ UNCHANGED entries =>
           r.gate # "measure" /\ (UNCHANGED stage \/ stage' = "refused")
    BY SubstitutesAreOfRx DEF AddAnother
  <2> QED
    BY <1>7, <2>4, <2>5, <2>6, <2>7, <2>8, <2>9, <2>10
<1> QED
  BY <1>1, <1>2, <1>3, <1>4, <1>5, <1>6, <1>7 DEF BuildTarget

-----------------------------------------------------------------------------
(* Gates on one qubit and on two are called differently.                   *)
LEMMA NamesTellQubits ==
  ASSUME NEW a \in Qubits12, NEW b \in Qubits12, GateName(a) = GateName(b)
  PROVE  NumQubits(a) = NumQubits(b)
<1> DEFINE Ones == {"u", "u1", "u2", "u3", "h", "id", "p", "rx", "ry", "rz", "s",
                    "sdg", "t", "tdg", "sx", "sxdg", "x", "y", "z", "r", "gpi",
                    "gpi2", "measure", "CCPRx", "MeasureFF"}
           Twos == {"cx", "cp", "cy", "cz", "swap", "rxx", "xy", "ryy", "rzz",
                    "cphaseshift00", "cphaseshift01", "cphaseshift10", "pswap",
                    "cv", "ecr", "iswap", "ms"}
<1>1. /\ DOMAIN BraketToQiskitNames = DOMAIN Renamed \cup SameName
      /\ \A g \in SameName : BraketToQiskitNames[g] = g
      /\ \A g \in DOMAIN Renamed \ SameName : BraketToQiskitNames[g] = Renamed[g]
  BY DEF BraketToQiskitNames
<1>2. DOMAIN Renamed = {"phaseshift", "cnot", "ti", "si", "v", "vi", "xx", "yy",
                        "zz", "i", "ccnot", "cphaseshift", "prx", "gphase"}
  BY DEF Renamed
<1>3. DOMAIN Renamed \cap SameName = {}
  BY <1>2 DEF SameName
<1>4. \A g \in OneQubitGates : GateName(g) \in Ones
  <2> SUFFICES ASSUME NEW g \in OneQubitGates PROVE GateName(g) \in Ones
    OBVIOUS
  <2>1. CASE g \in DOMAIN Renamed
    <3>1. g \notin {"cc_prx", "measure_ff"} /\ GateName(g) = Renamed[g]
      BY <1>1, <1>2, <1>3, <2>1 DEF GateName
    <3>2. g \in {"phaseshift", "ti", "si", "v", "vi", "i", "prx"}
      BY <1>2, <2>1 DEF OneQubitGates
    <3> QED
      BY <3>1, <3>2 DEF Renamed
  <2>2. CASE g \notin DOMAIN Renamed /\ g \notin {"cc_prx", "measure_ff"}
    <3>1. GateName(g) = g
      BY <1>1, <2>2 DEF GateName
    <3> QED
      BY <1>2, <2>2, <3>1 DEF OneQubitGates
  <2>3. CASE g \in {"cc_prx", "measure_ff"}
    <3>1. g \notin DOMAIN Renamed \cup SameName
      BY <1>2, <2>3 DEF SameName
    <3>2. GateName(g) \in {"CCPRx", "MeasureFF"}
      BY <1>1, <2>3, <3>1 DEF GateName
    <3> QED
      BY <3>2
  <2> QED
    BY <2>1, <2>2, <2>3
<1>5. \A g \in TwoQubitGates : GateName(g) \in Twos
  <2> SUFFICES ASSUME NEW g \in TwoQubitGates PROVE GateName(g) \in Twos
    OBVIOUS
  <2>1. g \notin {"cc_prx", "measure_ff"}
    BY DEF TwoQubitGates
  <2>2. CASE g \in DOMAIN Renamed
    <3>1. GateName(g) = Renamed[g]
      BY <1>1, <1>3, <2>1, <2>2 DEF GateName
    <3>2. g \in {"cnot", "xx", "yy", "zz", "cphaseshift"}
      BY <1>2, <2>2 DEF TwoQubitGates
    <3> QED
      BY <3>1, <3>2 DEF Renamed
  <2>3. CASE g \notin DOMAIN Renamed
    <3>1. GateName(g) = g
      BY <1>1, <2>1, <2>3 DEF GateName
    <3> QED
      BY <1>2, <2>3, <3>1 DEF TwoQubitGates
  <2> QED
    BY <2>2, <2>3
<1>6. Ones \cap Twos = {}
  OBVIOUS
<1> HIDE DEF Ones, Twos
<1> QED
  BY <1>4, <1>5, <1>6 DEF Qubits12, NumQubits

(* Where the device states errors of a gate, the gate's table has one.     *)
KnownIsThere ==
  /\ \A q \in device.nodes \cap DOMAIN device.ones :
       Errors(device.ones[q], "readout") # {} =>
         /\ <<Index(device, q)>> \in DOMAIN known.readout
         /\ known.readout[<<Index(device, q)>>] # NoError
  /\ \A b \in Qubits12 : \A i \in PlacesStated(b) :
       i \in DOMAIN Properties(b) /\ Properties(b)[i] # NoError

AddedWithErrors(r) ==
  r.gate \in Qubits12 =>
    \A i \in r.at \cap PlacesStated(r.gate) : HasError(AddsAs(r), i)

GatesHaveErrors ==
  \A b \in Qubits12 : \A i \in PlacesStated(b) : \A n \in OfferedAs(b, i) :
    HasError(n, i)

(* No step on the way to a target drops an error: not where it is read,    *)
(* not of the angles added so far, and not of the gates at the end.        *)
NoneDropped ==
  device.type = "qpu" =>
    /\ stage \notin {"read", "refused"} => KnownIsThere
    /\ stage = "calibrated" =>
         \A r \in Restrictions(device) \ left : AddedWithErrors(r)
    /\ stage \in {"finish", "built"} => GatesHaveErrors
    /\ stage \in {"read", "native"} => entries = << >>
    /\ stage \in {"calibrated", "finish"} /\ "measure" \in DOMAIN entries =>
         "measure" \in GateNames
    /\ stage = "built" => NoErrorIsDropped

(* All of it is about the device, what was read, and the entries.          *)
LEMMA DroppedKept ==
  ASSUME device' = device
  PROVE  /\ \A b : PlacesStated(b)' = PlacesStated(b)
         /\ \A b, i : OfferedAs(b, i)' = OfferedAs(b, i)
         /\ known' = known => KnownIsThere' = KnownIsThere
         /\ entries' = entries =>
              \A n, i : HasError(n, i)' = HasError(n, i)
<1>1. \A b : PlacesStated(b)' = PlacesStated(b)
  BY DEF PlacesStated
<1>2. \A b, i : OfferedAs(b, i)' = OfferedAs(b, i)
  BY DEF OfferedAs
<1>3. known' = known => \A b : Properties(b)' = Properties(b)
  BY DEF Properties
<1>4. known' = known => KnownIsThere' = KnownIsThere
  BY <1>1, <1>3 DEF KnownIsThere
<1>5. entries' = entries => \A n, i : HasError(n, i)' = HasError(n, i)
  BY DEF HasError
<1> QED
  BY <1>1, <1>2, <1>4, <1>5

(* What _qpu_target reads of a qubit or a pair, it keeps.                  *)
LEMMA ReadIsThere ==
  ASSUME TargetInv, ReadDevice
  PROVE  KnownIsThere'
<1>1. /\ device \in Devices /\ device' = device
      /\ known'.readout = OrElse(Read1q(device, "readout"), Default1q(device))
      /\ known'.one = OrElse(Read1q(device, "gate"), Default1q(device))
      /\ known'.two = Read2q(device)
  BY DEF TargetInv, ReadDevice
<1>2. ASSUME NEW kind, NEW q \in device.nodes \cap DOMAIN device.ones,
             Errors(device.ones[q], kind) # {}
      PROVE  LET table == OrElse(Read1q(device, kind), Default1q(device))
             IN <<Index(device, q)>> \in DOMAIN table
                  /\ table[<<Index(device, q)>>] # NoError
  <2>1. <<Index(device, q)>> \in DOMAIN Read1q(device, kind)
    BY <1>2 DEF Read1q
  <2>2. Read1q(device, kind)[<<Index(device, q)>>] \in Nat
    BY <1>1, <2>1, Read1qIsStated
  <2>3. Read1q(device, kind) # << >>
    BY <2>1
  <2> QED
    BY <2>1, <2>2, <2>3 DEF OrElse, NoError
<1>3. ASSUME NEW b \in OneQubitGates, NEW i \in PlacesStated(b)
      PROVE  i \in DOMAIN Properties(b)' /\ Properties(b)'[i] # NoError
  <2>1. PICK q \in device.nodes \cap DOMAIN device.ones :
          i = <<Index(device, q)>> /\ Errors(device.ones[q], "gate") # {}
    BY <1>3 DEF PlacesStated
  <2>2. Properties(b)' = known'.one
    BY DEF Properties, NumQubits
  <2> QED
    BY <1>1, <1>2, <2>1, <2>2
<1>4. ASSUME NEW b \in TwoQubitGates, b \notin OneQubitGates, NEW i \in PlacesStated(b)
      PROVE  i \in DOMAIN Properties(b)' /\ Properties(b)'[i] # NoError
  <2> DEFINE n == GateName(b)
             pairs == Stated(device, n)
             labels(j) == <<LabelOfIndex(device, j[1]), LabelOfIndex(device, j[2])>>
             props == [j \in {Indices(device, e) : e \in pairs} |->
                         Highest(ErrorsOf(device, n, labels(j)))]
  <2>1. PICK e \in pairs : i \in {Indices(device, e), Reverse(Indices(device, e))}
    BY <1>4 DEF PlacesStated
  <2>2. n \in DOMAIN Read2q(device)
    <3>1. \E f \in device.twos[e] : n \in QiskitNames({f.kind})
      BY <2>1 DEF Stated
    <3>2. n \in Range(BraketToQiskitNames)
      BY <3>1 DEF QiskitNames, Range
    <3> QED
      BY <2>1, <3>2 DEF Read2q
  <2>3. Read2q(device)[n] = BothWays(props)
    BY <2>2 DEF Read2q
  <2>4. Indices(device, e) \in DOMAIN props
    OBVIOUS
  <2> HIDE DEF props, n, pairs
  <2>5. i \in DOMAIN BothWays(props)
    BY <2>1, <2>4 DEF BothWays, Over
  <2>6. Read2q(device)[n][i] \in Nat
    BY <1>1, <2>2, <2>3, <2>5, Read2qIsStated
  <2>7. Properties(b)' = Read2q(device)[n]
    BY <1>1, <1>4, <2>2 DEF Properties, NumQubits, n
  <2> QED
    BY <2>3, <2>5, <2>6, <2>7 DEF NoError
<1>5. \A b \in Qubits12 : \A i \in PlacesStated(b) :
        i \in DOMAIN Properties(b)' /\ Properties(b)'[i] # NoError
  BY <1>3, <1>4 DEF Qubits12
<1>6. \A b : PlacesStated(b)' = PlacesStated(b)
  BY <1>1, DroppedKept
<1> QED
  BY <1>1, <1>2, <1>5, <1>6 DEF KnownIsThere

(* Every calibrated gate has its restriction.                              *)
LEMMA RestrictionsOfCalibrations ==
  \A c \in device.calibrations :
    \E r \in Restrictions(device) :
      r.gate = c.gate /\ r.param = c.param /\ Indices(device, c.at) \in r.at
<1> TAKE c \in device.calibrations
<1> DEFINE r == [gate |-> c.gate, param |-> c.param,
                 at |-> {Indices(device, d.at) :
                           d \in {e \in device.calibrations :
                                    e.gate = c.gate /\ e.param = c.param}}]
<1>1. r \in Restrictions(device)
  BY DEF Restrictions
<1>2. r.gate = c.gate /\ r.param = c.param /\ Indices(device, c.at) \in r.at
  OBVIOUS
<1> HIDE DEF r
<1> QED
  BY <1>1, <1>2

(* Gates of one qubit that share a name have errors at the same places.    *)
LEMMA PlacesOfOneQubit ==
  ASSUME NEW a \in Qubits12, NEW b \in Qubits12, NumQubits(a) = 1, NumQubits(b) = 1
  PROVE  PlacesStated(a) = PlacesStated(b)
BY DEF PlacesStated, NumQubits

(* An angle that is added has the errors of its gate at its places.        *)
LEMMA AnglesHaveErrors ==
  ASSUME KnownIsThere, NEW r, r.gate \in Qubits12,
         NEW i \in r.at \cap PlacesStated(r.gate)
  PROVE  i \in DOMAIN PropertiesAt(r) /\ PropertiesAt(r)[i] # NoError
<1>1. i \in DOMAIN Properties(r.gate) /\ Properties(r.gate)[i] # NoError
  BY DEF KnownIsThere
<1> QED
  BY <1>1 DEF PropertiesAt, Restrict

(* Gates called as substitutes are are on one qubit.                       *)
LEMMA OneQubitNames ==
  \A n \in {"x", "sx", "sxdg"} :
    \E b \in Qubits12 : GateName(b) = n /\ NumQubits(b) = 1
<1>1. /\ DOMAIN BraketToQiskitNames = DOMAIN Renamed \cup SameName
      /\ "x" \in SameName /\ {"v", "vi"} \subseteq DOMAIN Renamed
      /\ "v" \notin SameName /\ "vi" \notin SameName
      /\ Renamed["v"] = "sx" /\ Renamed["vi"] = "sxdg"
  BY DEF BraketToQiskitNames, Renamed, SameName
<1>2. GateName("x") = "x" /\ GateName("v") = "sx" /\ GateName("vi") = "sxdg"
  BY <1>1 DEF GateName, BraketToQiskitNames
<1>3. {"x", "v", "vi"} \subseteq Qubits12
      /\ \A b \in {"x", "v", "vi"} : NumQubits(b) = 1
  BY DEF Qubits12, OneQubitGates, NumQubits
<1> QED
  BY <1>2, <1>3

(* No error is dropped at first.                                           *)
LEMMA InitDropped == TargetInit => NoneDropped
BY DEF TargetInit, NoneDropped

(* A gate of the device's list that is on one qubit or two is added with   *)
(* all the errors the device states of it.                                 *)
LEMMA NativeHaveErrors ==
  ASSUME KnownIsThere, AddNative, device.calibrations = {}, device' = device,
         known' = known
  PROVE  GatesHaveErrors' /\ ("measure" \in DOMAIN entries' => "measure" \in GateNames)
<1> DEFINE gates == device.native \cap Qubits12
           of(n) == CHOOSE b \in gates : GateName(b) = n
<1>1. entries' = [n \in {GateName(b) : b \in gates} |-> Properties(of(n))]
  BY DEF AddNative, Qubits12
<1>2. ASSUME NEW b \in gates
      PROVE  Properties(of(GateName(b))) = Properties(b)
  <2>1. of(GateName(b)) \in gates /\ GateName(of(GateName(b))) = GateName(b)
    OBVIOUS
  <2>2. NumQubits(of(GateName(b))) = NumQubits(b)
    BY <2>1, NamesTellQubits
  <2> QED
    BY <2>1, <2>2 DEF Properties
<1>3. ASSUME NEW b \in Qubits12, NEW i \in PlacesStated(b), NEW n \in OfferedAs(b, i)
      PROVE  HasError(n, i)'
  <2>1. b \in gates /\ n = GateName(b)
    BY <1>3 DEF OfferedAs
  <2>2. n \in DOMAIN entries' /\ entries'[n] = Properties(of(n))
    BY <1>1, <2>1
  <2>3. entries'[n] = Properties(b)
    BY <1>2, <2>1, <2>2
  <2>4. i \in DOMAIN Properties(b) /\ Properties(b)[i] # NoError
    BY <1>3 DEF KnownIsThere
  <2> QED
    BY <2>2, <2>3, <2>4 DEF HasError
<1>4. GatesHaveErrors'
  BY <1>3, DroppedKept DEF GatesHaveErrors
<1>5. "measure" \in DOMAIN entries' => "measure" \in GateNames
  <2>1. ASSUME "measure" \in DOMAIN entries' PROVE \E b \in gates : GateName(b) = "measure"
    BY <1>1, <2>1
  <2> QED
    BY <2>1 DEF GateNames
<1> QED
  BY <1>4, <1>5

(* One angle more in the target: it has its errors, and those there were   *)
(* are not lost, as a substitute's place is only written with an error.    *)
LEMMA AngleKeepsErrors ==
  ASSUME TargetInv, KnownIsThere, NEW r \in left,
         SkipCalibrated(r) \/ AddFirst(r) \/ AddAnother(r), stage' # "refused",
         \A t \in Restrictions(device) \ left : AddedWithErrors(t)
  PROVE  /\ \A t \in Restrictions(device) \ left' : AddedWithErrors(t)'
         /\ "measure" \in DOMAIN entries' =>
              "measure" \in DOMAIN entries \/ "measure" \in GateNames
<1>1. /\ r \in Restrictions(device) /\ device' = device /\ left' = left \ {r}
      /\ stage = "calibrated"
  BY DEF SkipCalibrated, AddFirst, AddAnother, Turn, TargetInv
<1>2. \A b : PlacesStated(b)' = PlacesStated(b)
  BY <1>1, DroppedKept
<1>3. SUFFICES /\ \A t \in Restrictions(device) \ left :
                    AddedWithErrors(t) => AddedWithErrors(t)'
               /\ AddedWithErrors(r)'
               /\ "measure" \in DOMAIN entries' =>
                    "measure" \in DOMAIN entries \/ "measure" \in GateNames
  BY <1>1
<1>4. CASE SkipCalibrated(r)
  BY <1>1, <1>2, <1>4, DroppedKept DEF SkipCalibrated, AddedWithErrors, Qubits12
<1>5. CASE AddFirst(r)
  <2>1. /\ AddsAs(r) \notin DOMAIN entries /\ r.gate \in Qubits12
        /\ entries' = Over(entries, [n \in {AddsAs(r)} |-> PropertiesAt(r)])
    BY <1>5 DEF AddFirst, CanAdd, Qubits12
  <2>2. /\ DOMAIN entries' = DOMAIN entries \cup {AddsAs(r)}
        /\ entries'[AddsAs(r)] = PropertiesAt(r)
        /\ \A n \in DOMAIN entries : entries'[n] = entries[n]
    BY <2>1 DEF Over
  <2>3. \A n, i : HasError(n, i) => HasError(n, i)'
    BY <2>2 DEF HasError
  <2>4. AddedWithErrors(r)'
    BY <1>2, <2>1, <2>2, AnglesHaveErrors DEF AddedWithErrors, HasError
  <2>5. "measure" = AddsAs(r) => "measure" \in GateNames
    <3>1. AddsAs(r) = GateName(r.gate) \/ AddsAs(r) # "measure"
      BY DEF AddsAs, Substitutes
    <3>2. r.gate \in {c.gate : c \in device.calibrations} /\ device.calibrations # {}
      BY <1>1 DEF Restrictions
    <3>3. GateName(r.gate) \in GateNames
      BY <3>2 DEF GateNames
    <3> QED
      BY <3>1, <3>3
  <2> QED
    BY <1>2, <2>2, <2>3, <2>4, <2>5 DEF AddedWithErrors
<1>6. CASE AddAnother(r)
  <2> DEFINE name == AddsAs(r)
             props == PropertiesAt(r)
             places == Better(name, props)
  <2>1. /\ name # GateName(r.gate) /\ name \in DOMAIN entries
        /\ \/ entries' = [entries EXCEPT ![name] = Over(Restrict(props, places), @)]
           \/ places = {} /\ entries' = entries
    BY <1>6 DEF AddAnother
  <2>2. r.gate = "rx" /\ r.gate \in Qubits12 /\ NumQubits(r.gate) = 1
    BY <2>1, SubstitutesAreOfRx DEF Qubits12, OneQubitGates
  <2>3. places \subseteq DOMAIN props
    BY DEF Better
  <2>4. /\ DOMAIN entries' = DOMAIN entries
        /\ \A n \in DOMAIN entries : n # name => entries'[n] = entries[n]
    BY <2>1
  <2>5. /\ DOMAIN entries'[name] = places \cup DOMAIN entries[name]
        /\ \A i \in DOMAIN entries'[name] :
             entries'[name][i] = IF i \in places THEN props[i] ELSE entries[name][i]
    <3>1. CASE entries' = [entries EXCEPT ![name] = Over(Restrict(props, places), @)]
      <4>1. entries'[name] = Over(Restrict(props, places), entries[name])
        BY <2>1, <3>1
      <4> QED
        BY <4>1 DEF Over, Restrict
    <3>2. CASE places = {} /\ entries' = entries
      BY <3>2
    <3> QED
      BY <2>1, <3>1, <3>2
  <2>6. ASSUME NEW i \in DOMAIN props, i \notin places
        PROVE  i \in DOMAIN entries[name] /\ entries[name][i] # NoError
    <3> HIDE DEF name, props
    <3> QED
      BY <2>6 DEF Better
  <2>7. \A i \in PlacesStated("rx") \cap r.at :
          i \in DOMAIN props /\ props[i] # NoError
    BY <2>2, AnglesHaveErrors
  <2> HIDE DEF props, places
  <2>8. AddedWithErrors(r)'
    <3>1. \A i \in PlacesStated("rx") \cap r.at : HasError(name, i)'
      BY <2>1, <2>4, <2>5, <2>6, <2>7 DEF HasError
    <3> QED
      BY <1>2, <2>2, <3>1 DEF AddedWithErrors
  <2>9. ASSUME NEW t \in Restrictions(device) \ left, AddedWithErrors(t)
        PROVE  AddedWithErrors(t)'
    <3> SUFFICES ASSUME t.gate \in Qubits12, NEW i \in t.at \cap PlacesStated(t.gate)
                 PROVE  HasError(AddsAs(t), i)'
      BY <1>2 DEF AddedWithErrors
    <3>1. HasError(AddsAs(t), i)
      BY <2>9 DEF AddedWithErrors
    <3>2. CASE AddsAs(t) # name
      BY <2>4, <3>1, <3>2 DEF HasError
    <3>3. CASE AddsAs(t) = name
      <4>1. NumQubits(t.gate) = 1
        <5>1. CASE AddsAs(t) # GateName(t.gate)
          BY <5>1, SubstitutesAreOfRx
        <5>2. CASE AddsAs(t) = GateName(t.gate)
          <6>1. name \in {"x", "sx", "sxdg"}
            BY <2>1 DEF AddsAs, Substitutes
          <6>2. \E b \in Qubits12 : GateName(b) = name /\ NumQubits(b) = 1
            BY <6>1, OneQubitNames
          <6> QED
            BY <3>3, <5>2, <6>2, NamesTellQubits
        <5> QED
          BY <5>1, <5>2
      <4>2. i \in PlacesStated("rx")
        BY <2>2, <4>1, PlacesOfOneQubit
      <4>3. i \in places => props[i] # NoError
        <5>1. Properties("rx")[i] # NoError
          BY <2>2, <4>2 DEF KnownIsThere
        <5>2. i \in DOMAIN props => props[i] = Properties("rx")[i]
          BY <2>2 DEF props, PropertiesAt, Restrict
        <5> QED
          BY <2>3, <5>1, <5>2
      <4> QED
        BY <2>1, <2>4, <2>5, <3>1, <3>3, <4>3 DEF HasError
    <3> QED
      BY <3>2, <3>3
  <2> QED
    BY <2>4, <2>8, <2>9
<1> QED
  BY <1>4, <1>5, <1>6

(* Every step of building a target drops no error.                         *)
LEMMA NextDropped ==
  ASSUME TargetInv, ErrorsInv, NoneDropped, [BuildTarget]_targetVars
  PROVE  NoneDropped'
<1>1. SUFFICES ASSUME device.type = "qpu", device'.type = "qpu", device' = device,
                      stage' # "refused"
               PROVE  NoneDropped'
  <2>1. device' = device
    BY DEF BuildTarget, ReadDevice, AddNative, EndCalibrated, FinishTarget,
           SkipCalibrated, AddFirst, AddAnother, Turn, SimulatorTarget,
           RefuseDevice, targetVars
  <2> QED
    BY <1>1, <2>1 DEF NoneDropped
<1>2. CASE ReadDevice
  <2>1. KnownIsThere'
    BY <1>2, ReadIsThere
  <2>2. /\ stage' \in {"native", "calibrated"} /\ entries' = entries
        /\ left' = Restrictions(device) /\ entries = << >>
    BY <1>1, <1>2 DEF ReadDevice, NoneDropped
  <2>3. Restrictions(device') = Restrictions(device)
    BY <1>1
  <2> QED
    BY <1>1, <2>1, <2>2, <2>3 DEF NoneDropped
<1>3. CASE AddNative
  <2>1. /\ KnownIsThere /\ known' = known /\ stage' = "finish"
        /\ device.calibrations = {}
    BY <1>1, <1>3 DEF AddNative, NoneDropped, ErrorsInv, MeasureAdded
  <2>2. GateNames' = GateNames
    BY <1>1, StatedKept
  <2> QED
    BY <1>1, <1>3, <2>1, <2>2, NativeHaveErrors, DroppedKept DEF NoneDropped
<1>4. CASE EndCalibrated
  <2>1. /\ KnownIsThere /\ known' = known /\ entries' = entries /\ stage' = "finish"
        /\ \A r \in Restrictions(device) : AddedWithErrors(r)
        /\ device.calibrations # {}
    BY <1>1, <1>4 DEF EndCalibrated, NoneDropped, ErrorsInv, MeasureAdded
  <2>2. ASSUME NEW b \in Qubits12, NEW i \in PlacesStated(b), NEW n \in OfferedAs(b, i)
        PROVE  HasError(n, i)
    <3>1. PICK c \in device.calibrations :
            c.gate = b /\ Indices(device, c.at) = i /\ n = AddsAs(c)
      BY <2>1, <2>2 DEF OfferedAs
    <3>2. PICK r \in Restrictions(device) :
            r.gate = c.gate /\ r.param = c.param /\ Indices(device, c.at) \in r.at
      BY RestrictionsOfCalibrations
    <3>3. AddsAs(r) = n
      BY <3>1, <3>2 DEF AddsAs
    <3> QED
      BY <2>1, <3>1, <3>2, <3>3 DEF AddedWithErrors
  <2>3. GatesHaveErrors'
    BY <1>1, <2>1, <2>2, DroppedKept DEF GatesHaveErrors
  <2>4. GateNames' = GateNames
    BY <1>1, StatedKept
  <2> QED
    BY <1>1, <1>4, <2>1, <2>3, <2>4, DroppedKept DEF NoneDropped, EndCalibrated
<1>5. CASE FinishTarget
  <2>1. /\ KnownIsThere /\ known' = known /\ stage' = "built" /\ GatesHaveErrors
        /\ "measure" \in DOMAIN entries => "measure" \in GateNames
        /\ DOMAIN entries \cup {"measure"} \subseteq DOMAIN entries'
        /\ \A n \in DOMAIN entries : entries'[n] = entries[n]
        /\ "measure" \notin DOMAIN entries => entries'["measure"] = known.readout
    BY <1>1, <1>5 DEF FinishTarget, NoneDropped, Over
  <2>2. \A n, i : HasError(n, i) => HasError(n, i)'
    BY <2>1 DEF HasError
  <2>3. GatesHaveErrors'
    BY <1>1, <2>1, <2>2, DroppedKept DEF GatesHaveErrors
  <2>4. GateNames' = GateNames
    BY <1>1, StatedKept
  <2>5. ASSUME "measure" \notin GateNames,
               NEW q \in device.nodes \cap DOMAIN device.ones,
               Errors(device.ones[q], "readout") # {}
        PROVE  HasError("measure", <<Index(device, q)>>)'
    BY <1>1, <2>1, <2>5 DEF KnownIsThere, HasError
  <2>6. NoErrorIsDropped'
    BY <1>1, <2>3, <2>4, <2>5 DEF NoErrorIsDropped, GatesHaveErrors, Qubits12
  <2> QED
    BY <1>1, <2>1, <2>3, <2>6, DroppedKept DEF NoneDropped
<1>6. CASE SimulatorTarget \/ RefuseDevice
  BY <1>1, <1>6 DEF SimulatorTarget, RefuseDevice
<1>7. CASE UNCHANGED targetVars
  <2>1. /\ stage' = stage /\ entries' = entries /\ known' = known
        /\ Restrictions(device') \ left' = Restrictions(device) \ left
    BY <1>1, <1>7 DEF targetVars
  <2>2. /\ KnownIsThere' = KnownIsThere /\ GateNames' = GateNames
        /\ \A n, i : HasError(n, i)' = HasError(n, i)
    BY <1>1, <2>1, DroppedKept, StatedKept
  <2>3. \A r : AddedWithErrors(r)' = AddedWithErrors(r)
    BY <1>1, <2>1, <2>2, DroppedKept DEF AddedWithErrors
  <2>4. GatesHaveErrors' = GatesHaveErrors
    BY <1>1, <2>1, <2>2, DroppedKept DEF GatesHaveErrors
  <2>5. NoErrorIsDropped' = NoErrorIsDropped
    BY <1>1, <2>2, <2>4 DEF NoErrorIsDropped, GatesHaveErrors, Qubits12
  <2> QED
    BY <1>1, <2>1, <2>2, <2>3, <2>4, <2>5 DEF NoneDropped
<1>8. ASSUME NEW r \in left, SkipCalibrated(r) \/ AddFirst(r) \/ AddAnother(r)
      PROVE  NoneDropped'
  <2>1. /\ stage = "calibrated" /\ stage' = stage /\ known' = known
    BY <1>1, <1>8 DEF SkipCalibrated, AddFirst, AddAnother, Turn
  <2>2. /\ KnownIsThere
        /\ \A t \in Restrictions(device) \ left : AddedWithErrors(t)
        /\ "measure" \in DOMAIN entries => "measure" \in GateNames
    BY <1>1, <2>1 DEF NoneDropped
  <2>3. /\ \A t \in Restrictions(device) \ left' : AddedWithErrors(t)'
        /\ "measure" \in DOMAIN entries' => "measure" \in GateNames
    BY <1>1, <1>8, <2>2, AngleKeepsErrors
  <2>4. GateNames' = GateNames
    BY <1>1, StatedKept
  <2> QED
    BY <1>1, <2>1, <2>2, <2>3, <2>4, DroppedKept DEF NoneDropped
<1> QED
  BY <1>2, <1>3, <1>4, <1>5, <1>6, <1>7, <1>8 DEF BuildTarget

(* ErrorIsOfItsPlace: whichever qubits a device has, whichever pairs of    *)
(* them are connected, and whatever it states and calibrates, an error of  *)
(* the target is the highest the device states for that gate on the qubits *)
(* with those labels; and every error a QPU states of a gate it offers, on *)
(* a qubit or a pair of its topology, leads to one there (target.py).      *)
THEOREM ErrorsOfTheirPlace == TargetSpec => []ErrorIsOfItsPlace
<1>1. ErrorsInv /\ NoneDropped => ErrorIsOfItsPlace
  BY DEF ErrorsInv, EntriesStated, ErrorIsOfItsPlace, NoneDropped
<1> QED
  BY <1>1, InitTarget, NextTarget, InitErrors, NextErrors, InitDropped, NextDropped,
     PTL DEF TargetSpec

-----------------------------------------------------------------------------
(* The loop of the cleanup has asked exactly the tasks it is past, and     *)
(* nothing was asked before it.                                            *)
CleanupInv ==
  /\ pc \in {"start", "submit", "returned"} => asked = {}
  /\ pc = "start" => tasks = <<>>
  /\ pc = "cleanup" => next \in 1..(Len(tasks) + 1) /\ asked = 1..(next - 1)
  /\ pc = "raised" => asked = 1..Len(tasks)
  /\ pc = "lost" => next \in 1..Len(tasks) /\ asked = 1..next

(* A program's number, and the loop's, is never past the run's programs.   *)
LoopInv ==
  /\ pc \in {"start", "submit"} => next = Len(tasks) + 1
  /\ pc = "start" => next = 1
  /\ Len(tasks) <= input.programs

RunInv == RunTypeOK /\ LoopInv /\ CleanupInv

(* A run has no more programs than it may have.                            *)
LEMMA ProgramsBounded ==
  ASSUME RunTypeOK
  PROVE  /\ MaxPrograms \in Nat
         /\ input.programs \in Nat /\ input.programs <= MaxPrograms
         /\ next \in Nat
BY MaxProgramsAssumption DEF RunTypeOK, Inputs

(* The run's invariant at the beginning.                                   *)
LEMMA InitInv == RunInit => RunInv
<1> SUFFICES ASSUME RunInit PROVE RunInv
  OBVIOUS
<1>1. tasks = <<>> /\ Len(tasks) = 0 /\ DOMAIN tasks = {}
  BY DEF RunInit
<1>2. input.programs \in Nat /\ MaxPrograms \in Nat
  BY MaxProgramsAssumption DEF RunInit, Inputs
<1>3. RunTypeOK
  BY <1>1, <1>2 DEF RunInit, RunTypeOK
<1> QED
  BY <1>1, <1>2, <1>3 DEF RunInit, RunInv, LoopInv, CleanupInv

(* The jobs a list of tasks is joined to, and split from again.            *)
LEMMA IdsAreIds ==
  ASSUME NEW S, NEW ts \in Seq(S)
  PROVE  Ids(ts) \in Seq(Nat)
BY DEF Ids

(* What a job's id is split into are ids.                                  *)
LEMMA SplitAreIds ==
  ASSUME NEW ids \in Seq(Nat)
  PROVE  SplitJoined(ids) \in Seq(Nat)
BY DEF SplitJoined, NoTask

(* A function on 1..n is a sequence of n elements.                         *)
LEMMA FunctionIsSequence ==
  ASSUME NEW S, NEW n \in Nat, NEW f \in [1..n -> S]
  PROVE  f \in Seq(S) /\ Len(f) = n
OBVIOUS

(* Every action keeps the invariant, one step each.                        *)
LEMMA NextInv == RunInv /\ [RunNext]_runVars => RunInv'
<1> SUFFICES ASSUME RunInv, [RunNext]_runVars PROVE RunInv'
  OBVIOUS
<1> USE DEF RunInv
<1>1. /\ MaxPrograms \in Nat /\ input.programs \in Nat
      /\ input.programs <= MaxPrograms /\ next \in Nat /\ Len(tasks) \in Nat
      /\ tasks \in Seq(Seq(1..MaxPrograms)) /\ DOMAIN tasks = 1..Len(tasks)
  BY ProgramsBounded DEF RunTypeOK
<1>2. CASE StartRaises
  BY <1>1, <1>2 DEF StartRaises, RunTypeOK, LoopInv, CleanupInv
<1>3. CASE StartLocal
  BY <1>1, <1>3 DEF StartLocal, RunTypeOK, LoopInv, CleanupInv
<1>4. CASE Submit
  <2>1. next \in 1..MaxPrograms /\ Len(tasks) < input.programs
    BY <1>1, <1>4 DEF Submit, LoopInv, RunTypeOK
  <2>2. /\ tasks' \in Seq(Seq(1..MaxPrograms)) /\ Len(tasks') = Len(tasks) + 1
        /\ DOMAIN tasks' = 1..(Len(tasks) + 1)
    BY <1>1, <1>4, <2>1 DEF Submit
  <2>3. RunTypeOK'
    BY <1>1, <1>4, <2>1, <2>2 DEF Submit, RunTypeOK, CleanupInv
  <2> QED
    BY <1>1, <1>4, <2>1, <2>2, <2>3 DEF Submit, LoopInv, CleanupInv
<1>5. CASE SubmitRaises
  <2>1. asked' = {} /\ next' = 1 /\ pc' = "cleanup" /\ tasks' = tasks
    BY <1>5 DEF SubmitRaises, CleanupInv
  <2>2. RunTypeOK'
    BY <1>1, <1>5, <2>1 DEF SubmitRaises, RunTypeOK
  <2> QED
    BY <1>1, <1>5, <2>1, <2>2 DEF SubmitRaises, LoopInv, CleanupInv
<1>6. CASE LocalReturns
  <2>1. Ids(tasks) \in Seq(Nat)
    BY <1>1, IdsAreIds
  <2>2. RunTypeOK'
    BY <1>1, <1>6, <2>1 DEF LocalReturns, RunTypeOK, Jobs, Shape
  <2> QED
    BY <1>1, <1>6, <2>2 DEF LocalReturns, LoopInv, CleanupInv
<1>7. CASE CleanupCancel
  <2>1. /\ next \in 1..Len(tasks) /\ asked = 1..(next - 1)
        /\ asked' = 1..next /\ next' = next + 1 /\ tasks' = tasks
        /\ pc' = "cleanup" /\ input' = input
    BY <1>1, <1>7 DEF CleanupCancel, CleanupGoesOn, CleanupInv
  <2>2. RunTypeOK'
    BY <1>1, <1>7, <2>1 DEF CleanupCancel, RunTypeOK, LoopInv
  <2> QED
    BY <1>1, <2>1, <2>2 DEF LoopInv, CleanupInv
<1>8. CASE CleanupRaises
  <2>1. next \in 1..Len(tasks) /\ asked' = 1..next
    BY <1>1, <1>8 DEF CleanupRaises, CleanupGoesOn, CleanupInv
  <2> QED
    BY <1>1, <1>8, <2>1 DEF CleanupRaises, RunTypeOK, LoopInv, CleanupInv
<1>9. CASE CleanupDone
  <2>1. asked = 1..Len(tasks)
    BY <1>1, <1>9 DEF CleanupDone, CleanupGoesOn, CleanupInv
  <2> QED
    BY <1>1, <1>9, <2>1 DEF CleanupDone, RunTypeOK, LoopInv, CleanupInv
<1>10. CASE RunProgramSet
  <2>1. input.programs >= 1 /\ AllPrograms \in Seq(1..MaxPrograms)
    BY <1>1, <1>10 DEF RunProgramSet, UseProgramSet, AllPrograms
  <2>2. /\ tasks' = <<AllPrograms>> /\ tasks' \in Seq(Seq(1..MaxPrograms))
        /\ Len(tasks') = 1
    BY <1>10, <2>1 DEF RunProgramSet
  <2>3. asked' = {} /\ job' \in Jobs
    BY <1>10 DEF RunProgramSet, CleanupInv, Jobs, Shape
  <2>4. RunTypeOK'
    BY <1>1, <1>10, <2>2, <2>3 DEF RunProgramSet, RunTypeOK
  <2> QED
    BY <1>1, <1>10, <2>1, <2>2, <2>3, <2>4 DEF RunProgramSet, LoopInv, CleanupInv
<1>11. CASE RunBatch
  <2>1. /\ tasks' \in Seq(Seq(1..MaxPrograms)) /\ Len(tasks') = input.programs
    <3>1. \A p \in 1..input.programs : <<p>> \in Seq(1..MaxPrograms)
      BY <1>1
    <3>2. tasks' \in [1..input.programs -> Seq(1..MaxPrograms)]
      BY <1>11, <3>1 DEF RunBatch
    <3> QED
      BY <1>1, <3>2, FunctionIsSequence
  <2>2. asked' = {} /\ job' \in Jobs
    <3>1. Ids(tasks') \in Seq(Nat)
      BY <2>1, IdsAreIds
    <3> QED
      BY <1>11, <3>1 DEF RunBatch, CleanupInv, Jobs, Shape
  <2>3. RunTypeOK'
    BY <1>1, <1>11, <2>1, <2>2 DEF RunBatch, RunTypeOK
  <2> QED
    BY <1>1, <1>11, <2>1, <2>2, <2>3 DEF RunBatch, LoopInv, CleanupInv
<1>12. CASE RetrieveJob
  <2>1. SplitJoined(job.ids) \in Seq(Nat)
    <3>1. job \in Jobs \/ job = NoJob
      BY DEF RunTypeOK
    <3>2. job.ids \in Seq(Nat)
      <4>1. CASE job \in Jobs
        BY <4>1 DEF Jobs
      <4>2. CASE job = NoJob
        <5>1. job.ids = <<>>
          BY <4>2 DEF NoJob
        <5> QED
          BY <5>1
      <4> QED
        BY <3>1, <4>1, <4>2
    <3> QED
      BY <3>2, SplitAreIds
  <2>2. retrieved' \in Jobs
    BY <1>12, <2>1 DEF RetrieveJob, Jobs, Shape
  <2>3. RunTypeOK'
    BY <1>1, <1>12, <2>2 DEF RetrieveJob, RunTypeOK
  <2> QED
    BY <1>1, <1>12, <2>3 DEF RetrieveJob, LoopInv, CleanupInv
<1>13. CASE UNCHANGED runVars
  BY <1>13 DEF runVars, RunTypeOK, LoopInv, CleanupInv
<1> QED
  BY <1>2, <1>3, <1>4, <1>5, <1>6, <1>7, <1>8, <1>9, <1>10, <1>11, <1>12, <1>13
     DEF RunNext

(* A run keeps its types: the loops of run() stay within its programs and  *)
(* tasks, whichever call fails (braket_backend.py, run of both backends).  *)
THEOREM RunTyping == RunSpec => []RunTypeOK
<1>1. RunInv => RunTypeOK
  BY DEF RunInv
<1> QED
  BY <1>1, InitInv, NextInv, PTL DEF RunSpec

(* A run that raises has asked every task to cancel, and one that returns  *)
(* has cancelled nothing; when a task's cancel raises in the except block  *)
(* of BraketLocalBackend.run, exactly the tasks after it were not asked.   *)
THEOREM RunLeavesNothingBehind == RunSpec => []NothingLeftBehind
<1>1. RunInv => NothingLeftBehind
  BY DEF RunInv, RunTypeOK, CleanupInv, NothingLeftBehind
<1> QED
  BY <1>1, InitInv, NextInv, PTL DEF RunSpec

-----------------------------------------------------------------------------
(* Until run() returns each task is of one program, in their order; what   *)
(* it returns names them all, or the one task of all.                      *)
OneEach == [p \in 1..input.programs |-> <<p>>]

JobOfTasks ==
  \/ job = [shape |-> "single", ids |-> <<1>>] /\ tasks = <<AllPrograms>>
  \/ job = [shape |-> "list", ids |-> Ids(tasks)] /\ tasks = OneEach

OrderInv ==
  /\ pc \in {"start", "submit"} =>
       tasks \in Seq(Seq(Nat)) /\ \A t \in DOMAIN tasks : tasks[t] = <<t>>
  /\ pc = "returned" => JobOfTasks
  /\ IF pc = "returned"
       THEN retrieved \in {NoJob, [shape |-> "list", ids |-> SplitJoined(job.ids)]}
       ELSE retrieved = NoJob

(* The order of the tasks at the beginning.                                *)
LEMMA InitOrder == RunInit => OrderInv
<1> SUFFICES ASSUME RunInit PROVE OrderInv
  OBVIOUS
<1>1. tasks = <<>> /\ DOMAIN tasks = {} /\ tasks \in Seq(Seq(Nat))
  BY DEF RunInit
<1> QED
  BY <1>1 DEF RunInit, OrderInv

(* Only the steps that create tasks or give a job have to do with it.      *)
LEMMA NextOrder ==
  ASSUME RunInv, RunInv', OrderInv, [RunNext]_runVars
  PROVE  OrderInv'
<1>1. /\ input.programs \in Nat /\ next \in Nat /\ Len(tasks) \in Nat
      /\ DOMAIN tasks = 1..Len(tasks)
  BY ProgramsBounded DEF RunInv, RunTypeOK
<1>2. CASE Submit
  <2>1. /\ tasks' = Append(tasks, <<next>>) /\ next = Len(tasks) + 1
        /\ tasks \in Seq(Seq(Nat)) /\ <<next>> \in Seq(Nat)
        /\ pc = "submit" /\ pc' = "submit" /\ retrieved' = retrieved
    BY <1>1, <1>2 DEF Submit, RunInv, LoopInv, OrderInv
  <2>2. tasks' \in Seq(Seq(Nat)) /\ DOMAIN tasks' = 1..(Len(tasks) + 1)
    BY <2>1
  <2>3. ASSUME NEW t \in DOMAIN tasks' PROVE tasks'[t] = <<t>>
    <3>1. CASE t \in DOMAIN tasks
      <4>1. tasks[t] = <<t>>
        BY <2>1, <3>1 DEF OrderInv
      <4>2. t \in 1..Len(tasks)
        BY <1>1, <3>1
      <4>3. Append(tasks, <<next>>)[t] = tasks[t]
        BY <2>1, <4>2
      <4> QED
        BY <2>1, <4>1, <4>3
    <3>2. CASE t = Len(tasks) + 1
      BY <2>1, <3>2
    <3> QED
      BY <1>1, <2>2, <2>3, <3>1, <3>2
  <2> QED
    BY <2>1, <2>2, <2>3 DEF OrderInv
<1>3. CASE LocalReturns
  <2>1. Len(tasks) = input.programs
    BY <1>1, <1>3 DEF LocalReturns, RunInv, LoopInv
  <2>2. tasks \in Seq(Seq(Nat)) /\ \A t \in DOMAIN tasks : tasks[t] = <<t>>
    BY <1>3 DEF LocalReturns, OrderInv
  <2>3. tasks = OneEach
    <3>1. tasks = [t \in DOMAIN tasks |-> tasks[t]]
      BY <2>2
    <3> QED
      BY <1>1, <2>1, <2>2, <3>1 DEF OneEach
  <2>4. JobOfTasks'
    BY <1>3, <2>3 DEF LocalReturns, JobOfTasks, OneEach, Ids
  <2> QED
    BY <1>3, <2>4 DEF LocalReturns, OrderInv
<1>4. CASE RunProgramSet
  <2>1. JobOfTasks'
    BY <1>4 DEF RunProgramSet, JobOfTasks, AllPrograms
  <2> QED
    BY <1>4, <2>1 DEF RunProgramSet, OrderInv
<1>5. CASE RunBatch
  <2>1. JobOfTasks'
    BY <1>5 DEF RunBatch, JobOfTasks, OneEach, Ids
  <2> QED
    BY <1>5, <2>1 DEF RunBatch, OrderInv
<1>6. CASE RetrieveJob
  BY <1>6 DEF RetrieveJob, OrderInv, JobOfTasks, OneEach, AllPrograms, Ids
<1>7. CASE \/ StartRaises \/ StartLocal \/ SubmitRaises \/ CleanupCancel
           \/ CleanupRaises \/ CleanupDone
  BY <1>7 DEF StartRaises, StartLocal, SubmitRaises, CleanupCancel,
              CleanupRaises, CleanupDone, OrderInv
<1>8. CASE UNCHANGED runVars
  BY <1>8 DEF runVars, OrderInv, JobOfTasks, OneEach, AllPrograms, Ids
<1> QED
  BY <1>2, <1>3, <1>4, <1>5, <1>6, <1>7, <1>8 DEF RunNext

(* A job of these tasks, named one after the other, gives every program's  *)
(* results once, in order.                                                 *)
LEMMA OneEachInOrder ==
  ASSUME RunInv, tasks = OneEach, NEW j, j.shape = "list", j.ids = Ids(tasks)
  PROVE  ProgramsOf(j) = AllPrograms
<1>1. input.programs \in Nat
  BY ProgramsBounded DEF RunInv
<1>2. j.ids = [p \in 1..input.programs |-> p]
  BY DEF OneEach, Ids
<1>3. \A p \in 1..input.programs :
        p # NoTask /\ Len(tasks[p]) = 1 /\ tasks[p][1] = p
  BY <1>1 DEF NoTask, OneEach
<1>4. /\ \A i \in DOMAIN j.ids : j.ids[i] # NoTask /\ Len(tasks[j.ids[i]]) = 1
      /\ [i \in DOMAIN j.ids |-> tasks[j.ids[i]][1]] = AllPrograms
  BY <1>2, <1>3 DEF AllPrograms
<1> QED
  BY <1>4 DEF ProgramsOf

(* ResultsInProgramOrder: whichever of the three ways a run is submitted,  *)
(* its job, and the retrieved one where the code can tell what it was, give*)
(* one result per program in their order (braket_backend.py, 131-142,      *)
(* 247-279, 353-358, 516-546).                                             *)
THEOREM RunKeepsProgramOrder == RunSpec => []ResultsInProgramOrder
<1>1. ASSUME RunInv, OrderInv
      PROVE  ResultsInProgramOrder
  <2>1. pc = "returned" => ProgramsOf(job) = AllPrograms
    <3> SUFFICES ASSUME pc = "returned" PROVE ProgramsOf(job) = AllPrograms
      OBVIOUS
    <3>1. CASE job = [shape |-> "single", ids |-> <<1>>] /\ tasks = <<AllPrograms>>
      BY <3>1 DEF ProgramsOf
    <3>2. CASE job = [shape |-> "list", ids |-> Ids(tasks)] /\ tasks = OneEach
      BY <1>1, <3>2, OneEachInOrder
    <3> QED
      BY <1>1, <3>1, <3>2 DEF OrderInv, JobOfTasks
  <2>2. ASSUME retrieved # NoJob, job.shape = "list", tasks # <<>>
        PROVE  ProgramsOf(retrieved) = AllPrograms
    <3>1. /\ pc = "returned"
          /\ retrieved = [shape |-> "list", ids |-> SplitJoined(job.ids)]
      BY <1>1, <2>2 DEF OrderInv
    <3>2. job = [shape |-> "list", ids |-> Ids(tasks)] /\ tasks = OneEach
      BY <1>1, <2>2, <3>1 DEF OrderInv, JobOfTasks
    <3>3. job.ids # <<>>
      <4>1. input.programs \in Nat
        BY <1>1, ProgramsBounded DEF RunInv
      <4>2. input.programs # 0
        BY <2>2, <3>2, <4>1 DEF OneEach
      <4>3. job.ids = [p \in 1..input.programs |-> p]
        BY <3>2 DEF Ids, OneEach
      <4>4. 1 \in DOMAIN job.ids
        BY <4>1, <4>2, <4>3
      <4> QED
        BY <4>4
    <3>4. retrieved.shape = "list" /\ retrieved.ids = Ids(tasks)
      BY <3>1, <3>2, <3>3 DEF SplitJoined
    <3> QED
      BY <1>1, <3>2, <3>4, OneEachInOrder
  <2> QED
    BY <2>1, <2>2 DEF ResultsInProgramOrder
<1> QED
  BY <1>1, InitInv, NextInv, InitOrder, NextOrder, PTL DEF RunSpec

-----------------------------------------------------------------------------
(* The backend does what its parts do: it builds its target as Targets     *)
(* does, and submits as BackendRun does, whose refusals before the first   *)
(* task are those of the provider, of the target and of the compilation.   *)
THEOREM BuildsItsTarget == Spec => TargetSpec
<1>1. Init => TargetInit
  BY DEF Init
<1>2. [Next]_vars => [BuildTarget]_targetVars
  BY DEF vars, Next, GetBackend, Configure, CompileNext, Submission
<1> QED
  BY <1>1, <1>2, PTL DEF Spec, TargetSpec

AskedFirst == place = "provider" => pc = "start"

(* The backend they are composed in runs as BackendRun does.               *)
THEOREM RunsAsABackend == Spec => RunSpec
<1>1. Init => RunInit /\ AskedFirst
  BY DEF Init, RunInit, AskedFirst
<1>2. AskedFirst /\ [Next]_vars => AskedFirst'
  <2> SUFFICES ASSUME AskedFirst, [Next]_vars PROVE AskedFirst'
    OBVIOUS
  <2> QED
    BY DEF AskedFirst, vars, runVars, Next, GetBackend, Configure, CompileNext, Submission
<1>3. ASSUME AskedFirst, [Next]_vars
      PROVE  [RunNext]_runVars
  <2>1. CASE GetBackend
    BY <1>3, <2>1 DEF AskedFirst, GetBackend, RunNext, StartRaises, runVars
  <2>2. CASE Configure
    BY <2>2 DEF Configure, RunNext, StartRaises, runVars
  <2>3. CASE CompileNext
    BY <2>3 DEF CompileNext, RunNext, StartRaises, runVars
  <2>4. CASE Submission
    BY <2>4 DEF Submission
  <2>5. CASE UNCHANGED vars
    BY <2>5 DEF vars, runVars
  <2> QED
    BY <1>3, <2>1, <2>2, <2>3, <2>4, <2>5 DEF Next
<1> QED
  BY <1>1, <1>2, <1>3, PTL DEF Spec, RunSpec

(* So that what holds of the parts holds of the backend.                   *)
THEOREM BackendSubstitutesAreCalibrated == Spec => []SubstitutesAreCalibrated
BY BuildsItsTarget, SubstitutesAlwaysCalibrated, PTL

(* ErrorIsOfItsPlace, of the target a backend is given.                    *)
THEOREM BackendErrorsOfTheirPlace == Spec => []ErrorIsOfItsPlace
BY BuildsItsTarget, ErrorsOfTheirPlace, PTL

(* NothingLeftBehind, of the run of a backend.                             *)
THEOREM BackendLeavesNothingBehind == Spec => []NothingLeftBehind
BY RunsAsABackend, RunLeavesNothingBehind, PTL

(* ResultsInProgramOrder, of the run of a backend.                         *)
THEOREM BackendKeepsProgramOrder == Spec => []ResultsInProgramOrder
BY RunsAsABackend, RunKeepsProgramOrder, PTL

(* The types of the whole: the parts' own, and as many programs compiled   *)
(* as written, which are never more than the run's.                        *)
Compiling ==
  /\ place \in {"provider", "backend"} /\ call.mode \in Modes
  /\ stage \in {"read", "calibrated", "native", "finish", "built", "refused"}
  /\ \E S : compiled \in Seq(S)
  /\ \E S : programs \in Seq(S)
  /\ Len(compiled) = Len(programs) /\ Len(programs) <= input.programs

(* Append, place by place.                                                 *)
LEMMA LongerByOne ==
  ASSUME NEW s, \E S : s \in Seq(S), NEW x
  PROVE  (\E S : Append(s, x) \in Seq(S)) /\ Len(Append(s, x)) = Len(s) + 1
<1>1. PICK S : s \in Seq(S)
  OBVIOUS
<1>2. s \in Seq(S \cup {x}) /\ x \in S \cup {x}
  BY <1>1
<1>3. Append(s, x) \in Seq(S \cup {x}) /\ Len(Append(s, x)) = Len(s) + 1
  BY <1>2
<1> QED
  BY <1>3

(* Nothing is compiled at the beginning.                                   *)
LEMMA InitCompiling == Init => Compiling
<1> SUFFICES ASSUME Init PROVE Compiling
  OBVIOUS
<1>1. compiled \in Seq({}) /\ programs \in Seq({}) /\ Len(compiled) = 0 /\ Len(programs) = 0
  BY DEF Init
<1>2. input.programs \in Nat
  BY MaxProgramsAssumption DEF Init, RunInit, Inputs
<1>3. call.mode \in Modes
  BY ScenariosAssumption DEF Init
<1> QED
  BY <1>1, <1>2, <1>3 DEF Init, TargetInit, Compiling

(* Every step of the backend keeps what is known of compiling.             *)
LEMMA NextCompiling ==
  ASSUME Compiling, input.programs \in Nat, [Next]_vars
  PROVE  Compiling'
<1>1. CASE GetBackend
  BY <1>1 DEF GetBackend, targetVars, Compiling
<1>2. CASE Configure
  <2>1. stage' \in {"read", "calibrated", "native", "finish", "built", "refused"}
    BY <1>2 DEF Configure, BuildTarget, ReadDevice, AddNative, EndCalibrated,
                FinishTarget, Turn, SkipCalibrated, AddFirst, AddAnother,
                SimulatorTarget, RefuseDevice, Compiling
  <2> QED
    BY <1>2, <2>1 DEF Configure, Compiling
<1>3. CASE CompileNext
  <2>1. CASE UNCHANGED <<compiled, programs>>
    BY <1>3, <2>1 DEF CompileNext, targetVars, Compiling
  <2>2. CASE \E c, p : compiled' = Append(compiled, c) /\ programs' = Append(programs, p)
    <3>1. PICK c, p : compiled' = Append(compiled, c) /\ programs' = Append(programs, p)
      BY <2>2
    <3>2. /\ \E S : compiled' \in Seq(S)
          /\ \E S : programs' \in Seq(S)
          /\ Len(compiled') = Len(compiled) + 1 /\ Len(programs') = Len(programs) + 1
      BY <3>1, LongerByOne DEF Compiling
    <3>3. Len(programs) < input.programs /\ Len(programs) \in Nat
      BY <1>3 DEF CompileNext, Compiling
    <3> QED
      BY <1>3, <3>2, <3>3 DEF CompileNext, targetVars, Compiling
  <2> QED
    BY <1>3, <2>1, <2>2 DEF CompileNext
<1>4. CASE Submission
  <2>1. input' = input
    BY <1>4 DEF Submission, RunNext, StartRaises, StartLocal, Submit, SubmitRaises,
                LocalReturns, CleanupCancel, CleanupRaises, CleanupDone,
                RunProgramSet, RunBatch, RetrieveJob
  <2> QED
    BY <1>4, <2>1 DEF Submission, targetVars, Compiling
<1>5. CASE UNCHANGED vars
  BY <1>5 DEF vars, targetVars, runVars, Compiling
<1> QED
  BY <1>1, <1>2, <1>3, <1>4, <1>5 DEF Next

(* TypeOK of the backend, for any devices and any number of programs.      *)
THEOREM BackendTyping == Spec => []TypeOK
<1>1. RunInv => input.programs \in Nat
  BY ProgramsBounded DEF RunInv
<1>2. ASSUME RunInv, TargetInv, ErrorsInv, Compiling
      PROVE  TypeOK
  BY <1>2 DEF RunInv, TargetInv, Offered, ErrorsInv, EntriesStated, Compiling, TypeOK
<1>3. Spec => []RunInv
  BY RunsAsABackend, InitInv, NextInv, PTL DEF RunSpec
<1>4. Spec => [](TargetInv /\ ErrorsInv)
  BY BuildsItsTarget, InitTarget, NextTarget, InitErrors, NextErrors, PTL DEF TargetSpec
<1>5. Spec => []Compiling
  BY <1>1, <1>3, InitCompiling, NextCompiling, PTL DEF Spec
<1> QED
  BY <1>2, <1>3, <1>4, <1>5, PTL

-----------------------------------------------------------------------------
(***************************************************************************)
(* Picking some of a sequence's elements (Those, of ToOQ3).                *)
(***************************************************************************)

(* Picking some places of a sequence: the places that are picked, in order.*)
Listing(p, m, K) ==
  /\ p \in [1..m -> K]
  /\ \A a, b \in 1..m : a < b => p[a] < p[b]
  /\ \A k \in K : \E a \in 1..m : p[a] = k

Picked(s, K) == [i \in DOMAIN s |-> IF i \in K THEN <<s[i]>> ELSE << >>]

(* The rows of what is picked: one element or none.                        *)
LEMMA PickedFacts ==
  ASSUME NEW S, NEW s \in Seq(S), NEW K
  PROVE  /\ Picked(s, K) \in Seq(Seq(S)) /\ Len(Picked(s, K)) = Len(s)
         /\ \A i \in 1..Len(s) :
              Picked(s, K)[i] = IF i \in K THEN <<s[i]>> ELSE << >>
<1>1. \A i \in 1..Len(s) : s[i] \in S /\ <<s[i]>> \in Seq(S) /\ << >> \in Seq(S)
  OBVIOUS
<1>2. DOMAIN s = 1..Len(s) /\ Len(s) \in Nat
  OBVIOUS
<1> QED
  BY <1>1, <1>2 DEF Picked

(* What is picked are the elements at the places, in their order.          *)
LEMMA ThoseListed ==
  ASSUME NEW S, NEW s \in Seq(S), NEW K \in SUBSET (1..Len(s))
  PROVE  /\ Those(s, K) \in Seq(S)
         /\ \E p : /\ Listing(p, Len(Those(s, K)), K)
                   /\ \A b \in 1..Len(Those(s, K)) : Those(s, K)[b] = s[p[b]]
<1> DEFINE ss == Picked(s, K)
           t == Those(s, K)
<1>1. /\ ss \in Seq(Seq(S)) /\ Len(ss) = Len(s) /\ t = FlattenSeq(ss)
      /\ \A i \in 1..Len(s) : ss[i] = IF i \in K THEN <<s[i]>> ELSE << >>
  BY PickedFacts DEF Those, Picked
<1> HIDE DEF ss, t
<1>2. t \in Seq(S) /\ \E row, col : IsGrid(t, ss, Len(ss), row, col)
  BY <1>1, FlattenSeqIsGrid
<1>3. PICK row, col : IsGrid(t, ss, Len(s), row, col)
  BY <1>1, <1>2
<1>4. /\ row \in [1..Len(t) -> 1..Len(s)]
      /\ \A b \in 1..Len(t) : col[b] \in 1..Len(ss[row[b]]) /\ t[b] = ss[row[b]][col[b]]
      /\ \A b, d \in 1..Len(t) :
           b < d => row[b] < row[d] \/ (row[b] = row[d] /\ col[b] < col[d])
      /\ \A i \in 1..Len(s) : \A j \in 1..Len(ss[i]) :
           \E b \in 1..Len(t) : row[b] = i /\ col[b] = j
  BY <1>3 DEF IsGrid
<1>5. ASSUME NEW b \in 1..Len(t)
      PROVE  row[b] \in K /\ col[b] = 1 /\ t[b] = s[row[b]]
  <2>1. row[b] \in 1..Len(s) /\ col[b] \in 1..Len(ss[row[b]])
    BY <1>4
  <2>2. ss[row[b]] = IF row[b] \in K THEN <<s[row[b]]>> ELSE << >>
    BY <1>1, <2>1
  <2>3. row[b] \in K
    BY <2>1, <2>2
  <2>4. col[b] = 1
    BY <2>1, <2>2, <2>3
  <2> QED
    BY <1>4, <2>2, <2>3, <2>4
<1>6. ASSUME NEW a \in 1..Len(t), NEW b \in 1..Len(t), a < b
      PROVE  row[a] < row[b]
  <2>1. row[a] < row[b] \/ (row[a] = row[b] /\ col[a] < col[b])
    BY <1>4, <1>6
  <2>2. col[a] = 1 /\ col[b] = 1
    BY <1>5
  <2> QED
    BY <2>1, <2>2
<1>7. ASSUME NEW k \in K PROVE \E a \in 1..Len(t) : row[a] = k
  <2>1. k \in 1..Len(s) /\ ss[k] = <<s[k]>>
    BY <1>1
  <2>2. 1 \in 1..Len(ss[k])
    BY <2>1
  <2> QED
    BY <1>4, <2>1, <2>2
<1>8. Listing(row, Len(t), K)
  BY <1>4, <1>5, <1>6, <1>7 DEF Listing
<1> QED
  BY <1>2, <1>5, <1>8 DEF t

(* A sequence that the places list is what is picked.                      *)
LEMMA ThoseIs ==
  ASSUME NEW S, NEW s \in Seq(S), NEW K \in SUBSET (1..Len(s)), NEW t \in Seq(S),
         NEW p, Listing(p, Len(t), K), \A b \in 1..Len(t) : t[b] = s[p[b]]
  PROVE  Those(s, K) = t
<1> DEFINE ss == Picked(s, K)
           one == [b \in 1..Len(t) |-> 1]
<1>1. /\ ss \in Seq(Seq(S)) /\ Len(ss) = Len(s) /\ Those(s, K) = FlattenSeq(ss)
      /\ \A i \in 1..Len(s) : ss[i] = IF i \in K THEN <<s[i]>> ELSE << >>
  BY PickedFacts DEF Those, Picked
<1>2. /\ p \in [1..Len(t) -> 1..Len(s)]
      /\ \A b \in 1..Len(t) : p[b] \in K
      /\ \A a, b \in 1..Len(t) : a < b => p[a] < p[b]
      /\ \A k \in K : \E a \in 1..Len(t) : p[a] = k
  BY DEF Listing
<1>3. one \in [1..Len(t) -> Nat] /\ \A b \in 1..Len(t) : one[b] = 1
  OBVIOUS
<1> HIDE DEF ss, one
<1>4. ASSUME NEW b \in 1..Len(t)
      PROVE  one[b] \in 1..Len(ss[p[b]]) /\ t[b] = ss[p[b]][one[b]]
  <2>1. p[b] \in 1..Len(s) /\ ss[p[b]] = <<s[p[b]]>>
    BY <1>1, <1>2
  <2> QED
    BY <1>3, <2>1
<1>5. ASSUME NEW i \in 1..Len(s), NEW j \in 1..Len(ss[i])
      PROVE  \E b \in 1..Len(t) : p[b] = i /\ one[b] = j
  <2>1. ss[i] = IF i \in K THEN <<s[i]>> ELSE << >>
    BY <1>1
  <2>2. i \in K /\ j = 1
    BY <2>1
  <2> QED
    BY <1>2, <1>3, <2>2
<1>6. IsGrid(t, ss, Len(ss), p, one)
  BY <1>1, <1>2, <1>3, <1>4, <1>5 DEF IsGrid
<1>7. FlattenSeq(ss) = t
  BY <1>1, <1>6, FlatteningIs
<1> QED
  BY <1>1, <1>7

(* Places of places: what is picked from what was picked.                  *)
LEMMA ThoseOfThose ==
  ASSUME NEW S, NEW s \in Seq(S), NEW K \in SUBSET (1..Len(s)),
         NEW L \in SUBSET K, NEW J \in SUBSET (1..Len(Those(s, K))),
         \A p : (/\ Listing(p, Len(Those(s, K)), K)
                 /\ (\A b \in 1..Len(Those(s, K)) : Those(s, K)[b] = s[p[b]]))
                => \A b \in 1..Len(Those(s, K)) : b \in J <=> p[b] \in L
  PROVE  Those(Those(s, K), J) = Those(s, L)
<1> DEFINE t == Those(s, K)
           u == Those(t, J)
<1>1. t \in Seq(S)
  BY ThoseListed
<1>2. PICK p : Listing(p, Len(t), K) /\ \A b \in 1..Len(t) : t[b] = s[p[b]]
  BY ThoseListed
<1>3. \A b \in 1..Len(t) : b \in J <=> p[b] \in L
  BY <1>2
<1>4. J \in SUBSET (1..Len(t))
  OBVIOUS
<1> HIDE DEF t
<1>5. u \in Seq(S)
  BY <1>1, <1>4, ThoseListed
<1>6. PICK q : Listing(q, Len(u), J) /\ \A b \in 1..Len(u) : u[b] = t[q[b]]
  BY <1>1, <1>4, ThoseListed
<1> HIDE DEF u
<1> DEFINE pq == [b \in 1..Len(u) |-> p[q[b]]]
<1>7. \A b \in 1..Len(u) : q[b] \in J /\ q[b] \in 1..Len(t)
  BY <1>4, <1>6 DEF Listing
<1>8. \A b \in 1..Len(u) : pq[b] = p[q[b]] /\ pq[b] \in L /\ u[b] = s[pq[b]]
  BY <1>2, <1>3, <1>6, <1>7
<1>9. \A a, b \in 1..Len(u) : a < b => pq[a] < pq[b]
  <2>1. \A a, b \in 1..Len(u) : a < b => q[a] < q[b]
    BY <1>6 DEF Listing
  <2>2. \A a, b \in 1..Len(t) : a < b => p[a] < p[b]
    BY <1>2 DEF Listing
  <2> QED
    BY <1>7, <1>8, <2>1, <2>2
<1>10. ASSUME NEW k \in L PROVE \E a \in 1..Len(u) : pq[a] = k
  <2>1. PICK b \in 1..Len(t) : p[b] = k
    BY <1>2 DEF Listing
  <2>2. b \in J
    BY <1>3, <2>1
  <2>3. PICK a \in 1..Len(u) : q[a] = b
    BY <1>6, <2>2 DEF Listing
  <2> QED
    BY <2>1, <2>3
<1>11. Listing(pq, Len(u), L)
  <2>1. pq \in [1..Len(u) -> L]
    BY <1>8
  <2> HIDE DEF pq
  <2> QED
    BY <1>9, <1>10, <2>1 DEF Listing
<1> HIDE DEF pq
<1>12. Those(s, L) = u
  BY <1>5, <1>8, <1>11, ThoseIs
<1> QED
  BY <1>12 DEF u, t

(* All of the elements are the sequence.                                   *)
LEMMA ThoseAll ==
  ASSUME NEW S, NEW s \in Seq(S)
  PROVE  Those(s, 1..Len(s)) = s
<1> DEFINE p == [b \in 1..Len(s) |-> b]
<1>1. Listing(p, Len(s), 1..Len(s)) /\ \A b \in 1..Len(s) : s[b] = s[p[b]]
  BY DEF Listing
<1> QED
  BY <1>1, ThoseIs

-----------------------------------------------------------------------------
(***************************************************************************)
(* What each pass of to_oq3 leaves of a circuit, whatever the circuit.     *)
(***************************************************************************)

CircuitFields ==
  {"width", "qregs", "physical", "layout", "bits", "cregs", "outputs", "phase", "insts"}

(* What the passes leave of a circuit as it is.                            *)
SameBut(d, c) ==
  /\ DOMAIN d = CircuitFields
  /\ d.width = c.width /\ d.qregs = c.qregs /\ d.physical = c.physical
  /\ d.layout = c.layout /\ d.bits = c.bits /\ d.outputs = c.outputs

(* The parts of a circuit, one by one.                                     *)
LEMMA CircuitFacts ==
  ASSUME NEW c, IsCircuit(c)
  PROVE  /\ SameBut(c, c)
         /\ c.width \in Nat /\ c.bits \in Nat /\ c.layout \in BOOLEAN
         /\ c.qregs \in Seq(Range(c.qregs))
         /\ c.physical \in Seq(Int) /\ c.outputs \in SUBSET STRING
         /\ c.cregs \in Seq(Range(c.cregs))
         /\ c.insts \in Seq(Insts(c))
         /\ \A i \in 1..Len(c.insts) : IsInstruction(c.insts[i], c)
<1>1. c \in [width : Nat, qregs : Seq(Range(c.qregs)), physical : Seq(Int),
            layout : BOOLEAN, bits : Nat, cregs : Seq(Range(c.cregs)),
            outputs : SUBSET STRING, phase : SUBSET Nat, insts : Seq(Insts(c))]
  BY DEF IsCircuit
<1>2. SameBut(c, c)
  BY <1>1 DEF SameBut, CircuitFields
<1>3. \A i \in 1..Len(c.insts) : c.insts[i] \in Insts(c)
  BY <1>1
<1> QED
  BY <1>1, <1>2, <1>3 DEF IsCircuit

KeptPlaces(c, o) ==
  {i \in DOMAIN c.insts :
    /\ c.insts[i].op = "barrier" => o.keepsBarriers
    /\ c.insts[i].op = "global_phase" =>
         c.insts[i].path # << >> /\ "global_phase" \in o.basis}

(* Folding global phases picks instructions and changes nothing else.      *)
LEMMA FoldKeeps ==
  ASSUME NEW c, NEW S, c.insts \in Seq(S), DOMAIN c = CircuitFields, NEW recurse
  PROVE  LET d == FoldGlobalPhaseGates(c, recurse)
             J == {i \in DOMAIN c.insts :
                     ~(c.insts[i].op = "global_phase" /\ (recurse \/ AtTop(c.insts[i])))}
         IN SameBut(d, c) /\ d.insts = Those(c.insts, J) /\ d.cregs = c.cregs
  BY DEF FoldGlobalPhaseGates, SameBut, CircuitFields

(* Prepared for a target, a circuit has its instructions at KeptPlaces.    *)
LEMMA PreparedFacts ==
  ASSUME NEW c, IsCircuit(c), NEW o
  PROVE  /\ SameBut(Prepared(c, o), c) /\ Prepared(c, o).cregs = c.cregs
         /\ Prepared(c, o).insts = Those(c.insts, KeptPlaces(c, o))
<1> DEFINE S == Insts(c)
           s == c.insts
           kept == IF o.keepsBarriers THEN c ELSE WithoutBarriers(c)
           K == {i \in DOMAIN s : s[i].op = "barrier" => o.keepsBarriers}
           recurse == "global_phase" \notin o.basis
           J == {i \in DOMAIN kept.insts :
                   ~(kept.insts[i].op = "global_phase" /\ (recurse \/ AtTop(kept.insts[i])))}
           L == KeptPlaces(c, o)
<1>1. s \in Seq(S) /\ SameBut(c, c) /\ DOMAIN s = 1..Len(s)
  BY CircuitFacts
<1>2. SameBut(kept, c) /\ kept.insts = Those(s, K) /\ kept.cregs = c.cregs
  <2>1. CASE o.keepsBarriers
    <3>1. K = 1..Len(s)
      BY <1>1, <2>1
    <3>2. Those(s, K) = s
      BY <1>1, <3>1, ThoseAll
    <3> QED
      BY <1>1, <2>1, <3>2
  <2>2. CASE ~o.keepsBarriers
    <3>1. K = {i \in DOMAIN s : s[i].op # "barrier"}
      BY <2>2
    <3> QED
      BY <1>1, <2>2, <3>1 DEF WithoutBarriers, SameBut, CircuitFields
  <2> QED
    BY <2>1, <2>2
<1>3. K \in SUBSET (1..Len(s)) /\ L \in SUBSET K
  BY <1>1 DEF KeptPlaces
<1>4. kept.insts \in Seq(S)
  <2> HIDE DEF K, kept, s, S
  <2> QED
    BY <1>1, <1>2, <1>3, ThoseListed
<1>5. Prepared(c, o) = FoldGlobalPhaseGates(kept, recurse)
  BY Zenon DEF Prepared
<1>6. DOMAIN kept = CircuitFields
  BY <1>2 DEF SameBut
<1> HIDE DEF kept
<1>7. /\ SameBut(Prepared(c, o), kept) /\ Prepared(c, o).cregs = c.cregs
      /\ Prepared(c, o).insts = Those(kept.insts, J)
  <2> DEFINE d == FoldGlobalPhaseGates(kept, recurse)
  <2> HIDE DEF recurse
  <2>1. SameBut(d, kept) /\ d.insts = Those(kept.insts, J) /\ d.cregs = kept.cregs
    BY <1>4, <1>6, FoldKeeps
  <2> QED
    BY <1>2, <1>5, <2>1
<1>8. SameBut(Prepared(c, o), c)
  BY <1>2, <1>7 DEF SameBut
<1>9. J \in SUBSET (1..Len(Those(s, K)))
  BY <1>2, <1>4
<1>10. ASSUME NEW p, Listing(p, Len(Those(s, K)), K),
              \A b \in 1..Len(Those(s, K)) : Those(s, K)[b] = s[p[b]],
              NEW b \in 1..Len(Those(s, K))
       PROVE  b \in J <=> p[b] \in L
  <2>1. p[b] \in K
    BY <1>10 DEF Listing
  <2>2. kept.insts[b] = s[p[b]] /\ b \in DOMAIN kept.insts
    BY <1>2, <1>4, <1>10
  <2>3. b \in J <=> ~(s[p[b]].op = "global_phase" /\ (recurse \/ s[p[b]].path = << >>))
    BY <2>2 DEF AtTop
  <2>4. p[b] \in L <=> (s[p[b]].op = "global_phase" =>
                          s[p[b]].path # << >> /\ "global_phase" \in o.basis)
    BY <2>1 DEF KeptPlaces
  <2> QED
    BY <2>3, <2>4
<1> HIDE DEF J, K, L, s, S
<1>11. Those(Those(s, K), J) = Those(s, L)
  <2>1. \A p : (/\ Listing(p, Len(Those(s, K)), K)
                /\ (\A b \in 1..Len(Those(s, K)) : Those(s, K)[b] = s[p[b]]))
               => \A b \in 1..Len(Those(s, K)) : b \in J <=> p[b] \in L
    BY <1>10
  <2> QED
    BY <1>1, <1>3, <1>9, <2>1, ThoseOfThose
<1> QED
  BY <1>2, <1>7, <1>8, <1>11 DEF s, L

(* The instructions a program shows of a circuit.                          *)
Shown(c, o) == Those(c.insts, KeptPlaces(c, o))

(* The instructions a program shows are the circuit's, in its order.       *)
LEMMA ShownFacts ==
  ASSUME NEW c, IsCircuit(c), NEW o
  PROVE  /\ Shown(c, o) \in Seq(Insts(c)) /\ Len(Shown(c, o)) \in Nat
         /\ DOMAIN Shown(c, o) = 1..Len(Shown(c, o))
         /\ \A i \in 1..Len(Shown(c, o)) :
              /\ Shown(c, o)[i] \in Insts(c) /\ IsInstruction(Shown(c, o)[i], c)
              /\ Shown(c, o)[i].q # << >> \/ Shown(c, o)[i].path # << >>
         /\ \E p : /\ Listing(p, Len(Shown(c, o)), KeptPlaces(c, o))
                   /\ \A b \in 1..Len(Shown(c, o)) : Shown(c, o)[b] = c.insts[p[b]]
<1> DEFINE k == Shown(c, o)
<1>1. c.insts \in Seq(Insts(c)) /\ KeptPlaces(c, o) \in SUBSET (1..Len(c.insts))
  BY CircuitFacts DEF KeptPlaces
<1>2. /\ k \in Seq(Insts(c))
      /\ \E p : /\ Listing(p, Len(k), KeptPlaces(c, o))
                /\ \A b \in 1..Len(k) : k[b] = c.insts[p[b]]
  BY <1>1, ThoseListed DEF Shown
<1> HIDE DEF k
<1>3. PICK p : Listing(p, Len(k), KeptPlaces(c, o)) /\ \A b \in 1..Len(k) : k[b] = c.insts[p[b]]
  BY <1>2
<1>4. ASSUME NEW i \in 1..Len(k)
      PROVE  /\ k[i] \in Insts(c) /\ IsInstruction(k[i], c)
             /\ k[i].q # << >> \/ k[i].path # << >>
  <2>1. k[i] \in Insts(c)
    BY <1>2
  <2>2. IsInstruction(k[i], c)
    BY <2>1 DEF IsCircuit
  <2>3. k[i] = c.insts[p[i]] /\ p[i] \in KeptPlaces(c, o)
    BY <1>3 DEF Listing
  <2>4. k[i].op = "global_phase" => k[i].path # << >>
    BY <2>3 DEF KeptPlaces
  <2> QED
    BY <2>1, <2>2, <2>4 DEF IsInstruction
<1>5. Len(k) \in Nat /\ DOMAIN k = 1..Len(k)
  BY <1>2
<1> QED
  BY <1>2, <1>4, <1>5 DEF k

(* The name an instruction has once the passes are through.                *)
FirstName(c, o, i) ==
  IF Shown(c, o)[i].op \in PragmasOf(o.basis)
    THEN PragmaPlaceholder(PragmaAt(Prepared(c, o), i, PragmasOf(o.basis)))
    ELSE Plain(Shown(c, o)[i].op)

PassedName(c, o, i) ==
  LET op == Shown(c, o)[i].op
  IN IF op \in PragmasOf(o.basis) THEN FirstName(c, o, i)
     ELSE IF op \in AdditionalUGates THEN Plain("U") ELSE Shim(op)

EndsMeasured(c, o, i) ==
  \A j \in i..Len(Shown(c, o)) : IsMeasure(Shown(c, o)[j])
InBox(c, o, i) == ShouldWrap(o) /\ (o.iqm \/ ~EndsMeasured(c, o, i))

(* Naming and ConsolidateClbits leave the instructions and the qubits.     *)
LEMMA ConsolidatedFacts ==
  ASSUME NEW c, IsCircuit(c), NEW o
  PROVE  LET d == Consolidated(c, o)
         IN /\ SameBut(d, c) /\ d.cregs = ConsolidateClbits(c).cregs
            /\ d.insts = [i \in 1..Len(Shown(c, o)) |->
                            WithName(Shown(c, o)[i], FirstName(c, o, i))]
<1> DEFINE k == Shown(c, o)
           ops == PragmasOf(o.basis)
           e == Prepared(c, o)
           f == Named(e, ops)
           d == ConsolidateClbits(f)
<1>1. SameBut(e, c) /\ e.cregs = c.cregs /\ e.insts = k /\ DOMAIN k = 1..Len(k)
  BY PreparedFacts, ShownFacts DEF Shown
<1>2. /\ SameBut(f, c) /\ f.cregs = c.cregs
      /\ f.insts = [i \in 1..Len(k) |-> WithName(k[i], FirstName(c, o, i))]
  <2> HIDE DEF e, k, ops
  <2>1. SameBut(f, c) /\ f.cregs = c.cregs
    BY <1>1 DEF Named, SameBut, CircuitFields
  <2>2. f.insts = [i \in 1..Len(k) |->
                     WithName(k[i], IF k[i].op \in ops
                                      THEN PragmaPlaceholder(PragmaAt(e, i, ops))
                                      ELSE Plain(k[i].op))]
    BY <1>1 DEF Named, SameBut, CircuitFields
  <2> QED
    BY <2>1, <2>2 DEF FirstName, e, k, ops
<1> HIDE DEF f, e, k, ops
<1>3. SameBut(c, c)
  BY CircuitFacts
<1>4. \A kept : PlainBits(f, kept) = PlainBits(c, kept)
  BY <1>2 DEF PlainBits, PlainBits_All, SameBut
<1>5. SameBut(d, f) /\ d.insts = f.insts
  BY <1>2 DEF ConsolidateClbits, SameBut, CircuitFields
<1>6. d.cregs = ConsolidateClbits(c).cregs
  BY <1>2, <1>3, <1>4 DEF ConsolidateClbits, SameBut, CircuitFields
<1>7. SameBut(d, c)
  BY <1>2, <1>5 DEF SameBut
<1>8. Consolidated(c, o) = d
  BY DEF Consolidated, d, f, e, ops
<1> QED
  BY <1>2, <1>5, <1>6, <1>7, <1>8 DEF k

(* No shim of a gate is a placeholder of a pragma.                         *)
LEMMA ShimIsNoPragma ==
  \A g : Shim(g).kind \in {"gate", "ctrl_placeholder", "gphase_placeholder"}
<1> SUFFICES ASSUME NEW g PROVE Shim(g).kind \in {"gate", "ctrl_placeholder", "gphase_placeholder"}
  OBVIOUS
<1>1. ControlShims \subseteq DOMAIN QiskitToControlPlaceholder
  BY DEF ControlShims, QiskitToControlPlaceholder, ControlledGates, Unlimited
<1>2. \A h \in DOMAIN QiskitToControlPlaceholder :
        QiskitToControlPlaceholder[h].kind = "ctrl_placeholder"
  BY DEF QiskitToControlPlaceholder, ControlPlaceholder
<1>3. g \in ControlShims => QiskitToControlPlaceholder[g].kind = "ctrl_placeholder"
  BY <1>1, <1>2
<1> HIDE DEF ControlShims
<1> QED
  BY <1>3 DEF Shim, Plain, GPhasePlaceholder

(* What the passes make of each instruction: a name and a path.            *)
LEMMA PassedFacts ==
  ASSUME NEW c, IsCircuit(c), NEW o
  PROVE  LET d == Passed(c, o)
             k == Shown(c, o)
         IN /\ SameBut(d, c) /\ d.cregs = ConsolidateClbits(c).cregs
            /\ DOMAIN d.insts = 1..Len(k)
            /\ \A i \in 1..Len(k) :
                 /\ d.insts[i].op = k[i].op /\ d.insts[i].param = k[i].param
                 /\ d.insts[i].id = k[i].id
                 /\ d.insts[i].q = k[i].q /\ d.insts[i].c = k[i].c
                 /\ d.insts[i].path = IF InBox(c, o, i) THEN <<VerbatimBox>> \o k[i].path
                                      ELSE k[i].path
                 /\ d.insts[i].name = PassedName(c, o, i)
<1> DEFINE k == Shown(c, o)
           e == Consolidated(c, o)
           w == IF ShouldWrap(o) THEN WrapInVerbatimBox(e, o.iqm) ELSE e
           d == RenameGates(w)
           n == Len(k)
           F == {"op", "param", "id", "q", "c", "path", "name"}
<1>1. /\ SameBut(e, c) /\ e.cregs = ConsolidateClbits(c).cregs
      /\ e.insts = [i \in 1..n |-> WithName(k[i], FirstName(c, o, i))]
  BY ConsolidatedFacts
<1>2. n \in Nat
  BY ShownFacts
<1> HIDE DEF k, e, n
<1>3. /\ DOMAIN e.insts = 1..n /\ Len(e.insts) = n
      /\ \A i \in 1..n : /\ DOMAIN e.insts[i] = F
                         /\ e.insts[i].op = k[i].op /\ e.insts[i].param = k[i].param
                         /\ e.insts[i].id = k[i].id
                         /\ e.insts[i].q = k[i].q /\ e.insts[i].c = k[i].c
                         /\ e.insts[i].path = k[i].path
                         /\ e.insts[i].name = FirstName(c, o, i)
  BY <1>1, <1>2 DEF WithName
<1>4. \A i \in 1..n : ~LeavesBox(e, i, o.iqm) <=> o.iqm \/ ~EndsMeasured(c, o, i)
  <2>1. \A j \in 1..n : IsMeasure(e.insts[j]) <=> IsMeasure(k[j])
    BY <1>3 DEF IsMeasure, AtTop
  <2> SUFFICES ASSUME NEW i \in 1..n
               PROVE  ~LeavesBox(e, i, o.iqm) <=> o.iqm \/ ~EndsMeasured(c, o, i)
    OBVIOUS
  <2>2. \A j \in i..n : j \in 1..n
    BY <1>2
  <2>3. (\A j \in i..n : IsMeasure(e.insts[j])) <=> \A j \in i..n : IsMeasure(k[j])
    BY <2>1, <2>2
  <2> QED
    BY <1>3, <2>3 DEF LeavesBox, EndsMeasured, k, n
<1>5. /\ SameBut(w, c) /\ w.cregs = e.cregs /\ DOMAIN w.insts = 1..n
      /\ \A i \in 1..n : /\ DOMAIN w.insts[i] = F
                         /\ w.insts[i].op = k[i].op /\ w.insts[i].param = k[i].param
                         /\ w.insts[i].id = k[i].id
                         /\ w.insts[i].q = k[i].q /\ w.insts[i].c = k[i].c
                         /\ w.insts[i].path = IF InBox(c, o, i) THEN <<VerbatimBox>> \o k[i].path
                                              ELSE k[i].path
                         /\ w.insts[i].name = FirstName(c, o, i)
  <2>1. CASE ~ShouldWrap(o)
    BY <1>1, <1>3, <2>1 DEF InBox
  <2>2. CASE ShouldWrap(o)
    <3>1. w = WrapInVerbatimBox(e, o.iqm)
      BY <2>2
    <3> HIDE DEF w
    <3>2. /\ SameBut(w, c) /\ w.cregs = e.cregs
          /\ w.insts = [i \in 1..n |->
                          IF LeavesBox(e, i, o.iqm) THEN e.insts[i]
                          ELSE InVerbatimBox(e.insts[i])]
      BY <1>1, <1>3, <3>1 DEF WrapInVerbatimBox, SameBut, CircuitFields
    <3>3. ASSUME NEW i \in 1..n
          PROVE  /\ DOMAIN w.insts[i] = F
                 /\ w.insts[i].op = k[i].op /\ w.insts[i].param = k[i].param
                 /\ w.insts[i].id = k[i].id
                 /\ w.insts[i].q = k[i].q /\ w.insts[i].c = k[i].c
                 /\ w.insts[i].path = IF InBox(c, o, i) THEN <<VerbatimBox>> \o k[i].path
                                      ELSE k[i].path
                 /\ w.insts[i].name = FirstName(c, o, i)
      <4>1. CASE LeavesBox(e, i, o.iqm)
        <5>1. w.insts[i] = e.insts[i]
          BY <3>2, <4>1
        <5>2. ~InBox(c, o, i)
          BY <1>4, <4>1 DEF InBox
        <5> QED
          BY <1>3, <5>1, <5>2
      <4>2. CASE ~LeavesBox(e, i, o.iqm)
        <5>1. w.insts[i] = [e.insts[i] EXCEPT !.path = <<VerbatimBox>> \o @]
          BY <3>2, <4>2 DEF InVerbatimBox
        <5>2. InBox(c, o, i)
          BY <1>4, <2>2, <4>2 DEF InBox
        <5>3. w.insts[i].path = <<VerbatimBox>> \o k[i].path
          BY <1>3, <5>1
        <5> QED
          BY <1>3, <5>1, <5>2, <5>3
      <4> QED
        BY <4>1, <4>2
    <3>4. DOMAIN w.insts = 1..n
      BY <3>2
    <3> QED
      BY <3>2, <3>3, <3>4
  <2> QED
    BY <2>1, <2>2
<1> HIDE DEF w
<1>6. /\ SameBut(d, c) /\ d.cregs = w.cregs
      /\ d.insts = [i \in 1..n |-> Renamed3(w.insts[i])]
  BY <1>5 DEF RenameGates, SameBut, CircuitFields
<1> HIDE DEF d
<1>7. ASSUME NEW i \in 1..n
      PROVE  /\ d.insts[i].op = k[i].op /\ d.insts[i].param = k[i].param
             /\ d.insts[i].id = k[i].id
             /\ d.insts[i].q = k[i].q /\ d.insts[i].c = k[i].c
             /\ d.insts[i].path = IF InBox(c, o, i) THEN <<VerbatimBox>> \o k[i].path
                                  ELSE k[i].path
             /\ d.insts[i].name = PassedName(c, o, i)
  <2> DEFINE x == w.insts[i]
  <2>1. d.insts[i] = Renamed3(x)
    BY <1>6
  <2>2. /\ DOMAIN x = F
        /\ x.op = k[i].op /\ x.param = k[i].param /\ x.id = k[i].id
        /\ x.q = k[i].q /\ x.c = k[i].c
        /\ x.path = IF InBox(c, o, i) THEN <<VerbatimBox>> \o k[i].path ELSE k[i].path
        /\ x.name = FirstName(c, o, i)
    BY <1>5
  <2> HIDE DEF x
  <2>3. /\ Renamed3(x).op = x.op /\ Renamed3(x).param = x.param /\ Renamed3(x).id = x.id
        /\ Renamed3(x).q = x.q /\ Renamed3(x).c = x.c /\ Renamed3(x).path = x.path
    BY <2>2 DEF Renamed3
  <2>4. Renamed3(x).name = PassedName(c, o, i)
    <3>1. Renamed3(x).name =
            IF x.name.kind # "gate" THEN x.name
            ELSE IF x.op \in AdditionalUGates THEN Plain("U") ELSE Shim(x.op)
      BY <2>2 DEF Renamed3
    <3>2. x.name.kind = "gate" <=> k[i].op \notin PragmasOf(o.basis)
      BY <2>2 DEF FirstName, Plain, PragmaPlaceholder, k
    <3> QED
      BY <2>2, <3>1, <3>2 DEF PassedName, FirstName, k
  <2> QED
    BY <2>1, <2>2, <2>3, <2>4
<1>8. DOMAIN d.insts = 1..n
  BY <1>6
<1>9. Passed(c, o) = d
  BY DEF Passed, d, w, e
<1> QED
  BY <1>1, <1>5, <1>6, <1>7, <1>8, <1>9 DEF k, n

-----------------------------------------------------------------------------
(***************************************************************************)
(* What _remap_qubits leaves of a line.                                    *)
(***************************************************************************)

LineFields == {"name", "param", "id", "q", "c", "path"}
IsFunction(f) == f = [x \in DOMAIN f |-> f[x]]
IsLine(l) ==
  /\ DOMAIN l = LineFields
  /\ IsFunction(l.q) /\ IsFunction(l.c) /\ IsFunction(l.path)
  /\ \A k \in DOMAIN l.path :
       DOMAIN l.path[k] = {"kind", "id", "on"} /\ IsFunction(l.path[k].on)

(* What becomes of a reference to a qubit and of one to a bit.             *)
QubitTo(c, o, r) ==
  IF PhysicalQubits(c) # NoLabels THEN QubitRef("$", PhysicalQubits(c)[r.at + 1])
  ELSE IF CircuitLabels(c, o) = NoLabels THEN r
  ELSE QubitRef("$", CircuitLabels(c, o)[r.at + 1])

IsHit(c, o) ==
  PhysicalQubits(c) = NoLabels /\ CircuitLabels(c, o) # NoLabels /\ ~c.layout
BitTo(c, o, r) ==
  IF IsHit(c, o) THEN Hit(r, c.qregs[1].name, c.qregs[1].size) ELSE r

Remapped(m, l, c, o) ==
  /\ m.name = l.name /\ m.param = l.param /\ m.id = l.id
  /\ IsLine(m)
  /\ DOMAIN m.q = DOMAIN l.q
  /\ \A k \in DOMAIN l.q : m.q[k] = QubitTo(c, o, l.q[k])
  /\ DOMAIN m.c = DOMAIN l.c
  /\ \A k \in DOMAIN l.c : m.c[k] = BitTo(c, o, l.c[k])
  /\ DOMAIN m.path = DOMAIN l.path
  /\ \A k \in DOMAIN l.path :
       /\ m.path[k].kind = l.path[k].kind /\ m.path[k].id = l.path[k].id
       /\ DOMAIN m.path[k].on = DOMAIN l.path[k].on
       /\ \A j \in DOMAIN l.path[k].on :
            m.path[k].on[j] = BitTo(c, o, l.path[k].on[j])

(* A line of which only the references have changed.                       *)
LEMMA RelabelledFacts ==
  ASSUME NEW lines, NEW labels, NEW i \in DOMAIN lines, IsLine(lines[i])
  PROVE  LET m == Relabelled(lines, labels)[i]
             l == lines[i]
         IN /\ m.name = l.name /\ m.param = l.param /\ m.id = l.id
            /\ IsLine(m)
            /\ DOMAIN m.q = DOMAIN l.q
            /\ \A k \in DOMAIN l.q : m.q[k] = QubitRef("$", labels[l.q[k].at + 1])
            /\ m.c = l.c /\ m.path = l.path
<1> DEFINE l == lines[i]
           m == Relabelled(lines, labels)[i]
<1>1. /\ DOMAIN m = LineFields
      /\ m.name = l.name /\ m.param = l.param /\ m.id = l.id
      /\ m.q = [k \in DOMAIN l.q |-> QubitRef("$", labels[l.q[k].at + 1])]
      /\ m.c = l.c /\ m.path = l.path
  BY DEF Relabelled, IsLine, LineFields, Label
<1>2. IsLine(l)
  OBVIOUS
<1> HIDE DEF m, l
<1>3. IsLine(m)
  BY <1>1, <1>2 DEF IsLine, IsFunction
<1> QED
  BY <1>1, <1>3 DEF m, l

(* A line of which only the references to bits have changed.               *)
LEMMA BitsHitFacts ==
  ASSUME NEW lines, NEW name, NEW n, NEW i \in DOMAIN lines, IsLine(lines[i])
  PROVE  LET m == BitsHit(lines, name, n)[i]
             l == lines[i]
         IN /\ m.name = l.name /\ m.param = l.param /\ m.id = l.id
            /\ IsLine(m)
            /\ m.q = l.q
            /\ DOMAIN m.c = DOMAIN l.c
            /\ \A k \in DOMAIN l.c : m.c[k] = Hit(l.c[k], name, n)
            /\ DOMAIN m.path = DOMAIN l.path
            /\ \A k \in DOMAIN l.path :
                 /\ m.path[k].kind = l.path[k].kind /\ m.path[k].id = l.path[k].id
                 /\ DOMAIN m.path[k].on = DOMAIN l.path[k].on
                 /\ \A j \in DOMAIN l.path[k].on :
                      m.path[k].on[j] = Hit(l.path[k].on[j], name, n)
<1> DEFINE l == lines[i]
           m == BitsHit(lines, name, n)[i]
<1>1. /\ DOMAIN m = LineFields
      /\ m.name = l.name /\ m.param = l.param /\ m.id = l.id
      /\ m.q = l.q /\ m.c = HitIn(l.c, name, n)
      /\ m.path = [k \in DOMAIN l.path |-> BlockHit(l.path[k], name, n)]
  BY DEF BitsHit, IsLine, LineFields
<1>2. ASSUME NEW k \in DOMAIN l.path
      PROVE  /\ m.path[k].kind = l.path[k].kind /\ m.path[k].id = l.path[k].id
             /\ DOMAIN m.path[k] = {"kind", "id", "on"}
             /\ m.path[k].on = HitIn(l.path[k].on, name, n)
  <2>1. m.path[k] = BlockHit(l.path[k], name, n)
    BY <1>1
  <2> DEFINE b == l.path[k]
  <2>2. DOMAIN b = {"kind", "id", "on"}
    BY DEF l, IsLine
  <2> HIDE DEF b, m, l
  <2>3. /\ BlockHit(b, name, n).kind = b.kind /\ BlockHit(b, name, n).id = b.id
        /\ DOMAIN BlockHit(b, name, n) = {"kind", "id", "on"}
        /\ BlockHit(b, name, n).on = HitIn(b.on, name, n)
    BY <2>2 DEF BlockHit
  <2> QED
    BY <2>1, <2>3 DEF b
<1> HIDE DEF m, l
<1>3. \A refs : /\ IsFunction(HitIn(refs, name, n))
               /\ DOMAIN HitIn(refs, name, n) = DOMAIN refs
               /\ \A k \in DOMAIN refs : HitIn(refs, name, n)[k] = Hit(refs[k], name, n)
  BY DEF HitIn, IsFunction
<1>4. DOMAIN m.path = DOMAIN l.path
  BY <1>1
<1>5. IsLine(m)
  <2>1. IsLine(l)
    BY DEF l
  <2>2. IsFunction(m.q)
    BY <1>1, <2>1 DEF IsLine
  <2>3. IsFunction(m.c) /\ IsFunction(m.path)
    <3>1. IsFunction(m.path)
      BY <1>1 DEF IsFunction
    <3> QED
      BY <1>1, <1>3, <3>1
  <2>4. \A k \in DOMAIN m.path :
          DOMAIN m.path[k] = {"kind", "id", "on"} /\ IsFunction(m.path[k].on)
    BY <1>2, <1>3, <1>4
  <2> QED
    BY <1>1, <2>2, <2>3, <2>4 DEF IsLine
<1>6. DOMAIN m.c = DOMAIN l.c /\ \A k \in DOMAIN l.c : m.c[k] = Hit(l.c[k], name, n)
  BY <1>1, <1>3
<1>7. \A k \in DOMAIN l.path :
        /\ DOMAIN m.path[k].on = DOMAIN l.path[k].on
        /\ \A j \in DOMAIN l.path[k].on :
             m.path[k].on[j] = Hit(l.path[k].on[j], name, n)
  BY <1>2, <1>3
<1> QED
  BY <1>1, <1>2, <1>4, <1>5, <1>6, <1>7 DEF m, l

(* _remap_qubits changes the references of every line and nothing else.    *)
LEMMA RemapFacts ==
  ASSUME NEW c, IsCircuit(c), NEW o, NEW p,
         DOMAIN p = {"qubits", "bits", "lines", "defines"},
         p.qubits = IF c.layout THEN << >> ELSE c.qregs,
         \A i \in DOMAIN p.lines : IsLine(p.lines[i])
  PROVE  LET r == RemapQubits(p, c, CircuitLabels(c, o))
         IN /\ DOMAIN r = {"qubits", "bits", "lines", "defines"}
            /\ r.defines = p.defines /\ DOMAIN r.lines = DOMAIN p.lines
            /\ \A i \in DOMAIN p.lines : Remapped(r.lines[i], p.lines[i], c, o)
<1> DEFINE labels == CircuitLabels(c, o)
           pq == PhysicalQubits(c)
           r == RemapQubits(p, c, labels)
           F == {"qubits", "bits", "lines", "defines"}
<1> HIDE DEF labels
<1>1. /\ c.qregs = << >> => c.physical # << >>
      /\ c.layout \in BOOLEAN
  BY CircuitFacts DEF IsCircuit
<1>2. CASE pq # NoLabels
  <2>1. r = [p EXCEPT !.lines = Relabelled(@, pq)]
    BY <1>2 DEF RemapQubits
  <2> HIDE DEF r, pq
  <2>2. DOMAIN r = F /\ r.defines = p.defines /\ r.lines = Relabelled(p.lines, pq)
    BY <2>1
  <2>3. DOMAIN r.lines = DOMAIN p.lines
    BY <2>2 DEF Relabelled
  <2>4. ASSUME NEW i \in DOMAIN p.lines
        PROVE  Remapped(r.lines[i], p.lines[i], c, o)
    <3> DEFINE l == p.lines[i]
               m == Relabelled(p.lines, pq)[i]
    <3>1. /\ m.name = l.name /\ m.param = l.param /\ m.id = l.id
          /\ IsLine(m)
          /\ DOMAIN m.q = DOMAIN l.q
          /\ \A k \in DOMAIN l.q : m.q[k] = QubitRef("$", pq[l.q[k].at + 1])
          /\ m.c = l.c /\ m.path = l.path
      BY RelabelledFacts
    <3> HIDE DEF m, l
    <3>2. \A x : BitTo(c, o, x) = x
      BY <1>2 DEF BitTo, IsHit, pq
    <3>3. \A x : QubitTo(c, o, x) = QubitRef("$", pq[x.at + 1])
      BY <1>2 DEF QubitTo, pq
    <3>4. Remapped(m, l, c, o)
      BY <3>1, <3>2, <3>3 DEF Remapped
    <3> QED
      BY <2>2, <3>4 DEF l, m
  <2> QED
    BY <2>2, <2>3, <2>4 DEF r, labels
<1>3. CASE pq = NoLabels /\ labels = NoLabels
  <2>1. r = p
    BY <1>3 DEF RemapQubits
  <2>2. ASSUME NEW i \in DOMAIN p.lines
        PROVE  Remapped(p.lines[i], p.lines[i], c, o)
    <3> DEFINE l == p.lines[i]
    <3>1. IsLine(l)
      OBVIOUS
    <3> HIDE DEF l
    <3>2. \A x : BitTo(c, o, x) = x /\ QubitTo(c, o, x) = x
      BY <1>3 DEF BitTo, IsHit, QubitTo, labels
    <3> QED
      BY <3>1, <3>2 DEF Remapped, IsLine, IsFunction, l
  <2> QED
    BY <2>1, <2>2 DEF labels
<1>4. CASE pq = NoLabels /\ labels # NoLabels
  <2>1. c.qregs # << >> /\ QubitKind(c) # "_qubit"
    <3>1. c.qregs # << >>
      BY <1>1, <1>4 DEF PhysicalQubits, NoLabels
    <3> QED
      BY <3>1 DEF QubitKind
  <2>2. r = IF p.qubits # << >>
              THEN [p EXCEPT !.qubits = << >>,
                             !.lines = BitsHit(Relabelled(@, labels), p.qubits[1].name,
                                               p.qubits[1].size)]
              ELSE [p EXCEPT !.lines = Relabelled(@, labels)]
    BY <1>4, <2>1 DEF RemapQubits
  <2>3. /\ DOMAIN r = F /\ r.defines = p.defines
        /\ r.lines = IF c.layout THEN Relabelled(p.lines, labels)
                     ELSE BitsHit(Relabelled(p.lines, labels), c.qregs[1].name,
                                  c.qregs[1].size)
    <3> HIDE DEF r
    <3> QED
      BY <1>1, <2>1, <2>2
  <2> HIDE DEF r
  <2>4. DOMAIN r.lines = DOMAIN p.lines
    BY <1>1, <2>3 DEF Relabelled, BitsHit
  <2>5. ASSUME NEW i \in DOMAIN p.lines
        PROVE  Remapped(r.lines[i], p.lines[i], c, o)
    <3> DEFINE l == p.lines[i]
               all == Relabelled(p.lines, labels)
               e == all[i]
               m == r.lines[i]
    <3>1. /\ e.name = l.name /\ e.param = l.param /\ e.id = l.id
          /\ IsLine(e)
          /\ DOMAIN e.q = DOMAIN l.q
          /\ \A k \in DOMAIN l.q : e.q[k] = QubitRef("$", labels[l.q[k].at + 1])
          /\ e.c = l.c /\ e.path = l.path
      BY RelabelledFacts
    <3>2. i \in DOMAIN all
      BY DEF Relabelled
    <3>3. \A x : QubitTo(c, o, x) = QubitRef("$", labels[x.at + 1])
      BY <1>4 DEF QubitTo, labels
    <3>4. CASE c.layout
      <4>1. \A x : BitTo(c, o, x) = x
        BY <3>4 DEF BitTo, IsHit
      <4>2. m = e
        BY <2>3, <3>4
      <4> HIDE DEF m, l, e
      <4>3. Remapped(e, l, c, o)
        BY <3>1, <3>3, <4>1 DEF Remapped
      <4> QED
        BY <4>2, <4>3 DEF l, m
    <3>5. CASE ~c.layout
      <4> DEFINE name == c.qregs[1].name
                 n == c.qregs[1].size
      <4>1. \A x : BitTo(c, o, x) = Hit(x, name, n)
        BY <1>4, <3>5 DEF BitTo, IsHit, labels
      <4>2. m = BitsHit(all, name, n)[i]
        BY <2>3, <3>5
      <4> HIDE DEF all, name, n
      <4>3. /\ m.name = e.name /\ m.param = e.param /\ m.id = e.id
            /\ IsLine(m)
            /\ m.q = e.q
            /\ DOMAIN m.c = DOMAIN e.c
            /\ \A k \in DOMAIN e.c : m.c[k] = Hit(e.c[k], name, n)
            /\ DOMAIN m.path = DOMAIN e.path
            /\ \A k \in DOMAIN e.path :
                 /\ m.path[k].kind = e.path[k].kind /\ m.path[k].id = e.path[k].id
                 /\ DOMAIN m.path[k].on = DOMAIN e.path[k].on
                 /\ \A j \in DOMAIN e.path[k].on :
                      m.path[k].on[j] = Hit(e.path[k].on[j], name, n)
        BY <3>1, <3>2, <4>2, BitsHitFacts
      <4> HIDE DEF m, l, e
      <4>4. Remapped(m, l, c, o)
        BY <3>1, <3>3, <4>1, <4>3 DEF Remapped
      <4> QED
        BY <4>4 DEF l, m
    <3> QED
      BY <1>1, <3>4, <3>5
  <2> QED
    BY <2>3, <2>4, <2>5 DEF r, labels
<1> QED
  BY <1>2, <1>3, <1>4

-----------------------------------------------------------------------------
(***************************************************************************)
(* The program that is emitted, line by line.                              *)
(***************************************************************************)

(* The line of the circuit's own phase comes before all others.            *)
Before(c, o) ==
  IF "global_phase" \in o.basis /\ Passed(c, o).phase # {} THEN 1 ELSE 0

(* A line has its instruction's qubits, bits and blocks.                   *)
LEMMA LineFacts ==
  ASSUME NEW d, NEW x
  PROVE  LET l == Line(d, x)
         IN /\ IsLine(l)
            /\ l.name = x.name /\ l.param = x.param /\ l.id = x.id
            /\ DOMAIN l.q = DOMAIN x.q /\ DOMAIN l.c = DOMAIN x.c
            /\ DOMAIN l.path = DOMAIN x.path
            /\ \A k \in DOMAIN x.q : l.q[k] = QubitRef(QubitKind(d), x.q[k])
            /\ \A k \in DOMAIN x.c : l.c[k] = BitRef(d, x.c[k])
            /\ \A k \in DOMAIN x.path :
                 /\ l.path[k].kind = x.path[k].kind /\ l.path[k].id = x.path[k].id
                 /\ l.path[k].on = IF x.path[k].bit < 0 THEN << >>
                                   ELSE <<BitRef(d, x.path[k].bit)>>
<1> DEFINE l == Line(d, x)
           path(k) == [kind |-> x.path[k].kind, id |-> x.path[k].id,
                       on |-> IF x.path[k].bit < 0 THEN << >>
                              ELSE <<BitRef(d, x.path[k].bit)>>]
<1>1. /\ DOMAIN l = LineFields
      /\ l.name = x.name /\ l.param = x.param /\ l.id = x.id
      /\ l.q = [k \in DOMAIN x.q |-> QubitRef(QubitKind(d), x.q[k])]
      /\ l.c = [k \in DOMAIN x.c |-> BitRef(d, x.c[k])]
      /\ l.path = [k \in DOMAIN x.path |-> path(k)]
  BY DEF Line, LineFields
<1>2. \A b : IsFunction(<< >>) /\ IsFunction(<<b>>)
  BY DEF IsFunction
<1>3. \A k : /\ DOMAIN path(k) = {"kind", "id", "on"} /\ IsFunction(path(k).on)
             /\ path(k).kind = x.path[k].kind /\ path(k).id = x.path[k].id
             /\ path(k).on = IF x.path[k].bit < 0 THEN << >>
                             ELSE <<BitRef(d, x.path[k].bit)>>
  BY <1>2
<1> HIDE DEF path, l
<1>4. IsFunction(l.q) /\ IsFunction(l.c) /\ IsFunction(l.path)
  BY <1>1 DEF IsFunction
<1>5. IsLine(l)
  BY <1>1, <1>3, <1>4 DEF IsLine
<1> QED
  BY <1>1, <1>3, <1>5 DEF l

(* The dumped program has a line for each instruction, in order.           *)
LEMMA DumpedFacts ==
  ASSUME NEW c, IsCircuit(c), NEW o
  PROVE  LET p == Dumped(c, o)
             d == Passed(c, o)
             n == Len(Shown(c, o))
         IN /\ DOMAIN p = {"qubits", "bits", "lines", "defines"}
            /\ p.qubits = IF c.layout THEN << >> ELSE c.qregs
            /\ p.defines = {x.name : x \in {y \in Insts(d) : y.op \notin NotGates}}
                             \ (KnownNames(c, o) \cup {Plain("U")})
            /\ Before(c, o) \in {0, 1}
            /\ DOMAIN p.lines = 1..(Before(c, o) + n)
            /\ \A i \in 1..n : p.lines[Before(c, o) + i] = Line(d, d.insts[i])
            /\ Before(c, o) = 1 => p.lines[1] = GlobalPhaseLine(d.phase)
<1> DEFINE p == Dumped(c, o)
           d == Passed(c, o)
           n == Len(Shown(c, o))
           u == Dumps(d, KnownNames(c, o))
<1>1. SameBut(d, c) /\ DOMAIN d.insts = 1..n
  BY PassedFacts
<1>2. n \in Nat
  BY ShownFacts
<1>3. Before(c, o) \in {0, 1}
  BY DEF Before
<1> HIDE DEF n, d
<1>4. /\ DOMAIN u = {"qubits", "bits", "lines", "defines"}
      /\ u.qubits = IF c.layout THEN << >> ELSE c.qregs
      /\ u.defines = {x.name : x \in {y \in Insts(d) : y.op \notin NotGates}}
                       \ (KnownNames(c, o) \cup {Plain("U")})
      /\ u.lines = [i \in 1..n |-> Line(d, d.insts[i])]
  BY <1>1 DEF Dumps, SameBut
<1> HIDE DEF u
<1>5. CASE Before(c, o) = 0
  <2>1. p = u
    BY <1>5 DEF Before, Dumped, u, d
  <2>2. \A i \in 1..n : 0 + i = i
    BY <1>2
  <2>3. 0 + n = n
    BY <1>2
  <2> QED
    BY <1>3, <1>4, <1>5, <2>1, <2>2, <2>3 DEF d, n
<1>6. CASE Before(c, o) = 1
  <2> DEFINE g == GlobalPhaseLine(d.phase)
             S == {u.lines[i] : i \in 1..n} \cup {g}
  <2>1. p = [u EXCEPT !.lines = <<g>> \o @]
    BY <1>6 DEF Before, Dumped, u, d
  <2>2. u.lines \in Seq(S) /\ Len(u.lines) = n /\ g \in S
    BY <1>2, <1>4
  <2> HIDE DEF g, S
  <2>3. <<g>> \in Seq(S) /\ Len(<<g>>) = 1 /\ <<g>>[1] = g
    BY <2>2
  <2>4. /\ DOMAIN (<<g>> \o u.lines) = 1..(1 + n)
        /\ (<<g>> \o u.lines)[1] = g
        /\ \A i \in 1..n : (<<g>> \o u.lines)[1 + i] = u.lines[i]
    BY <1>2, <2>2, <2>3
  <2>5. /\ DOMAIN p = {"qubits", "bits", "lines", "defines"}
        /\ p.qubits = u.qubits /\ p.defines = u.defines
        /\ p.lines = <<g>> \o u.lines
    BY <1>4, <2>1
  <2> HIDE DEF p
  <2> QED
    BY <1>3, <1>4, <1>6, <2>4, <2>5 DEF d, n, p, g
<1> QED
  BY <1>3, <1>5, <1>6

(* What becomes of a reference to a bit.                                   *)
FinalBit(c, o, b) == BitTo(c, o, BitRef(ConsolidateClbits(c), b))
PathIn(c, o, i) ==
  IF InBox(c, o, i) THEN <<VerbatimBox>> \o Shown(c, o)[i].path
  ELSE Shown(c, o)[i].path
FinalQubits(c, o, i) ==
  [k \in DOMAIN Shown(c, o)[i].q |->
     QubitTo(c, o, QubitRef(QubitKind(c), Shown(c, o)[i].q[k]))]

(* A line of the program that is emitted for the i-th instruction.         *)
IsLineOf(l, c, o, i) ==
  LET x == Shown(c, o)[i]
      path == PathIn(c, o, i)
      name == PassedName(c, o, i)
  IN /\ l.name = FinalName(name) /\ l.param = x.param /\ l.id = x.id
     /\ l.q = IF name.kind = "pragma_placeholder" THEN Reverse(FinalQubits(c, o, i))
              ELSE FinalQubits(c, o, i)
     /\ DOMAIN l.c = DOMAIN x.c
     /\ \A k \in DOMAIN x.c : l.c[k] = FinalBit(c, o, x.c[k])
     /\ DOMAIN l.path = DOMAIN path
     /\ \A k \in DOMAIN path :
          /\ l.path[k].kind = path[k].kind /\ l.path[k].id = path[k].id
          /\ IsFunction(l.path[k].on)
          /\ DOMAIN l.path[k].on = IF path[k].bit < 0 THEN {} ELSE {1}
          /\ ~(path[k].bit < 0) => l.path[k].on[1] = FinalBit(c, o, path[k].bit)
     /\ IsFunction(l.c) /\ IsFunction(l.path)

(* _normalize_formatting writes the name anew, and a pragma's qubits.      *)
LEMMA NormalFacts ==
  ASSUME NEW l, IsLine(l)
  PROVE  LET m == NormalLine(l)
         IN /\ m.name = FinalName(l.name) /\ m.param = l.param /\ m.id = l.id
            /\ m.q = IF l.name.kind = "pragma_placeholder" THEN Reverse(l.q) ELSE l.q
            /\ m.c = l.c /\ m.path = l.path
BY DEF NormalLine, PragmaQubits, IsLine, LineFields

(* The whole of to_oq3: each instruction shown has its line.               *)
LEMMA EmittedFacts ==
  ASSUME NEW c, IsCircuit(c), NEW o
  PROVE  LET p == Emitted(c, o)
             n == Len(Shown(c, o))
         IN /\ p.defines = Dumped(c, o).defines
            /\ DOMAIN p.lines = 1..(Before(c, o) + n)
            /\ \A i \in 1..n : IsLineOf(p.lines[Before(c, o) + i], c, o, i)
            /\ Before(c, o) = 1 =>
                 p.lines[1].q = << >> /\ p.lines[1].path = << >>
                   /\ p.lines[1].name = Plain("gphase")
<1> DEFINE p == Emitted(c, o)
           e == Dumped(c, o)
           d == Passed(c, o)
           n == Len(Shown(c, o))
           m == Before(c, o)
           r == RemapQubits(e, c, CircuitLabels(c, o))
<1>1. /\ DOMAIN e = {"qubits", "bits", "lines", "defines"}
      /\ e.qubits = IF c.layout THEN << >> ELSE c.qregs
      /\ m \in {0, 1} /\ n \in Nat
      /\ DOMAIN e.lines = 1..(m + n)
      /\ \A i \in 1..n : e.lines[m + i] = Line(d, d.insts[i])
      /\ m = 1 => e.lines[1] = GlobalPhaseLine(d.phase)
  BY DumpedFacts, ShownFacts
<1>2. /\ SameBut(d, c) /\ d.cregs = ConsolidateClbits(c).cregs
      /\ \A i \in 1..n :
           /\ d.insts[i].op = Shown(c, o)[i].op /\ d.insts[i].param = Shown(c, o)[i].param
           /\ d.insts[i].id = Shown(c, o)[i].id
           /\ d.insts[i].q = Shown(c, o)[i].q /\ d.insts[i].c = Shown(c, o)[i].c
           /\ d.insts[i].path = PathIn(c, o, i)
           /\ d.insts[i].name = PassedName(c, o, i)
  BY PassedFacts DEF PathIn
<1> HIDE DEF p, e, d, n, m
<1>3. \A phase : IsLine(GlobalPhaseLine(phase))
  BY DEF IsLine, IsFunction, LineFields, GlobalPhaseLine
<1>4. \A j \in DOMAIN e.lines : IsLine(e.lines[j])
  <2> SUFFICES ASSUME NEW j \in 1..(m + n) PROVE IsLine(e.lines[j])
    BY <1>1
  <2>1. CASE m = 1 /\ j = 1
    BY <1>1, <1>3, <2>1
  <2>2. CASE ~(m = 1 /\ j = 1)
    <3>1. j - m \in 1..n /\ m + (j - m) = j
      BY <1>1, <2>2
    <3>2. e.lines[j] = Line(d, d.insts[j - m])
      BY <1>1, <3>1
    <3> QED
      BY <3>2, LineFacts
  <2> QED
    BY <2>1, <2>2
<1>5. /\ DOMAIN r = {"qubits", "bits", "lines", "defines"}
      /\ r.defines = e.defines /\ DOMAIN r.lines = DOMAIN e.lines
      /\ \A j \in DOMAIN e.lines : Remapped(r.lines[j], e.lines[j], c, o)
  BY <1>1, <1>4, RemapFacts
<1> HIDE DEF r
<1>6. /\ p.defines = r.defines
      /\ p.lines = [j \in DOMAIN r.lines |-> NormalLine(r.lines[j])]
  BY <1>5 DEF p, r, e, Emitted, NormalizeFormatting
<1>7. \A b : BitRef(d, b) = BitRef(ConsolidateClbits(c), b)
  BY <1>2 DEF BitRef, Register
<1>8. QubitKind(d) = QubitKind(c)
  BY <1>2 DEF QubitKind, SameBut
<1>9. ASSUME NEW i \in 1..n PROVE IsLineOf(p.lines[m + i], c, o, i)
  <2> DEFINE j == m + i
             x == d.insts[i]
             l == e.lines[j]
             k == r.lines[j]
             f == p.lines[j]
  <2>1. j \in DOMAIN e.lines
    BY <1>1
  <2>2. /\ l.name = x.name /\ l.param = x.param /\ l.id = x.id
        /\ DOMAIN l.q = DOMAIN x.q /\ DOMAIN l.c = DOMAIN x.c
        /\ DOMAIN l.path = DOMAIN x.path
        /\ \A a \in DOMAIN x.q : l.q[a] = QubitRef(QubitKind(c), x.q[a])
        /\ \A a \in DOMAIN x.c : l.c[a] = BitRef(d, x.c[a])
        /\ \A a \in DOMAIN x.path :
             /\ l.path[a].kind = x.path[a].kind /\ l.path[a].id = x.path[a].id
             /\ l.path[a].on = IF x.path[a].bit < 0 THEN << >>
                               ELSE <<BitRef(d, x.path[a].bit)>>
    <3>1. l = Line(d, x)
      BY <1>1
    <3> HIDE DEF l, x
    <3> QED
      BY <1>8, <3>1, LineFacts
  <2>3. Remapped(k, l, c, o)
    BY <1>5, <2>1
  <2>4. f = NormalLine(k)
    BY <1>5, <1>6, <2>1
  <2>5. IsLine(k)
    BY <2>3 DEF Remapped
  <2>6. /\ f.name = FinalName(k.name) /\ f.param = k.param /\ f.id = k.id
        /\ f.q = IF k.name.kind = "pragma_placeholder" THEN Reverse(k.q) ELSE k.q
        /\ f.c = k.c /\ f.path = k.path
    BY <2>4, <2>5, NormalFacts
  <2>7. /\ x.param = Shown(c, o)[i].param /\ x.id = Shown(c, o)[i].id
        /\ x.q = Shown(c, o)[i].q /\ x.c = Shown(c, o)[i].c
        /\ x.path = PathIn(c, o, i) /\ x.name = PassedName(c, o, i)
    BY <1>2
  <2> HIDE DEF f, k, l, x, j
  <2>8. k.q = FinalQubits(c, o, i)
    <3>1. /\ DOMAIN k.q = DOMAIN x.q /\ k.q = [a \in DOMAIN k.q |-> k.q[a]]
          /\ \A a \in DOMAIN x.q : k.q[a] = QubitTo(c, o, QubitRef(QubitKind(c), x.q[a]))
      BY <2>2, <2>3, <2>5 DEF Remapped, IsLine, IsFunction
    <3> QED
      BY <2>7, <3>1 DEF FinalQubits
  <2>9. /\ k.name = PassedName(c, o, i) /\ k.param = Shown(c, o)[i].param
        /\ k.id = Shown(c, o)[i].id
    BY <2>2, <2>3, <2>7 DEF Remapped
  <2>10. /\ DOMAIN f.c = DOMAIN x.c /\ IsFunction(f.c) /\ IsFunction(f.path)
         /\ \A a \in DOMAIN x.c : f.c[a] = FinalBit(c, o, x.c[a])
    BY <1>7, <2>2, <2>3, <2>5, <2>6 DEF Remapped, IsLine, FinalBit
  <2>11. DOMAIN f.path = DOMAIN x.path
    BY <2>2, <2>3, <2>6 DEF Remapped
  <2>12. ASSUME NEW a \in DOMAIN x.path
         PROVE  /\ f.path[a].kind = x.path[a].kind /\ f.path[a].id = x.path[a].id
                /\ IsFunction(f.path[a].on)
                /\ DOMAIN f.path[a].on = IF x.path[a].bit < 0 THEN {} ELSE {1}
                /\ ~(x.path[a].bit < 0) => f.path[a].on[1] = FinalBit(c, o, x.path[a].bit)
    <3>1. /\ a \in DOMAIN l.path /\ a \in DOMAIN k.path /\ f.path[a] = k.path[a]
      BY <2>2, <2>3, <2>6 DEF Remapped
    <3>2. /\ k.path[a].kind = l.path[a].kind /\ k.path[a].id = l.path[a].id
          /\ DOMAIN k.path[a].on = DOMAIN l.path[a].on
          /\ \A b \in DOMAIN l.path[a].on : k.path[a].on[b] = BitTo(c, o, l.path[a].on[b])
      BY <2>3, <3>1 DEF Remapped
    <3>3. IsFunction(k.path[a].on)
      BY <2>5, <3>1 DEF IsLine
    <3>4. /\ l.path[a].kind = x.path[a].kind /\ l.path[a].id = x.path[a].id
          /\ l.path[a].on = IF x.path[a].bit < 0 THEN << >>
                            ELSE <<BitRef(d, x.path[a].bit)>>
      BY <2>2
    <3>5. DOMAIN l.path[a].on = IF x.path[a].bit < 0 THEN {} ELSE {1}
      BY <3>4
    <3>6. ~(x.path[a].bit < 0) => l.path[a].on[1] = BitRef(d, x.path[a].bit)
      BY <3>4
    <3> QED
      BY <1>7, <3>1, <3>2, <3>3, <3>4, <3>5, <3>6 DEF FinalBit
  <2>13. IsLineOf(f, c, o, i)
    BY <2>6, <2>7, <2>8, <2>9, <2>10, <2>11, <2>12 DEF IsLineOf
  <2> QED
    BY <2>13 DEF f, j
<1>10. ASSUME m = 1
       PROVE  /\ p.lines[1].q = << >> /\ p.lines[1].path = << >>
              /\ p.lines[1].name = Plain("gphase")
  <2> DEFINE l == e.lines[1]
             k == r.lines[1]
             f == p.lines[1]
  <2>1. 1 \in DOMAIN e.lines /\ l = GlobalPhaseLine(d.phase)
    BY <1>1, <1>10
  <2>2. Remapped(k, l, c, o) /\ f = NormalLine(k)
    BY <1>5, <1>6, <2>1
  <2>3. /\ l.name = GPhasePlaceholder /\ l.q = << >> /\ l.path = << >>
    BY <2>1 DEF GlobalPhaseLine
  <2> HIDE DEF l, k, f
  <2>4. /\ k.name = GPhasePlaceholder /\ k.q = << >> /\ k.path = << >> /\ IsLine(k)
    <3>1. /\ IsFunction(k.q) /\ IsFunction(k.path) /\ DOMAIN k.q = {} /\ DOMAIN k.path = {}
      BY <2>2, <2>3 DEF Remapped, IsLine
    <3>2. k.q = << >> /\ k.path = << >>
      BY <3>1 DEF IsFunction
    <3> QED
      BY <2>2, <2>3, <3>2 DEF Remapped
  <2>5. /\ f.name = FinalName(k.name) /\ f.path = k.path
        /\ f.q = IF k.name.kind = "pragma_placeholder" THEN Reverse(k.q) ELSE k.q
    BY <2>2, <2>4, NormalFacts
  <2>6. FinalName(GPhasePlaceholder) = Plain("gphase")
    BY DEF FinalName, GPhasePlaceholder
  <2> QED
    BY <2>4, <2>5, <2>6 DEF f, GPhasePlaceholder
<1>11. DOMAIN p.lines = 1..(m + n)
  BY <1>1, <1>5, <1>6
<1> QED
  BY <1>5, <1>6, <1>9, <1>10, <1>11 DEF p, e, n, m

(* A program's lines are those of the instructions it shows, in order.     *)
LEMMA LinesAre ==
  ASSUME NEW c, IsCircuit(c), NEW o
  PROVE  LET n == Len(Shown(c, o))
             p == Emitted(c, o)
         IN Lines(p) = [i \in 1..n |-> p.lines[Before(c, o) + i]]
<1> DEFINE n == Len(Shown(c, o))
           m == Before(c, o)
           p == Emitted(c, o)
           s == p.lines
           S == {s[j] : j \in 1..(m + n)}
           K == {j \in DOMAIN s : s[j].q # << >> \/ s[j].path # << >>}
           t == [i \in 1..n |-> s[m + i]]
           places == [i \in 1..n |-> m + i]
<1>1. /\ DOMAIN s = 1..(m + n) /\ \A i \in 1..n : IsLineOf(s[m + i], c, o, i)
      /\ m = 1 => s[1].q = << >> /\ s[1].path = << >>
  BY EmittedFacts
<1>2. n \in Nat /\ m \in {0, 1}
  BY ShownFacts, DumpedFacts
<1>3. IsFunction(s)
  BY DEF Emitted, NormalizeFormatting, RemapQubits, IsFunction
<1> HIDE DEF n, m, s
<1>4. s \in Seq(S) /\ Len(s) = m + n
  BY <1>1, <1>2, <1>3 DEF IsFunction
<1>5. t \in Seq(S) /\ Len(t) = n
  BY <1>2
<1>6. ASSUME NEW i \in 1..n PROVE m + i \in K
  <2> DEFINE l == s[m + i]
             x == Shown(c, o)[i]
             q == FinalQubits(c, o, i)
  <2>1. IsLineOf(l, c, o, i) /\ m + i \in DOMAIN s
    BY <1>1, <1>2
  <2>2. /\ x.q # << >> \/ x.path # << >>
        /\ IsInstruction(x, c)
    BY ShownFacts DEF n
  <2>3. x.q \in Seq(Int) /\ \E B : x.path \in Seq(B)
    <3>1. c.width \in Nat
      BY CircuitFacts
    <3>2. x.q \in Seq(0..(c.width - 1))
      BY <2>2 DEF IsInstruction
    <3>3. \E B : x.path \in Seq(B)
      BY <2>2 DEF IsInstruction
    <3> HIDE DEF x
    <3>4. x.q \in Seq(Int)
      BY <3>1, <3>2
    <3> QED
      BY <3>3, <3>4
  <2>4. /\ l.q = Reverse(q) \/ l.q = q
        /\ DOMAIN l.path = DOMAIN PathIn(c, o, i)
    BY <2>1 DEF IsLineOf
  <2>5. DOMAIN q = DOMAIN x.q
    BY DEF FinalQubits
  <2> HIDE DEF l, x, q
  <2>6. CASE x.q # << >>
    <3>1. DOMAIN q = 1..Len(x.q) /\ Len(x.q) \in Nat /\ Len(x.q) # 0
      BY <2>3, <2>5, <2>6
    <3>2. Len(q) = Len(x.q) /\ 1 \in DOMAIN q
      BY <3>1
    <3>3. 1 \in DOMAIN l.q
      BY <2>4, <3>1, <3>2 DEF Reverse
    <3>4. l.q # << >>
      BY <3>3
    <3> QED
      BY <2>1, <3>4 DEF l
  <2>7. CASE x.path # << >>
    <3>1. PICK B : x.path \in Seq(B)
      BY <2>3
    <3>2. 1 \in DOMAIN x.path
      BY <2>7, <3>1
    <3>3. 1 \in DOMAIN (<<VerbatimBox>> \o x.path)
      BY <3>1
    <3>4. 1 \in DOMAIN l.path
      BY <2>4, <3>2, <3>3 DEF PathIn, x
    <3>5. l.path # << >>
      BY <3>4
    <3> QED
      BY <2>1, <3>5 DEF l
  <2> QED
    BY <2>2, <2>6, <2>7 DEF x
<1>7. ASSUME NEW j \in K PROVE \E i \in 1..n : m + i = j
  <2>1. j \in 1..(m + n)
    BY <1>1
  <2>2. ~(m = 1 /\ j = 1)
    BY <1>1
  <2>3. j - m \in 1..n /\ m + (j - m) = j
    BY <1>2, <2>1, <2>2
  <2> QED
    BY <2>3
<1>8. Listing(places, n, K)
  <2>1. places \in [1..n -> K]
    BY <1>6
  <2>2. \A a, b \in 1..n : a < b => places[a] < places[b]
    BY <1>2
  <2>3. \A k \in K : \E a \in 1..n : places[a] = k
    BY <1>7
  <2> QED
    BY <2>1, <2>2, <2>3 DEF Listing
<1>9. \A b \in 1..Len(t) : t[b] = s[places[b]]
  BY <1>5
<1>10. K \in SUBSET (1..Len(s))
  BY <1>1, <1>4
<1>11. Lines(p) = Those(s, K)
  BY DEF Lines, s
<1> HIDE DEF S, K, t, places
<1>12. Those(s, K) = t
  BY <1>4, <1>5, <1>8, <1>9, <1>10, ThoseIs
<1> QED
  BY <1>11, <1>12 DEF t, n, m, s

(* The label of the qubit that the circuit's q-th qubit has to be.         *)
QubitAt(c, o, q) ==
  IF PhysicalQubits(c) # NoLabels THEN QubitRef("$", c.physical[q + 1])
  ELSE IF o.labelsGiven THEN QubitRef("$", o.labels[q + 1])
  ELSE IF ShouldWrap(o) THEN QubitRef("$", q)
  ELSE QubitRef("register", q)

(* The labels a circuit is compiled with: those of the device, or none; and*)
(* a circuit that is not wrapped has a layout only with them.              *)
LabelsFit(c, o) ==
  /\ \E S : o.labels \in Seq(S)
  /\ o.labelsGiven <=> o.labels # NoLabels
  /\ c.layout => o.labelsGiven \/ ShouldWrap(o)

(* A qubit's reference ends up at the qubit it has to be.                  *)
LEMMA QubitsAreWhereTheyHaveToBe ==
  ASSUME NEW c, IsCircuit(c), NEW o, Emittable(c, o), LabelsFit(c, o),
         NEW i \in 1..Len(Shown(c, o)), NEW j \in DOMAIN Shown(c, o)[i].q
  PROVE  QubitTo(c, o, QubitRef(QubitKind(c), Shown(c, o)[i].q[j]))
           = QubitAt(c, o, Shown(c, o)[i].q[j])
<1> DEFINE x == Shown(c, o)[i]
           q == x.q[j]
           labels == CircuitLabels(c, o)
           n == Len(Shown(c, o))
           p == Dumps(Consolidated(c, o), {})
<1>1. /\ q \in 0..(c.width - 1) /\ c.width \in Nat /\ c.layout \in BOOLEAN
      /\ c.qregs \in Seq(Range(c.qregs))
  <2>1. IsInstruction(x, c)
    BY ShownFacts
  <2> DEFINE W == 0..(c.width - 1)
             xq == x.q
  <2>2. xq \in Seq(W) /\ j \in DOMAIN xq
    BY <2>1 DEF IsInstruction
  <2>3. c.width \in Nat /\ c.layout \in BOOLEAN
        /\ c.qregs \in Seq(Range(c.qregs))
    BY CircuitFacts
  <2> HIDE DEF xq, W
  <2>4. xq[j] \in W
    BY <2>2
  <2>5. q \in 0..(c.width - 1)
    BY <2>4 DEF xq, W
  <2> QED
    BY <2>3, <2>5
<1>2. ~CannotRemap(p, c, labels)
  BY DEF Emittable
<1>3. /\ p.qubits = IF c.layout THEN << >> ELSE c.qregs
      /\ p.lines[i].q[j] = QubitRef(QubitKind(c), q)
      /\ p.lines[i] \in Range(p.lines) /\ p.lines[i].q[j] \in Range(p.lines[i].q)
  <2> DEFINE d == Consolidated(c, o)
  <2>1. /\ SameBut(d, c)
        /\ d.insts = [a \in 1..n |-> WithName(Shown(c, o)[a], FirstName(c, o, a))]
    BY ConsolidatedFacts
  <2> HIDE DEF d
  <2>2. /\ p.qubits = IF c.layout THEN << >> ELSE c.qregs
        /\ p.lines = [a \in DOMAIN d.insts |-> Line(d, d.insts[a])]
    BY <2>1 DEF Dumps, SameBut, d
  <2>3. d.insts[i] = WithName(x, FirstName(c, o, i)) /\ i \in DOMAIN d.insts
    BY <2>1
  <2>4. d.insts[i].q = x.q
    BY <2>3 DEF WithName
  <2>5. p.lines[i] = Line(d, d.insts[i]) /\ i \in DOMAIN p.lines
    BY <2>2, <2>3
  <2>6. /\ DOMAIN Line(d, d.insts[i]).q = DOMAIN x.q
        /\ Line(d, d.insts[i]).q[j] = QubitRef(QubitKind(d), q)
    BY <2>4, LineFacts
  <2>7. QubitKind(d) = QubitKind(c)
    BY <2>1 DEF QubitKind, SameBut
  <2> HIDE DEF p, x
  <2> QED
    BY <2>2, <2>5, <2>6, <2>7 DEF Range, x
<1> HIDE DEF x, q, labels, p
<1>4. QubitRef(QubitKind(c), q).at = q /\ QubitRef(QubitKind(c), q).kind = QubitKind(c)
  BY DEF QubitRef
<1>5. CASE PhysicalQubits(c) # NoLabels
  <2>1. PhysicalQubits(c) = c.physical
    BY <1>5 DEF PhysicalQubits
  <2>2. QubitTo(c, o, QubitRef(QubitKind(c), q)) = QubitRef("$", PhysicalQubits(c)[q + 1])
    BY <1>4, <1>5 DEF QubitTo
  <2> QED
    BY <1>5, <2>1, <2>2 DEF QubitAt, q, x
<1>6. CASE PhysicalQubits(c) = NoLabels
  <2>1. c.qregs # << >>
    BY <1>6 DEF PhysicalQubits, IsCircuit, NoLabels
  <2>2. QubitKind(c) = IF c.layout THEN "$" ELSE "register"
    BY <2>1 DEF QubitKind
  <2>3. labels = IF o.labels = NoLabels /\ ShouldWrap(o)
                   THEN [k \in 1..c.width |-> k - 1]
                   ELSE FirstOf(o.labels, c.width)
    BY <1>6 DEF CircuitLabels, labels
  <2>4. PICK S : o.labels \in Seq(S)
    BY DEF LabelsFit
  <2>5. LET f == FirstOf(o.labels, c.width)
        IN /\ f \in Seq(S) /\ \A k \in 1..Len(f) : f[k] = o.labels[k]
           /\ Len(f) = IF c.width < Len(o.labels) THEN c.width ELSE Len(o.labels)
    BY <1>1, <2>4 DEF FirstOf
  <2>6. CASE labels = NoLabels
    <3>1. Len(labels) = 0
      BY <2>6 DEF NoLabels
    <3>2. c.width # 0
      BY <1>1
    <3>3. ~(o.labels = NoLabels /\ ShouldWrap(o))
      BY <1>1, <2>3, <3>1, <3>2
    <3>4. Len(o.labels) = 0
      BY <1>1, <2>3, <2>4, <2>5, <3>1, <3>2, <3>3
    <3>5. o.labels = NoLabels /\ ~o.labelsGiven /\ ~ShouldWrap(o)
      BY <2>4, <3>3, <3>4 DEF NoLabels, LabelsFit
    <3>6. ~c.layout
      BY <3>5 DEF LabelsFit
    <3>7. QubitTo(c, o, QubitRef(QubitKind(c), q)) = QubitRef("register", q)
      BY <1>6, <2>2, <2>6, <3>6 DEF QubitTo, labels
    <3> QED
      BY <1>6, <3>5, <3>7 DEF QubitAt, q, x
  <2>7. CASE labels # NoLabels
    <3>1. QubitTo(c, o, QubitRef(QubitKind(c), q)) = QubitRef("$", labels[q + 1])
      BY <1>4, <1>6, <2>7 DEF QubitTo, labels
    <3>2. q + 1 \in 1..Len(labels)
      <4>1. CASE c.layout
        <5>1. p.qubits = << >> /\ QubitKind(c) = "$"
          BY <1>3, <2>2, <4>1
        <5>2. ~(\E y \in Range(p.lines) : \E r \in Range(y.q) :
                  r.kind = "$" /\ r.at >= Len(labels))
          BY <1>2, <1>6, <2>7, <5>1 DEF CannotRemap
        <5>3. p.lines[i].q[j].kind = "$" /\ p.lines[i].q[j].at = q
          BY <1>3, <1>4, <5>1
        <5>4. ~(q >= Len(labels))
          BY <1>3, <5>2, <5>3
        <5>5. Len(labels) \in Nat
          BY <1>1, <2>3, <2>5
        <5> QED
          BY <1>1, <5>4, <5>5
      <4>2. CASE ~c.layout
        <5>1. p.qubits = c.qregs
          BY <1>3, <4>2
        <5>2. ~(Len(c.qregs) > 1) /\ Len(labels) = c.qregs[1].size
          BY <1>2, <1>6, <2>1, <2>7, <5>1 DEF CannotRemap
        <5>3. Len(c.qregs) = 1
          <6>1. Len(c.qregs) \in Nat /\ Len(c.qregs) # 0
            BY <1>1, <2>1
          <6> DEFINE k == Len(c.qregs)
          <6>2. ~(k > 1) /\ k \in Nat /\ k # 0
            BY <5>2, <6>1
          <6> HIDE DEF k
          <6>3. k = 1
            BY <6>2
          <6> QED
            BY <6>3 DEF k
        <5>4. Len(labels) = c.width
          BY <5>2, <5>3 DEF IsCircuit
        <5> QED
          BY <1>1, <5>4
      <4> QED
        BY <1>1, <4>1, <4>2
    <3>3. CASE o.labelsGiven
      <4>1. labels = FirstOf(o.labels, c.width)
        BY <2>3, <3>3 DEF LabelsFit
      <4>2. labels[q + 1] = o.labels[q + 1]
        BY <2>5, <3>2, <4>1
      <4> QED
        BY <1>6, <3>1, <3>3, <4>2 DEF QubitAt, q, x
    <3>4. CASE ~o.labelsGiven
      <4>1. o.labels = NoLabels
        BY <3>4 DEF LabelsFit
      <4>2. ShouldWrap(o)
        <5> SUFFICES ASSUME ~ShouldWrap(o) PROVE FALSE
          OBVIOUS
        <5>1. labels = FirstOf(o.labels, c.width) /\ Len(o.labels) = 0
          BY <2>3, <4>1 DEF NoLabels
        <5>2. Len(labels) = 0
          BY <1>1, <2>5, <5>1
        <5> QED
          BY <1>1, <3>2, <5>2
      <4>3. labels = [k \in 1..c.width |-> k - 1]
        BY <2>3, <4>1, <4>2
      <4>4. labels[q + 1] = q
        BY <1>1, <4>3
      <4> QED
        BY <1>6, <3>1, <3>4, <4>2, <4>4 DEF QubitAt, q, x
    <3> QED
      BY <3>3, <3>4
  <2> QED
    BY <2>6, <2>7
<1> QED
  BY <1>5, <1>6

(* Of what is emitted, an instruction is written as a pragma exactly if it *)
(* is a matrix: one that is not replaced would be no gate of the target.   *)
LEMMA PragmasAreMatrices ==
  ASSUME NEW c, IsCircuit(c), NEW o, Emittable(c, o),
         NEW i \in 1..Len(Shown(c, o))
  PROVE  PassedName(c, o, i).kind = "pragma_placeholder"
           <=> Shown(c, o)[i].op \in PragmaOps
<1> DEFINE op == Shown(c, o)[i].op
           ops == PragmasOf(o.basis)
<1>1. CASE op \in ops
  BY <1>1 DEF PassedName, FirstName, PragmaPlaceholder, PragmasOf, PragmaOps
<1>2. CASE op \notin ops
  <2>1. PassedName(c, o, i).kind # "pragma_placeholder"
    BY <1>2, ShimIsNoPragma DEF PassedName, Plain
  <2>2. ASSUME op \in PragmaOps PROVE FALSE
    <3>1. op = "unitary" /\ "unitary" \notin o.basis
      BY <1>2, <2>2 DEF PragmaOps, PragmasOf
    <3>2. Prepared(c, o).insts = Shown(c, o)
      BY PreparedFacts DEF Shown
    <3>3. Shown(c, o)[i] \in Insts(Prepared(c, o)) /\ Checked(Shown(c, o)[i])
      BY <3>1, <3>2, ShownFacts DEF Insts, Range, Checked, NotGates
    <3>4. op \in Unsupported(Prepared(c, o), o.basis, ops)
      BY <1>2, <3>1, <3>3 DEF Unsupported, NonGateTargetOps, AdditionalUGates
    <3>5. Unsupported(Prepared(c, o), o.basis, ops) = {}
      BY DEF Emittable
    <3> QED
      BY <3>4, <3>5
  <2> QED
    BY <2>1, <2>2
<1> QED
  BY <1>1, <1>2

(* The blocks of a circuit are numbered, the verbatim box is not.          *)
LEMMA BlocksAreThoseOfTheCircuit ==
  ASSUME NEW c, IsCircuit(c), NEW o, NEW i \in 1..Len(Shown(c, o)),
         NEW l, IsLineOf(l, c, o, i)
  PROVE  /\ BlocksOf(Unwrapped(l)) = BlocksOf(Shown(c, o)[i].path)
         /\ Wrapped(l) <=> InBox(c, o, i)
<1> DEFINE x == Shown(c, o)[i]
           B == [kind : {"if", "box"}, id : Nat \ {0}, bit : -1..(c.bits - 1)]
           n == Len(x.path)
           path == PathIn(c, o, i)
<1>1. x.path \in Seq(B)
  BY ShownFacts DEF IsInstruction
<1>2. \A k \in 1..n : x.path[k].id # 0
  <2> DEFINE P == x.path
  <2>1. P \in Seq(B)
    BY <1>1
  <2> HIDE DEF P, B
  <2>2. \A k \in 1..Len(P) : P[k] \in B
    BY <2>1
  <2> QED
    BY <2>2 DEF P, B
<1>3. /\ DOMAIN l.path = DOMAIN path /\ l.path = [k \in DOMAIN l.path |-> l.path[k]]
      /\ \A k \in DOMAIN path : l.path[k].kind = path[k].kind /\ l.path[k].id = path[k].id
  BY DEF IsLineOf, IsFunction
<1>4. n \in Nat /\ DOMAIN x.path = 1..n
  BY <1>1
<1>5. CASE InBox(c, o, i)
  <2>1. path = <<VerbatimBox>> \o x.path
    BY <1>5 DEF PathIn
  <2> DEFINE P == x.path
  <2>2. P \in Seq(B) /\ Len(P) = n /\ DOMAIN P = 1..n
    BY <1>1, <1>4
  <2> HIDE DEF B, x, P
  <2>3. /\ DOMAIN (<<VerbatimBox>> \o P) = 1..(n + 1)
        /\ (<<VerbatimBox>> \o P)[1] = VerbatimBox
        /\ \A k \in 1..n : (<<VerbatimBox>> \o P)[k + 1] = P[k]
    BY <2>2, <1>4
  <2>4. /\ DOMAIN path = 1..(n + 1) /\ path[1] = VerbatimBox
        /\ \A k \in 1..n : path[k + 1] = P[k]
    BY <2>1, <2>3 DEF P
  <2> HIDE DEF path
  <2>5. /\ l.path \in Seq(Range(l.path)) /\ Len(l.path) = n + 1
        /\ l.path[1].kind = "verbatim" /\ l.path[1].id = 0
    <3> DEFINE t == l.path
               T == Range(t)
    <3>1. DOMAIN t = 1..(n + 1) /\ t = [k \in DOMAIN t |-> t[k]] /\ 1 \in DOMAIN path
      BY <1>3, <1>4, <2>4
    <3>2. t[1].kind = "verbatim" /\ t[1].id = 0
      BY <1>3, <2>4, <3>1 DEF VerbatimBox
    <3> HIDE DEF t
    <3>3. t = [k \in 1..(n + 1) |-> t[k]] /\ \A k \in 1..(n + 1) : t[k] \in T
      BY <3>1 DEF Range
    <3> HIDE DEF T
    <3>4. t \in Seq(T) /\ Len(t) = n + 1
      BY <1>4, <3>3
    <3> QED
      BY <3>2, <3>4 DEF t, T
  <2>6. l.path # << >> /\ Wrapped(l)
    BY <1>4, <2>5 DEF Wrapped
  <2>7. Unwrapped(l) = Tail(l.path)
    BY <2>6 DEF Unwrapped
  <2>8. /\ DOMAIN Tail(l.path) = 1..n
        /\ \A k \in 1..n : Tail(l.path)[k] = l.path[k + 1]
    BY <1>4, <2>5
  <2>9. \A k \in 1..n : /\ Tail(l.path)[k].kind = P[k].kind
                        /\ Tail(l.path)[k].id = P[k].id
    <3> TAKE k \in 1..n
    <3>1. k + 1 \in 1..(n + 1)
      BY <1>4
    <3>2. l.path[k + 1].kind = P[k].kind /\ l.path[k + 1].id = P[k].id
      BY <1>3, <2>4, <3>1
    <3> QED
      BY <2>8, <3>2
  <2>10. BlocksOf(Tail(l.path)) = BlocksOf(P)
    BY <2>2, <2>8, <2>9 DEF BlocksOf
  <2> QED
    BY <1>5, <2>6, <2>7, <2>10 DEF P, x
<1>6. CASE ~InBox(c, o, i)
  <2>1. path = x.path
    BY <1>6 DEF PathIn
  <2> HIDE DEF B, x, path
  <2>2. DOMAIN l.path = 1..n /\ \A k \in 1..n : l.path[k].id # 0
    BY <1>2, <1>3, <1>4, <2>1
  <2>3. ~Wrapped(l)
    <3> SUFFICES ASSUME Wrapped(l) PROVE FALSE
      OBVIOUS
    <3>1. l.path # << >> /\ l.path[1].id = 0
      BY DEF Wrapped
    <3>2. 1 \notin 1..n
      BY <2>2, <3>1
    <3>3. 1..n = {}
      BY <1>4, <3>2
    <3>4. l.path = << >>
      BY <1>3, <2>2, <3>3
    <3> QED
      BY <3>1, <3>4
  <2>4. Unwrapped(l) = l.path
    BY <2>3 DEF Unwrapped
  <2>5. BlocksOf(l.path) = BlocksOf(x.path)
    BY <1>3, <1>4, <2>1, <2>2 DEF BlocksOf
  <2> QED
    BY <1>6, <2>3, <2>4, <2>5 DEF x
<1> QED
  BY <1>5, <1>6

(* What a program keeps of its circuit, line for line.                     *)
LEMMA LinesKeepTheCircuit ==
  ASSUME NEW c, IsCircuit(c), NEW o, Emittable(c, o), LabelsFit(c, o)
  PROVE  LET lines == Lines(Emitted(c, o))
             insts == Shown(c, o)
         IN /\ Len(lines) = Len(insts) /\ DOMAIN lines = 1..Len(insts)
            /\ \A k \in 1..Len(insts) :
                 LET qubits == [j \in DOMAIN insts[k].q |-> QubitAt(c, o, insts[k].q[j])]
                 IN /\ IsLineOf(lines[k], c, o, k)
                    /\ lines[k].id = insts[k].id
                    /\ lines[k].q = IF insts[k].op \in PragmaOps THEN Reverse(qubits)
                                                                 ELSE qubits
                    /\ BlocksOf(Unwrapped(lines[k])) = BlocksOf(insts[k].path)
                    /\ Wrapped(lines[k]) <=> InBox(c, o, k)
<1> DEFINE lines == Lines(Emitted(c, o))
           insts == Shown(c, o)
           n == Len(insts)
           m == Before(c, o)
           s == Emitted(c, o).lines
<1>1. lines = [i \in 1..n |-> s[m + i]]
  BY LinesAre
<1>2. n \in Nat
  BY ShownFacts
<1>3. \A i \in 1..n : IsLineOf(s[m + i], c, o, i)
  BY EmittedFacts
<1> HIDE DEF lines, n, m, s
<1>4. Len(lines) = n /\ DOMAIN lines = 1..n
  BY <1>1, <1>2
<1>5. ASSUME NEW k \in 1..n
      PROVE  LET qubits == [j \in DOMAIN insts[k].q |-> QubitAt(c, o, insts[k].q[j])]
             IN /\ IsLineOf(lines[k], c, o, k)
                /\ lines[k].id = insts[k].id
                /\ lines[k].q = IF insts[k].op \in PragmaOps THEN Reverse(qubits)
                                                             ELSE qubits
                /\ BlocksOf(Unwrapped(lines[k])) = BlocksOf(insts[k].path)
                /\ Wrapped(lines[k]) <=> InBox(c, o, k)
  <2> DEFINE l == lines[k]
             x == insts[k]
             qubits == [j \in DOMAIN x.q |-> QubitAt(c, o, x.q[j])]
  <2>1. IsLineOf(l, c, o, k)
    BY <1>1, <1>3
  <2>2. k \in 1..Len(Shown(c, o))
    BY DEF n
  <2>3. /\ BlocksOf(Unwrapped(l)) = BlocksOf(x.path)
        /\ Wrapped(l) <=> InBox(c, o, k)
    BY <2>1, <2>2, BlocksAreThoseOfTheCircuit
  <2>4. FinalQubits(c, o, k) = qubits
    BY <2>2, QubitsAreWhereTheyHaveToBe DEF FinalQubits
  <2>5. PassedName(c, o, k).kind = "pragma_placeholder" <=> x.op \in PragmaOps
    BY <2>2, PragmasAreMatrices
  <2> HIDE DEF l, qubits
  <2>6. l.id = x.id /\ l.q = IF x.op \in PragmaOps THEN Reverse(qubits) ELSE qubits
    BY <2>1, <2>4, <2>5 DEF IsLineOf
  <2> QED
    BY <2>1, <2>3, <2>6 DEF l, qubits
<1> QED
  BY <1>4, <1>5 DEF lines, n

(* What a line keeps of the instruction it is written for.                 *)
KeepsInstruction(l, x, c, o, k) ==
  LET qubits == [j \in DOMAIN x.q |-> QubitAt(c, o, x.q[j])]
  IN /\ l.id = x.id
     /\ l.q = IF x.op \in PragmaOps THEN Reverse(qubits) ELSE qubits
     /\ BlocksOf(Unwrapped(l)) = BlocksOf(x.path)
     /\ Wrapped(l) <=> InBox(c, o, k)

LEMMA LinesKeepInstructions ==
  ASSUME NEW c, IsCircuit(c), NEW o, Emittable(c, o), LabelsFit(c, o)
  PROVE  /\ DOMAIN Lines(Emitted(c, o)) = 1..Len(Shown(c, o))
         /\ \A k \in 1..Len(Shown(c, o)) :
              KeepsInstruction(Lines(Emitted(c, o))[k], Shown(c, o)[k], c, o, k)
BY LinesKeepTheCircuit DEF KeepsInstruction

-----------------------------------------------------------------------------
(***************************************************************************)
(* Where a target has its gates: on qubits, and pairs of qubits, of the    *)
(* device.                                                                 *)
(***************************************************************************)

(* A qubit of the device, or a pair of connected ones, by their indices.   *)
IsPlace1(i) == \E q \in device.nodes : i = <<Index(device, q)>>
IsPlace2(i) ==
  \E a, b \in device.nodes :
    Connected(device, <<a, b>>) /\ i = <<Index(device, a), Index(device, b)>>
IsPlaceFor(b, i) == IF NumQubits(b) = 1 THEN IsPlace1(i) ELSE IsPlace2(i)

KnownInv ==
  /\ \A i \in DOMAIN known.readout \cup DOMAIN known.one : IsPlace1(i)
  /\ \A g \in DOMAIN known.two : \A i \in DOMAIN known.two[g] : IsPlace2(i)

(* Why a device has an entry: it is a gate of it, on the places the device *)
(* has it at; or stands for one; or is no gate.                            *)
IsOfTheDevice(n, b) ==
  /\ b \in Qubits12 /\ n = GateName(b)
  /\ \A i \in DOMAIN entries[n] : IsPlaceFor(b, i)
  /\ IF device.calibrations = {} THEN b \in device.native
     ELSE \E r \in Restrictions(device) : r.gate = b /\ DOMAIN entries[n] \subseteq r.at

EntryInv(n) ==
  \/ n \in {"if_else", "barrier"} /\ entries[n] = Anywhere
  \/ n = "measure" /\ \A i \in DOMAIN entries[n] : IsPlace1(i)
  \/ n \in DOMAIN substitutes /\ \A i \in DOMAIN entries[n] : IsPlace1(i)
  \/ \E b \in Qubits12 : IsOfTheDevice(n, b)

SimulatorNames ==
  LET gates == SimulatorGates(device)
  IN gates \cup (ControlledGateset(gates, device.controls) \cap StandardGates)
       \cup {"if_else", "measure", "barrier"}

EntriesInv ==
  /\ stage \in {"read", "native"} => entries = << >>
  /\ stage \in {"calibrated", "native", "finish"} => device.type = "qpu"
  /\ stage = "native" => device.calibrations = {}
  /\ stage = "calibrated" => device.calibrations # {}
  /\ stage = "built" => device.type \in {"qpu", "simulator"}
  /\ device.type = "qpu" => \A n \in DOMAIN entries : EntryInv(n)
  /\ device.type = "qpu" /\ stage \notin {"read", "refused"} => known.readout # Anywhere
  /\ device.type = "qpu" /\ stage = "built" => TargetIsQpu
  /\ device.type = "simulator" =>
       /\ substitutes = << >>
       /\ \A n \in DOMAIN entries : n \in SimulatorNames /\ entries[n] = Anywhere

(* All of it is about the device, which stays the same.                    *)
LEMMA PlacesKept ==
  ASSUME device' = device
  PROVE  /\ KnownInv /\ known' = known => KnownInv'
         /\ \A i : IsPlace1(i) => IsPlace1(i)'
         /\ \A b, i : IsPlaceFor(b, i) => IsPlaceFor(b, i)'
         /\ SimulatorNames' = SimulatorNames
         /\ \A n : /\ EntryInv(n) /\ n \in DOMAIN entries'
                   /\ entries'[n] = entries[n]
                   /\ n \in DOMAIN substitutes => n \in DOMAIN substitutes'
                   => EntryInv(n)'
<1>1. /\ \A i : IsPlace1(i) => IsPlace1(i)'
      /\ \A i : IsPlace2(i) => IsPlace2(i)'
  BY DEF IsPlace1, IsPlace2
<1>2. \A b, i : IsPlaceFor(b, i) => IsPlaceFor(b, i)'
  BY <1>1 DEF IsPlaceFor
<1>3. KnownInv /\ known' = known => KnownInv'
  BY <1>1 DEF KnownInv
<1>4. Restrictions(device)' = Restrictions(device)
  OBVIOUS
<1>5. ASSUME NEW n, EntryInv(n), n \in DOMAIN entries', entries'[n] = entries[n],
             n \in DOMAIN substitutes => n \in DOMAIN substitutes'
      PROVE  EntryInv(n)'
  <2>1. ASSUME NEW b \in Qubits12, IsOfTheDevice(n, b) PROVE IsOfTheDevice(n, b)'
    BY <1>2, <1>4, <1>5, <2>1 DEF IsOfTheDevice
  <2> QED
    BY <1>1, <1>5, <2>1 DEF EntryInv
<1>6. SimulatorNames' = SimulatorNames
  BY DEF SimulatorNames
<1> QED
  BY <1>1, <1>2, <1>3, <1>5, <1>6

(* A pair of a device is one in either direction.                          *)
LEMMA ReversedPlace ==
  ASSUME NEW i, IsPlace2(i)
  PROVE  IsPlace2(Reverse(i))
<1>1. PICK a \in device.nodes, b \in device.nodes :
        Connected(device, <<a, b>>) /\ i = <<Index(device, a), Index(device, b)>>
  BY DEF IsPlace2
<1>2. Connected(device, <<b, a>>)
  BY <1>1, ReversedPair DEF Connected
<1>3. Reverse(i) = <<Index(device, b), Index(device, a)>>
  BY <1>1, ReversedPair
<1> QED
  BY <1>2, <1>3 DEF IsPlace2

(* A pair of labels that are connected is a place.                         *)
LEMMA PlacesOfPairs ==
  ASSUME device \in Devices, NEW e \in Int \X Int, Range(e) \subseteq device.nodes,
         Connected(device, e)
  PROVE  IsPlace2(Indices(device, e))
<1>1. PICK a \in Int, b \in Int : e = <<a, b>>
  OBVIOUS
<1>2. DOMAIN e = 1..2 /\ e[1] = a /\ e[2] = b
  BY <1>1
<1>3. a \in device.nodes /\ b \in device.nodes
  BY <1>2 DEF Range
<1>4. Indices(device, e) = <<Index(device, a), Index(device, b)>>
  BY <1>2 DEF Indices
<1> QED
  BY <1>1, <1>3, <1>4 DEF IsPlace2

(* So is every edge of the topology.                                       *)
LEMMA EdgesArePlaces ==
  ASSUME device \in Devices, NEW i \in DOMAIN Default2q(device)
  PROVE  IsPlace2(i)
<1>1. PICK e \in device.edges : i = Indices(device, e)
  BY DEF Default2q
<1>2. e \in device.nodes \X device.nodes /\ device.nodes \subseteq Int
  BY DevicesAssumption
<1>3. e \in Int \X Int /\ Range(e) \subseteq device.nodes
  <2>1. PICK a \in device.nodes, b \in device.nodes : e = <<a, b>>
    BY <1>2
  <2>2. DOMAIN e = 1..2 /\ e[1] = a /\ e[2] = b
    BY <2>1
  <2> QED
    BY <1>2, <2>1, <2>2 DEF Range
<1> QED
  BY <1>1, <1>3, PlacesOfPairs DEF Connected

(* _get_properties keeps to places of the device.                          *)
LEMMA ReadPlaces ==
  ASSUME TargetInv, ReadDevice
  PROVE  KnownInv' /\ known'.readout # Anywhere
<1>1. device \in Devices /\ device' = device
  BY DEF TargetInv, ReadDevice
<1>2. ASSUME NEW kind, NEW i \in DOMAIN OrElse(Read1q(device, kind), Default1q(device))
      PROVE  IsPlace1(i)
  BY <1>2 DEF OrElse, Read1q, Default1q, IsPlace1
<1>3. ASSUME NEW g \in DOMAIN Read2q(device), NEW i \in DOMAIN Read2q(device)[g]
      PROVE  IsPlace2(i)
  <2> DEFINE pairs == Stated(device, g)
             props == [j \in {Indices(device, e) : e \in pairs} |->
                         Highest(ErrorsOf(device, g, <<LabelOfIndex(device, j[1]), LabelOfIndex(device, j[2])>>))]
  <2>1. Read2q(device)[g] = BothWays(props)
    BY DEF Read2q
  <2>2. ASSUME NEW j \in DOMAIN props PROVE IsPlace2(j)
    <3>1. PICK e \in pairs : j = Indices(device, e)
      OBVIOUS
    <3>2. e \in Int \X Int /\ Range(e) \subseteq device.nodes /\ Connected(device, e)
      BY <1>1, DevicesAssumption DEF Stated
    <3> QED
      BY <1>1, <3>1, <3>2, PlacesOfPairs
  <2> HIDE DEF props
  <2>3. DOMAIN BothWays(props) = {Reverse(d) : d \in DOMAIN props} \cup DOMAIN props
    BY DEF BothWays, Over
  <2> QED
    BY <2>1, <2>2, <2>3, ReversedPlace
<1>4. /\ known'.readout = OrElse(Read1q(device, "readout"), Default1q(device))
      /\ known'.one = OrElse(Read1q(device, "gate"), Default1q(device))
      /\ known'.two = Read2q(device)
  BY DEF ReadDevice
<1>5. /\ \A i \in DOMAIN known'.readout \cup DOMAIN known'.one : IsPlace1(i)
      /\ \A g \in DOMAIN known'.two : \A i \in DOMAIN known'.two[g] : IsPlace2(i)
  BY <1>2, <1>3, <1>4
<1>6. KnownInv'
  BY <1>1, <1>5 DEF KnownInv, IsPlace1, IsPlace2
<1>7. known'.readout # Anywhere
  <2>1. << >> \in DOMAIN Anywhere
    BY DEF Anywhere
  <2>2. ~IsPlace1(<< >>)
    BY DEF IsPlace1
  <2> QED
    BY <1>5, <2>1, <2>2
<1> QED
  BY <1>6, <1>7

(* A gate's properties are on places for as many qubits as it has.         *)
LEMMA PropertiesPlaces ==
  ASSUME device \in Devices, KnownInv, NEW b \in Qubits12,
         NEW i \in DOMAIN Properties(b)
  PROVE  IsPlaceFor(b, i)
BY EdgesArePlaces DEF Properties, IsPlaceFor, KnownInv

PlacesInv == KnownInv /\ EntriesInv

(* Nothing is entered at first.                                            *)
LEMMA InitPlaces == TargetInit => PlacesInv
BY DEF TargetInit, PlacesInv, KnownInv, EntriesInv, NothingKnown

(* Every step of building a target keeps to the places of the device.      *)
LEMMA NextPlaces ==
  ASSUME TargetInv, PlacesInv, [BuildTarget]_targetVars
  PROVE  PlacesInv'
<1>0. device \in Devices /\ KnownInv /\ EntriesInv
  BY DEF TargetInv, PlacesInv
<1>1. CASE ReadDevice
  <2>1. KnownInv' /\ known'.readout # Anywhere
    BY <1>1, ReadPlaces
  <2>2. /\ stage = "read" /\ device.type = "qpu" /\ device' = device
        /\ entries' = entries /\ entries = << >> /\ substitutes' = substitutes
        /\ stage' \in {"refused", "native", "calibrated"}
        /\ stage' \in {"native", "calibrated"} =>
             (stage' = "native" <=> Restrictions(device) = {})
    BY <1>0, <1>1 DEF ReadDevice, EntriesInv
  <2>3. Restrictions(device) = {} <=> device.calibrations = {}
    BY RestrictionsOfGates
  <2> QED
    BY <2>1, <2>2, <2>3 DEF PlacesInv, EntriesInv
<1>2. CASE AddNative
  <2> DEFINE gates == device.native \cap Qubits12
             of(n) == CHOOSE b \in gates : GateName(b) = n
  <2>1. /\ device' = device /\ known' = known /\ stage' = "finish"
        /\ stage = "native" /\ device.calibrations = {} /\ device.type = "qpu"
        /\ entries' = [n \in {GateName(b) : b \in gates} |-> Properties(of(n))]
        /\ substitutes' = substitutes
    BY <1>0, <1>2 DEF AddNative, EntriesInv, Qubits12
  <2>2. ASSUME NEW n \in DOMAIN entries' PROVE EntryInv(n)'
    <3>1. of(n) \in gates /\ GateName(of(n)) = n
      BY <2>1
    <3>2. entries'[n] = Properties(of(n))
      BY <2>1
    <3> HIDE DEF of
    <3>3. PICK b \in gates : GateName(b) = n /\ entries'[n] = Properties(b)
      BY <3>1, <3>2
    <3>4. b \in device.native /\ b \in Qubits12
      OBVIOUS
    <3>5. \A i \in DOMAIN entries'[n] : IsPlaceFor(b, i)
      BY <1>0, <3>3, <3>4, PropertiesPlaces
    <3>6. \A i \in DOMAIN entries'[n] : IsPlaceFor(b, i)'
      BY <2>1, <3>5, PlacesKept
    <3>7. IsOfTheDevice(n, b)'
      BY <2>1, <3>3, <3>4, <3>6 DEF IsOfTheDevice
    <3> QED
      BY <3>4, <3>7 DEF EntryInv
  <2> QED
    BY <1>0, <2>1, <2>2, PlacesKept DEF PlacesInv, EntriesInv
<1>3. CASE EndCalibrated
  <2>1. /\ UNCHANGED <<device, known, entries, substitutes>>
        /\ stage = "calibrated" /\ stage' = "finish"
    BY <1>3 DEF EndCalibrated
  <2>2. \A n \in DOMAIN entries : EntryInv(n)'
    BY <1>0, <2>1, PlacesKept DEF EntriesInv
  <2> QED
    BY <1>0, <2>1, <2>2, PlacesKept DEF PlacesInv, EntriesInv
<1>4. CASE FinishTarget
  <2>1. /\ device' = device /\ known' = known /\ substitutes' = substitutes
        /\ stage = "finish" /\ stage' = "built" /\ device.type = "qpu"
        /\ DOMAIN entries \subseteq DOMAIN entries' /\ "measure" \in DOMAIN entries'
        /\ \A n \in DOMAIN entries : entries'[n] = entries[n]
        /\ \A n \in DOMAIN entries' \ DOMAIN entries :
             \/ n = "measure" /\ entries'[n] = known.readout
             \/ n \in {"if_else", "barrier"} /\ entries'[n] = Anywhere
    BY <1>0, <1>4 DEF FinishTarget, Over, IfElse, EntriesInv
  <2>2. ASSUME NEW n \in DOMAIN entries' PROVE EntryInv(n)'
    <3>1. CASE n \in DOMAIN entries
      BY <1>0, <2>1, <3>1, PlacesKept DEF EntriesInv
    <3>2. CASE n = "measure" /\ entries'[n] = known.readout
      BY <1>0, <2>1, <3>2, PlacesKept DEF EntryInv, KnownInv
    <3>3. CASE n \in {"if_else", "barrier"} /\ entries'[n] = Anywhere
      BY <2>1, <3>3 DEF EntryInv, Anywhere
    <3> QED
      BY <2>1, <3>1, <3>2, <3>3
  <2>3. TargetIsQpu'
    <3>1. entries'["measure"] # Anywhere
      <4>1. CASE "measure" \notin DOMAIN entries
        <5>1. entries'["measure"] = known.readout
          BY <2>1, <4>1
        <5> QED
          BY <1>0, <2>1, <5>1 DEF EntriesInv
      <4>2. CASE "measure" \in DOMAIN entries
        <5>1. EntryInv("measure")
          BY <1>0, <2>1, <4>2 DEF EntriesInv
        <5>2. << >> \in DOMAIN Anywhere /\ \A b : ~IsPlaceFor(b, << >>) /\ ~IsPlace1(<< >>)
          BY DEF Anywhere, IsPlaceFor, IsPlace1, IsPlace2
        <5>3. entries["measure"] # Anywhere
          BY <5>1, <5>2 DEF EntryInv, IsOfTheDevice
        <5> QED
          BY <2>1, <4>2, <5>3
      <4> QED
        BY <4>1, <4>2
    <3>2. Anywhere' = Anywhere
      BY DEF Anywhere
    <3> QED
      BY <2>1, <3>1, <3>2 DEF TargetIsQpu
  <2> QED
    BY <1>0, <2>1, <2>2, <2>3, PlacesKept DEF PlacesInv, EntriesInv
<1>5. CASE SimulatorTarget
  <2>1. /\ device' = device /\ known' = known /\ substitutes' = substitutes
        /\ stage = "read" /\ stage' = "built" /\ device.type = "simulator"
        /\ \A n \in DOMAIN entries' : entries'[n] = Anywhere /\ n \in SimulatorNames
    BY <1>5 DEF SimulatorTarget, SimulatorNames, IfElse
  <2>2. Anywhere' = Anywhere
    BY DEF Anywhere
  <2> QED
    BY <1>0, <2>1, <2>2, PlacesKept DEF PlacesInv, EntriesInv
<1>6. CASE RefuseDevice \/ UNCHANGED targetVars
  <2>1. UNCHANGED <<device, known, entries, substitutes>> /\ stage' \in {stage, "refused"}
    BY <1>6 DEF RefuseDevice, targetVars
  <2>2. \A n \in DOMAIN entries : EntryInv(n) => EntryInv(n)'
    BY <1>0, <2>1, PlacesKept
  <2>3. TargetIsQpu' = TargetIsQpu /\ Anywhere' = Anywhere
    BY <2>1 DEF TargetIsQpu, Anywhere
  <2>4. stage' = "native" \/ stage' = "read" => stage = stage'
    BY <2>1
  <2> QED
    BY <1>0, <2>1, <2>2, <2>3, <2>4, PlacesKept DEF PlacesInv, EntriesInv
<1>7. ASSUME NEW r \in left, SkipCalibrated(r) \/ AddFirst(r) \/ AddAnother(r)
      PROVE  PlacesInv'
  <2>1. /\ r \in Restrictions(device) /\ stage = "calibrated"
        /\ device' = device /\ known' = known
        /\ device.type = "qpu" /\ device.calibrations # {}
        /\ stage' \in {"calibrated", "refused"}
    BY <1>0, <1>7 DEF SkipCalibrated, AddFirst, AddAnother, Turn, TargetInv, EntriesInv
  <2>2. SUFFICES ASSUME NEW n \in DOMAIN entries' PROVE EntryInv(n)'
    <3>1. known'.readout # Anywhere /\ Anywhere' = Anywhere
      BY <1>0, <2>1 DEF EntriesInv, Anywhere
    <3>2. KnownInv'
      BY <1>0, <2>1, PlacesKept
    <3>3. EntriesInv'
      BY <2>1, <2>2, <3>1 DEF EntriesInv
    <3> QED
      BY <3>2, <3>3 DEF PlacesInv
  <2>3. ASSUME NEW i \in DOMAIN PropertiesAt(r), r.gate \in Qubits12
        PROVE  IsPlaceFor(r.gate, i)' /\ i \in r.at
    <3>1. i \in DOMAIN Properties(r.gate) /\ i \in r.at
      BY DEF PropertiesAt, Restrict
    <3> QED
      BY <1>0, <2>1, <2>3, <3>1, PropertiesPlaces, PlacesKept
  <2>4. AddsAs(r) # GateName(r.gate) => r.gate = "rx" /\ r.gate \in Qubits12 /\ NumQubits(r.gate) = 1
    BY SubstitutesAreOfRx DEF Qubits12, OneQubitGates
  <2>5. CASE UNCHANGED <<entries, substitutes>>
    BY <1>0, <2>1, <2>5, PlacesKept DEF EntriesInv
  <2>6. CASE AddFirst(r) /\ ~UNCHANGED <<entries, substitutes>>
    <3> DEFINE name == AddsAs(r)
    <3>1. /\ name \notin DOMAIN entries /\ r.gate \in Qubits12
          /\ entries' = Over(entries, [m \in {name} |-> PropertiesAt(r)])
          /\ substitutes' = IF name = GateName(r.gate) THEN substitutes
                            ELSE Over(substitutes,
                              [m \in {name} |-> Everywhere(DOMAIN PropertiesAt(r), r)])
      BY <2>6 DEF AddFirst, CanAdd, Qubits12
    <3> HIDE DEF name
    <3>2. /\ DOMAIN entries' = DOMAIN entries \cup {name}
          /\ entries'[name] = PropertiesAt(r)
          /\ \A m \in DOMAIN entries : entries'[m] = entries[m]
      BY <3>1 DEF Over
    <3>3. DOMAIN substitutes \subseteq DOMAIN substitutes'
      BY <3>1 DEF Over
    <3>4. CASE n # name
      BY <1>0, <2>1, <3>2, <3>3, <3>4, PlacesKept DEF EntriesInv
    <3>5. CASE n = name /\ name = GateName(r.gate)
      <4>1. IsOfTheDevice(n, r.gate)'
        BY <2>1, <2>3, <3>1, <3>2, <3>5 DEF IsOfTheDevice
      <4> QED
        BY <3>1, <4>1 DEF EntryInv
    <3>6. CASE n = name /\ name # GateName(r.gate)
      <4>1. n \in DOMAIN substitutes'
        BY <3>1, <3>6 DEF Over
      <4>2. \A i \in DOMAIN entries'[n] : IsPlace1(i)'
        BY <2>3, <2>4, <3>2, <3>6 DEF IsPlaceFor, name
      <4> QED
        BY <4>1, <4>2 DEF EntryInv
    <3> QED
      BY <3>4, <3>5, <3>6
  <2>7. CASE AddAnother(r) /\ ~UNCHANGED <<entries, substitutes>>
    <3> DEFINE name == AddsAs(r)
               props == PropertiesAt(r)
               places == Better(name, props)
    <3>1. /\ name # GateName(r.gate) /\ name \in DOMAIN entries /\ name \in DOMAIN substitutes
          /\ entries' = [entries EXCEPT ![name] = Over(Restrict(props, places), @)]
          /\ substitutes' = [substitutes EXCEPT ![name] = StandsFor(name, places, r)]
      BY <2>7 DEF AddAnother
    <3>2. places \subseteq DOMAIN props
      BY DEF Better
    <3>3. DOMAIN substitutes' = DOMAIN substitutes /\ DOMAIN entries' = DOMAIN entries
      BY <3>1
    <3>4. CASE n # name
      BY <1>0, <2>1, <3>1, <3>3, <3>4, PlacesKept DEF EntriesInv
    <3>5. CASE n = name
      <4>1. DOMAIN entries'[n] \subseteq places \cup DOMAIN entries[n]
        BY <3>1, <3>5 DEF Over, Restrict
      <4>2. \A i \in places : IsPlace1(i)'
        BY <2>3, <2>4, <3>1, <3>2 DEF IsPlaceFor
      <4>3. EntryInv(n)
        BY <1>0, <2>1, <3>3 DEF EntriesInv
      <4>4. r.gate = "rx" /\ n \in {"x", "sx", "sxdg"}
        BY <3>1, <3>5 DEF AddsAs, Substitutes
      <4>5. \A i \in DOMAIN entries[n] : IsPlace1(i)'
        <5>1. \A b \in Qubits12 : IsOfTheDevice(n, b) => NumQubits(b) = 1
          <6> SUFFICES ASSUME NEW b \in Qubits12, IsOfTheDevice(n, b) PROVE NumQubits(b) = 1
            OBVIOUS
          <6>1. GateName(b) \in {"x", "sx", "sxdg"}
            BY <4>4 DEF IsOfTheDevice
          <6> QED
            BY <6>1 DEF NumQubits, GateName, BraketToQiskitNames, Renamed, SameName,
                        Qubits12, OneQubitGates, TwoQubitGates
        <5>2. \A i \in DOMAIN entries[n] : IsPlace1(i)
          BY <4>3, <4>4, <5>1 DEF EntryInv, IsOfTheDevice, IsPlaceFor
        <5> QED
          BY <2>1, <5>2, PlacesKept
      <4>6. \A i \in DOMAIN entries'[n] : IsPlace1(i)'
        BY <4>1, <4>2, <4>5
      <4>7. n \in DOMAIN substitutes'
        BY <3>1, <3>3, <3>5
      <4> QED
        BY <4>6, <4>7 DEF EntryInv
    <3> QED
      BY <3>4, <3>5
  <2>8. SkipCalibrated(r) => UNCHANGED <<entries, substitutes>>
    BY DEF SkipCalibrated
  <2> QED
    BY <1>7, <2>5, <2>6, <2>7, <2>8
<1> QED
  BY <1>1, <1>2, <1>3, <1>4, <1>5, <1>6, <1>7 DEF BuildTarget

-----------------------------------------------------------------------------
(***************************************************************************)
(* The tables of names: each gate's name in a program, and what it means.  *)
(***************************************************************************)

(* The table of names is one to one, and QiskitToBraketNames its inverse.  *)
LEMMA NamesAreOfTheirGates ==
  /\ DOMAIN BraketToQiskitNames = DOMAIN Renamed \cup SameName
  /\ DOMAIN QiskitToBraketNames = Range(BraketToQiskitNames)
  /\ \A b \in SameName : BraketToQiskitNames[b] = b
  /\ \A b \in DOMAIN Renamed : BraketToQiskitNames[b] = Renamed[b]
  /\ \A b \in DOMAIN BraketToQiskitNames :
       BraketToQiskitNames[b] \in Range(BraketToQiskitNames) /\ BraketName(BraketToQiskitNames[b]) = b
<1> DEFINE f == BraketToQiskitNames
<1>1. DOMAIN f = DOMAIN Renamed \cup SameName
  BY DEF BraketToQiskitNames
<1>2. \A b \in SameName : f[b] = b
  BY DEF BraketToQiskitNames
<1>3. DOMAIN Renamed \cap SameName = {}
  BY DEF Renamed, SameName
<1>4. \A b \in DOMAIN Renamed : f[b] = Renamed[b]
  BY <1>3 DEF BraketToQiskitNames
<1>5. \A b \in DOMAIN Renamed : Renamed[b] \notin SameName
  BY DEF Renamed, SameName
<1>6. \A a, b \in DOMAIN Renamed : Renamed[a] = Renamed[b] => a = b
  BY DEF Renamed
<1>7. \A a, b \in DOMAIN f : f[a] = f[b] => a = b
  BY <1>1, <1>2, <1>4, <1>5, <1>6
<1>8. /\ DOMAIN QiskitToBraketNames = Range(f)
      /\ \A y \in Range(f) : QiskitToBraketNames[y] = CHOOSE s \in DOMAIN f : y \in Range(f) => f[s] = y
  BY DEF QiskitToBraketNames, AntiFunction, Inverse
<1>9. ASSUME NEW b \in DOMAIN f PROVE f[b] \in Range(f) /\ BraketName(f[b]) = b
  <2> DEFINE t == CHOOSE s \in DOMAIN f : f[b] \in Range(f) => f[s] = f[b]
  <2>1. f[b] \in Range(f)
    BY DEF Range
  <2>2. t \in DOMAIN f /\ f[b] = f[t]
    <3> HIDE DEF f
    <3> QED
      BY <2>1
  <2> HIDE DEF t
  <2>3. t = b
    BY <1>7, <2>2
  <2>4. QiskitToBraketNames[f[b]] = t
    BY <1>8, <2>1 DEF t
  <2> QED
    BY <1>8, <2>1, <2>3, <2>4 DEF BraketName
<1> QED
  BY <1>1, <1>2, <1>4, <1>8, <1>9

(* What Qiskit calls gates, and Braket has a name for.                     *)
QiskitGateNames == Range(BraketToQiskitNames) \cup ControlShims \cup AdditionalUGates

(* A name as to_oq3 writes a gate's, and what it is to mean.               *)
NameOf(op) == IF op \in AdditionalUGates THEN Plain("U") ELSE Shim(op)
ToBraketName(op) ==
  IF op \in ControlShims
    THEN Controlled(ControlledGates[op][1], QiskitControlledGateNamesToBraketGates[op])
  ELSE IF QiskitGateNameToBraketGate[op] = "u" THEN Plain("U")
  ELSE Plain(QiskitGateNameToBraketGate[op])
NameFits(op) ==
  /\ NameOf(op) = Plain("U") \/ NameOf(op) = OQ3Name(op)
  /\ Means(FinalName(NameOf(op)), op)
  /\ FinalName(NameOf(op)) = ToBraketName(op)

(* A gate that Qiskit and Braket call the same.                            *)
LEMMA SameNamesFit == \A op \in SameName \ Classes : NameFits(op)
<1> SUFFICES ASSUME NEW op \in SameName \ Classes PROVE NameFits(op)
  OBVIOUS
<1>1. op # "global_phase" /\ op \notin ControlShims /\ op \notin AdditionalUGates
  BY DEF SameName, ControlShims, AdditionalUGates
<1>2. op # "u" => op \notin DOMAIN ShimNames
  BY DEF SameName, ShimNames
<1>3. ShimNames["u"] = "U" /\ "u" \in DOMAIN ShimNames
  BY DEF ShimNames
<1>4. NameOf(op) = IF op = "u" THEN Plain("U") ELSE Plain(op)
  BY <1>1, <1>2, <1>3 DEF NameOf, Shim
<1>5. op \notin DOMAIN QiskitToControlPlaceholder
  BY DEF QiskitToControlPlaceholder, SameName, ControlledGates
<1>6. op \in DOMAIN BraketToQiskitNames /\ BraketToQiskitNames[op] = op
  BY NamesAreOfTheirGates
<1>7. op \in DOMAIN QiskitToBraketNames /\ QiskitToBraketNames[op] = op
  BY <1>6, NamesAreOfTheirGates DEF BraketName
<1>8. OQ3Name(op) = IF op = "u" THEN Plain("U") ELSE Plain(op)
  BY <1>1, <1>5, <1>7 DEF OQ3Name, QiskitToOQ3Names, Over
<1>9. QiskitGateNameToBraketGate[op] = op
  BY DEF QiskitGateNameToBraketGate, Over, SameName
<1>10. \A g : FinalName(Plain(g)) = Plain(g) /\ Plain(g).kind = "gate" /\ Plain(g).name = g
  BY DEF FinalName, Plain
<1>11. op # "U"
  BY DEF SameName
<1>12. Plain(op) # Plain("U")
  BY <1>10, <1>11
<1> HIDE DEF SameName
<1>13. Means(FinalName(NameOf(op)), op)
  BY <1>4, <1>6, <1>10, <1>12 DEF Means
<1> QED
  BY <1>1, <1>4, <1>8, <1>9, <1>10, <1>13 DEF NameFits, ToBraketName

(* A gate that Qiskit has another name for.                                *)
LEMMA RenamedFit == \A b \in DOMAIN Renamed : NameFits(Renamed[b])
<1> SUFFICES ASSUME NEW b \in DOMAIN Renamed PROVE NameFits(Renamed[b])
  OBVIOUS
<1> DEFINE op == Renamed[b]
<1>1. op \notin ControlShims /\ op \notin AdditionalUGates /\ op # "u"
  BY DEF Renamed, ControlShims, AdditionalUGates
<1>2. op # "global_phase" => op \in DOMAIN ShimNames /\ ShimNames[op] = b
  BY DEF Renamed, ShimNames
<1>3. op = "global_phase" <=> b = "gphase"
  BY DEF Renamed
<1>4. op \notin DOMAIN QiskitToControlPlaceholder
  BY DEF QiskitToControlPlaceholder, Renamed, ControlledGates
<1>5. b \in DOMAIN BraketToQiskitNames /\ BraketToQiskitNames[b] = op
  BY NamesAreOfTheirGates
<1>6. op \in DOMAIN QiskitToBraketNames /\ QiskitToBraketNames[op] = b
  BY <1>5, NamesAreOfTheirGates DEF BraketName
<1>7. QiskitGateNameToBraketGate[op] = b
  BY DEF QiskitGateNameToBraketGate, Over, Renamed
<1>8. b # "u" /\ b # "U"
  BY DEF Renamed
<1> HIDE DEF op
<1>9. NameOf(op) = IF op = "global_phase" THEN GPhasePlaceholder ELSE Plain(b)
  BY <1>1, <1>2 DEF NameOf, Shim
<1>10. OQ3Name(op) = IF op = "global_phase" THEN GPhasePlaceholder ELSE Plain(b)
  BY <1>1, <1>4, <1>6 DEF OQ3Name, QiskitToOQ3Names, Over
<1>11. \A g : FinalName(Plain(g)) = Plain(g) /\ Plain(g).kind = "gate" /\ Plain(g).name = g
  BY DEF FinalName, Plain
<1>12. FinalName(GPhasePlaceholder) = Plain("gphase")
  BY DEF FinalName, GPhasePlaceholder
<1>13. FinalName(NameOf(op)) = Plain(b)
  BY <1>3, <1>9, <1>11, <1>12
<1>14. Plain(b) # Plain("U")
  BY <1>8, <1>11
<1>15. Means(Plain(b), op)
  BY <1>5, <1>11, <1>14 DEF Means
<1>16. NameFits(op)
  BY <1>1, <1>7, <1>8, <1>9, <1>10, <1>13, <1>15 DEF NameFits, ToBraketName
<1> QED
  BY <1>16 DEF op

(* The base of a controlled gate.                                          *)
LEMMA BasesAreGates ==
  \A c \in ControlShims :
    /\ c \in DOMAIN ControlledGates
    /\ ControlledGates[c] = <<ControlledGates[c][1], ControlledGates[c][2]>>
    /\ ControlledGates[c][1] \in {1, 3}
    /\ \E b \in DOMAIN BraketToQiskitNames :
         /\ BraketToQiskitNames[b] = ControlledGates[c][2]
         /\ BraketName(ControlledGates[c][2]) = b
         /\ QiskitControlledGateNamesToBraketGates[c] = b
<1> SUFFICES ASSUME NEW c \in ControlShims
             PROVE  /\ c \in DOMAIN ControlledGates
                    /\ ControlledGates[c] = <<ControlledGates[c][1], ControlledGates[c][2]>>
                    /\ ControlledGates[c][1] \in {1, 3}
                    /\ \E b \in DOMAIN BraketToQiskitNames :
                         /\ BraketToQiskitNames[b] = ControlledGates[c][2]
                         /\ BraketName(ControlledGates[c][2]) = b
                         /\ QiskitControlledGateNamesToBraketGates[c] = b
  OBVIOUS
<1> DEFINE g == ControlledGates[c][2]
<1>1. /\ c \in DOMAIN ControlledGates
      /\ ControlledGates[c] = <<ControlledGates[c][1], g>>
      /\ ControlledGates[c][1] \in {1, 3}
      /\ g \in {"h", "s", "sdg", "sx", "rx", "ry", "rz", "cz"}
  BY DEF ControlShims, ControlledGates
<1>2. QiskitControlledGateNamesToBraketGates[c] = QiskitGateNameToBraketGate[g]
  BY <1>1 DEF QiskitControlledGateNamesToBraketGates
<1> HIDE DEF g
<1>3. CASE g \in {"h", "s", "rx", "ry", "rz", "cz"}
  <2>1. g \in SameName /\ QiskitGateNameToBraketGate[g] = g
    BY <1>3 DEF SameName, QiskitGateNameToBraketGate, Over
  <2> QED
    BY <1>1, <1>2, <2>1, NamesAreOfTheirGates DEF g
<1>4. CASE g \in {"sdg", "sx"}
  <2>1. \E b \in DOMAIN Renamed : Renamed[b] = g /\ QiskitGateNameToBraketGate[g] = b
    BY <1>4 DEF Renamed, SameName, QiskitGateNameToBraketGate, Over
  <2> QED
    BY <1>1, <1>2, <2>1, NamesAreOfTheirGates DEF g
<1> QED
  BY <1>1, <1>3, <1>4

(* A gate that Braket writes with a control modifier.                      *)
LEMMA ControlledFit == \A c \in ControlShims : NameFits(c)
<1> SUFFICES ASSUME NEW c \in ControlShims PROVE NameFits(c)
  OBVIOUS
<1> DEFINE n == ControlledGates[c][1]
           g == ControlledGates[c][2]
<1>1. /\ c \in DOMAIN ControlledGates /\ ControlledGates[c] = <<n, g>> /\ n \in {1, 3}
  BY BasesAreGates
<1>2. PICK b \in DOMAIN BraketToQiskitNames :
        /\ BraketToQiskitNames[b] = g /\ BraketName(g) = b
        /\ QiskitControlledGateNamesToBraketGates[c] = b
  BY BasesAreGates
<1> HIDE DEF n, g
<1>3. c \in DOMAIN QiskitToControlPlaceholder /\ QiskitToControlPlaceholder[c] = ControlPlaceholder(n, b)
  BY <1>1, <1>2 DEF QiskitToControlPlaceholder, Unlimited, n, g
<1>4. c \notin AdditionalUGates /\ c # "global_phase" /\ c # "u"
  BY DEF ControlShims, AdditionalUGates
<1>5. NameOf(c) = ControlPlaceholder(n, b)
  BY <1>3, <1>4 DEF NameOf, Shim
<1>6. OQ3Name(c) = ControlPlaceholder(n, b)
  BY <1>3, <1>4 DEF OQ3Name, QiskitToOQ3Names, Over
<1>7. FinalName(ControlPlaceholder(n, b)) = Controlled(n, b)
  BY DEF FinalName, ControlPlaceholder
<1>8. Controlled(n, b).kind = "ctrl" /\ Controlled(n, b).name = b /\ Controlled(n, b).n = n
  BY DEF Controlled
<1>9. Means(Controlled(n, b), c)
  BY <1>1, <1>2, <1>8 DEF Means
<1>10. ToBraketName(c) = Controlled(n, b)
  BY <1>2 DEF ToBraketName, n
<1> QED
  BY <1>5, <1>6, <1>7, <1>9, <1>10 DEF NameFits

(* u1, u2 and u3 are written as U.                                         *)
LEMMA AdditionalUFit == \A u \in AdditionalUGates : NameFits(u)
<1> SUFFICES ASSUME NEW u \in AdditionalUGates PROVE NameFits(u)
  OBVIOUS
<1>1. u \notin ControlShims /\ QiskitGateNameToBraketGate[u] = "u"
  BY DEF AdditionalUGates, ControlShims, QiskitGateNameToBraketGate, Over
<1>2. FinalName(Plain("U")) = Plain("U") /\ Plain("U").kind = "gate"
  BY DEF FinalName, Plain
<1>3. NameOf(u) = Plain("U")
  BY DEF NameOf
<1> QED
  BY <1>1, <1>2, <1>3 DEF NameFits, ToBraketName, Means

(* Every gate that Qiskit and Braket have: its shim is what OpenQASM is    *)
(* told of it, and what is written means it, as to_braket would.           *)
LEMMA NamesFit == \A op \in QiskitGateNames \ Classes : NameFits(op)
<1> SUFFICES ASSUME NEW op \in QiskitGateNames \ Classes PROVE NameFits(op)
  OBVIOUS
<1>1. CASE op \in Range(BraketToQiskitNames)
  <2>1. PICK b \in DOMAIN BraketToQiskitNames : op = BraketToQiskitNames[b]
    BY <1>1 DEF Range
  <2>2. CASE b \in SameName
    BY <2>1, <2>2, NamesAreOfTheirGates, SameNamesFit
  <2>3. CASE b \in DOMAIN Renamed
    BY <2>1, <2>3, NamesAreOfTheirGates, RenamedFit
  <2> QED
    BY <2>1, <2>2, <2>3, NamesAreOfTheirGates
<1> QED
  BY <1>1, ControlledFit, AdditionalUFit DEF QiskitGateNames

(* No gate that Qiskit and Braket have is called as something else is.     *)
LEMMA NamesAreGates ==
  \A n \in Range(BraketToQiskitNames) :
    n \notin DOMAIN ControlledGates \cup AdditionalUGates \cup NonGateTargetOps
               \cup {"reset", "CCPRx", "MeasureFF"}
<1> DEFINE others == DOMAIN ControlledGates \cup AdditionalUGates \cup NonGateTargetOps
                       \cup {"reset", "CCPRx", "MeasureFF"}
<1>1. SameName \cap others = {}
  BY DEF SameName, ControlledGates, AdditionalUGates, NonGateTargetOps
<1>2. \A b \in DOMAIN Renamed : Renamed[b] \notin others
  BY DEF Renamed, ControlledGates, AdditionalUGates, NonGateTargetOps
<1> HIDE DEF others
<1>3. ASSUME NEW b \in DOMAIN BraketToQiskitNames PROVE BraketToQiskitNames[b] \notin others
  BY <1>1, <1>2, NamesAreOfTheirGates
<1> QED
  BY <1>3 DEF Range, others

(* What a device's gates are called: a phase is on no qubit.               *)
LEMMA NamesOfGates ==
  \A b \in Qubits12 :
    /\ GateName(b) \in Range(BraketToQiskitNames) \cup AdditionalUGates
                         \cup {"measure", "CCPRx", "MeasureFF"}
    /\ GateName(b) \notin Classes \cup {"global_phase"}
<1> SUFFICES ASSUME NEW b \in Qubits12
             PROVE  /\ GateName(b) \in Range(BraketToQiskitNames) \cup AdditionalUGates
                                         \cup {"measure", "CCPRx", "MeasureFF"}
                    /\ GateName(b) \notin Classes \cup {"global_phase"}
  OBVIOUS
<1>1. b \notin {"gphase", "unitary", "kraus"}
  BY DEF Qubits12, OneQubitGates, TwoQubitGates
<1>2. CASE b \in DOMAIN Renamed
  <2>1. Renamed[b] \notin Classes \cup {"global_phase"} /\ b \notin {"cc_prx", "measure_ff"}
    BY <1>1, <1>2 DEF Renamed, Classes
  <2> QED
    BY <1>2, <2>1, NamesAreOfTheirGates DEF GateName
<1>3. CASE b \in SameName
  <2>1. b \notin Classes \cup {"global_phase"} /\ b \notin {"cc_prx", "measure_ff"}
    BY <1>1, <1>3 DEF SameName, Classes
  <2> QED
    BY <1>3, <2>1, NamesAreOfTheirGates DEF GateName
<1>4. CASE b \notin DOMAIN Renamed \cup SameName
  <2>1. b \in AdditionalUGates \cup {"measure", "cc_prx", "measure_ff"}
    BY <1>4 DEF Renamed, SameName, Qubits12, OneQubitGates, TwoQubitGates, AdditionalUGates
  <2>2. b \notin DOMAIN BraketToQiskitNames
    BY <1>4, NamesAreOfTheirGates
  <2> QED
    BY <2>1, <2>2 DEF GateName, AdditionalUGates, Classes
<1> QED
  BY <1>2, <1>3, <1>4

(* mcx, whose controls have no number, is the one controlled gate that has *)
(* no shim, and no device that lists its own gates has it.                 *)
LEMMA OnlyMcxIsOpen ==
  /\ DOMAIN ControlledGates = ControlShims \cup {"mcx"}
  /\ "mcx" \notin StandardGates /\ BraketName("mcx") \notin QiskitGates
<1>1. DOMAIN ControlledGates = ControlShims \cup {"mcx"}
  BY DEF ControlledGates, ControlShims
<1>2. "mcx" \notin Range(BraketToQiskitNames)
  BY <1>1, NamesAreGates
<1>3. "mcx" \notin StandardGates
  BY <1>2 DEF StandardGates, AdditionalUGates
<1>4. BraketName("mcx") = "mcx"
  BY <1>2, NamesAreOfTheirGates DEF BraketName
<1>5. "mcx" \notin QiskitGates
  BY DEF QiskitGates, OneQubitGates, TwoQubitGates, OtherGates, Classes
<1> QED
  BY <1>1, <1>3, <1>4, <1>5

(* gateset_from_properties: gates, and what may be controlled of them.     *)
LEMMA GatesetIsOfGates ==
  ASSUME NEW dev
  PROVE  GatesetFromProperties(dev) \subseteq QiskitGateNames \cup {"mcx"}
<1>1. QiskitNames(dev.operations) \subseteq Range(BraketToQiskitNames)
  BY DEF QiskitNames, Range
<1>2. \A gates, max : ControlledGateset(gates, max) \subseteq ControlShims \cup {"mcx"}
  BY OnlyMcxIsOpen DEF ControlledGateset
<1> QED
  BY <1>1, <1>2 DEF GatesetFromProperties, QiskitGateNames

(* A simulator's target has gates, and what may be controlled of them.     *)
LEMMA SimulatorHasGates ==
  SimulatorNames \subseteq QiskitGateNames \cup NonGateTargetOps
<1>1. SimulatorGates(device) \subseteq Range(BraketToQiskitNames)
  BY DEF SimulatorGates, Range
<1>2. \A gates, max : ControlledGateset(gates, max) \cap StandardGates \subseteq ControlShims
  BY OnlyMcxIsOpen DEF ControlledGateset
<1> QED
  BY <1>1, <1>2 DEF SimulatorNames, QiskitGateNames, NonGateTargetOps

(* A gate is none of what is no gate.                                      *)
LEMMA GatesAreNoBlocks ==
  \A n \in QiskitGateNames \cup {"mcx"} : n \notin NonGateTargetOps \cup {"reset", "CCPRx", "MeasureFF"}
BY NamesAreGates DEF QiskitGateNames, ControlShims, AdditionalUGates, NonGateTargetOps

(* A controlled gate has one qubit more than its base, or three.           *)
LEMMA ControlledQubitsAre ==
  \A c \in ControlShims : ControlledQubits(c) \in 1..4
<1> SUFFICES ASSUME NEW c \in ControlShims PROVE ControlledQubits(c) \in 1..4
  OBVIOUS
<1>1. CASE c = "c3sx"
  <2>1. "sx" = Renamed["v"] /\ "v" \in DOMAIN Renamed /\ NumQubits("v") = 1
    BY DEF Renamed, NumQubits, OneQubitGates
  <2>2. BraketName("sx") = "v"
    BY <2>1, NamesAreOfTheirGates
  <2> QED
    BY <1>1, <2>1, <2>2 DEF ControlledQubits, ControlledGates
<1>2. CASE c # "c3sx"
  <2>1. ControlledGates[c][1] = 1
    BY <1>2 DEF ControlledGates, ControlShims
  <2>2. NumQubits(BraketName(ControlledGates[c][2])) \in 1..3
    BY DEF NumQubits
  <2> QED
    BY <2>1, <2>2 DEF ControlledQubits
<1> QED
  BY <1>1, <1>2

-----------------------------------------------------------------------------
(***************************************************************************)
(* What is compiled is a circuit, whichever way it is transpiled.          *)
(***************************************************************************)

(* Cutting labels off leaves one at least.                                 *)
LEMMA FirstOfFacts ==
  ASSUME NEW S, NEW s \in Seq(S), Len(s) # 0, NEW k \in Nat, k # 0
  PROVE  /\ FirstOf(s, k) \in Seq(S) /\ FirstOf(s, k) # << >>
         /\ k <= Len(s) => Len(FirstOf(s, k)) = k
<1> DEFINE m == IF k < Len(s) THEN k ELSE Len(s)
<1>1. m \in Nat /\ m # 0 /\ m <= Len(s) /\ 1 <= m /\ (k <= Len(s) => m = k)
  OBVIOUS
<1>2. FirstOf(s, k) = SubSeq(s, 1, m)
  BY DEF FirstOf
<1> HIDE DEF m
<1>3. SubSeq(s, 1, m) \in Seq(S) /\ Len(SubSeq(s, 1, m)) = m
  BY <1>1
<1> QED
  BY <1>1, <1>2, <1>3

(* A gate is on as many qubits as it has; only a phase is on none.         *)
LEMMA WiresFacts ==
  ASSUME NEW n
  PROVE  /\ Wires(n) \in Seq(0..3)
         /\ Wires(n) = << >> <=> n = "global_phase"
         /\ n \in ControlShims => Len(Wires(n)) = ControlledQubits(n)
<1>0. ControlShims \subseteq DOMAIN ControlledGates
  BY OnlyMcxIsOpen
<1>1. \A b : NumQubits(b) \in 1..3
  BY DEF NumQubits
<1>2. <<0, 1, 2>> \in Seq(0..3) /\ Len(<<0, 1, 2>>) # 0
  OBVIOUS
<1>3. <<0, 1, 2, 3>> \in Seq(0..3) /\ Len(<<0, 1, 2, 3>>) = 4
  OBVIOUS
<1>4. CASE n = "global_phase"
  BY <1>4 DEF Wires, ControlShims
<1>5. CASE n # "global_phase" /\ n \in Classes
  BY <1>5 DEF Wires, ControlShims, Classes
<1>6. CASE n # "global_phase" /\ n \notin Classes /\ n \in DOMAIN ControlledGates
  <2>1. ControlledGates[n][1] \in Nat
    BY <1>6 DEF ControlledGates, Unlimited
  <2> DEFINE k == ControlledQubits(n)
  <2>2. k \in Nat /\ k # 0
    BY <1>1, <2>1 DEF ControlledQubits
  <2>3. Wires(n) = FirstOf(<<0, 1, 2, 3>>, k)
    BY <1>6 DEF Wires
  <2>4. n \in ControlShims => k <= 4
    BY ControlledQubitsAre
  <2> DEFINE s == <<0, 1, 2, 3>>
             S == 0..3
  <2>5. s \in Seq(S) /\ Len(s) = 4 /\ Len(s) # 0
    BY <1>3
  <2> HIDE DEF k, s, S
  <2>6. FirstOf(s, k) \in Seq(S) /\ FirstOf(s, k) # << >> /\ (k <= Len(s) => Len(FirstOf(s, k)) = k)
    BY <2>2, <2>5, FirstOfFacts
  <2>7. Wires(n) = FirstOf(s, k)
    BY <2>3 DEF s
  <2> QED
    BY <1>6, <2>4, <2>5, <2>6, <2>7 DEF k, S
<1>7. CASE n # "global_phase" /\ n \notin Classes /\ n \notin DOMAIN ControlledGates /\ n \in AdditionalUGates
  BY <1>0, <1>7 DEF Wires
<1>8. CASE n # "global_phase" /\ n \notin Classes /\ n \notin DOMAIN ControlledGates /\ n \notin AdditionalUGates
  <2> DEFINE k == NumQubits(BraketName(n))
  <2>1. k \in Nat /\ k # 0
    BY <1>1
  <2>2. Wires(n) = FirstOf(<<0, 1, 2>>, k)
    BY <1>8 DEF Wires
  <2> DEFINE s == <<0, 1, 2>>
  <2>3. s \in Seq(0..3) /\ Len(s) # 0
    BY <1>2
  <2> HIDE DEF k, s
  <2>4. FirstOf(s, k) \in Seq(0..3) /\ FirstOf(s, k) # << >>
    BY <2>1, <2>3, FirstOfFacts
  <2>5. Wires(n) = FirstOf(s, k)
    BY <2>2 DEF s
  <2> QED
    BY <1>0, <1>8, <2>4, <2>5
<1> QED
  BY <1>4, <1>5, <1>6, <1>7, <1>8

(* The sequence of one element.                                            *)
LEMMA OneElement ==
  ASSUME NEW e
  PROVE  Range(<<e>>) = {e} /\ <<e>> \in Seq({e})
<1>1. DOMAIN <<e>> = 1..1 /\ <<e>>[1] = e
  OBVIOUS
<1>2. Range(<<e>>) = {e}
  BY <1>1 DEF Range
<1> QED
  BY <1>2

(* A gate and a measurement make a circuit.                                *)
LEMMA OneGateIsCircuit ==
  ASSUME Width \in Nat, Width # 0, NEW op, NEW param,
         NEW q \in Seq(0..(Width - 1)), op = "global_phase" <=> q = << >>,
         op \in ControlShims => Len(q) = ControlledQubits(op),
         op \notin {"box", "if_else"}, NEW layout \in BOOLEAN
  PROVE  IsCircuit(OneGate(op, param, q, layout))
<1> DEFINE c == OneGate(op, param, q, layout)
           x == Inst(op, param, 1, q, << >>)
           y == Inst("measure", "none", 2, <<0>>, <<0>>)
<1>1. /\ DOMAIN c = CircuitFields
      /\ c.width = Width /\ c.qregs = <<[name |-> "q", size |-> Width]>>
      /\ c.physical = NoLabels /\ c.layout = layout /\ c.bits = 1
      /\ c.cregs = <<[name |-> "meas", bits |-> <<0>>]>> /\ c.outputs = {}
      /\ c.phase = {} /\ c.insts = <<x, y>>
      /\ c = [f \in DOMAIN c |-> c[f]]
  BY DEF OneGate, CircuitFields
<1>2. Insts(c) = {x, y} /\ c.insts \in Seq(Insts(c))
  BY <1>1 DEF Insts, Range
<1>3. /\ c.qregs \in Seq(Range(c.qregs)) /\ c.cregs \in Seq(Range(c.cregs))
      /\ \A r \in Range(c.cregs) : r.bits \in Seq(Nat)
  <2> DEFINE a == [name |-> "q", size |-> Width]
             b == [name |-> "meas", bits |-> <<0>>]
  <2>1. c.qregs = <<a>> /\ c.cregs = <<b>> /\ b.bits = <<0>>
    BY <1>1
  <2> HIDE DEF a, b, c
  <2>2. Range(c.qregs) = {a} /\ Range(c.cregs) = {b}
    BY <2>1, OneElement
  <2>3. <<a>> \in Seq({a}) /\ <<b>> \in Seq({b}) /\ <<0>> \in Seq(Nat)
    OBVIOUS
  <2> QED
    BY <2>1, <2>2, <2>3
<1>4. NoLabels \in Seq(Int)
  BY DEF NoLabels
<1>5. c \in [width : Nat, qregs : Seq(Range(c.qregs)), physical : Seq(Int),
            layout : BOOLEAN, bits : Nat, cregs : Seq(Range(c.cregs)),
            outputs : SUBSET STRING, phase : SUBSET Nat, insts : Seq(Insts(c))]
  <2> DEFINE t == c.insts
             Q == c.qregs
             C == c.cregs
             QS == Seq(Range(Q))
             CS == Seq(Range(C))
             TS == Seq(Insts(c))
  <2>4. c = [width |-> Width, qregs |-> Q,
             physical |-> NoLabels, layout |-> layout, bits |-> 1,
             cregs |-> C, outputs |-> {}, phase |-> {}, insts |-> t]
    BY DEF OneGate
  <2>5. Q \in QS /\ C \in CS /\ t \in TS
    BY <1>2, <1>3
  <2> HIDE DEF c, t, Q, C, QS, CS, TS
  <2>6. c \in [width : Nat, qregs : QS,
            physical : Seq(Int), layout : BOOLEAN, bits : Nat, cregs : CS,
            outputs : SUBSET STRING, phase : SUBSET Nat, insts : TS]
    BY <1>4, <2>4, <2>5
  <2> QED
    BY <2>6 DEF QS, CS, TS, Q, C
<1>6. IsInstruction(x, c) /\ IsInstruction(y, c)
  <2> DEFINE P == [kind : {"if", "box"}, id : Nat \ {0}, bit : -1..(c.bits - 1)]
             W == 0..(Width - 1)
             B == 0..(c.bits - 1)
  <2>1. << >> \in Seq(P) /\ << >> \in Seq(B)
    OBVIOUS
  <2>2. 0 \in W /\ 0 \in B
    BY <1>1
  <2>3. q \in Seq(W)
    OBVIOUS
  <2> HIDE DEF W, B, P
  <2>4. <<0>> \in Seq(W) /\ <<0>> \in Seq(B) /\ <<0>> # << >>
    BY <2>2
  <2>5. 0..(c.width - 1) = W /\ 0..(c.bits - 1) = B
    BY <1>1 DEF W, B
  <2>6. IsInstruction(x, c)
    BY <2>1, <2>3, <2>5 DEF IsInstruction, Inst, P, B
  <2>8. "measure" \notin ControlShims
    BY DEF ControlShims
  <2>7. IsInstruction(y, c)
    BY <2>1, <2>4, <2>5, <2>8 DEF IsInstruction, Inst, P, B
  <2> QED
    BY <2>6, <2>7
<1>7. Range(c.qregs) = {[name |-> "q", size |-> Width]}
  BY <1>1 DEF Range
<1>8. "b" \in Range(PlainNames)
  <2>1. PlainNames[1] = "b" /\ 1 \in DOMAIN PlainNames
    BY DEF PlainNames
  <2> QED
    BY <2>1 DEF Range
<1> HIDE DEF c
<1>9. /\ Len(c.qregs) = 1 => c.qregs[1].size = c.width
      /\ c.qregs # << >>
  BY <1>1
<1>10. \A i, j \in DOMAIN c.cregs : c.cregs[i].name = c.cregs[j].name => i = j
  BY <1>1
<1>11. \E n \in Range(PlainNames) :
         n \notin c.outputs \cup {r.name : r \in Range(c.qregs)}
  BY <1>1, <1>7, <1>8
<1>12. \A n \in Range(PlainNames) : \A r \in Range(c.qregs) :
         EndsWith(n, r.name) => n = r.name
  BY <1>7, EndsWithAssumption
<1>13. /\ x.id = 1 /\ y.id = 2 /\ x.path = << >> /\ y.path = << >>
       /\ DOMAIN c.insts = {1, 2} /\ c.insts[1] = x /\ c.insts[2] = y
  BY <1>1 DEF Inst
<1> HIDE DEF x, y
<1>14. \A i, j \in DOMAIN c.insts : c.insts[i].id = c.insts[j].id => i = j
  BY <1>13
<1>15. BlocksInOnePiece(c.insts)
  <2>1. \A i \in DOMAIN c.insts : Range(c.insts[i].path) = {}
    BY <1>13 DEF Range
  <2> QED
    BY <2>1 DEF BlocksInOnePiece
<1> QED
  BY <1>2, <1>3, <1>5, <1>6, <1>9, <1>10, <1>11, <1>12, <1>13, <1>14, <1>15
    DEF IsCircuit, c

(* Offered as: for x, sx or sxdg, and by a rotation about x.               *)
LEMMA OfferedByRotations ==
  ASSUME Offered, NEW n \in DOMAIN substitutes, NEW i \in DOMAIN substitutes[n]
  PROVE  n \in {"x", "sx", "sxdg"} /\ substitutes[n][i].gate = "rx"
<1>1. Stands(n, i, substitutes[n][i])
  BY DEF Offered
<1> QED
  BY <1>1 DEF Stands, Calibrated, Substitutes

(* Substituting gates by rotations leaves a circuit one.                   *)
LEMMA SubstitutedIsCircuit ==
  ASSUME NEW c, IsCircuit(c), Offered
  PROVE  IsCircuit(Substituted(c)) /\ Substituted(c).layout = c.layout
<1> DEFINE d == Substituted(c)
           I == Insts(d)
<1>1. /\ c \in [width : Nat, qregs : Seq(Range(c.qregs)), physical : Seq(Int),
            layout : BOOLEAN, bits : Nat, cregs : Seq(Range(c.cregs)),
            outputs : SUBSET STRING, phase : SUBSET Nat, insts : Seq(Insts(c))]
      /\ \A r \in Range(c.cregs) : r.bits \in Seq(Nat)
  BY DEF IsCircuit
<1>2. d = [width |-> c.width, qregs |-> c.qregs, physical |-> c.physical,
           layout |-> c.layout, bits |-> c.bits, cregs |-> c.cregs,
           outputs |-> c.outputs, phase |-> c.phase,
           insts |-> [i \in DOMAIN c.insts |-> Substitute(c.insts[i])]]
  <2> DEFINE t == [i \in DOMAIN c.insts |-> Substitute(c.insts[i])]
  <2>1. d = [c EXCEPT !.insts = t]
    BY DEF Substituted
  <2> HIDE DEF t, d
  <2>2. /\ DOMAIN c = CircuitFields
        /\ c = [f \in DOMAIN c |-> c[f]]
    BY <1>1 DEF CircuitFields
  <2>3. /\ DOMAIN d = CircuitFields /\ d = [f \in CircuitFields |-> d[f]]
        /\ d.insts = t
        /\ d.width = c.width /\ d.qregs = c.qregs /\ d.physical = c.physical
        /\ d.layout = c.layout /\ d.bits = c.bits /\ d.cregs = c.cregs
        /\ d.outputs = c.outputs /\ d.phase = c.phase
    BY <2>1, <2>2 DEF CircuitFields
  <2>4. d = [width |-> c.width, qregs |-> c.qregs, physical |-> c.physical,
           layout |-> c.layout, bits |-> c.bits, cregs |-> c.cregs,
           outputs |-> c.outputs, phase |-> c.phase, insts |-> t]
    BY <2>3 DEF CircuitFields
  <2> QED
    BY <2>4 DEF t
<1>3. DOMAIN c.insts = 1..Len(c.insts) /\ Len(c.insts) \in Nat
  BY <1>1
<1>4. d.insts \in Seq(I)
  <2>1. d.insts = [i \in 1..Len(c.insts) |-> Substitute(c.insts[i])]
    BY <1>2, <1>3
  <2>2. \A i \in 1..Len(c.insts) : Substitute(c.insts[i]) \in I
    BY <2>1 DEF Insts, Range
  <2> HIDE DEF I, d
  <2> QED
    BY <1>3, <2>1, <2>2
<1> HIDE DEF I, d
<1>5. d \in [width : Nat, qregs : Seq(Range(d.qregs)), physical : Seq(Int),
            layout : BOOLEAN, bits : Nat, cregs : Seq(Range(d.cregs)),
            outputs : SUBSET STRING, phase : SUBSET Nat, insts : Seq(I)]
  <2>1. d = [width |-> c.width, qregs |-> c.qregs, physical |-> c.physical,
           layout |-> c.layout, bits |-> c.bits, cregs |-> c.cregs,
           outputs |-> c.outputs, phase |-> c.phase, insts |-> d.insts]
    BY <1>2
  <2>2. Range(d.qregs) = Range(c.qregs) /\ Range(d.cregs) = Range(c.cregs)
    BY <1>2
  <2> QED
    BY <1>1, <1>4, <2>1, <2>2
<1>6. ASSUME NEW x, IsInstruction(x, c) PROVE IsInstruction(Substitute(x), d)
  <2>1. c.width = d.width /\ c.bits = d.bits
    BY <1>2
  <2>2. CASE x.path = << >> /\ x.op \in DOMAIN substitutes /\ x.q \in DOMAIN substitutes[x.op]
    <3> DEFINE by == substitutes[x.op][x.q]
               y == Substitute(x)
    <3>1. x.op \in {"x", "sx", "sxdg"} /\ by.gate = "rx"
      BY <2>2, OfferedByRotations
    <3>2. y = [x EXCEPT !.op = GateName(by.gate), !.param = by.param]
      BY <2>2 DEF Substitute
    <3>3. GateName(by.gate) = "rx"
      BY <3>1 DEF GateName, BraketToQiskitNames, Renamed, SameName
    <3> HIDE DEF by, y
    <3>4. /\ DOMAIN y = DOMAIN x /\ y.q = x.q /\ y.c = x.c /\ y.path = x.path
          /\ y.op = "rx"
      BY <1>6, <3>2, <3>3 DEF IsInstruction
    <3>5. x.q # << >>
      BY <1>6, <3>1 DEF IsInstruction
    <3>6. "rx" \notin ControlShims
      BY DEF ControlShims
    <3> QED
      BY <1>6, <2>1, <3>4, <3>5, <3>6 DEF IsInstruction, y
  <2>3. CASE ~(x.path = << >> /\ x.op \in DOMAIN substitutes /\ x.q \in DOMAIN substitutes[x.op])
    <3>1. Substitute(x) = x
      BY <2>3 DEF Substitute
    <3> QED
      BY <1>6, <2>1, <3>1 DEF IsInstruction
  <2> QED
    BY <2>2, <2>3
<1>7. \A x \in Insts(d) : IsInstruction(x, d)
  <2> SUFFICES ASSUME NEW x \in Insts(d) PROVE IsInstruction(x, d)
    OBVIOUS
  <2>1. PICK i \in DOMAIN d.insts : x = d.insts[i]
    BY DEF Insts, Range
  <2>2. x = Substitute(c.insts[i]) /\ c.insts[i] \in Insts(c)
    BY <1>2, <2>1 DEF Insts, Range
  <2> QED
    BY <1>6, <2>2 DEF IsCircuit
<1>8. /\ d.qregs = c.qregs /\ d.width = c.width /\ d.physical = c.physical
      /\ d.cregs = c.cregs /\ d.outputs = c.outputs /\ d.layout = c.layout
  BY <1>2
<1>9. /\ DOMAIN d.insts = DOMAIN c.insts
      /\ \A i \in DOMAIN c.insts : /\ d.insts[i].id = c.insts[i].id
                                  /\ d.insts[i].path = c.insts[i].path
  <2>1. \A i \in DOMAIN c.insts : DOMAIN c.insts[i] = {"op", "param", "id", "q", "c", "path"}
    BY <1>3, CircuitFacts DEF IsInstruction
  <2>2. ASSUME NEW x, DOMAIN x = {"op", "param", "id", "q", "c", "path"}
        PROVE  Substitute(x).id = x.id /\ Substitute(x).path = x.path
    BY <2>2 DEF Substitute
  <2> QED
    BY <1>2, <2>1, <2>2
<1>10. \A i, j \in DOMAIN d.insts : d.insts[i].id = d.insts[j].id => i = j
  BY <1>9 DEF IsCircuit
<1>11. BlocksInOnePiece(d.insts)
  <2>1. BlocksInOnePiece(c.insts)
    BY DEF IsCircuit
  <2> QED
    BY <1>9, <2>1 DEF BlocksInOnePiece
<1> QED
  BY <1>1, <1>5, <1>7, <1>8, <1>10, <1>11 DEF IsCircuit, I, d

(* The call is as it was given.                                            *)
Given == call.mode \in Modes /\ IsCircuit(call.circuit)

(* A qubit's index is one of the circuit's qubits.                         *)
LEMMA IndexBelow ==
  ASSUME device \in Devices, NEW q \in device.nodes
  PROVE  /\ Cardinality(device.nodes) \in Nat /\ Cardinality(device.nodes) # 0
         /\ Index(device, q) \in 0..(Cardinality(device.nodes) - 1)
<1> DEFINE N == device.nodes
           U == {p \in N : p < q}
<1>1. IsFiniteSet(N) /\ N \subseteq Int
  BY DevicesAssumption
<1>2. U \in SUBSET N /\ q \in N /\ q \notin U
  BY <1>1
<1>3. Cardinality(N) \in Nat /\ Cardinality(U) \in Nat /\ Cardinality(U) < Cardinality(N)
  BY <1>1, <1>2, FS_Subset, FS_CardinalityType
<1> QED
  BY <1>3 DEF Index

(* And so are the indices of a place.                                      *)
LEMMA PlacesAreQubits ==
  ASSUME device \in Devices, device.type # "simulator", NEW i,
         IsPlace1(i) \/ IsPlace2(i)
  PROVE  /\ Width \in Nat /\ Width # 0
         /\ i \in Seq(0..(Width - 1)) /\ i # << >>
<1> DEFINE W == 0..(Width - 1)
<1>1. Width = Cardinality(device.nodes)
  BY DEF Width
<1>2. \A q \in device.nodes : Index(device, q) \in W /\ Width \in Nat /\ Width # 0
  BY <1>1, IndexBelow
<1> HIDE DEF W
<1>3. CASE IsPlace1(i)
  <2>1. PICK q \in device.nodes : i = <<Index(device, q)>>
    BY <1>3 DEF IsPlace1
  <2> QED
    BY <1>2, <2>1 DEF W
<1>4. CASE IsPlace2(i)
  <2>1. PICK a \in device.nodes, b \in device.nodes : i = <<Index(device, a), Index(device, b)>>
    BY <1>4 DEF IsPlace2
  <2> QED
    BY <1>2, <2>1 DEF W
<1> QED
  BY <1>3, <1>4

(* The gates of a target are none of what is no gate, and on the qubits of *)
(* a device there are neither phases nor gates under controls.             *)
LEMMA NamesOnQubits ==
  \A b \in Qubits12 :
    GateName(b) \notin {"global_phase", "box", "if_else"} \cup ControlShims
<1> SUFFICES ASSUME NEW b \in Qubits12
             PROVE  GateName(b) \notin {"global_phase", "box", "if_else"} \cup ControlShims
  OBVIOUS
<1>1. /\ GateName(b) \in Range(BraketToQiskitNames) \cup AdditionalUGates
                            \cup {"measure", "CCPRx", "MeasureFF"}
      /\ GateName(b) # "global_phase"
  BY NamesOfGates
<1>2. CASE GateName(b) \in Range(BraketToQiskitNames)
  BY <1>1, <1>2, NamesAreGates, OnlyMcxIsOpen DEF NonGateTargetOps
<1>3. CASE GateName(b) \in AdditionalUGates \cup {"measure", "CCPRx", "MeasureFF"}
  BY <1>3 DEF AdditionalUGates, ControlShims
<1> QED
  BY <1>1, <1>2, <1>3

(* What is transpiled, as one of the two things the transpiler may give.   *)
LEMMA TranspiledFacts ==
  ASSUME TargetInv, PlacesInv, stage = "built", NEW c \in Transpiled
  PROVE  IsCircuit(c) /\ (c.layout => TargetIsQpu /\ ~ForBasisGates)
<1>1. /\ device \in Devices /\ Offered /\ EntriesInv
      /\ device.type \in {"qpu", "simulator"}
  BY DEF TargetInv, PlacesInv, EntriesInv
<1>2. \A op, param, q, layout : OneGate(op, param, q, layout).layout = layout
  BY DEF OneGate
<1>3. TargetIsQpu \in BOOLEAN
  BY DEF TargetIsQpu
<1>4. CASE ForBasisGates
  <2>1. PICK g \in GatesetFromProperties(device) :
          Fits(Wires(g)) /\ c = OneGate(g, "free", Wires(g), FALSE)
    BY <1>4 DEF Transpiled
  <2> DEFINE q == Wires(g)
             W == 0..(Width - 1)
  <2>2. /\ q \in Seq(0..3) /\ (g = "global_phase" <=> q = << >>)
        /\ g \in ControlShims => Len(q) = ControlledQubits(g)
    BY WiresFacts
  <2>8. g \notin {"box", "if_else"}
    BY <2>1, GatesetIsOfGates, GatesAreNoBlocks DEF NonGateTargetOps
  <2>3. 0 \in W /\ Range(q) \subseteq W
    BY <2>1 DEF Fits
  <2>4. Width \in Nat /\ Width # 0
    <3>1. Width \in Nat
      BY <1>1, DevicesAssumption, FS_CardinalityType DEF Width
    <3> QED
      BY <2>3, <3>1
  <2>5. q \in Seq(W)
    <3> HIDE DEF q, W
    <3>1. q \in Seq(Range(q))
      BY <2>2 DEF Range
    <3> QED
      BY <2>3, <3>1
  <2> HIDE DEF q
  <2>6. IsCircuit(OneGate(g, "free", q, FALSE))
    BY <2>2, <2>4, <2>5, <2>8, OneGateIsCircuit
  <2>7. c.layout = FALSE
    BY <1>2, <2>1
  <2> QED
    BY <1>4, <2>1, <2>6, <2>7 DEF q
<1>5. CASE ~ForBasisGates
  <2>0. PICK n \in DOMAIN entries \ NotTranspiled :
          \E i \in DOMAIN entries[n] : \E p :
            c = OneGate(n, p, IF i = << >> THEN Wires(n) ELSE i, TargetIsQpu)
    BY <1>5 DEF Transpiled, GatesAt
  <2>9. PICK i \in DOMAIN entries[n] : \E p :
          c = OneGate(n, p, IF i = << >> THEN Wires(n) ELSE i, TargetIsQpu)
    BY <2>0
  <2>1. PICK p : c = OneGate(n, p, IF i = << >> THEN Wires(n) ELSE i, TargetIsQpu)
    BY <2>9
  <2> DEFINE q == IF i = << >> THEN Wires(n) ELSE i
  <2>2. /\ Width \in Nat /\ Width # 0 /\ q \in Seq(0..(Width - 1))
        /\ n = "global_phase" <=> q = << >>
        /\ n \in ControlShims => Len(q) = ControlledQubits(n)
        /\ n \notin {"box", "if_else"}
    <3>1. CASE device.type = "simulator"
      <4>1. Width = 4 /\ i = << >>
        BY <1>1, <2>1, <3>1 DEF Width, EntriesInv, Anywhere
      <4>2. q = Wires(n) /\ Width \in Nat /\ Width # 0 /\ 0..(Width - 1) = 0..3
        BY <4>1
      <4>3. n \in SimulatorNames /\ n \notin NonGateTargetOps
        BY <1>1, <2>1, <3>1 DEF EntriesInv, NotTranspiled
      <4>4. n \notin {"box", "if_else"}
        BY <4>3 DEF NonGateTargetOps
      <4> QED
        BY <4>2, <4>4, WiresFacts
    <3>2. CASE device.type = "qpu"
      <4>1. EntryInv(n)
        BY <1>1, <2>1, <3>2 DEF EntriesInv
      <4>2. n \notin {"measure", "if_else", "barrier"}
        BY <2>1 DEF NotTranspiled, NonGateTargetOps
      <4>3. CASE n \in DOMAIN substitutes /\ IsPlace1(i)
        <5>1. i \in DOMAIN substitutes[n]
          BY <1>1, <2>1, <4>3 DEF Offered
        <5>2. n \notin {"global_phase", "box", "if_else"} \cup ControlShims
          BY <1>1, <4>3, <5>1, OfferedByRotations DEF ControlShims
        <5> QED
          BY <1>1, <3>2, <4>3, <5>2, PlacesAreQubits
      <4>4. ASSUME NEW b \in Qubits12, IsOfTheDevice(n, b)
            PROVE  /\ Width \in Nat /\ Width # 0 /\ q \in Seq(0..(Width - 1))
                   /\ n = "global_phase" <=> q = << >>
                   /\ n \in ControlShims => Len(q) = ControlledQubits(n)
                   /\ n \notin {"box", "if_else"}
        <5>1. n \notin {"global_phase", "box", "if_else"} \cup ControlShims /\ IsPlaceFor(b, i)
          BY <2>1, <4>4, NamesOnQubits DEF IsOfTheDevice
        <5> QED
          BY <1>1, <3>2, <5>1, PlacesAreQubits DEF IsPlaceFor
      <4> QED
        BY <2>1, <4>1, <4>2, <4>3, <4>4 DEF EntryInv
    <3> QED
      BY <1>1, <3>1, <3>2
  <2> HIDE DEF q
  <2> DEFINE b == TargetIsQpu
  <2>3. c = OneGate(n, p, q, b) /\ b \in BOOLEAN
    BY <1>3, <2>1 DEF q
  <2> HIDE DEF b
  <2>4. IsCircuit(OneGate(n, p, q, b))
    BY <2>2, <2>3, OneGateIsCircuit
  <2>5. IsCircuit(c) /\ c.layout = b
    BY <1>2, <2>3, <2>4
  <2>6. c.layout => b
    BY <2>5
  <2> QED
    BY <1>5, <2>5, <2>6 DEF b
<1> QED
  BY <1>4, <1>5

(* What a run compiles for, of what is asked for below.                    *)
LEMMA ForTargetFacts ==
  LET o == ForTarget
  IN /\ DOMAIN o = {"basis", "keepsBarriers", "nativePath", "iqm", "verbatim",
                    "labels", "labelsGiven", "restrictions"}
     /\ o.basis = (DOMAIN entries \ NonGateTargetOps) \cup SubstitutedGateNames
     /\ o.nativePath = TargetIsQpu /\ o.verbatim = FALSE
     /\ o.labels = QubitLabels /\ o.labelsGiven = (QubitLabels # NoLabels)
BY DEF ForTarget

(* The arguments _compile ends up with are those of one of its modes.      *)
LEMMA ResolvedFacts ==
  LET o == ResolvedArgs
  IN /\ \/ o.labels = QubitLabels /\ o.labelsGiven = (QubitLabels # NoLabels)
        \/ o.labels = NoLabels /\ o.labelsGiven = FALSE
     /\ ~IsTranspiled => ShouldWrap(o)
     /\ \/ call.mode = "native"
        \/ IsTranspiled /\ (call.mode = "local" \/ device.type = "simulator")
        => /\ o.basis = (DOMAIN entries \ NonGateTargetOps) \cup SubstitutedGateNames
           /\ o.nativePath = TargetIsQpu
<1> DEFINE t == ForTarget
<1>1. /\ DOMAIN t = {"basis", "keepsBarriers", "nativePath", "iqm", "verbatim",
                     "labels", "labelsGiven", "restrictions"}
      /\ t.basis = (DOMAIN entries \ NonGateTargetOps) \cup SubstitutedGateNames
      /\ t.nativePath = TargetIsQpu /\ t.verbatim = FALSE
      /\ t.labels = QubitLabels /\ t.labelsGiven = (QubitLabels # NoLabels)
  BY ForTargetFacts
<1> HIDE DEF t
<1>2. ForPassManager = [t EXCEPT !.basis = DefaultBasis, !.keepsBarriers = FALSE,
                          !.nativePath = TRUE, !.iqm = FALSE]
  BY DEF ForPassManager, t
<1>3. ForService = [t EXCEPT !.basis = GatesetFromProperties(device),
                    !.keepsBarriers = FALSE, !.nativePath = FALSE,
                    !.iqm = FALSE, !.labels = NoLabels, !.labelsGiven = FALSE]
  BY DEF ForService, t
<1>4. CASE call.mode \in {"verbatim", "local_verbatim"}
  <2>1. ResolvedArgs = [t EXCEPT !.verbatim = TRUE]
    BY <1>4 DEF ResolvedArgs, t
  <2> QED
    BY <1>1, <1>4, <2>1 DEF ShouldWrap, IsTranspiled
<1>5. CASE call.mode = "pass_manager"
  <2>1. ResolvedArgs = ForPassManager
    BY <1>5 DEF ResolvedArgs
  <2> QED
    BY <1>1, <1>2, <1>5, <2>1 DEF ShouldWrap, IsTranspiled
<1>6. CASE call.mode = "native"
  <2>1. ResolvedArgs = [t EXCEPT !.restrictions = NativeAngleRestrictions(device)]
    BY <1>6 DEF ResolvedArgs, t
  <2> QED
    BY <1>1, <1>6, <2>1 DEF ShouldWrap, IsTranspiled
<1>7. CASE /\ call.mode \notin {"verbatim", "local_verbatim", "pass_manager", "native"}
           /\ call.mode = "local" \/ device.type = "simulator"
  <2>1. ResolvedArgs = t
    BY <1>7 DEF ResolvedArgs, t
  <2> QED
    BY <1>1, <1>7, <2>1 DEF ShouldWrap, IsTranspiled
<1>8. CASE /\ call.mode \notin {"verbatim", "local_verbatim", "pass_manager", "native"}
           /\ ~(call.mode = "local" \/ device.type = "simulator")
  <2>1. ResolvedArgs = ForService
    BY <1>8 DEF ResolvedArgs
  <2> QED
    BY <1>1, <1>3, <1>8, <2>1 DEF ShouldWrap, IsTranspiled
<1> QED
  BY <1>4, <1>5, <1>6, <1>7, <1>8

(* Every circuit that is compiled is one, and the labels fit it.           *)
LEMMA CompiledFit ==
  ASSUME TargetInv, PlacesInv, Given, stage = "built", NEW c \in Compiled
  PROVE  IsCircuit(c) /\ LabelsFit(c, ResolvedArgs)
<1>1. /\ device \in Devices /\ Offered /\ EntriesInv
      /\ device.type \in {"qpu", "simulator"}
  BY DEF TargetInv, PlacesInv, EntriesInv
<1>2. \E S : QubitLabels \in Seq(S)
  <2>1. CASE device.type = "simulator"
    <3>1. QubitLabels \in Seq({})
      BY <2>1 DEF QubitLabels, NoLabels
    <3> QED
      BY <3>1
  <2>2. CASE device.type # "simulator"
    <3> DEFINE n == Cardinality(device.nodes)
               l == [k \in 1..n |-> LabelOfIndex(device, k - 1)]
               S == {l[k] : k \in 1..n}
    <3>1. n \in Nat
      BY <1>1, DevicesAssumption, FS_CardinalityType
    <3>2. QubitLabels = l
      BY <2>2 DEF QubitLabels
    <3>3. l \in Seq(S)
      <4>1. \A k \in 1..n : l[k] \in S
        OBVIOUS
      <4>2. DOMAIN l = 1..n /\ l = [k \in 1..n |-> l[k]]
        OBVIOUS
      <4> HIDE DEF n, l, S
      <4> QED
        BY <3>1, <4>1, <4>2
    <3> QED
      BY <3>2, <3>3
  <2> QED
    BY <2>1, <2>2
<1>3. /\ \E S : ResolvedArgs.labels \in Seq(S)
      /\ ResolvedArgs.labelsGiven <=> ResolvedArgs.labels # NoLabels
  <2>1. NoLabels \in Seq({})
    BY DEF NoLabels
  <2> QED
    BY <1>2, <2>1, ResolvedFacts
<1>4. CASE IsTranspiled
  <2>1. PICK d \in Transpiled : c = IF ForBasisGates THEN d ELSE Substituted(d)
    BY <1>4 DEF Compiled
  <2>2. IsCircuit(d) /\ (d.layout => TargetIsQpu /\ ~ForBasisGates)
    BY TranspiledFacts
  <2>3. IsCircuit(c) /\ c.layout = d.layout
    BY <1>1, <2>1, <2>2, SubstitutedIsCircuit
  <2>4. ASSUME c.layout PROVE ShouldWrap(ResolvedArgs)
    <3>1. TargetIsQpu /\ ~ForBasisGates
      BY <2>2, <2>3, <2>4
    <3>2. \/ call.mode = "native"
          \/ call.mode # "native" /\ (call.mode = "local" \/ device.type = "simulator")
      BY <1>1, <1>4, <3>1 DEF ForBasisGates, IsTranspiled, Given, Modes
    <3>3. ResolvedArgs.nativePath = TargetIsQpu
      BY <1>4, <3>2, ResolvedFacts
    <3> QED
      BY <3>1, <3>3 DEF ShouldWrap
  <2> QED
    BY <1>3, <2>3, <2>4 DEF LabelsFit
<1>5. CASE ~IsTranspiled
  <2>1. c = call.circuit \/ c = Substituted(call.circuit)
    BY <1>5 DEF Compiled
  <2>2. IsCircuit(c)
    BY <1>1, <2>1, SubstitutedIsCircuit DEF Given
  <2>3. ShouldWrap(ResolvedArgs)
    BY <1>5, ResolvedFacts
  <2> QED
    BY <1>3, <2>2, <2>3 DEF LabelsFit
<1> QED
  BY <1>4, <1>5

-----------------------------------------------------------------------------
(***************************************************************************)
(* A circuit in an order its DAG gives.                                    *)
(***************************************************************************)

(* A circuit d with the n instructions of c in the order w.                *)
IsOrdered(d, c, n, w, o) ==
  /\ n \in Nat /\ DOMAIN c.insts = 1..n
  /\ DOMAIN d.insts = 1..n /\ Len(d.insts) = n
  /\ \A i \in 1..n : w[i] \in 1..n /\ d.insts[i] = c.insts[w[i]]
  /\ \A i, j \in 1..n : w[i] = w[j] => i = j
  /\ \A m \in 1..n : \E i \in 1..n : w[i] = m
  /\ SameBut(d, c) /\ d.cregs = c.cregs /\ d.phase = c.phase
  /\ d = [f \in CircuitFields |-> d[f]]
  /\ BlocksInOnePiece(d.insts)
  /\ \A i, j \in 1..n :
       /\ i < j /\ Tied(d.insts[i], d.insts[j])
       /\ ~IsRemoved(d.insts[i], o) /\ ~IsRemoved(d.insts[j], o)
       => w[i] < w[j]

(* An order is a permutation that leaves everything but the instructions.  *)
LEMMA OrderFacts ==
  ASSUME NEW c, IsCircuit(c), NEW o, NEW w \in DagOrders(c, o)
  PROVE  IsOrdered(InOrder(c, w), c, Len(c.insts), w, o)
<1> DEFINE d == InOrder(c, w)
           n == Len(c.insts)
           t == [i \in DOMAIN c.insts |-> c.insts[w[i]]]
<1>1. n \in Nat /\ DOMAIN c.insts = 1..n /\ SameBut(c, c)
  BY CircuitFacts
<1>2. c = [f \in CircuitFields |-> c[f]]
  BY DEF IsCircuit, CircuitFields
<1>3. d = [c EXCEPT !.insts = t]
  BY DEF InOrder
<1>4. /\ w \in Bijection(1..n, 1..n)
      /\ \A i, j \in 1..n :
           i < j /\ Tied(c.insts[w[i]], c.insts[w[j]])
             /\ ~IsRemoved(c.insts[w[i]], o) /\ ~IsRemoved(c.insts[w[j]], o)
           => w[i] < w[j]
      /\ BlocksInOnePiece(d.insts)
  BY <1>1 DEF DagOrders
<1>5. /\ w \in [1..n -> 1..n]
      /\ \A i, j \in 1..n : w[i] = w[j] => i = j
      /\ \A m \in 1..n : \E i \in 1..n : w[i] = m
  BY <1>4 DEF Bijection, Injection, Surjection, IsInjective
<1> HIDE DEF d, n
<1>6. DOMAIN t = 1..n /\ \A i \in 1..n : t[i] = c.insts[w[i]]
  BY <1>1
<1> HIDE DEF t
<1>7. /\ d.insts = t /\ SameBut(d, c) /\ d.cregs = c.cregs /\ d.phase = c.phase
      /\ d = [f \in CircuitFields |-> d[f]]
  BY <1>1, <1>2, <1>3 DEF SameBut, CircuitFields
<1>8. Len(d.insts) = n
  BY <1>1, <1>6, <1>7
<1>9. \A i \in 1..n : w[i] \in 1..n /\ d.insts[i] = c.insts[w[i]]
  BY <1>5, <1>6, <1>7
<1>10. \A i, j \in 1..n :
         /\ i < j /\ Tied(d.insts[i], d.insts[j])
         /\ ~IsRemoved(d.insts[i], o) /\ ~IsRemoved(d.insts[j], o)
         => w[i] < w[j]
  BY <1>4, <1>9
<1>11. DOMAIN d.insts = 1..n
  BY <1>6, <1>7
<1> QED
  BY <1>1, <1>4, <1>5, <1>7, <1>8, <1>9, <1>10, <1>11 DEF IsOrdered, d, n

(* In another order, a circuit is one, on the same qubits and bits.        *)
LEMMA OrderedIsCircuit ==
  ASSUME NEW c, IsCircuit(c), NEW o, NEW w \in DagOrders(c, o)
  PROVE  IsCircuit(InOrder(c, w))
<1> DEFINE d == InOrder(c, w)
           n == Len(c.insts)
           I == Insts(d)
           QS == Seq(Range(d.qregs))
           CS == Seq(Range(d.cregs))
           TS == Seq(I)
<1>1. /\ n \in Nat /\ DOMAIN c.insts = 1..n /\ DOMAIN d.insts = 1..n
      /\ \A i \in 1..n : w[i] \in 1..n /\ d.insts[i] = c.insts[w[i]]
      /\ \A i, j \in 1..n : w[i] = w[j] => i = j
      /\ SameBut(d, c) /\ d.cregs = c.cregs /\ d.phase = c.phase
      /\ d = [f \in CircuitFields |-> d[f]]
      /\ BlocksInOnePiece(d.insts) /\ Len(d.insts) = n
  <2>1. IsOrdered(d, c, n, w, o)
    BY OrderFacts
  <2> HIDE DEF d, n
  <2> QED
    BY <2>1 DEF IsOrdered
<1>2. /\ d.width = c.width /\ d.qregs = c.qregs /\ d.physical = c.physical
      /\ d.layout = c.layout /\ d.bits = c.bits /\ d.outputs = c.outputs
  BY <1>1 DEF SameBut
<1>3. /\ c.width \in Nat /\ c.qregs \in Seq(Range(c.qregs)) /\ c.physical \in Seq(Int)
      /\ c.layout \in BOOLEAN /\ c.bits \in Nat /\ c.cregs \in Seq(Range(c.cregs))
      /\ c.outputs \in SUBSET STRING /\ c.phase \in SUBSET Nat
  BY DEF IsCircuit
<1> HIDE DEF d, n
<1>4. d.insts \in TS
  <2> DEFINE s == d.insts
  <2>1. \A i \in 1..n : s[i] \in I
    BY <1>1 DEF Insts, Range
  <2>2. s \in [1..n -> I]
    <3>1. s \in Seq(Range(s)) \/ s = [i \in 1..n |-> s[i]]
      <4>1. \A i \in 1..n : c.insts[w[i]] = s[i]
        BY <1>1
      <4>2. s = [i \in DOMAIN c.insts |-> c.insts[w[i]]]
        <5>1. /\ "insts" \in DOMAIN c
              /\ d = [c EXCEPT !.insts = [i \in DOMAIN @ |-> @[w[i]]]]
          BY CircuitFacts DEF d, InOrder, SameBut, CircuitFields
        <5> QED
          BY <5>1
      <4> QED
        BY <1>1, <4>1, <4>2
    <3>2. I = Range(s)
      BY DEF Insts
    <3> HIDE DEF s
    <3>3. s = [i \in 1..n |-> s[i]]
      <4>1. CASE s \in Seq(Range(s))
        <5>1. s = [i \in 1..Len(s) |-> s[i]]
          BY <4>1
        <5> QED
          BY <1>1, <5>1 DEF s
      <4> QED
        BY <3>1, <4>1
    <3> QED
      BY <2>1, <3>3
  <2> HIDE DEF s, I
  <2> QED
    BY <1>1, <2>2 DEF s
<1>5. \A x \in Insts(d) : x \in Insts(c)
  BY <1>1 DEF Insts, Range
<1>6. \A x \in Insts(d) : IsInstruction(x, d)
  <2> SUFFICES ASSUME NEW x \in Insts(d) PROVE IsInstruction(x, d)
    OBVIOUS
  <2>1. IsInstruction(x, c)
    BY <1>5 DEF IsCircuit
  <2> QED
    BY <1>2, <2>1 DEF IsInstruction
<1>7. d \in [width : Nat, qregs : QS, physical : Seq(Int), layout : BOOLEAN,
             bits : Nat, cregs : CS, outputs : SUBSET STRING,
             phase : SUBSET Nat, insts : TS]
  <2>1. d.qregs \in QS /\ d.cregs \in CS
    BY <1>1, <1>2, <1>3
  <2> HIDE DEF QS, CS, TS, I
  <2>2. d = [width |-> d.width, qregs |-> d.qregs, physical |-> d.physical,
             layout |-> d.layout, bits |-> d.bits, cregs |-> d.cregs,
             outputs |-> d.outputs, phase |-> d.phase, insts |-> d.insts]
    BY <1>1 DEF CircuitFields
  <2>3. /\ d.width \in Nat /\ d.physical \in Seq(Int) /\ d.layout \in BOOLEAN
        /\ d.bits \in Nat /\ d.outputs \in SUBSET STRING /\ d.phase \in SUBSET Nat
    BY <1>1, <1>2, <1>3
  <2> QED
    BY <1>4, <2>1, <2>2, <2>3
<1>8. \A i, j \in DOMAIN d.insts : d.insts[i].id = d.insts[j].id => i = j
  <2> SUFFICES ASSUME NEW i \in 1..n, NEW j \in 1..n, d.insts[i].id = d.insts[j].id
               PROVE  i = j
    BY <1>1
  <2>1. \A k, l \in DOMAIN c.insts : c.insts[k].id = c.insts[l].id => k = l
    BY DEF IsCircuit
  <2>2. w[i] \in DOMAIN c.insts /\ w[j] \in DOMAIN c.insts
        /\ d.insts[i] = c.insts[w[i]] /\ d.insts[j] = c.insts[w[j]]
    BY <1>1
  <2>3. w[i] = w[j]
    BY <2>1, <2>2
  <2> QED
    BY <1>1, <2>3
<1>9. /\ \A r \in Range(d.cregs) : r.bits \in Seq(Nat)
      /\ Len(d.qregs) = 1 => d.qregs[1].size = d.width
      /\ d.qregs = << >> => d.physical # << >> /\ Len(d.physical) = d.width
      /\ \A i, j \in DOMAIN d.cregs : d.cregs[i].name = d.cregs[j].name => i = j
      /\ \E m \in Range(PlainNames) :
           m \notin d.outputs \cup {r.name : r \in Range(d.qregs)}
      /\ \A m \in Range(PlainNames) : \A r \in Range(d.qregs) :
           EndsWith(m, r.name) => m = r.name
  <2>1. /\ \A r \in Range(c.cregs) : r.bits \in Seq(Nat)
        /\ Len(c.qregs) = 1 => c.qregs[1].size = c.width
        /\ c.qregs = << >> => c.physical # << >> /\ Len(c.physical) = c.width
        /\ \A i, j \in DOMAIN c.cregs : c.cregs[i].name = c.cregs[j].name => i = j
        /\ \E m \in Range(PlainNames) :
             m \notin c.outputs \cup {r.name : r \in Range(c.qregs)}
        /\ \A m \in Range(PlainNames) : \A r \in Range(c.qregs) :
             EndsWith(m, r.name) => m = r.name
    BY DEF IsCircuit
  <2>2. d.cregs = c.cregs
    BY <1>1
  <2> QED
    BY <1>2, <2>1, <2>2
<1> QED
  BY <1>1, <1>6, <1>7, <1>8, <1>9 DEF IsCircuit, QS, CS, TS, I, d

(* No two of the instructions a program shows have one id.                 *)
LEMMA ShownIds ==
  ASSUME NEW c, IsCircuit(c), NEW o, NEW k \in 1..Len(Shown(c, o)),
         NEW l \in 1..Len(Shown(c, o)), Shown(c, o)[k].id = Shown(c, o)[l].id
  PROVE  k = l
<1>1. PICK p : /\ Listing(p, Len(Shown(c, o)), KeptPlaces(c, o))
               /\ \A b \in 1..Len(Shown(c, o)) : Shown(c, o)[b] = c.insts[p[b]]
  BY ShownFacts
<1>2. p[k] \in DOMAIN c.insts /\ p[l] \in DOMAIN c.insts
  BY <1>1 DEF Listing, KeptPlaces
<1>3. p[k] = p[l]
  BY <1>1, <1>2 DEF IsCircuit
<1>4. Len(Shown(c, o)) \in Nat
  BY ShownFacts
<1>5. ~(k < l) /\ ~(l < k)
  <2>1. \A a, b \in 1..Len(Shown(c, o)) : a < b => p[a] < p[b]
    BY <1>1 DEF Listing
  <2>2. p[k] \in Int /\ ~(p[k] < p[k])
    <3>1. c.insts \in Seq(Insts(c))
      BY CircuitFacts
    <3>2. p[k] \in 1..Len(c.insts)
      BY <1>2, <3>1
    <3> QED
      BY <3>2
  <2> QED
    BY <1>3, <2>1, <2>2
<1> QED
  BY <1>4, <1>5

(* What is shown of the circuit in its order is what is shown of it in     *)
(* another one, and what is tied keeps its order.                          *)
LEMMA ShownInOrder ==
  ASSUME NEW c, IsCircuit(c), NEW o, NEW w \in DagOrders(c, o)
  PROVE  LET d == InOrder(c, w)
             shown == Shown(d, o)
             insts == Shown(c, o)
         IN \E at :
              /\ at \in Bijection(1..Len(shown), 1..Len(insts))
              /\ \A k \in 1..Len(shown) : at[k] \in 1..Len(insts) /\ shown[k] = insts[at[k]]
              /\ \A k, l \in 1..Len(shown) :
                   k < l /\ Tied(insts[at[k]], insts[at[l]]) => at[k] < at[l]
<1> DEFINE d == InOrder(c, w)
           shown == Shown(d, o)
           insts == Shown(c, o)
           n == Len(c.insts)
           a == Len(shown)
           b == Len(insts)
           P == KeptPlaces(d, o)
           Q == KeptPlaces(c, o)
<1>1. /\ n \in Nat /\ DOMAIN c.insts = 1..n /\ DOMAIN d.insts = 1..n
      /\ \A i \in 1..n : w[i] \in 1..n /\ d.insts[i] = c.insts[w[i]]
      /\ \A i, j \in 1..n : w[i] = w[j] => i = j
      /\ \A m \in 1..n : \E i \in 1..n : w[i] = m
      /\ \A i, j \in 1..n :
           /\ i < j /\ Tied(d.insts[i], d.insts[j])
           /\ ~IsRemoved(d.insts[i], o) /\ ~IsRemoved(d.insts[j], o)
           => w[i] < w[j]
  <2>1. IsOrdered(d, c, n, w, o)
    BY OrderFacts
  <2> HIDE DEF d, n
  <2> QED
    BY <2>1 DEF IsOrdered
<1>2. \A i \in 1..n : i \in P <=> w[i] \in Q
  BY <1>1 DEF KeptPlaces
<1>3. \A i \in P : i \in 1..n /\ ~IsRemoved(d.insts[i], o)
  BY <1>1 DEF KeptPlaces, IsRemoved
<1>4. Q \subseteq 1..n
  BY <1>1 DEF KeptPlaces
<1>5. IsCircuit(d)
  BY OrderedIsCircuit
<1> HIDE DEF d
<1>6. PICK p : Listing(p, a, P) /\ \A k \in 1..a : shown[k] = d.insts[p[k]]
  BY <1>5, ShownFacts
<1>7. PICK q : Listing(q, b, Q) /\ \A k \in 1..b : insts[k] = c.insts[q[k]]
  BY ShownFacts
<1>8. a \in Nat /\ b \in Nat
  BY <1>5, ShownFacts
<1> HIDE DEF shown, insts, n, a, b, P, Q
<1> DEFINE at == [k \in 1..a |-> CHOOSE m \in 1..b : q[m] = w[p[k]]]
<1>9. ASSUME NEW k \in 1..a
      PROVE  at[k] \in 1..b /\ q[at[k]] = w[p[k]] /\ p[k] \in P
  <2>1. p[k] \in P
    BY <1>6 DEF Listing
  <2>2. w[p[k]] \in Q
    BY <1>2, <1>3, <2>1
  <2>3. \E m \in 1..b : q[m] = w[p[k]]
    BY <1>7, <2>2 DEF Listing
  <2> QED
    BY <2>1, <2>3
<1>10. at \in [1..a -> 1..b]
  BY <1>9
<1> HIDE DEF at
<1>11. /\ \A k, l \in 1..a : k < l => p[k] < p[l]
       /\ \A k, l \in 1..b : k < l => q[k] < q[l]
       /\ \A k \in 1..b : q[k] \in Q
  BY <1>6, <1>7 DEF Listing
<1>12. /\ \A k \in 1..a : p[k] \in 1..n
       /\ \A i \in 1..n : i \in Int
  <2>1. n \in Nat
    BY <1>1
  <2> QED
    BY <1>3, <1>9, <2>1
<1>13. ASSUME NEW k \in 1..a, NEW l \in 1..a, at[k] = at[l] PROVE k = l
  <2>1. w[p[k]] = w[p[l]]
    BY <1>9, <1>13
  <2>2. p[k] = p[l]
    BY <1>1, <1>12, <2>1
  <2>3. p[k] \in Int /\ p[l] \in Int
    BY <1>12
  <2> QED
    BY <1>8, <1>11, <2>2, <2>3
<1>14. ASSUME NEW m \in 1..b PROVE \E k \in 1..a : at[k] = m
  <2>1. q[m] \in Q /\ q[m] \in 1..n
    BY <1>4, <1>11
  <2>2. PICK i \in 1..n : w[i] = q[m]
    BY <1>1, <2>1
  <2>3. i \in P
    BY <1>2, <2>1, <2>2
  <2>4. PICK k \in 1..a : p[k] = i
    BY <1>6, <2>3 DEF Listing
  <2>5. q[at[k]] = q[m] /\ at[k] \in 1..b
    BY <1>9, <2>2, <2>4
  <2>6. q[m] \in Int
    BY <1>12, <2>1
  <2>7. at[k] = m
    BY <1>8, <1>11, <2>5, <2>6
  <2> QED
    BY <2>7
<1>15. at \in Bijection(1..a, 1..b)
  BY <1>10, <1>13, <1>14 DEF Bijection, Injection, Surjection, IsInjective
<1>16. \A k \in 1..a : at[k] \in 1..b /\ shown[k] = insts[at[k]]
  <2> SUFFICES ASSUME NEW k \in 1..a PROVE at[k] \in 1..b /\ shown[k] = insts[at[k]]
    OBVIOUS
  <2>1. shown[k] = d.insts[p[k]] /\ d.insts[p[k]] = c.insts[w[p[k]]]
    BY <1>1, <1>6, <1>12
  <2>2. insts[at[k]] = c.insts[q[at[k]]]
    BY <1>7, <1>9
  <2> QED
    BY <1>9, <2>1, <2>2
<1>17. ASSUME NEW k \in 1..a, NEW l \in 1..a, k < l, Tied(insts[at[k]], insts[at[l]])
       PROVE  at[k] < at[l]
  <2>1. p[k] < p[l] /\ p[k] \in 1..n /\ p[l] \in 1..n
    BY <1>11, <1>12, <1>17
  <2>2. Tied(d.insts[p[k]], d.insts[p[l]])
    BY <1>6, <1>16, <1>17
  <2>3. ~IsRemoved(d.insts[p[k]], o) /\ ~IsRemoved(d.insts[p[l]], o)
    BY <1>3, <1>9
  <2>4. w[p[k]] < w[p[l]]
    BY <1>1, <2>1, <2>2, <2>3
  <2>5. q[at[k]] < q[at[l]] /\ at[k] \in 1..b /\ at[l] \in 1..b
    BY <1>9, <2>4
  <2>6. q[at[k]] \in Int /\ q[at[l]] \in Int
    BY <1>4, <1>11, <1>12, <2>5
  <2> QED
    BY <1>8, <1>11, <2>5, <2>6
<1> QED
  BY <1>15, <1>16, <1>17 DEF d, shown, insts, a, b

-----------------------------------------------------------------------------
(* What a program was made of.                                             *)
MadeOf(c, p) ==
  /\ c \in Compiled /\ ~(ForBasisGates /\ UnknownBasisGate)
  /\ \E w \in DagOrders(c, ResolvedArgs) :
       /\ Emittable(InOrder(c, w), ResolvedArgs)
       /\ p = Emitted(InOrder(c, w), ResolvedArgs)

Recorded ==
  /\ \E S : compiled \in Seq(S)
  /\ \E S : programs \in Seq(S)
  /\ Len(compiled) = Len(programs)
  /\ programs # << >> => stage = "built"
  /\ \A p \in DOMAIN programs : MadeOf(compiled[p], programs[p])

(* Nothing is emitted at the beginning.                                    *)
LEMMA InitRecorded == Init => Given /\ Recorded
<1> SUFFICES ASSUME Init PROVE Given /\ Recorded
  OBVIOUS
<1>1. compiled \in Seq({}) /\ programs \in Seq({}) /\ Len(compiled) = 0 /\ Len(programs) = 0
      /\ programs = << >> /\ DOMAIN programs = {}
  BY DEF Init
<1>2. Given
  BY ScenariosAssumption DEF Init, Given
<1> QED
  BY <1>1, <1>2 DEF Recorded

(* What a program was made of stays what it was made of.                   *)
LEMMA MadeOfKept ==
  ASSUME UNCHANGED <<device, entries, substitutes, call>>, NEW c, NEW p, MadeOf(c, p)
  PROVE  MadeOf(c, p)'
<1>1. QubitLabels' = QubitLabels /\ TargetIsQpu' = TargetIsQpu
      /\ SubstitutedGateNames' = SubstitutedGateNames
  BY DEF QubitLabels, TargetIsQpu, SubstitutedGateNames, Anywhere
<1>2. ForTarget' = ForTarget
  BY <1>1 DEF ForTarget
<1>3. ForPassManager' = ForPassManager /\ ForService' = ForService
  BY <1>2 DEF ForPassManager, ForService
<1>4. ResolvedArgs' = ResolvedArgs
  BY <1>2, <1>3 DEF ResolvedArgs
<1>5. /\ ForBasisGates' = ForBasisGates /\ UnknownBasisGate' = UnknownBasisGate
      /\ IsTranspiled' = IsTranspiled
  BY DEF ForBasisGates, UnknownBasisGate, IsTranspiled
<1>6. \A x : Substitute(x)' = Substitute(x)
  BY DEF Substitute
<1>7. \A d : Substituted(d)' = Substituted(d)
  BY <1>6 DEF Substituted
<1>8. Width' = Width
  BY DEF Width
<1>9. /\ \A op, param, q, layout : OneGate(op, param, q, layout)' = OneGate(op, param, q, layout)
      /\ \A q : Fits(q)' = Fits(q)
  BY <1>8 DEF OneGate, Fits
<1>10. \A n, i : ParamsAt(n, i)' = ParamsAt(n, i)
  BY DEF ParamsAt, LabelsAt
<1>11. Transpiled' = Transpiled
  <2>1. \A n, i : GatesAt(n, i)' = GatesAt(n, i)
    BY <1>1, <1>9, <1>10 DEF GatesAt
  <2>2. CASE ForBasisGates
    <3>1. \A g : OneGate(g, "free", Wires(g), FALSE)' = OneGate(g, "free", Wires(g), FALSE)
      BY <1>9
    <3>2. Transpiled = {OneGate(g, "free", Wires(g), FALSE) :
            g \in {h \in GatesetFromProperties(device) : Fits(Wires(h))}}
      BY <2>2 DEF Transpiled
    <3>3. Transpiled' = {OneGate(g, "free", Wires(g), FALSE)' :
            g \in {h \in GatesetFromProperties(device) : Fits(Wires(h))'}}
      BY <1>5, <2>2 DEF Transpiled
    <3> QED
      BY <1>9, <3>1, <3>2, <3>3
  <2>3. CASE ~ForBasisGates
    <3>1. \A d : d \in Transpiled <=>
            \E n \in DOMAIN entries \ NotTranspiled : \E i \in DOMAIN entries[n] :
              d \in GatesAt(n, i)
      BY <2>3 DEF Transpiled
    <3>2. \A d : d \in Transpiled' <=>
            \E n \in DOMAIN entries' \ NotTranspiled : \E i \in DOMAIN entries'[n] :
              d \in GatesAt(n, i)'
      BY <1>5, <2>3 DEF Transpiled
    <3>3. \A d : d \in Transpiled' <=> d \in Transpiled
      BY <2>1, <3>1, <3>2
    <3> QED
      BY <3>3
  <2> QED
    BY <2>2, <2>3
<1>12. Compiled' = Compiled
  BY <1>5, <1>7, <1>11 DEF Compiled
<1> QED
  BY <1>4, <1>5, <1>12 DEF MadeOf

(* Every step records the programs it emits.                               *)
LEMMA NextRecorded ==
  ASSUME Given, Recorded, [Next]_vars
  PROVE  Given' /\ Recorded'
<1>1. call' = call
  BY DEF Next, GetBackend, Configure, CompileNext, Submission, vars
<1>2. Given'
  BY <1>1 DEF Given
<1>3. CASE UNCHANGED <<targetVars, call, compiled, programs>>
  <2>1. UNCHANGED <<device, entries, substitutes, call, stage, compiled, programs>>
    BY <1>3 DEF targetVars
  <2>2. \A p \in DOMAIN programs : MadeOf(compiled[p], programs[p])'
    BY <2>1, MadeOfKept DEF Recorded
  <2> QED
    BY <1>2, <2>1, <2>2 DEF Recorded
<1>4. CASE Configure
  <2>1. programs = << >> /\ UNCHANGED <<compiled, programs>>
    BY <1>4 DEF Configure, Recorded
  <2>2. DOMAIN programs' = {}
    BY <2>1
  <2> QED
    BY <1>2, <2>1, <2>2 DEF Recorded
<1>5. CASE CompileNext
  <2>1. stage = "built" /\ UNCHANGED <<device, entries, substitutes, call, stage>>
    BY <1>5 DEF CompileNext, targetVars
  <2>2. PICK c, e :
          \/ UNCHANGED <<compiled, programs>>
          \/ /\ MadeOf(c, e)
             /\ compiled' = Append(compiled, c)
             /\ programs' = Append(programs, e)
    BY <1>5 DEF CompileNext, MadeOf
  <2>3. CASE UNCHANGED <<compiled, programs>>
    BY <1>3, <1>5, <2>3 DEF CompileNext
  <2>4. CASE /\ MadeOf(c, e)
             /\ compiled' = Append(compiled, c)
             /\ programs' = Append(programs, e)
    <3> DEFINE n == Len(programs)
    <3>1. /\ \E S : compiled' \in Seq(S)
          /\ \E S : programs' \in Seq(S)
          /\ Len(compiled') = Len(compiled) + 1 /\ Len(programs') = Len(programs) + 1
      BY <2>4, LongerByOne DEF Recorded
    <3>2. /\ n \in Nat /\ DOMAIN programs = 1..n /\ DOMAIN programs' = 1..(n + 1)
          /\ programs'[n + 1] = e /\ compiled'[n + 1] = c
          /\ \A p \in 1..n : programs'[p] = programs[p] /\ compiled'[p] = compiled[p]
      <4>1. PICK S : programs \in Seq(S)
        BY DEF Recorded
      <4>2. PICK T : compiled \in Seq(T)
        BY DEF Recorded
      <4>3. programs' = Append(programs, e) /\ compiled' = Append(compiled, c)
        BY <2>4
      <4>4. Len(compiled) = n
        BY DEF Recorded
      <4> QED
        BY <4>1, <4>2, <4>3, <4>4
    <3> HIDE DEF n
    <3>3. \A d, f : MadeOf(d, f) => MadeOf(d, f)'
      BY <2>1, MadeOfKept
    <3>4. \A p \in 1..n : MadeOf(compiled[p], programs[p])
      BY <3>2 DEF Recorded
    <3>5. ASSUME NEW p \in DOMAIN programs' PROVE MadeOf(compiled[p], programs[p])'
      <4>1. CASE p \in 1..n
        BY <3>2, <3>3, <3>4, <4>1
      <4>2. CASE p = n + 1
        BY <2>4, <3>2, <3>3, <4>2
      <4> QED
        BY <3>2, <4>1, <4>2
    <3> QED
      BY <1>2, <2>1, <3>1, <3>5 DEF Recorded
  <2> QED
    BY <2>2, <2>3, <2>4
<1> QED
  BY <1>3, <1>4, <1>5 DEF Next, GetBackend, Submission, vars

-----------------------------------------------------------------------------
(***************************************************************************)
(* The invariant of the programs, and what follows from it.                *)
(***************************************************************************)

ProgramsInv == TargetInv /\ PlacesInv /\ Given /\ Recorded

(* The invariant of all programs.                                          *)
LEMMA ProgramsKept == Spec => []ProgramsInv
<1>1. Spec => [](TargetInv /\ PlacesInv)
  BY BuildsItsTarget, InitTarget, NextTarget, InitPlaces, NextPlaces, PTL DEF TargetSpec
<1>2. Spec => [](Given /\ Recorded)
  BY InitRecorded, NextRecorded, PTL DEF Spec
<1> QED
  BY <1>1, <1>2, PTL DEF ProgramsInv

(* A program, the circuit it was made of, and that circuit in the order    *)
(* that was chosen for it.                                                 *)
IsProgramOf(e, c, d, o) ==
  /\ IsCircuit(c) /\ IsCircuit(d) /\ SameBut(d, c) /\ d.cregs = c.cregs
  /\ Emittable(d, o) /\ LabelsFit(d, o) /\ e = Emitted(d, o)
  /\ Kept(c) = Shown(c, o) /\ Written(c, e) = Shown(d, o)
  /\ \E w : IsOrdered(d, c, Len(c.insts), w, o)
  /\ \E at :
       /\ at \in Bijection(1..Len(Shown(d, o)), 1..Len(Shown(c, o)))
       /\ \A k \in 1..Len(Shown(d, o)) :
            at[k] \in 1..Len(Shown(c, o)) /\ Shown(d, o)[k] = Shown(c, o)[at[k]]
       /\ \A k, l \in 1..Len(Shown(d, o)) :
            k < l /\ Tied(Shown(c, o)[at[k]], Shown(c, o)[at[l]]) => at[k] < at[l]

(* The instructions by the ids of the lines are those of the order.        *)
LEMMA WrittenInOrder ==
  ASSUME NEW c, IsCircuit(c), NEW d, IsCircuit(d), Emittable(d, ResolvedArgs),
         LabelsFit(d, ResolvedArgs), Kept(c) = Shown(c, ResolvedArgs), NEW at,
         \A k \in 1..Len(Shown(d, ResolvedArgs)) :
           /\ at[k] \in 1..Len(Shown(c, ResolvedArgs))
           /\ Shown(d, ResolvedArgs)[k] = Shown(c, ResolvedArgs)[at[k]]
  PROVE  Written(c, Emitted(d, ResolvedArgs)) = Shown(d, ResolvedArgs)
<1> DEFINE o == ResolvedArgs
           e == Emitted(d, o)
           n == Len(Shown(d, o))
           s == Shown(d, o)
           t == Shown(c, o)
<1>1. DOMAIN Lines(e) = 1..n /\ \A k \in 1..n : Lines(e)[k].id = s[k].id
  <2>1. /\ DOMAIN Lines(e) = 1..n
        /\ \A k \in 1..n :
             LET qubits == [j \in DOMAIN s[k].q |-> QubitAt(d, o, s[k].q[j])]
             IN /\ Lines(e)[k].id = s[k].id
                /\ Lines(e)[k].q = IF s[k].op \in PragmaOps THEN Reverse(qubits) ELSE qubits
    BY LinesKeepTheCircuit
  <2> HIDE DEF e, n, s, o
  <2> QED
    BY <2>1
<1>2. s = [k \in 1..n |-> s[k]]
  <2>1. s \in Seq(Insts(d)) /\ n = Len(s)
    BY ShownFacts
  <2> HIDE DEF s, n
  <2> QED
    BY <2>1
<1>3. /\ DOMAIN t = 1..Len(t)
      /\ \A k, l \in 1..Len(t) : t[k].id = t[l].id => k = l
  BY ShownFacts, ShownIds
<1> HIDE DEF o, e, n, s, t
<1>4. ASSUME NEW k \in 1..n
      PROVE  (CHOOSE x \in Range(t) : x.id = Lines(e)[k].id) = s[k]
  <2>1. at[k] \in 1..Len(t) /\ s[k] = t[at[k]]
    BY DEF n, s, t, o
  <2>2. s[k] \in Range(t) /\ s[k].id = Lines(e)[k].id
    BY <1>1, <1>3, <2>1 DEF Range
  <2>3. \A x \in Range(t) : x.id = s[k].id => x = s[k]
    <3> SUFFICES ASSUME NEW x \in Range(t), x.id = s[k].id PROVE x = s[k]
      OBVIOUS
    <3>1. PICK m \in 1..Len(t) : x = t[m]
      BY <1>3 DEF Range
    <3>2. m = at[k]
      BY <1>3, <2>1, <3>1
    <3> QED
      BY <2>1, <3>1, <3>2
  <2> QED
    BY <2>2, <2>3
<1>5. Written(c, e) = [k \in 1..n |-> CHOOSE x \in Range(t) : x.id = Lines(e)[k].id]
  <2>1. Kept(c) = t
    BY DEF t, o
  <2> QED
    BY <1>1, <2>1 DEF Written
<1>6. Written(c, e) = [k \in 1..n |-> s[k]]
  BY <1>4, <1>5
<1>7. Written(c, e) = s
  BY <1>2, <1>6
<1> QED
  BY <1>7 DEF e, s, o

(* What is known of a program and the circuit it was made of.              *)
LEMMA OfAProgram ==
  ASSUME ProgramsInv, NEW p \in DOMAIN programs
  PROVE  /\ \E d : IsProgramOf(programs[p], compiled[p], d, ResolvedArgs)
         /\ compiled[p] \in Compiled /\ ~(ForBasisGates /\ UnknownBasisGate)
         /\ stage = "built"
<1> DEFINE c == compiled[p]
           o == ResolvedArgs
           e == programs[p]
<1>1. MadeOf(c, e) /\ stage = "built" /\ TargetInv /\ PlacesInv /\ Given
  BY DEF ProgramsInv, Recorded
<1>2. c \in Compiled /\ ~(ForBasisGates /\ UnknownBasisGate)
  BY <1>1 DEF MadeOf
<1>3. PICK w \in DagOrders(c, o) : Emittable(InOrder(c, w), o) /\ e = Emitted(InOrder(c, w), o)
  BY <1>1 DEF MadeOf
<1>4. Kept(c) = Shown(c, o)
  BY DEF Kept, Shown, KeptPlaces
<1>5. IsCircuit(c) /\ LabelsFit(c, o)
  BY <1>1, <1>2, CompiledFit
<1> HIDE DEF c, o, e
<1> DEFINE d == InOrder(c, w)
<1>6. IsCircuit(d) /\ IsOrdered(d, c, Len(c.insts), w, o)
  BY <1>5, OrderFacts, OrderedIsCircuit
<1>7. SameBut(d, c) /\ d.cregs = c.cregs
  BY <1>6 DEF IsOrdered
<1>8. LabelsFit(d, o)
  BY <1>5, <1>7 DEF LabelsFit, SameBut
<1>9. PICK at :
        /\ at \in Bijection(1..Len(Shown(d, o)), 1..Len(Shown(c, o)))
        /\ \A k \in 1..Len(Shown(d, o)) :
             at[k] \in 1..Len(Shown(c, o)) /\ Shown(d, o)[k] = Shown(c, o)[at[k]]
        /\ \A k, l \in 1..Len(Shown(d, o)) :
             k < l /\ Tied(Shown(c, o)[at[k]], Shown(c, o)[at[l]]) => at[k] < at[l]
  BY <1>5, ShownInOrder
<1>10. Written(c, Emitted(d, o)) = Shown(d, o)
  <2>1. Emittable(d, o)
    BY <1>3
  <2> HIDE DEF d
  <2> QED
    BY <1>4, <1>5, <1>6, <1>8, <1>9, <2>1, WrittenInOrder DEF o
<1>11. Emittable(d, o) /\ e = Emitted(d, o)
  BY <1>3
<1> HIDE DEF d
<1>12. IsProgramOf(e, c, d, o)
  BY <1>4, <1>5, <1>6, <1>7, <1>8, <1>9, <1>10, <1>11 DEF IsProgramOf
<1> QED
  BY <1>1, <1>2, <1>12 DEF c, e, o

(* QubitOf asks for the qubit that QubitAt is.                             *)
LEMMA QubitsAt == \A c, q : QubitOf(c, q) = QubitAt(c, ResolvedArgs, q)
<1>1. ResolvedArgs.labelsGiven => ResolvedArgs.labels = QubitLabels
  BY ResolvedFacts
<1> QED
  BY <1>1 DEF QubitOf, QubitAt

(* And it is one and the same in every order of the circuit.               *)
LEMMA QubitsOf ==
  ASSUME NEW c, NEW d, SameBut(d, c), NEW q
  PROVE  QubitOf(c, q) = QubitAt(d, ResolvedArgs, q)
<1>1. PhysicalQubits(d) = PhysicalQubits(c) /\ d.physical = c.physical
  BY DEF PhysicalQubits, SameBut
<1>2. QubitAt(d, ResolvedArgs, q) = QubitAt(c, ResolvedArgs, q)
  BY <1>1 DEF QubitAt
<1> QED
  BY <1>2, QubitsAt

(* ProgramKeepsTheCircuit: whatever circuit is compiled, for whatever      *)
(* device and in whatever order the DAG gives it, the passes and the text  *)
(* replacements after them (to_oq3 and _remap_qubits of adapter.py) leave  *)
(* every instruction once, in its place on each qubit and bit.             *)
THEOREM ProgramsKeepTheirCircuits == Spec => []ProgramKeepsTheCircuit
<1>1. ProgramsInv => ProgramKeepsTheCircuit
  <2> SUFFICES ASSUME ProgramsInv, NEW p \in DOMAIN programs
               PROVE  LET c == compiled[p]
                          lines == Lines(programs[p])
                          insts == Kept(c)
                      IN \E at \in Bijection(DOMAIN lines, DOMAIN insts) :
                           /\ \A k \in DOMAIN lines : Shows(lines[k], insts[at[k]], c)
                           /\ \A k, l \in DOMAIN lines :
                                k < l /\ Tied(insts[at[k]], insts[at[l]]) => at[k] < at[l]
    BY DEF ProgramKeepsTheCircuit
  <2> DEFINE c == compiled[p]
             o == ResolvedArgs
             insts == Shown(c, o)
  <2>1. PICK d : IsProgramOf(programs[p], c, d, o)
    BY OfAProgram
  <2> DEFINE lines == Lines(Emitted(d, o))
             shown == Shown(d, o)
  <2>2. /\ IsCircuit(c) /\ IsCircuit(d) /\ Emittable(d, o) /\ LabelsFit(d, o)
        /\ SameBut(d, c) /\ programs[p] = Emitted(d, o) /\ Kept(c) = insts
    BY <2>1 DEF IsProgramOf
  <2>3. /\ DOMAIN lines = 1..Len(shown)
        /\ \A k \in 1..Len(shown) :
             LET qubits == [j \in DOMAIN shown[k].q |-> QubitAt(d, o, shown[k].q[j])]
             IN /\ lines[k].id = shown[k].id
                /\ lines[k].q = IF shown[k].op \in PragmaOps THEN Reverse(qubits) ELSE qubits
                /\ BlocksOf(Unwrapped(lines[k])) = BlocksOf(shown[k].path)
    <3>1. /\ DOMAIN lines = 1..Len(shown)
          /\ \A k \in 1..Len(shown) : KeepsInstruction(lines[k], shown[k], d, o, k)
      BY <2>2, LinesKeepInstructions
    <3> HIDE DEF o, lines, shown
    <3>2. ASSUME NEW k \in 1..Len(shown)
          PROVE  LET qubits == [j \in DOMAIN shown[k].q |-> QubitAt(d, o, shown[k].q[j])]
                 IN /\ lines[k].id = shown[k].id
                    /\ lines[k].q = IF shown[k].op \in PragmaOps THEN Reverse(qubits)
                                                                 ELSE qubits
                    /\ BlocksOf(Unwrapped(lines[k])) = BlocksOf(shown[k].path)
      BY <3>1 DEF KeepsInstruction
    <3> QED
      BY <3>1, <3>2
  <2>4. \A q : QubitOf(c, q) = QubitAt(d, o, q)
    BY <2>2, QubitsOf
  <2>5. DOMAIN insts = 1..Len(insts)
    BY <2>2, ShownFacts
  <2>6. PICK at \in Bijection(1..Len(shown), 1..Len(insts)) :
          /\ \A k \in 1..Len(shown) : at[k] \in 1..Len(insts) /\ shown[k] = insts[at[k]]
          /\ \A k, l \in 1..Len(shown) :
               k < l /\ Tied(insts[at[k]], insts[at[l]]) => at[k] < at[l]
    BY <2>1 DEF IsProgramOf
  <2> HIDE DEF c, o, lines, insts, shown
  <2>7. \A k \in 1..Len(shown) : Shows(lines[k], shown[k], c)
    BY <2>3, <2>4 DEF Shows
  <2>8. \A k \in DOMAIN lines : Shows(lines[k], insts[at[k]], c)
    BY <2>3, <2>6, <2>7
  <2>9. at \in Bijection(DOMAIN lines, DOMAIN insts)
    BY <2>3, <2>5, <2>6
  <2>10. \A k, l \in DOMAIN lines :
           k < l /\ Tied(insts[at[k]], insts[at[l]]) => at[k] < at[l]
    BY <2>3, <2>6
  <2>11. Lines(programs[p]) = lines /\ Kept(compiled[p]) = insts
    BY <2>2 DEF lines, c
  <2> QED
    BY <2>8, <2>9, <2>10, <2>11 DEF c
<1> QED
  BY <1>1, ProgramsKept, PTL

(* Being tied goes both ways.                                              *)
LEMMA TiedBothWays == \A x, y : Tied(x, y) => Tied(y, x)
BY DEF Tied

(* BoxHoldsTheProgram: the passes that wrap a circuit and those that       *)
(* remap its qubits agree on what is verbatim (WrapInVerbatimBox), and no  *)
(* order the DAG gives moves a measurement out of the box that something   *)
(* but measurements follows on its qubit or bit.                           *)
THEOREM BoxesHoldTheirPrograms == Spec => []BoxHoldsTheProgram
<1>1. ProgramsInv => BoxHoldsTheProgram
  <2> SUFFICES ASSUME ProgramsInv, NEW p \in DOMAIN programs,
                      NEW k \in DOMAIN Lines(programs[p])
               PROVE  LET lines == Lines(programs[p])
                          written == Written(compiled[p], programs[p])
                          insts == Kept(compiled[p])
                          isEnd == \A j \in k..Len(written) : IsMeasure(written[j])
                      IN IF ~ShouldWrap(ResolvedArgs) THEN ~Wrapped(lines[k])
                         ELSE /\ Wrapped(lines[k]) <=> ~isEnd \/ ResolvedArgs.iqm
                              /\ \A r \in Range(lines[k].q) : r.kind = "$"
                              /\ ~Wrapped(lines[k]) =>
                                   \A i, j \in DOMAIN insts :
                                     /\ insts[i].id = lines[k].id /\ i < j
                                     /\ Tied(insts[i], insts[j])
                                     => IsMeasure(insts[j])
    BY DEF BoxHoldsTheProgram
  <2> DEFINE o == ResolvedArgs
             b == compiled[p]
             kept == Shown(b, o)
  <2>0. PICK c : IsProgramOf(programs[p], b, c, o)
    BY OfAProgram
  <2> DEFINE lines == Lines(Emitted(c, o))
             insts == Shown(c, o)
             qubits == [j \in DOMAIN insts[k].q |-> QubitAt(c, o, insts[k].q[j])]
  <2>1. /\ IsCircuit(c) /\ Emittable(c, o) /\ LabelsFit(c, o)
        /\ programs[p] = Emitted(c, o) /\ Written(b, programs[p]) = insts
        /\ Kept(b) = kept /\ IsCircuit(b)
    BY <2>0 DEF IsProgramOf
  <2>2. /\ DOMAIN lines = 1..Len(insts)
        /\ lines[k].q = IF insts[k].op \in PragmaOps THEN Reverse(qubits) ELSE qubits
        /\ lines[k].id = insts[k].id
        /\ Wrapped(lines[k]) <=> InBox(c, o, k)
    <3>1. /\ DOMAIN lines = 1..Len(insts)
          /\ \A h \in 1..Len(insts) : KeepsInstruction(lines[h], insts[h], c, o, h)
      BY <2>1, LinesKeepInstructions
    <3>2. k \in 1..Len(insts)
      BY <2>1, <3>1
    <3> HIDE DEF o, lines, insts
    <3>3. KeepsInstruction(lines[k], insts[k], c, o, k)
      BY <3>1, <3>2
    <3> QED
      BY <3>1, <3>3 DEF KeepsInstruction
  <2>3. InBox(c, o, k) <=>
          ShouldWrap(o) /\ (o.iqm \/ ~(\A j \in k..Len(insts) : IsMeasure(insts[j])))
    BY DEF InBox, EndsMeasured
  <2>4. ASSUME ShouldWrap(o), NEW r \in Range(lines[k].q)
        PROVE  r.kind = "$"
    <3>1. \A j \in DOMAIN qubits : qubits[j].kind = "$"
      BY <2>4 DEF QubitAt, QubitRef
    <3>2. insts[k].q \in Seq(0..(c.width - 1))
      <4>1. k \in 1..Len(insts)
        BY <2>1, <2>2
      <4> QED
        BY <2>1, <4>1, ShownFacts DEF IsInstruction
    <3>3. qubits \in Seq(Range(qubits))
      <4> DEFINE s == insts[k].q
                 W == 0..(c.width - 1)
                 R == Range(qubits)
      <4>1. s \in Seq(W) /\ DOMAIN qubits = DOMAIN s /\ qubits = [j \in DOMAIN s |-> qubits[j]]
            /\ \A j \in DOMAIN s : qubits[j] \in R
        BY <3>2 DEF Range
      <4> HIDE DEF s, W, R, qubits
      <4> QED
        BY <4>1 DEF R
    <3> HIDE DEF qubits, lines
    <3>4. Range(Reverse(qubits)) \subseteq Range(qubits)
      <4>1. DOMAIN qubits = 1..Len(qubits) /\ Len(qubits) \in Nat
        BY <3>3
      <4>2. ASSUME NEW j \in 1..Len(qubits) PROVE Reverse(qubits)[j] \in Range(qubits)
        <5>1. (Len(qubits) - j) + 1 \in 1..Len(qubits)
          BY <4>1
        <5> QED
          BY <4>1, <5>1 DEF Reverse, Range
      <4>3. DOMAIN Reverse(qubits) = 1..Len(qubits)
        BY DEF Reverse
      <4> QED
        BY <4>2, <4>3 DEF Range
    <3>5. r \in Range(qubits)
      BY <2>2, <2>4, <3>4
    <3> QED
      BY <3>1, <3>5 DEF Range
  <2>5. PICK at :
          /\ at \in Bijection(1..Len(insts), 1..Len(kept))
          /\ \A h \in 1..Len(insts) : at[h] \in 1..Len(kept) /\ insts[h] = kept[at[h]]
          /\ \A h, l \in 1..Len(insts) :
               h < l /\ Tied(kept[at[h]], kept[at[l]]) => at[h] < at[l]
    BY <2>0 DEF IsProgramOf
  <2>6. /\ DOMAIN kept = 1..Len(kept) /\ Len(kept) \in Nat /\ Len(insts) \in Nat
        /\ \A h, l \in 1..Len(kept) : kept[h].id = kept[l].id => h = l
    BY <2>1, ShownFacts, ShownIds
  <2>7. k \in 1..Len(insts)
    BY <2>1, <2>2
  <2> HIDE DEF o, b, kept, lines, insts, qubits
  <2>8. ASSUME ShouldWrap(o), ~Wrapped(lines[k]), NEW i \in DOMAIN kept, NEW j \in DOMAIN kept,
               kept[i].id = lines[k].id, i < j, Tied(kept[i], kept[j])
        PROVE  IsMeasure(kept[j])
    <3>1. at[k] = i
      BY <2>2, <2>5, <2>6, <2>7, <2>8
    <3>2. PICK l \in 1..Len(insts) : at[l] = j
      BY <2>5, <2>6, <2>8 DEF Bijection, Surjection
    <3>3. ~(l < k)
      <4>1. Tied(kept[j], kept[i])
        BY <2>8, TiedBothWays
      <4>2. l < k => j < i
        BY <2>5, <2>7, <3>1, <3>2, <4>1
      <4> QED
        BY <2>6, <2>8, <4>2
    <3>4. l # k
      BY <2>6, <2>8, <3>1, <3>2
    <3>5. l \in k..Len(insts)
      BY <2>6, <2>7, <3>3, <3>4
    <3>6. IsMeasure(insts[l])
      BY <2>2, <2>3, <2>8, <3>5
    <3> QED
      BY <2>5, <3>2, <3>6
  <2>9. /\ Lines(programs[p]) = lines /\ Written(compiled[p], programs[p]) = insts
        /\ Kept(compiled[p]) = kept
    BY <2>1 DEF lines, b
  <2>10. ~ShouldWrap(o) => ~Wrapped(lines[k])
    BY <2>2, <2>3
  <2>11. ShouldWrap(o) =>
           (Wrapped(lines[k]) <=> ~(\A j \in k..Len(insts) : IsMeasure(insts[j])) \/ o.iqm)
    BY <2>2, <2>3
  <2> QED
    BY <2>4, <2>8, <2>9, <2>10, <2>11 DEF o
<1> QED
  BY <1>1, ProgramsKept, PTL

-----------------------------------------------------------------------------
(***************************************************************************)
(* The bits of a circuit and the references to them in its program.        *)
(***************************************************************************)

(* Nothing in front changes nothing.                                       *)
LEMMA NothingInFront ==
  ASSUME NEW S, NEW ss \in Seq(Seq(S)), NEW tt \in Seq(Seq(S)),
         Len(tt) = Len(ss) + 1, tt[1] = << >>,
         \A i \in 1..Len(ss) : tt[i + 1] = ss[i]
  PROVE  FlattenSeq(tt) = FlattenSeq(ss)
<1> DEFINE c == FlattenSeq(ss)
           n == Len(ss)
<1>1. c \in Seq(S) /\ \E row, col : IsGrid(c, ss, n, row, col)
  BY FlattenSeqIsGrid
<1>2. PICK row, col : IsGrid(c, ss, n, row, col)
  BY <1>1
<1> DEFINE rows == [b \in 1..Len(c) |-> row[b] + 1]
<1>3. n \in Nat /\ Len(c) \in Nat
  BY <1>1
<1>4. tt[1] = << >> /\ Len(tt) = n + 1 /\ \A i \in 1..n : tt[i + 1] = ss[i]
  OBVIOUS
<1> HIDE DEF c, n
<1>5. /\ row \in [1..Len(c) -> 1..n] /\ col \in [1..Len(c) -> Nat]
      /\ \A b \in 1..Len(c) : col[b] \in 1..Len(ss[row[b]]) /\ c[b] = ss[row[b]][col[b]]
      /\ \A b, d \in 1..Len(c) :
           b < d => row[b] < row[d] \/ (row[b] = row[d] /\ col[b] < col[d])
      /\ \A i \in 1..n : \A j \in 1..Len(ss[i]) :
           \E b \in 1..Len(c) : row[b] = i /\ col[b] = j
  BY <1>2 DEF IsGrid
<1>12. \A b \in 1..Len(c) : rows[b] = row[b] + 1 /\ row[b] \in 1..n
  BY <1>5
<1>13. rows = [b \in 1..Len(c) |-> rows[b]]
  OBVIOUS
<1> HIDE DEF rows
<1>14. \A b \in 1..Len(c) : rows[b] \in 1..(n + 1)
  <2> SUFFICES ASSUME NEW b \in 1..Len(c) PROVE rows[b] \in 1..(n + 1)
    OBVIOUS
  <2> DEFINE q == row[b]
  <2>1. rows[b] = q + 1 /\ q \in 1..n
    BY <1>12
  <2> HIDE DEF q
  <2> QED
    BY <1>3, <2>1
<1>15. rows \in [1..Len(c) -> 1..(n + 1)]
  BY <1>13, <1>14
<1>6. /\ rows \in [1..Len(c) -> 1..(n + 1)]
      /\ \A b \in 1..Len(c) : tt[rows[b]] = ss[row[b]]
  BY <1>4, <1>12, <1>15
<1>7. \A b \in 1..Len(c) : col[b] \in 1..Len(tt[rows[b]]) /\ c[b] = tt[rows[b]][col[b]]
  BY <1>5, <1>6
<1>8. ASSUME NEW b \in 1..Len(c), NEW d \in 1..Len(c), b < d
      PROVE  rows[b] < rows[d] \/ (rows[b] = rows[d] /\ col[b] < col[d])
  <2>1. row[b] < row[d] \/ (row[b] = row[d] /\ col[b] < col[d])
    BY <1>5, <1>8
  <2>2. rows[b] = row[b] + 1 /\ rows[d] = row[d] + 1 /\ row[b] \in 1..n /\ row[d] \in 1..n
    BY <1>12
  <2>3. row[b] < row[d] => row[b] + 1 < row[d] + 1
    BY <1>3, <2>2
  <2> QED
    BY <2>1, <2>2, <2>3
<1>9. ASSUME NEW i \in 1..(n + 1), NEW j \in 1..Len(tt[i])
      PROVE  \E b \in 1..Len(c) : rows[b] = i /\ col[b] = j
  <2>1. i # 1
    BY <1>4
  <2>2. i - 1 \in 1..n /\ (i - 1) + 1 = i
    BY <1>3, <2>1
  <2>3. tt[i] = ss[i - 1]
    BY <1>4, <2>2
  <2>4. PICK b \in 1..Len(c) : row[b] = i - 1 /\ col[b] = j
    BY <1>5, <2>2, <2>3
  <2> QED
    BY <1>12, <2>2, <2>4
<1>10. IsGrid(c, tt, n + 1, rows, col)
  BY <1>5, <1>6, <1>7, <1>8, <1>9 DEF IsGrid
<1>11. FlattenSeq(tt) = c
  <2>1. IsGrid(c, tt, Len(tt), rows, col)
    BY <1>4, <1>10
  <2> QED
    BY <1>1, <2>1, FlatteningIs
<1> QED
  BY <1>11 DEF c

(* The bits of an instruction, and the references to them in its line.     *)
BitRows(path) ==
  [k \in DOMAIN path |-> IF path[k].bit < 0 THEN << >> ELSE <<path[k].bit>>]
RefRows(path) == [k \in DOMAIN path |-> path[k].on]

FinalBits(c, o) == [b \in 0..(c.bits - 1) |-> FinalBit(c, o, b)]

(* The verbatim box is on no bit: it adds none.                            *)
LEMMA BitsOfBlocks ==
  ASSUME NEW c, IsCircuit(c), NEW o, NEW i \in 1..Len(Shown(c, o))
  PROVE  LET x == Shown(c, o)[i]
             B == 0..(c.bits - 1)
             path == PathIn(c, o, i)
         IN /\ x.c \in Seq(B)
            /\ BitRows(x.path) \in Seq(Seq(B)) /\ BitRows(path) \in Seq(Seq(B))
            /\ DOMAIN path = 1..Len(BitRows(path)) /\ Len(BitRows(path)) \in Nat
            /\ FlattenSeq(BitRows(path)) = FlattenSeq(BitRows(x.path))
            /\ \A k \in DOMAIN path : path[k].bit < 0 \/ path[k].bit \in B
<1> DEFINE x == Shown(c, o)[i]
           B == 0..(c.bits - 1)
           P == [kind : {"if", "box"}, id : Nat \ {0}, bit : -1..(c.bits - 1)]
           s == x.path
           n == Len(s)
           path == PathIn(c, o, i)
<1>1. x.c \in Seq(B) /\ s \in Seq(P)
  BY ShownFacts DEF IsInstruction
<1>2. n \in Nat /\ DOMAIN s = 1..n
  BY <1>1
<1>3. \A k \in 1..n : s[k].bit < 0 \/ s[k].bit \in B
  <2> HIDE DEF s, P
  <2>1. \A k \in 1..n : s[k] \in P
    BY <1>1, <1>2
  <2>2. c.bits \in Nat
    BY CircuitFacts
  <2>3. \A k \in 1..n : s[k].bit \in -1..(c.bits - 1)
    BY <2>1 DEF P
  <2> QED
    BY <2>2, <2>3
<1>4. path = IF InBox(c, o, i) THEN <<VerbatimBox>> \o s ELSE s
  BY DEF PathIn
<1> HIDE DEF x, s, path, B
<1>5. ASSUME NEW t, NEW m \in Nat, DOMAIN t = 1..m,
             \A k \in 1..m : t[k].bit < 0 \/ t[k].bit \in B
      PROVE  BitRows(t) \in Seq(Seq(B)) /\ Len(BitRows(t)) = m
  <2>1. \A k \in 1..m : BitRows(t)[k] \in Seq(B)
    BY <1>5 DEF BitRows
  <2>2. BitRows(t) = [k \in 1..m |-> BitRows(t)[k]]
    BY <1>5 DEF BitRows
  <2> DEFINE r == BitRows(t)
  <2> HIDE DEF r
  <2>3. r = [k \in 1..m |-> r[k]] /\ \A k \in 1..m : r[k] \in Seq(B)
    BY <2>1, <2>2 DEF r
  <2>4. r \in Seq(Seq(B)) /\ Len(r) = m
    BY <2>3
  <2> QED
    BY <2>4 DEF r
<1>6. BitRows(s) \in Seq(Seq(B)) /\ Len(BitRows(s)) = n
  BY <1>2, <1>3, <1>5
<1>7. CASE ~InBox(c, o, i)
  <2>1. path = s
    BY <1>4, <1>7
  <2> QED
    BY <1>1, <1>2, <1>3, <1>6, <2>1 DEF x, s, path, B
<1>8. CASE InBox(c, o, i)
  <2>1. /\ DOMAIN path = 1..(n + 1) /\ path[1] = VerbatimBox
        /\ \A k \in 1..n : path[k + 1] = s[k]
    <3> HIDE DEF P
    <3>1. path = <<VerbatimBox>> \o s
      BY <1>4, <1>8
    <3> QED
      BY <1>1, <1>2, <3>1
  <2>2. path[1].bit < 0
    BY <2>1 DEF VerbatimBox
  <2>3. \A k \in 1..(n + 1) : path[k].bit < 0 \/ path[k].bit \in B
    <3> SUFFICES ASSUME NEW k \in 1..(n + 1) PROVE path[k].bit < 0 \/ path[k].bit \in B
      OBVIOUS
    <3>1. CASE k = 1
      BY <2>2, <3>1
    <3>2. CASE k # 1
      <4>1. k - 1 \in 1..n /\ (k - 1) + 1 = k
        BY <1>2, <3>2
      <4>2. path[k] = s[k - 1]
        BY <2>1, <4>1
      <4> QED
        BY <1>3, <4>1, <4>2
    <3> QED
      BY <3>1, <3>2
  <2>4. n + 1 \in Nat
    BY <1>2
  <2>5. BitRows(path) \in Seq(Seq(B)) /\ Len(BitRows(path)) = n + 1
    BY <1>5, <2>1, <2>3, <2>4
  <2>6. /\ BitRows(path)[1] = << >>
        /\ \A k \in 1..n : BitRows(path)[k + 1] = BitRows(s)[k]
    <3>1. 1 \in 1..(n + 1) /\ \A k \in 1..n : k + 1 \in 1..(n + 1)
      BY <1>2
    <3> QED
      BY <1>2, <2>1, <2>2, <3>1 DEF BitRows
  <2>7. FlattenSeq(BitRows(path)) = FlattenSeq(BitRows(s))
    BY <1>6, <2>5, <2>6, NothingInFront
  <2> QED
    BY <1>1, <1>6, <2>1, <2>3, <2>4, <2>5, <2>7 DEF x, s, path, B
<1> QED
  BY <1>7, <1>8

(* The references of a line are those of its instruction's bits.           *)
LEMMA RefsAreImages ==
  ASSUME NEW c, IsCircuit(c), NEW o, NEW i \in 1..Len(Shown(c, o)),
         NEW l, IsLineOf(l, c, o, i)
  PROVE  LET bits == BitsOf(Shown(c, o)[i])
             refs == RefsOf(l)
             f == FinalBits(c, o)
         IN /\ bits \in Seq(0..(c.bits - 1))
            /\ refs \in Seq(Range(f)) /\ Len(refs) = Len(bits)
            /\ \A j \in 1..Len(bits) : refs[j] = f[bits[j]]
<1> DEFINE x == Shown(c, o)[i]
           B == 0..(c.bits - 1)
           f == FinalBits(c, o)
           T == Range(f)
           path == PathIn(c, o, i)
           m == Len(BitRows(path))
           inner == FlattenSeq(BitRows(path))
           outer == FlattenSeq(RefRows(l.path))
<1>1. /\ x.c \in Seq(B)
      /\ BitRows(x.path) \in Seq(Seq(B)) /\ BitRows(path) \in Seq(Seq(B))
      /\ DOMAIN path = 1..m /\ m \in Nat
      /\ inner = FlattenSeq(BitRows(x.path))
      /\ \A k \in DOMAIN path : path[k].bit < 0 \/ path[k].bit \in B
  BY BitsOfBlocks
<1>2. /\ DOMAIN l.c = DOMAIN x.c /\ \A k \in DOMAIN x.c : l.c[k] = FinalBit(c, o, x.c[k])
      /\ DOMAIN l.path = DOMAIN path
      /\ \A k \in DOMAIN path :
           /\ IsFunction(l.path[k].on)
           /\ DOMAIN l.path[k].on = IF path[k].bit < 0 THEN {} ELSE {1}
           /\ ~(path[k].bit < 0) => l.path[k].on[1] = FinalBit(c, o, path[k].bit)
      /\ IsFunction(l.c)
  BY DEF IsLineOf
<1>3. f \in [B -> T] /\ \A b \in B : f[b] = FinalBit(c, o, b)
  BY DEF FinalBits, Range
<1>4. BitsOf(x) = x.c \o inner
  BY <1>1 DEF BitsOf, BitRows
<1>5. RefsOf(l) = l.c \o outer
  BY DEF RefsOf, RefRows
<1> HIDE DEF x, B, f, T, path, m, inner, outer
<1>6. /\ l.c \in Seq(T) /\ Len(l.c) = Len(x.c)
      /\ \A j \in 1..Len(x.c) : l.c[j] = f[x.c[j]]
  <2> DEFINE s == x.c
             t == l.c
  <2>1. s \in Seq(B) /\ DOMAIN s = 1..Len(s) /\ Len(s) \in Nat /\ \A j \in 1..Len(s) : s[j] \in B
    BY <1>1
  <2>4. DOMAIN t = DOMAIN s /\ t = [j \in DOMAIN t |-> t[j]]
        /\ \A j \in DOMAIN s : t[j] = FinalBit(c, o, s[j])
    BY <1>2 DEF IsFunction
  <2>5. \A j \in 1..Len(s) : t[j] = f[s[j]] /\ t[j] \in T
    <3> HIDE DEF s, t
    <3> QED
      BY <1>3, <2>1, <2>4
  <2>6. t = [j \in 1..Len(s) |-> t[j]]
    <3> HIDE DEF s, t
    <3> QED
      BY <2>1, <2>4
  <2>2. DOMAIN t = 1..Len(s) /\ t = [j \in 1..Len(s) |-> t[j]]
        /\ \A j \in 1..Len(s) : t[j] = f[s[j]] /\ t[j] \in T
    BY <2>1, <2>4, <2>5, <2>6
  <2> HIDE DEF s, t
  <2>3. t \in Seq(T) /\ Len(t) = Len(s)
    BY <2>1, <2>2
  <2> QED
    BY <2>2, <2>3 DEF s, t
<1>7. /\ RefRows(l.path) \in Seq(Seq(T)) /\ Len(RefRows(l.path)) = m
      /\ \A k \in 1..m : /\ Len(RefRows(l.path)[k]) = Len(BitRows(path)[k])
                         /\ \A j \in 1..Len(BitRows(path)[k]) :
                              RefRows(l.path)[k][j] = f[BitRows(path)[k][j]]
  <2> DEFINE r == RefRows(l.path)
  <2>1. r = [k \in 1..m |-> l.path[k].on]
    BY <1>1, <1>2 DEF RefRows
  <2>2. ASSUME NEW k \in 1..m
        PROVE  /\ r[k] \in Seq(T) /\ Len(r[k]) = Len(BitRows(path)[k])
               /\ \A j \in 1..Len(BitRows(path)[k]) : r[k][j] = f[BitRows(path)[k][j]]
    <3> DEFINE on == l.path[k].on
    <3>1. r[k] = on /\ k \in DOMAIN path
      BY <1>1, <2>1
    <3>2. IsFunction(on) /\ DOMAIN on = (IF path[k].bit < 0 THEN {} ELSE {1})
          /\ (~(path[k].bit < 0) => on[1] = FinalBit(c, o, path[k].bit))
      BY <1>2, <3>1
    <3>3. CASE path[k].bit < 0
      <4>1. BitRows(path)[k] = << >>
        BY <3>1, <3>3 DEF BitRows
      <4>2. on = << >>
        BY <3>2, <3>3 DEF IsFunction
      <4> QED
        BY <3>1, <4>1, <4>2
    <3>4. CASE ~(path[k].bit < 0)
      <4> DEFINE b == path[k].bit
      <4>1. BitRows(path)[k] = <<b>> /\ b \in B
        BY <1>1, <3>1, <3>4 DEF BitRows
      <4>2. on[1] = f[b] /\ f[b] \in T
        BY <1>3, <3>2, <3>4, <4>1
      <4>3. on = <<f[b]>>
        <5>1. DOMAIN on = {1} /\ on = [j \in DOMAIN on |-> on[j]]
          BY <3>2, <3>4 DEF IsFunction
        <5> HIDE DEF on, b
        <5>2. DOMAIN <<f[b]>> = {1} /\ <<f[b]>>[1] = f[b]
          OBVIOUS
        <5> QED
          BY <4>2, <5>1, <5>2
      <4> HIDE DEF on, b
      <4> QED
        BY <3>1, <4>1, <4>2, <4>3
    <3> QED
      BY <3>3, <3>4
  <2> HIDE DEF r
  <2>3. r = [k \in 1..m |-> r[k]] /\ \A k \in 1..m : r[k] \in Seq(T)
    BY <2>1, <2>2
  <2> DEFINE ST == Seq(T)
  <2> HIDE DEF ST
  <2>4. r = [k \in 1..m |-> r[k]] /\ \A k \in 1..m : r[k] \in ST
    BY <2>3 DEF ST
  <2>6. m \in Nat
    BY <1>1
  <2>5. r \in Seq(ST) /\ Len(r) = m
    BY <2>4, <2>6
  <2> QED
    BY <2>2, <2>5 DEF r, ST
<1>8. /\ inner \in Seq(B)
      /\ outer \in Seq(T) /\ Len(outer) = Len(inner)
      /\ \A b \in 1..Len(inner) : outer[b] = f[inner[b]]
  <2> DEFINE ss == BitRows(path)
             tt == RefRows(l.path)
  <2>1. ss \in Seq(Seq(B)) /\ tt \in Seq(Seq(T)) /\ f \in [B -> T]
    BY <1>1, <1>3, <1>7
  <2>2. Len(tt) = Len(ss) /\ m = Len(ss)
    BY <1>7 DEF m
  <2>3. \A k \in 1..Len(ss) : /\ Len(tt[k]) = Len(ss[k])
                             /\ \A j \in 1..Len(ss[k]) : tt[k][j] = f[ss[k][j]]
    BY <1>7, <2>2
  <2>4. inner = FlattenSeq(ss) /\ outer = FlattenSeq(tt)
    BY DEF inner, outer
  <2> HIDE DEF ss, tt
  <2> QED
    <3>1. AreImages(f, ss, tt)
      BY <2>2, <2>3 DEF AreImages, IsImage
    <3>2. /\ FlattenSeq(ss) \in Seq(B) /\ FlattenSeq(tt) \in Seq(T)
          /\ IsImage(f, FlattenSeq(ss), FlattenSeq(tt))
      BY <2>1, <3>1, FlatteningOfImages
    <3> QED
      BY <2>4, <3>2 DEF IsImage
<1>9. BitsOf(x) \in Seq(B) /\ RefsOf(l) \in Seq(T) /\ Len(RefsOf(l)) = Len(BitsOf(x))
      /\ \A j \in 1..Len(BitsOf(x)) : RefsOf(l)[j] = f[BitsOf(x)[j]]
  <2> DEFINE s == x.c
             t == l.c
             n == Len(s)
             e == Len(inner)
  <2>1. s \in Seq(B) /\ t \in Seq(T) /\ Len(t) = n /\ n \in Nat
        /\ \A j \in 1..n : t[j] = f[s[j]]
    BY <1>1, <1>6
  <2>2. e \in Nat /\ \A j \in 1..e : inner[j] \in B
    BY <1>8
  <2>3. outer \in Seq(T) /\ Len(outer) = e /\ \A j \in 1..e : outer[j] = f[inner[j]]
    BY <1>3, <1>8, <2>2
  <2> HIDE DEF s, t, n, e
  <2>4. s \o inner \in Seq(B) /\ Len(s \o inner) = n + e
        /\ \A j \in 1..(n + e) : (s \o inner)[j] = IF j <= n THEN s[j] ELSE inner[j - n]
    BY <1>8, <2>1, <2>2 DEF n, e
  <2>5. t \o outer \in Seq(T) /\ Len(t \o outer) = n + e
        /\ \A j \in 1..(n + e) : (t \o outer)[j] = IF j <= n THEN t[j] ELSE outer[j - n]
    <3>1. n \in Nat /\ e \in Nat /\ Len(t) = n /\ Len(outer) = e
      BY <2>1, <2>2, <2>3
    <3>2. t \in Seq(T) /\ outer \in Seq(T)
      BY <2>1, <2>3
    <3> QED
      BY <3>1, <3>2
  <2>6. \A j \in 1..(n + e) : (t \o outer)[j] = f[(s \o inner)[j]]
    <3> SUFFICES ASSUME NEW j \in 1..(n + e) PROVE (t \o outer)[j] = f[(s \o inner)[j]]
      OBVIOUS
    <3>1. CASE j <= n
      <4>1. j \in 1..n
        BY <2>1, <2>2, <3>1
      <4> QED
        BY <2>1, <2>4, <2>5, <3>1, <4>1
    <3>2. CASE ~(j <= n)
      <4>1. j - n \in 1..e
        BY <2>1, <2>2, <3>2
      <4> QED
        BY <2>3, <2>4, <2>5, <3>2, <4>1
    <3> QED
      BY <3>1, <3>2
  <2>7. BitsOf(x) = s \o inner /\ RefsOf(l) = t \o outer
    BY <1>4, <1>5 DEF s, t
  <2> QED
    BY <2>4, <2>5, <2>6, <2>7
<1> QED
  BY <1>9 DEF x, B, T, f

(* The elements that are picked.                                           *)
LEMMA RangeOfThose ==
  ASSUME NEW S, NEW s \in Seq(S), NEW K \in SUBSET (1..Len(s))
  PROVE  Range(Those(s, K)) = {s[j] : j \in K}
<1> DEFINE t == Those(s, K)
<1>1. t \in Seq(S) /\ \E p : /\ Listing(p, Len(t), K)
                             /\ \A b \in 1..Len(t) : t[b] = s[p[b]]
  BY ThoseListed
<1>2. PICK p : Listing(p, Len(t), K) /\ \A b \in 1..Len(t) : t[b] = s[p[b]]
  BY <1>1
<1>3. DOMAIN t = 1..Len(t)
  BY <1>1
<1> HIDE DEF t
<1>4. /\ \A b \in 1..Len(t) : p[b] \in K
      /\ \A k \in K : \E b \in 1..Len(t) : p[b] = k
      /\ \A b \in 1..Len(t) : t[b] = s[p[b]]
  BY <1>2 DEF Listing
<1>5. \A x : x \in Range(t) <=> \E b \in 1..Len(t) : x = t[b]
  BY <1>3 DEF Range
<1>6. ASSUME NEW x PROVE x \in Range(t) <=> x \in {s[j] : j \in K}
  <2>1. ASSUME x \in Range(t) PROVE x \in {s[j] : j \in K}
    <3>1. PICK b \in 1..Len(t) : x = t[b]
      BY <1>5, <2>1
    <3>2. x = s[p[b]] /\ p[b] \in K
      BY <1>4, <3>1
    <3> QED
      BY <3>2
  <2>2. ASSUME x \in {s[j] : j \in K} PROVE x \in Range(t)
    <3>1. PICK j \in K : x = s[j]
      BY <2>2
    <3>2. PICK b \in 1..Len(t) : p[b] = j
      BY <1>4
    <3>3. x = t[b]
      BY <1>4, <3>1, <3>2
    <3> QED
      BY <1>5, <3>3
  <2> QED
    BY <2>1, <2>2
<1> QED
  BY <1>6 DEF t

(* The register of loose bits gets a name that is free.                    *)
LEMMA PlainNameIsFree ==
  ASSUME NEW taken, \E n \in Range(PlainNames) : n \notin taken
  PROVE  PlainRegisterName(taken) \in Range(PlainNames) \ taken
<1> DEFINE free(i) == PlainNames[i] \notin taken
<1>1. DOMAIN PlainNames = 1..4
  BY DEF PlainNames
<1>2. free(1) \/ free(2) \/ free(3) \/ free(4)
  BY DEF PlainNames, Range
<1>3. \E i \in 1..4 : free(i) /\ \A j \in 1..(i - 1) : ~free(j)
  <2> HIDE DEF free
  <2>1. CASE free(1)
    BY <2>1
  <2>2. CASE ~free(1) /\ free(2)
    BY <2>2
  <2>3. CASE ~free(1) /\ ~free(2) /\ free(3)
    BY <2>3
  <2>4. CASE ~free(1) /\ ~free(2) /\ ~free(3) /\ free(4)
    BY <2>4
  <2> QED
    BY <1>2, <2>1, <2>2, <2>3, <2>4
<1>4. \E i \in DOMAIN PlainNames : /\ PlainNames[i] \notin taken
                                   /\ \A j \in 1..(i - 1) : PlainNames[j] \in taken
  BY <1>1, <1>3
<1> QED
  BY <1>4 DEF PlainRegisterName, Range

(* The classical registers of a program: those that are kept, and one of   *)
(* the bits that are in none of them.                                      *)
KeptRegisters(c) == {r \in Range(c.cregs) : r.name \in c.outputs}
TakenNames(c) == c.outputs \cup {r.name : r \in Range(c.qregs)}
IsPlain(c, r) ==
  /\ r.name \in Range(PlainNames) \ TakenNames(c)
  /\ r.bits \in Seq(Int)
  /\ Range(r.bits) = {b \in 0..(c.bits - 1) : \A k \in KeptRegisters(c) : b \notin Range(k.bits)}

(* ConsolidateClbits leaves the declared registers and one of loose bits.  *)
LEMMA RegistersAre ==
  ASSUME NEW c, IsCircuit(c), c.bits # 0
  PROVE  LET d == ConsolidateClbits(c)
         IN \E P : /\ IsPlain(c, P)
                   /\ Range(d.cregs) = KeptRegisters(c) \cup (IF P.bits = << >> THEN {} ELSE {P})
<1> DEFINE s == c.cregs
           I == {i \in DOMAIN s : s[i].name \in c.outputs}
           kept == Those(s, I)
           all == PlainBits_All(c, kept)
           J == {i \in 1..c.bits : \A r \in Range(kept) : i - 1 \notin Range(r.bits)}
           plain == PlainBits(c, kept)
           P == [name |-> PlainRegisterName(TakenNames(c)), bits |-> plain]
           S == Range(s) \cup {P}
<1>1. s \in Seq(Range(s)) /\ DOMAIN s = 1..Len(s) /\ c.bits \in Nat
  BY CircuitFacts
<1>2. I \in SUBSET (1..Len(s))
  BY <1>1
<1>3. kept \in Seq(Range(s)) /\ Range(kept) = {s[j] : j \in I}
  <2> HIDE DEF s, I
  <2>1. s \in Seq(Range(s)) /\ I \in SUBSET (1..Len(s))
    BY <1>1, <1>2
  <2> DEFINE Q == Range(s)
  <2> HIDE DEF Q
  <2>2. s \in Seq(Q)
    BY <2>1 DEF Q
  <2>3. kept \in Seq(Q) /\ Range(kept) = {s[j] : j \in I}
    BY <2>1, <2>2, ThoseListed, RangeOfThose
  <2> QED
    BY <2>3 DEF Q
<1>4. Range(kept) = KeptRegisters(c)
  BY <1>3 DEF KeptRegisters, Range
<1>5. all \in Seq(Int) /\ Len(all) = c.bits /\ \A i \in 1..c.bits : all[i] = i - 1
  BY <1>1 DEF PlainBits_All
<1>6. plain = Those(all, J)
  BY DEF PlainBits
<1> HIDE DEF kept, all
<1>7. plain \in Seq(Int) /\ Range(plain) = {all[j] : j \in J}
  <2> HIDE DEF plain
  <2>1. J \in SUBSET (1..Len(all))
    BY <1>5
  <2> HIDE DEF J
  <2>2. all \in Seq(Int) /\ Those(all, J) \in Seq(Int)
    BY <1>5, <2>1, ThoseListed
  <2>3. Range(Those(all, J)) = {all[j] : j \in J}
    BY <2>1, <2>2, RangeOfThose
  <2> QED
    BY <1>6, <2>2, <2>3
<1> HIDE DEF plain
<1>8. Range(plain) = {b \in 0..(c.bits - 1) : \A k \in KeptRegisters(c) : b \notin Range(k.bits)}
  <2>1. ASSUME NEW b, b \in Range(plain)
        PROVE  b \in 0..(c.bits - 1) /\ \A k \in KeptRegisters(c) : b \notin Range(k.bits)
    <3>1. PICK i \in J : b = all[i]
      BY <1>7, <2>1
    <3>2. i \in 1..c.bits /\ b = i - 1
      BY <1>5, <3>1
    <3> QED
      BY <1>1, <1>4, <3>1, <3>2
  <2>2. ASSUME NEW b \in 0..(c.bits - 1), \A k \in KeptRegisters(c) : b \notin Range(k.bits)
        PROVE  b \in Range(plain)
    <3>1. b + 1 \in 1..c.bits /\ (b + 1) - 1 = b
      BY <1>1
    <3>2. b + 1 \in J
      BY <1>4, <2>2, <3>1
    <3> QED
      BY <1>5, <1>7, <3>1, <3>2
  <2> QED
    BY <2>1, <2>2
<1>9. PlainRegisterName(TakenNames(c)) \in Range(PlainNames) \ TakenNames(c)
  BY PlainNameIsFree DEF IsCircuit, TakenNames
<1>10. IsPlain(c, P)
  BY <1>7, <1>8, <1>9 DEF IsPlain
<1>11. ConsolidateClbits(c).cregs = kept \o (IF plain = << >> THEN << >> ELSE <<P>>)
  <2>1. DOMAIN c = CircuitFields
    BY CircuitFacts DEF SameBut
  <2> QED
    BY <2>1 DEF ConsolidateClbits, TakenNames, CircuitFields, kept, plain
<1>12. Range(ConsolidateClbits(c).cregs)
         = KeptRegisters(c) \cup (IF P.bits = << >> THEN {} ELSE {P})
  <2>1. kept \in Seq(S) /\ P \in S
    BY <1>3
  <2>2. P.bits = plain
    OBVIOUS
  <2> HIDE DEF P, S
  <2>3. CASE plain = << >>
    <3>1. ConsolidateClbits(c).cregs = kept
      BY <1>11, <2>1, <2>3
    <3> QED
      BY <1>4, <2>2, <2>3, <3>1
  <2>4. CASE plain # << >>
    <3> DEFINE t == kept \o <<P>>
               n == Len(kept)
    <3>1. n \in Nat /\ DOMAIN kept = 1..n /\ DOMAIN t = 1..(n + 1) /\ t[n + 1] = P
          /\ \A j \in 1..n : t[j] = kept[j]
      BY <2>1
    <3>2. ConsolidateClbits(c).cregs = t
      BY <1>11, <2>4
    <3> HIDE DEF t, n
    <3>3. Range(t) = Range(kept) \cup {P}
      <4>1. ASSUME NEW j \in 1..(n + 1) PROVE t[j] \in Range(kept) \cup {P}
        BY <3>1 DEF Range
      <4>2. Range(kept) \cup {P} \subseteq Range(t)
        BY <3>1 DEF Range
      <4> QED
        BY <3>1, <4>1, <4>2 DEF Range
    <3> QED
      BY <1>4, <2>2, <2>4, <3>2, <3>3
  <2> QED
    BY <2>3, <2>4
<1> QED
  BY <1>10, <1>12

(* The register of a bit, and the bit's place in it.                       *)
LEMMA BitRefFacts ==
  ASSUME NEW c, IsCircuit(c), NEW b \in 0..(c.bits - 1)
  PROVE  LET d == ConsolidateClbits(c)
             r == Register(d, b)
         IN /\ r \in KeptRegisters(c) \/ IsPlain(c, r)
            /\ r \in Range(d.cregs)
            /\ \E m \in Nat : /\ m \in DOMAIN r.bits /\ r.bits[m] = b
                              /\ BitRef(d, b) = [register |-> r.name, at |-> m - 1]
<1> DEFINE d == ConsolidateClbits(c)
           r == Register(d, b)
<1>1. c.bits # 0
  BY CircuitFacts
<1>2. PICK P : /\ IsPlain(c, P)
               /\ Range(d.cregs) = KeptRegisters(c) \cup (IF P.bits = << >> THEN {} ELSE {P})
  BY <1>1, RegistersAre
<1> HIDE DEF d
<1>3. \E q \in Range(d.cregs) : b \in Range(q.bits)
  <2>1. CASE \E k \in KeptRegisters(c) : b \in Range(k.bits)
    BY <1>2, <2>1
  <2>2. CASE ~\E k \in KeptRegisters(c) : b \in Range(k.bits)
    <3>1. b \in Range(P.bits)
      BY <1>2, <2>2 DEF IsPlain
    <3>2. P.bits # << >>
      BY <3>1 DEF Range
    <3> QED
      BY <1>2, <3>1, <3>2
  <2> QED
    BY <2>1, <2>2
<1>4. r \in Range(d.cregs) /\ b \in Range(r.bits)
  BY <1>3 DEF Register
<1> DEFINE m == CHOOSE k \in DOMAIN r.bits : r.bits[k] = b
<1>5. m \in DOMAIN r.bits /\ r.bits[m] = b
  BY <1>4 DEF Range
<1>6. BitRef(d, b) = [register |-> r.name, at |-> m - 1]
  BY DEF BitRef
<1> HIDE DEF r, m
<1>7. r \in KeptRegisters(c) \/ IsPlain(c, r)
  BY <1>2, <1>4
<1>8. DOMAIN r.bits \subseteq Nat
  <2>1. CASE r \in KeptRegisters(c)
    <3>1. r.bits \in Seq(Nat)
      BY <2>1 DEF KeptRegisters, IsCircuit
    <3> QED
      BY <3>1
  <2>2. CASE IsPlain(c, r)
    <3>1. r.bits \in Seq(Int)
      BY <2>2 DEF IsPlain
    <3> QED
      BY <3>1
  <2> QED
    BY <1>7, <2>1, <2>2
<1> QED
  BY <1>4, <1>5, <1>6, <1>7, <1>8 DEF d, r

(* No register's name ends with that of the quantum register.              *)
NamesApart(c) == ~(\E o \in c.outputs : \E r \in Range(c.qregs) : EndsWith(o, r.name))

(* The text replacement for the quantum register hits no bit.              *)
LEMMA BitsKeepTheirPlaces ==
  ASSUME NEW c, IsCircuit(c), NEW o, NamesApart(c), NEW b \in 0..(c.bits - 1)
  PROVE  FinalBit(c, o, b) = BitRef(ConsolidateClbits(c), b)
<1> DEFINE d == ConsolidateClbits(c)
           r == Register(d, b)
           ref == BitRef(d, b)
<1>1. ref.register = r.name
  BY DEF BitRef
<1>2. r \in KeptRegisters(c) \/ IsPlain(c, r)
  BY BitRefFacts
<1> HIDE DEF r, ref
<1>3. ASSUME IsHit(c, o) PROVE ~EndsWith(ref.register, c.qregs[1].name)
  <2>1. c.qregs # << >>
    BY <1>3 DEF IsHit, PhysicalQubits, NoLabels, IsCircuit
  <2>2. c.qregs[1] \in Range(c.qregs)
    <3>1. c.qregs \in Seq(Range(c.qregs))
      BY CircuitFacts
    <3> DEFINE s == c.qregs
               R == Range(s)
    <3>2. s \in Seq(R) /\ s # << >>
      BY <2>1, <3>1
    <3> HIDE DEF s, R
    <3>3. s[1] \in R
      BY <3>2
    <3> QED
      BY <3>3 DEF s, R
  <2>3. CASE r \in KeptRegisters(c)
    BY <1>1, <2>2, <2>3 DEF KeptRegisters, NamesApart
  <2>4. CASE IsPlain(c, r)
    <3>1. r.name \in Range(PlainNames) /\ r.name # c.qregs[1].name
      BY <2>2, <2>4 DEF IsPlain, TakenNames
    <3> QED
      BY <1>1, <2>2, <3>1 DEF IsCircuit
  <2> QED
    BY <1>2, <2>3, <2>4
<1>4. FinalBit(c, o, b) = BitTo(c, o, ref)
  BY DEF FinalBit, ref, d
<1>5. BitTo(c, o, ref) = ref
  BY <1>3 DEF BitTo, Hit
<1> QED
  BY <1>4, <1>5 DEF ref, d

(* Two bits have two references, and each has the register it should have. *)
LEMMA BitsHaveTheirNames ==
  ASSUME NEW c, IsCircuit(c), NEW o, NamesApart(c)
  PROVE  LET f == FinalBits(c, o)
         IN /\ \A a, b \in 0..(c.bits - 1) : f[a] = f[b] => a = b
            /\ \A b \in 0..(c.bits - 1) :
                 IF Named2(c, b) # {} THEN f[b] \in Named2(c, b)
                 ELSE f[b].register \notin TakenNames(c)
<1> DEFINE B == 0..(c.bits - 1)
           d == ConsolidateClbits(c)
           f == FinalBits(c, o)
           reg(b) == Register(d, b)
<1>1. \A b \in B : f[b] = BitRef(d, b)
  BY BitsKeepTheirPlaces DEF FinalBits
<1>2. \A b \in B :
        /\ reg(b) \in KeptRegisters(c) \/ IsPlain(c, reg(b))
        /\ reg(b) \in Range(d.cregs)
        /\ \E m \in Nat : /\ m \in DOMAIN reg(b).bits /\ reg(b).bits[m] = b
                          /\ BitRef(d, b) = [register |-> reg(b).name, at |-> m - 1]
  BY BitRefFacts
<1>3. ASSUME NEW q \in Range(d.cregs), NEW r \in Range(d.cregs), q.name = r.name, B # {}
      PROVE  q = r
  <2>1. c.bits # 0
    BY <1>3
  <2>2. PICK P : /\ IsPlain(c, P)
                 /\ Range(d.cregs) = KeptRegisters(c) \cup (IF P.bits = << >> THEN {} ELSE {P})
    BY <2>1, RegistersAre
  <2>3. P.name \notin c.outputs
    BY <2>2 DEF IsPlain, TakenNames
  <2>4. CASE q = P \/ r = P
    BY <1>3, <2>2, <2>3, <2>4 DEF KeptRegisters
  <2>5. CASE q \in KeptRegisters(c) /\ r \in KeptRegisters(c)
    <3>1. PICK i \in DOMAIN c.cregs : q = c.cregs[i]
      BY <2>5 DEF KeptRegisters, Range
    <3>2. PICK j \in DOMAIN c.cregs : r = c.cregs[j]
      BY <2>5 DEF KeptRegisters, Range
    <3>3. i = j
      BY <1>3, <3>1, <3>2 DEF IsCircuit
    <3> QED
      BY <3>1, <3>2, <3>3
  <2> QED
    BY <1>3, <2>2, <2>4, <2>5
<1> HIDE DEF f, d, reg
<1>4. ASSUME NEW a \in B, NEW b \in B, f[a] = f[b] PROVE a = b
  <2>1. PICK m \in Nat : /\ m \in DOMAIN reg(a).bits /\ reg(a).bits[m] = a
                        /\ BitRef(d, a) = [register |-> reg(a).name, at |-> m - 1]
    BY <1>2
  <2>2. PICK n \in Nat : /\ n \in DOMAIN reg(b).bits /\ reg(b).bits[n] = b
                        /\ BitRef(d, b) = [register |-> reg(b).name, at |-> n - 1]
    BY <1>2
  <2>3. [register |-> reg(a).name, at |-> m - 1] = [register |-> reg(b).name, at |-> n - 1]
    BY <1>1, <1>4, <2>1, <2>2
  <2>4. reg(a).name = reg(b).name /\ m - 1 = n - 1
    BY <2>3
  <2>5. reg(a) = reg(b)
    BY <1>2, <1>3, <2>4
  <2>6. m = n
    BY <2>4
  <2> QED
    BY <2>1, <2>2, <2>5, <2>6
<1>5. ASSUME NEW b \in B
      PROVE  IF Named2(c, b) # {} THEN f[b] \in Named2(c, b)
             ELSE f[b].register \notin TakenNames(c)
  <2>1. PICK m \in Nat : /\ m \in DOMAIN reg(b).bits /\ reg(b).bits[m] = b
                        /\ BitRef(d, b) = [register |-> reg(b).name, at |-> m - 1]
    BY <1>2
  <2>2. f[b] = [register |-> reg(b).name, at |-> m - 1]
    BY <1>1, <2>1
  <2>3. ASSUME reg(b) \in KeptRegisters(c) PROVE f[b] \in Named2(c, b)
    BY <2>1, <2>2, <2>3 DEF Named2, KeptRegisters
  <2>4. ASSUME IsPlain(c, reg(b))
        PROVE  Named2(c, b) = {} /\ f[b].register \notin TakenNames(c)
    <3>1. f[b].register = reg(b).name /\ reg(b).name \notin TakenNames(c)
      BY <2>2, <2>4 DEF IsPlain
    <3>2. b \in Range(reg(b).bits)
      BY <2>1 DEF Range
    <3>3. \A k \in KeptRegisters(c) : b \notin Range(k.bits)
      BY <2>4, <3>2 DEF IsPlain
    <3>4. Named2(c, b) = {}
      <4> SUFFICES ASSUME NEW z, z \in Named2(c, b) PROVE FALSE
        OBVIOUS
      <4>1. PICK k \in KeptRegisters(c) : \E n \in DOMAIN k.bits : k.bits[n] = b
        BY DEF Named2, KeptRegisters
      <4> QED
        BY <3>3, <4>1 DEF Range
    <3> QED
      BY <3>1, <3>4
  <2> QED
    BY <1>2, <2>3, <2>4
<1> QED
  BY <1>4, <1>5 DEF f

(* BitsStayApart: consolidating the registers (ConsolidateClbits) and      *)
(* replacing the quantum register's references in the text (_remap_qubits) *)
(* leave every bit of every circuit apart from the others.                 *)
THEOREM BitsOfProgramsStayApart == Spec => []BitsStayApart
<1>1. ProgramsInv => BitsStayApart
  <2> SUFFICES ASSUME ProgramsInv, NEW p \in DOMAIN programs, NamesApart(compiled[p])
               PROVE  LET c == compiled[p]
                          insts == Written(c, programs[p])
                          bits == FlattenSeq([k \in DOMAIN insts |-> BitsOf(insts[k])])
                          refs == FlattenSeq([k \in DOMAIN Lines(programs[p]) |->
                                                RefsOf(Lines(programs[p])[k])])
                      IN /\ Len(bits) = Len(refs)
                         /\ \A i, j \in DOMAIN bits : bits[i] = bits[j] <=> refs[i] = refs[j]
                         /\ \A i \in DOMAIN bits :
                              IF Named2(c, bits[i]) # {} THEN refs[i] \in Named2(c, bits[i])
                              ELSE refs[i].register \notin TakenNames(c)
    BY DEF BitsStayApart, NamesApart, TakenNames
  <2> DEFINE b == compiled[p]
             o == ResolvedArgs
  <2>0. PICK c : IsProgramOf(programs[p], b, c, o)
    BY OfAProgram
  <2> DEFINE lines == Lines(Emitted(c, o))
             insts == Shown(c, o)
             n == Len(insts)
             f == FinalBits(c, o)
             B == 0..(c.bits - 1)
             T == Range(f)
             written == Written(b, programs[p])
             ss == [k \in DOMAIN written |-> BitsOf(written[k])]
             tt == [k \in DOMAIN Lines(programs[p]) |-> RefsOf(Lines(programs[p])[k])]
             bits == FlattenSeq(ss)
             refs == FlattenSeq(tt)
  <2>1. /\ IsCircuit(c) /\ Emittable(c, o) /\ LabelsFit(c, o)
        /\ programs[p] = Emitted(c, o) /\ written = insts
        /\ c.outputs = b.outputs /\ c.qregs = b.qregs /\ c.cregs = b.cregs
        /\ NamesApart(c)
    BY <2>0 DEF IsProgramOf, SameBut, NamesApart
  <2>2. /\ DOMAIN lines = 1..n
        /\ \A k \in 1..n : IsLineOf(lines[k], c, o, k)
    BY <2>1, LinesKeepTheCircuit
  <2>3. n \in Nat /\ DOMAIN insts = 1..n
    BY <2>1, ShownFacts
  <2>4. ASSUME NEW k \in 1..n
        PROVE  /\ BitsOf(insts[k]) \in Seq(B) /\ RefsOf(lines[k]) \in Seq(T)
               /\ IsImage(f, BitsOf(insts[k]), RefsOf(lines[k]))
    <3>1. IsLineOf(lines[k], c, o, k)
      BY <2>2
    <3> HIDE DEF lines, o
    <3>2. k \in 1..Len(Shown(c, o)) /\ IsCircuit(c)
      BY <2>1
    <3> QED
      BY <3>1, <3>2, RefsAreImages DEF IsImage
  <2>5. f \in [B -> T] /\ DOMAIN f = B
    BY DEF FinalBits, Range
  <2>6. /\ \A x, y \in B : f[x] = f[y] => x = y
        /\ \A x \in B : IF Named2(c, x) # {} THEN f[x] \in Named2(c, x)
                        ELSE f[x].register \notin TakenNames(c)
    BY <2>1, BitsHaveTheirNames
  <2>7. /\ ss = [k \in 1..n |-> BitsOf(insts[k])]
        /\ tt = [k \in 1..n |-> RefsOf(lines[k])]
    BY <2>1, <2>2, <2>3
  <2> HIDE DEF lines, insts, n, f, B, T, b, o, written, ss, tt
  <2>8. /\ ss \in Seq(Seq(B)) /\ Len(ss) = n
        /\ tt \in Seq(Seq(T)) /\ Len(tt) = n
    <3> DEFINE SB == Seq(B)
               ST == Seq(T)
    <3>1. /\ ss = [k \in 1..n |-> ss[k]] /\ \A k \in 1..n : ss[k] \in SB
          /\ tt = [k \in 1..n |-> tt[k]] /\ \A k \in 1..n : tt[k] \in ST
      BY <2>4, <2>7
    <3> HIDE DEF SB, ST
    <3>2. ss \in Seq(SB) /\ Len(ss) = n
      BY <2>3, <3>1
    <3>3. tt \in Seq(ST) /\ Len(tt) = n
      BY <2>3, <3>1
    <3> QED
      BY <3>2, <3>3 DEF SB, ST
  <2>9. AreImages(f, ss, tt)
    <3>1. \A k \in 1..n : IsImage(f, ss[k], tt[k])
      BY <2>4, <2>7
    <3> QED
      BY <2>8, <3>1 DEF AreImages
  <2>10. bits \in Seq(B) /\ IsImage(f, bits, refs)
    BY <2>5, <2>8, <2>9, FlatteningOfImages
  <2> HIDE DEF bits, refs
  <2>11. /\ DOMAIN bits = 1..Len(bits) /\ \A i \in DOMAIN bits : bits[i] \in B
         /\ Len(bits) = Len(refs) /\ \A i \in DOMAIN bits : refs[i] = f[bits[i]]
    BY <2>10 DEF IsImage
  <2>12. \A i, j \in DOMAIN bits : bits[i] = bits[j] <=> refs[i] = refs[j]
    BY <2>6, <2>11
  <2>13. \A i \in DOMAIN bits :
           IF Named2(c, bits[i]) # {} THEN refs[i] \in Named2(c, bits[i])
           ELSE refs[i].register \notin TakenNames(c)
    BY <2>6, <2>11
  <2>14. /\ \A i : Named2(b, i) = Named2(c, i)
         /\ TakenNames(b) = TakenNames(c)
    BY <2>1 DEF Named2, TakenNames
  <2> QED
    BY <2>11, <2>12, <2>13, <2>14 DEF bits, refs, ss, tt, written, b
<1> QED
  BY <1>1, ProgramsKept, PTL

-----------------------------------------------------------------------------
(***************************************************************************)
(* What every name in a program means.                                     *)
(***************************************************************************)

(* Every substitute is of a rotation about x, on no qubit as well.         *)
OfRotations == DOMAIN substitutes \subseteq {"x", "sx", "sxdg"}

(* No substitute is there at first.                                        *)
LEMMA InitRotations == TargetInit => OfRotations
BY DEF TargetInit, OfRotations

(* What is added to the target as something else is one.                   *)
LEMMA NextRotations == OfRotations /\ [BuildTarget]_targetVars => OfRotations'
<1> SUFFICES ASSUME OfRotations, [BuildTarget]_targetVars PROVE OfRotations'
  OBVIOUS
<1>1. CASE substitutes' = substitutes
  BY <1>1 DEF OfRotations
<1>2. ASSUME NEW r \in left, AddFirst(r) PROVE OfRotations'
  <2> DEFINE name == AddsAs(r)
  <2>1. CASE name = GateName(r.gate)
    BY <1>1, <1>2, <2>1 DEF AddFirst
  <2>2. CASE name # GateName(r.gate)
    <3>1. name \in {"x", "sx", "sxdg"}
      BY <2>2 DEF AddsAs, Substitutes
    <3>2. DOMAIN substitutes' \subseteq DOMAIN substitutes \cup {name}
      BY <1>2 DEF AddFirst, Over
    <3> QED
      BY <3>1, <3>2 DEF OfRotations
  <2> QED
    BY <2>1, <2>2
<1>3. ASSUME NEW r \in left, AddAnother(r) PROVE OfRotations'
  BY <1>3 DEF AddAnother, OfRotations
<1> QED
  BY <1>1, <1>2, <1>3 DEF BuildTarget, targetVars, ReadDevice, AddNative, EndCalibrated,
     FinishTarget, SkipCalibrated, SimulatorTarget, RefuseDevice

NoGateOps == NonGateTargetOps \cup {"CCPRx", "MeasureFF"}

(* A target's gates are gates that Qiskit and Braket have, or are none.    *)
LEMMA EntriesAreOfGates ==
  ASSUME TargetInv, PlacesInv, OfRotations, stage = "built", NEW n \in DOMAIN entries
  PROVE  n \in QiskitGateNames \cup NoGateOps
<1>1. device.type \in {"qpu", "simulator"} /\ Offered /\ EntriesInv
  BY DEF TargetInv, PlacesInv, EntriesInv
<1>2. CASE device.type = "simulator"
  BY <1>1, <1>2, SimulatorHasGates DEF EntriesInv, NoGateOps
<1>3. CASE device.type = "qpu"
  <2>1. EntryInv(n)
    BY <1>1, <1>3 DEF EntriesInv
  <2>2. CASE n \in {"if_else", "barrier", "measure"}
    BY <2>2 DEF NoGateOps, NonGateTargetOps
  <2>3. CASE n \in DOMAIN substitutes
    <3>1. CASE n = "x"
      <4>1. "x" \in SameName
        BY DEF SameName
      <4> QED
        BY <3>1, <4>1, NamesAreOfTheirGates DEF QiskitGateNames
    <3>2. CASE n \in {"sx", "sxdg"}
      <4>1. \E b \in DOMAIN Renamed : n = Renamed[b]
        BY <3>2 DEF Renamed
      <4> QED
        BY <4>1, NamesAreOfTheirGates DEF QiskitGateNames
    <3> QED
      BY <2>3, <3>1, <3>2 DEF OfRotations
  <2>4. CASE \E b \in Qubits12 : n = GateName(b)
    BY <2>4, NamesOfGates DEF NoGateOps, NonGateTargetOps, QiskitGateNames
  <2> QED
    BY <2>1, <2>2, <2>3, <2>4 DEF EntryInv, IsOfTheDevice
<1> QED
  BY <1>1, <1>2, <1>3

(* What a program is emitted for: the target's gates, to_oq3's own, or the *)
(* device's, of which _basis_gates_target has refused mcx.                 *)
LEMMA BasisFor ==
  ASSUME Given
  PROVE  LET basis == ResolvedArgs.basis
         IN \/ basis = (DOMAIN entries \ NonGateTargetOps) \cup SubstitutedGateNames
            \/ call.mode = "pass_manager" /\ basis = DefaultBasis
            \/ /\ call.mode = "plain" /\ device.type # "simulator"
               /\ basis = GatesetFromProperties(device)
<1> DEFINE t == ForTarget
           own == (DOMAIN entries \ NonGateTargetOps) \cup SubstitutedGateNames
<1>1. /\ DOMAIN t = {"basis", "keepsBarriers", "nativePath", "iqm", "verbatim",
                     "labels", "labelsGiven", "restrictions"}
      /\ t.basis = own
  BY ForTargetFacts
<1> HIDE DEF t
<1>2. CASE call.mode \in {"verbatim", "local_verbatim"}
  <2>1. ResolvedArgs = [t EXCEPT !.verbatim = TRUE]
    BY <1>2 DEF ResolvedArgs, t
  <2> QED
    BY <1>1, <2>1
<1>3. CASE call.mode = "pass_manager"
  <2>1. ResolvedArgs = [t EXCEPT !.basis = DefaultBasis, !.keepsBarriers = FALSE,
                          !.nativePath = TRUE, !.iqm = FALSE]
    BY <1>3 DEF ResolvedArgs, ForPassManager, t
  <2> QED
    BY <1>1, <1>3, <2>1
<1>4. CASE call.mode = "native"
  <2>1. ResolvedArgs = [t EXCEPT !.restrictions = NativeAngleRestrictions(device)]
    BY <1>4 DEF ResolvedArgs, t
  <2> QED
    BY <1>1, <2>1
<1>5. CASE /\ call.mode \notin {"verbatim", "local_verbatim", "pass_manager", "native"}
           /\ call.mode = "local" \/ device.type = "simulator"
  <2>1. ResolvedArgs = t
    BY <1>5 DEF ResolvedArgs, t
  <2> QED
    BY <1>1, <2>1
<1>6. CASE call.mode = "plain" /\ device.type # "simulator"
  <2>1. ResolvedArgs = [t EXCEPT !.basis = GatesetFromProperties(device),
                    !.keepsBarriers = FALSE, !.nativePath = FALSE,
                    !.iqm = FALSE, !.labels = NoLabels, !.labelsGiven = FALSE]
    BY <1>6 DEF ResolvedArgs, ForService, t
  <2> QED
    BY <1>1, <1>6, <2>1
<1> QED
  BY <1>2, <1>3, <1>4, <1>5, <1>6 DEF Given, Modes

(* All of them have gates that Qiskit and Braket have.                     *)
LEMMA BasisIsOfGates ==
  ASSUME TargetInv, PlacesInv, OfRotations, Given, stage = "built",
         ~(ForBasisGates /\ UnknownBasisGate)
  PROVE  ResolvedArgs.basis \subseteq QiskitGateNames \cup NoGateOps
<1> DEFINE basis == ResolvedArgs.basis
<1>1. CASE basis = (DOMAIN entries \ NonGateTargetOps) \cup SubstitutedGateNames
  <2>1. ASSUME NEW n \in SubstitutedGateNames PROVE n \in QiskitGateNames
    <3>1. PICK m \in DOMAIN substitutes : \E by \in Range(substitutes[m]) : n = GateName(by.gate)
      BY DEF SubstitutedGateNames
    <3>2. PICK i \in DOMAIN substitutes[m] : n = GateName(substitutes[m][i].gate)
      BY <3>1 DEF Range
    <3>3. substitutes[m][i].gate = "rx"
      BY OfferedByRotations DEF TargetInv
    <3>4. "rx" \in SameName /\ "rx" \notin {"cc_prx", "measure_ff"}
      BY DEF SameName
    <3>5. n = "rx" /\ "rx" \in Range(BraketToQiskitNames)
      BY <3>2, <3>3, <3>4, NamesAreOfTheirGates DEF GateName
    <3> QED
      BY <3>5 DEF QiskitGateNames
  <2> QED
    BY <1>1, <2>1, EntriesAreOfGates
<1>2. CASE basis = DefaultBasis
  <2>1. DOMAIN QiskitToControlPlaceholder \subseteq ControlShims
    <3>1. ControlledGates["mcx"][1] = Unlimited
      BY DEF ControlledGates
    <3> QED
      BY <3>1, OnlyMcxIsOpen DEF QiskitToControlPlaceholder
  <2>2. DOMAIN QiskitToOQ3Names \subseteq
          {"u", "global_phase"} \cup ControlShims \cup Range(BraketToQiskitNames)
    BY <2>1, NamesAreOfTheirGates DEF QiskitToOQ3Names, Over
  <2>3. "u" \in SameName
    BY DEF SameName
  <2>4. "u" \in Range(BraketToQiskitNames)
    BY <2>3, NamesAreOfTheirGates
  <2> QED
    BY <1>2, <2>2, <2>4 DEF DefaultBasis, QiskitGateNames
<1>3. CASE /\ call.mode = "plain" /\ device.type # "simulator"
           /\ basis = GatesetFromProperties(device)
  <2>1. device.type = "qpu"
    BY <1>3 DEF PlacesInv, EntriesInv
  <2>2. ~UnknownBasisGate
    BY <1>3, <2>1 DEF ForBasisGates
  <2>3. "mcx" \notin GatesetFromProperties(device)
    BY <2>2, OnlyMcxIsOpen DEF UnknownBasisGate
  <2> QED
    BY <1>3, <2>3, GatesetIsOfGates
<1> QED
  BY <1>1, <1>2, <1>3, BasisFor

(* An instruction to be written is a pragma, no gate at all, or a gate of  *)
(* the basis that Qiskit and Braket have.                                  *)
LEMMA WrittenAs ==
  ASSUME NEW c, IsCircuit(c), NEW o, Emittable(c, o),
         o.basis \subseteq QiskitGateNames \cup NoGateOps,
         NEW i \in 1..Len(Shown(c, o))
  PROVE  LET op == Shown(c, o)[i].op
         IN \/ op \in PragmasOf(o.basis)
            \/ op \in NotGates \ PragmasOf(o.basis)
            \/ /\ op \notin NotGates \cup PragmasOf(o.basis)
               /\ op \in QiskitGateNames \ Classes
               /\ op \in (o.basis \ NonGateTargetOps) \cup AdditionalUGates
<1> DEFINE x == Shown(c, o)[i]
           op == x.op
           ops == PragmasOf(o.basis)
<1> SUFFICES ASSUME op \notin ops, op \notin NotGates
             PROVE  /\ op \in QiskitGateNames \ Classes
                    /\ op \in (o.basis \ NonGateTargetOps) \cup AdditionalUGates
  OBVIOUS
<1>1. Prepared(c, o).insts = Shown(c, o)
  BY PreparedFacts DEF Shown
<1>2. x \in Insts(Prepared(c, o)) /\ Checked(x)
  BY <1>1, ShownFacts DEF Insts, Range, Checked
<1>3. Unsupported(Prepared(c, o), o.basis, ops) = {}
  BY DEF Emittable
<1>4. op \in o.basis \cup NonGateTargetOps \cup AdditionalUGates
  BY <1>2, <1>3 DEF Unsupported
<1>5. op \notin {"box", "if_else"}
  BY ShownFacts DEF IsInstruction
<1>6. op \notin NoGateOps
  BY <1>5 DEF NoGateOps, NonGateTargetOps, NotGates
<1>7. op \in (o.basis \ NonGateTargetOps) \cup AdditionalUGates
  BY <1>4, <1>6 DEF NoGateOps
<1>8. op \in QiskitGateNames
  BY <1>6, <1>7 DEF QiskitGateNames
<1>9. op \notin Classes
  BY <1>7 DEF Classes, PragmasOf, PragmaOps, AdditionalUGates
<1> QED
  BY <1>7, <1>8, <1>9

(* What is no gate keeps its name, and no gate has it.                     *)
LEMMA NotGatesKeepTheirNames ==
  \A op \in NotGates \ {"kraus"} :
    /\ Shim(op) = Plain(op) /\ op \notin AdditionalUGates
    /\ FinalName(Plain(op)) = Plain(op) /\ Means(Plain(op), op)
<1> SUFFICES ASSUME NEW op \in NotGates \ {"kraus"}
             PROVE  /\ Shim(op) = Plain(op) /\ op \notin AdditionalUGates
                    /\ FinalName(Plain(op)) = Plain(op) /\ Means(Plain(op), op)
  OBVIOUS
<1>1. op \in {"measure", "barrier", "reset", "CCPRx", "MeasureFF"}
  BY DEF NotGates
<1>2. Shim(op) = Plain(op) /\ op \notin AdditionalUGates
  BY <1>1 DEF Shim, ControlShims, ShimNames, AdditionalUGates
<1>3. op \notin DOMAIN BraketToQiskitNames /\ op # "U"
  BY <1>1, NamesAreOfTheirGates DEF Renamed, SameName
<1>4. \A g : FinalName(Plain(g)) = Plain(g) /\ Plain(g).kind = "gate" /\ Plain(g).name = g
  BY DEF FinalName, Plain
<1>5. Plain(op) # Plain("U")
  BY <1>3, <1>4
<1>6. Means(Plain(op), op)
  BY <1>3, <1>4, <1>5 DEF Means
<1> QED
  BY <1>2, <1>4, <1>6

(* The name to_braket's gate would have, of a gate on its own qubits.      *)
LEMMA ToBraketNames ==
  ASSUME NEW x, x.op \in QiskitGateNames,
         x.op \in ControlShims => Len(x.q) = ControlledQubits(x.op)
  PROVE  AsToBraket(ToBraketName(x.op), x)
<1> DEFINE op == x.op
<1>1. CASE op \in ControlShims
  <2> DEFINE n == ControlledGates[op][1]
             b == QiskitControlledGateNamesToBraketGates[op]
  <2>1. op \in DOMAIN ControlledGates /\ n \in {1, 3} /\ BraketName(ControlledGates[op][2]) = b
    BY <1>1, BasesAreGates
  <2>2. NumQubits(b) \in 1..3
    BY DEF NumQubits
  <2>3. Len(x.q) = n + NumQubits(b)
    BY <1>1, <2>1 DEF ControlledQubits
  <2> HIDE DEF n, b
  <2>4. Len(x.q) - NumQubits(b) = n /\ n > 0
    BY <2>1, <2>2, <2>3
  <2>5. BraketOperation(op, Len(x.q)) = [gate |-> b, controls |-> n]
    BY <2>1, <2>4 DEF BraketOperation, b
  <2> QED
    BY <1>1, <2>4, <2>5 DEF AsToBraket, ToBraketName, n, b
<1>2. CASE op \notin ControlShims
  <2>1. op # "mcx"
    BY <1>2, OnlyMcxIsOpen, NamesAreGates DEF QiskitGateNames, AdditionalUGates
  <2>2. op \notin DOMAIN ControlledGates
    BY <1>2, <2>1, OnlyMcxIsOpen
  <2>3. BraketOperation(op, Len(x.q)) = [gate |-> QiskitGateNameToBraketGate[op], controls |-> 0]
    BY <2>2 DEF BraketOperation
  <2> QED
    BY <1>2, <2>3 DEF AsToBraket, ToBraketName
<1> QED
  BY <1>1, <1>2

(* The name that is written of an instruction means its gate.              *)
LEMMA WrittenNamesFit ==
  ASSUME NEW c, IsCircuit(c), NEW o, Emittable(c, o),
         o.basis \subseteq QiskitGateNames \cup NoGateOps,
         NEW i \in 1..Len(Shown(c, o))
  PROVE  LET x == Shown(c, o)[i]
             name == FinalName(PassedName(c, o, i))
         IN Means(name, x.op) /\ (x.op \in NotGates \cup PragmaOps \/ AsToBraket(name, x))
<1> DEFINE x == Shown(c, o)[i]
           op == x.op
           ops == PragmasOf(o.basis)
<1>1. CASE op \in ops
  <2>1. op \in PragmaOps
    BY <1>1 DEF PragmasOf, PragmaOps
  <2>2. \A k : FinalName(PragmaPlaceholder(k)).kind = "pragma"
    BY DEF FinalName, PragmaPlaceholder
  <2>3. FinalName(PassedName(c, o, i)).kind = "pragma"
    BY <1>1, <2>2 DEF PassedName, FirstName
  <2> QED
    BY <2>1, <2>3 DEF Means
<1>2. CASE op \in NotGates \ ops
  <2>1. op \in NotGates \ {"kraus"}
    BY <1>2 DEF PragmasOf, PragmaOps
  <2>2. PassedName(c, o, i) = Plain(op)
    BY <1>2, <2>1, NotGatesKeepTheirNames DEF PassedName
  <2> QED
    BY <2>1, <2>2, NotGatesKeepTheirNames
<1>3. CASE op \notin NotGates \cup ops /\ op \in QiskitGateNames \ Classes
  <2>1. PassedName(c, o, i) = NameOf(op)
    BY <1>3 DEF PassedName, NameOf
  <2>2. Means(FinalName(NameOf(op)), op) /\ FinalName(NameOf(op)) = ToBraketName(op)
    BY <1>3, NamesFit DEF NameFits
  <2>3. x.op \in ControlShims => Len(x.q) = ControlledQubits(x.op)
    <3>1. IsInstruction(x, c)
      BY ShownFacts
    <3> HIDE DEF x, op
    <3> QED
      BY <3>1 DEF IsInstruction
  <2>4. AsToBraket(ToBraketName(x.op), x)
    BY <1>3, <2>3, ToBraketNames
  <2> QED
    BY <2>1, <2>2, <2>4
<1> QED
  BY <1>1, <1>2, <1>3, WrittenAs

(* As many instructions are shown as there are, or fewer.                  *)
LEMMA NoMoreShown ==
  ASSUME NEW c, IsCircuit(c), NEW o
  PROVE  Len(c.insts) \in Nat /\ Len(Shown(c, o)) <= Len(c.insts)
<1> DEFINE n == Len(Shown(c, o))
           m == Len(c.insts)
<1>1. m \in Nat /\ n \in Nat /\ DOMAIN c.insts = 1..m
  BY CircuitFacts, ShownFacts
<1>2. PICK p : Listing(p, n, KeptPlaces(c, o))
  BY ShownFacts
<1>3. KeptPlaces(c, o) \subseteq 1..m
  BY <1>1 DEF KeptPlaces
<1> HIDE DEF n, m
<1>4. p \in Injection(1..n, 1..m)
  <2>1. p \in [1..n -> 1..m]
    BY <1>2, <1>3 DEF Listing
  <2>2. \A a, b \in 1..n : a < b => p[a] < p[b]
    BY <1>2 DEF Listing
  <2>3. \A a, b \in 1..n : p[a] = p[b] => a = b
    BY <1>1, <2>1, <2>2
  <2> QED
    BY <2>1, <2>3 DEF Injection, IsInjective
<1>5. \A k \in Nat : IsFiniteSet(1..k) /\ Cardinality(1..k) = k
  BY FS_Interval
<1>6. n <= m
  BY <1>1, <1>4, <1>5, FS_Injection
<1> QED
  BY <1>1, <1>6 DEF n, m

(* No gate is left to be defined: dumps knows every name that is written.  *)
LEMMA NothingIsDefined ==
  ASSUME NEW c, IsCircuit(c), NEW o, Emittable(c, o),
         o.basis \subseteq QiskitGateNames \cup NoGateOps
  PROVE  Emitted(c, o).defines = {}
<1> DEFINE d == Passed(c, o)
           n == Len(Shown(c, o))
           ops == PragmasOf(o.basis)
<1>1. Emitted(c, o).defines = {x.name : x \in {y \in Insts(d) : y.op \notin NotGates}}
                                \ (KnownNames(c, o) \cup {Plain("U")})
  BY EmittedFacts, DumpedFacts
<1>2. ASSUME NEW x \in Insts(d), x.op \notin NotGates
      PROVE  x.name \in KnownNames(c, o) \cup {Plain("U")}
  <2>1. PICK i \in 1..n : x = d.insts[i] /\ x.op = Shown(c, o)[i].op /\ x.name = PassedName(c, o, i)
    BY PassedFacts DEF Insts, Range
  <2>2. CASE x.op \in ops
    <3> DEFINE J == {j \in 1..(i - 1) : Prepared(c, o).insts[j].op \in ops}
    <3>1. i \in 1..n /\ n \in Nat /\ n <= Len(c.insts) /\ Len(c.insts) \in Nat
      BY NoMoreShown, ShownFacts
    <3>2. i - 1 \in Nat /\ i - 1 <= Len(c.insts)
      BY <3>1
    <3>3. IsFiniteSet(1..(i - 1)) /\ Cardinality(1..(i - 1)) = i - 1
      BY <3>2, FS_Interval
    <3>4. J \in SUBSET (1..(i - 1))
      OBVIOUS
    <3> HIDE DEF J
    <3>5. IsFiniteSet(J) /\ Cardinality(J) <= i - 1
      BY <3>3, <3>4, FS_Subset
    <3>6. Cardinality(J) \in Nat
      BY <3>5, FS_CardinalityType
    <3>7. Cardinality(J) \in 0..Len(c.insts)
      BY <3>1, <3>2, <3>5, <3>6
    <3>8. x.name = PragmaPlaceholder(Cardinality(J))
      BY <2>1, <2>2 DEF PassedName, FirstName, PragmaAt, J
    <3> QED
      BY <3>7, <3>8 DEF KnownNames
  <2>3. CASE /\ x.op \notin ops
             /\ x.op \in QiskitGateNames \ Classes
             /\ x.op \in (o.basis \ NonGateTargetOps) \cup AdditionalUGates
    <3>1. x.name = NameOf(x.op)
      BY <2>1, <2>3 DEF PassedName, NameOf
    <3>2. NameOf(x.op) = Plain("U") \/ NameOf(x.op) = OQ3Name(x.op)
      BY <2>3, NamesFit DEF NameFits
    <3>3. CASE x.op \in AdditionalUGates
      BY <3>1, <3>3 DEF NameOf
    <3>4. CASE x.op \in o.basis \ NonGateTargetOps
      BY <3>1, <3>2, <3>4 DEF KnownNames
    <3> QED
      BY <2>3, <3>3, <3>4
  <2> QED
    BY <1>2, <2>1, <2>2, <2>3, WrittenAs
<1> QED
  BY <1>1, <1>2

(* What is known of the programs, and that substitutes are of rotations.   *)
LEMMA RotationsKept == Spec => [](ProgramsInv /\ OfRotations)
<1>1. Spec => []OfRotations
  BY BuildsItsTarget, InitRotations, NextRotations, PTL DEF TargetSpec
<1> QED
  BY <1>1, ProgramsKept, PTL

(* EachNameMeansItsGate: whatever is compiled, for whatever device, the    *)
(* tables of gate_mappings.py agree with each other and with to_braket's   *)
(* on every gate that comes through (_check_supported_ops, RenameGates,    *)
(* qasm3.dumps and _normalize_formatting).                                 *)
THEOREM EachNameMeansTheGate == Spec => []EachNameMeansItsGate
<1>1. ProgramsInv /\ OfRotations => EachNameMeansItsGate
  <2> SUFFICES ASSUME ProgramsInv, OfRotations, NEW p \in DOMAIN programs
               PROVE  /\ programs[p].defines = {}
                      /\ \A k \in DOMAIN Lines(programs[p]) :
                           LET name == Lines(programs[p])[k].name
                               x == Written(compiled[p], programs[p])[k]
                           IN /\ Means(name, x.op)
                              /\ x.op \in NotGates \cup PragmaOps \/ AsToBraket(name, x)
    BY DEF EachNameMeansItsGate
  <2> DEFINE o == ResolvedArgs
  <2>0. PICK c : IsProgramOf(programs[p], compiled[p], c, o)
    BY OfAProgram
  <2> DEFINE lines == Lines(Emitted(c, o))
             insts == Shown(c, o)
  <2>1. /\ IsCircuit(c) /\ Emittable(c, o) /\ LabelsFit(c, o)
        /\ programs[p] = Emitted(c, o) /\ Written(compiled[p], programs[p]) = insts
        /\ ~(ForBasisGates /\ UnknownBasisGate) /\ stage = "built"
    BY <2>0, OfAProgram DEF IsProgramOf
  <2>2. o.basis \subseteq QiskitGateNames \cup NoGateOps
    BY <2>1, BasisIsOfGates DEF ProgramsInv
  <2> HIDE DEF o, lines, insts
  <2>3. Emitted(c, o).defines = {}
    BY <2>1, <2>2, NothingIsDefined
  <2>4. ASSUME NEW k \in DOMAIN lines
        PROVE  /\ Means(lines[k].name, insts[k].op)
               /\ insts[k].op \in NotGates \cup PragmaOps \/ AsToBraket(lines[k].name, insts[k])
    <3>1. k \in 1..Len(Shown(c, o)) /\ IsLineOf(lines[k], c, o, k)
      BY <2>1, LinesKeepTheCircuit DEF lines, insts
    <3>2. lines[k].name = FinalName(PassedName(c, o, k))
      BY <3>1 DEF IsLineOf
    <3>3. LET x == Shown(c, o)[k]
              name == FinalName(PassedName(c, o, k))
          IN Means(name, x.op) /\ (x.op \in NotGates \cup PragmaOps \/ AsToBraket(name, x))
      BY <2>1, <2>2, <3>1, WrittenNamesFit
    <3> QED
      BY <3>2, <3>3 DEF insts
  <2> QED
    BY <2>1, <2>3, <2>4 DEF lines, insts
<1> QED
  BY <1>1, RotationsKept, PTL

-----------------------------------------------------------------------------
(***************************************************************************)
(* What a target offers, and what is sent to it.                           *)
(***************************************************************************)

(* What a gate of Braket is written as.                                    *)
LEMMA WrittenAsItself ==
  \A b \in DOMAIN BraketToQiskitNames \ Classes :
    /\ BraketToQiskitNames[b] \in QiskitGateNames \ Classes
    /\ BraketGate(FinalName(NameOf(BraketToQiskitNames[b]))) = b
    /\ FinalName(NameOf(BraketToQiskitNames[b])).kind = "gate"
<1> SUFFICES ASSUME NEW b \in DOMAIN BraketToQiskitNames \ Classes
             PROVE  /\ BraketToQiskitNames[b] \in QiskitGateNames \ Classes
                    /\ BraketGate(FinalName(NameOf(BraketToQiskitNames[b]))) = b
                    /\ FinalName(NameOf(BraketToQiskitNames[b])).kind = "gate"
  OBVIOUS
<1> DEFINE op == BraketToQiskitNames[b]
           name == FinalName(NameOf(op))
<1>1. op \in Range(BraketToQiskitNames) /\ BraketName(op) = b
  BY NamesAreOfTheirGates
<1>2. op \notin Classes
  <2>1. CASE b \in DOMAIN Renamed
    BY <2>1, NamesAreOfTheirGates DEF Renamed, Classes
  <2>2. CASE b \in SameName
    BY <2>2, NamesAreOfTheirGates
  <2> QED
    BY <2>1, <2>2, NamesAreOfTheirGates
<1>3. op \notin ControlShims /\ op \notin AdditionalUGates
  BY <1>1, NamesAreGates, OnlyMcxIsOpen
<1>4. op \in QiskitGateNames
  BY <1>1 DEF QiskitGateNames
<1>5. Means(name, op) /\ name = ToBraketName(op)
  BY <1>2, <1>4, NamesFit DEF NameFits
<1> HIDE DEF op, name
<1>6. \A g : Plain(g).kind = "gate" /\ Plain(g).name = g
  BY DEF Plain
<1>7. CASE name = Plain("U")
  <2>1. op = "u"
    BY <1>3, <1>5, <1>6, <1>7 DEF Means
  <2>2. "u" \in SameName
    BY DEF SameName
  <2>3. BraketName("u") = "u"
    BY <2>2, NamesAreOfTheirGates
  <2>4. b = "u"
    BY <1>1, <2>1, <2>3
  <2> QED
    BY <1>2, <1>4, <1>6, <1>7, <2>4 DEF BraketGate, op, name
<1>8. CASE name # Plain("U")
  <2>1. PICK g : name = Plain(g)
    BY <1>3, <1>5, <1>8 DEF ToBraketName
  <2>2. op \notin NotGates
    BY <1>1, <1>2, NamesAreGates DEF NotGates, NonGateTargetOps, Classes
  <2>3. g \in DOMAIN BraketToQiskitNames /\ BraketToQiskitNames[g] = op
    BY <1>5, <1>6, <1>8, <2>1, <2>2 DEF Means
  <2>4. g = b
    BY <1>1, <2>3, NamesAreOfTheirGates
  <2> QED
    BY <1>2, <1>4, <1>6, <1>8, <2>1, <2>4 DEF BraketGate, op, name
<1> QED
  BY <1>7, <1>8

(* What a device's own gate is written as, of those that are transpiled.   *)
LEMMA NativeWrittenAsItself ==
  ASSUME NEW b \in Qubits12, b \notin AdditionalUGates, GateName(b) \notin NotTranspiled
  PROVE  /\ GateName(b) \in QiskitGateNames \ Classes
         /\ GateName(b) \notin NotGates
         /\ BraketGate(FinalName(NameOf(GateName(b)))) = b
<1>1. b \in DOMAIN BraketToQiskitNames
  <2>1. b \notin {"cc_prx", "measure_ff"}
    <3>1. {"cc_prx", "measure_ff"} \cap DOMAIN BraketToQiskitNames = {}
      BY NamesAreOfTheirGates DEF Renamed, SameName
    <3>2. GateName("cc_prx") = "CCPRx" /\ GateName("measure_ff") = "MeasureFF"
      BY <3>1 DEF GateName
    <3> QED
      BY <3>2 DEF NotTranspiled
  <2>2. b \notin AdditionalUGates
    OBVIOUS
  <2>3. b # "measure"
    <3>1. "measure" \notin DOMAIN BraketToQiskitNames
      BY NamesAreOfTheirGates DEF Renamed, SameName
    <3>2. GateName("measure") = "measure"
      BY <3>1 DEF GateName
    <3> QED
      BY <3>2 DEF NotTranspiled, NonGateTargetOps
  <2>4. b \in DOMAIN Renamed \cup SameName
    BY <2>1, <2>2, <2>3 DEF Qubits12, OneQubitGates, TwoQubitGates, Renamed, SameName, AdditionalUGates
  <2> QED
    BY <2>4, NamesAreOfTheirGates
<1>2. GateName(b) = BraketToQiskitNames[b]
  <2>1. b \notin {"cc_prx", "measure_ff"}
    BY <1>1, NamesAreOfTheirGates DEF Renamed, SameName
  <2> QED
    BY <1>1, <2>1 DEF GateName
<1>3. b \notin Classes
  BY DEF Qubits12, OneQubitGates, TwoQubitGates, Classes
<1>4. GateName(b) \in Range(BraketToQiskitNames)
  BY <1>1, <1>2, NamesAreOfTheirGates
<1>5. GateName(b) \notin {"kraus"}
  BY NamesOfGates DEF Classes
<1>6. GateName(b) \notin NotGates
  BY <1>4, <1>5, NamesAreGates DEF NotGates, NonGateTargetOps
<1> QED
  BY <1>1, <1>2, <1>3, <1>6, WrittenAsItself

(* The gates of which a device has the operations.                         *)
HasGate(n) ==
  \/ \E b \in device.operations \cap DOMAIN BraketToQiskitNames : n = BraketToQiskitNames[b]
  \/ n \in AdditionalUGates /\ "u" \in device.operations
  \/ /\ n \in ControlShims /\ ControlledGates[n][1] <= device.controls
     /\ \E b \in device.operations \cap DOMAIN BraketToQiskitNames :
          ControlledGates[n][2] = BraketToQiskitNames[b]

(* They are written as those operations, under no more controls.           *)
LEMMA HadIsSupported ==
  ASSUME NEW n, HasGate(n)
  PROVE  /\ n \in QiskitGateNames
         /\ n \notin Classes => IsSupported(FinalName(NameOf(n)))
         /\ n \in Classes => n \in device.operations
<1>1. ASSUME NEW b \in device.operations \cap DOMAIN BraketToQiskitNames, n = BraketToQiskitNames[b]
      PROVE  /\ n \in QiskitGateNames
             /\ n \notin Classes => IsSupported(FinalName(NameOf(n)))
             /\ n \in Classes => n \in device.operations
  <2>1. n \in QiskitGateNames
    BY <1>1, NamesAreOfTheirGates DEF QiskitGateNames
  <2>2. CASE b \in Classes
    <3>1. b \in SameName
      BY <2>2 DEF Classes, SameName
    <3>2. n = b
      BY <1>1, <3>1, NamesAreOfTheirGates
    <3> QED
      BY <1>1, <2>1, <2>2, <3>2
  <2>3. CASE b \notin Classes
    <3>1. n \notin Classes /\ BraketGate(FinalName(NameOf(n))) = b /\ FinalName(NameOf(n)).kind = "gate"
      BY <1>1, <2>3, WrittenAsItself
    <3> QED
      BY <1>1, <2>1, <3>1 DEF IsSupported
  <2> QED
    BY <2>2, <2>3
<1>2. CASE n \in AdditionalUGates /\ "u" \in device.operations
  <2>1. NameOf(n) = Plain("U") /\ FinalName(Plain("U")) = Plain("U") /\ Plain("U").kind = "gate"
    BY <1>2 DEF NameOf, FinalName, Plain
  <2>2. n \notin Classes
    BY <1>2 DEF AdditionalUGates, Classes
  <2> QED
    BY <1>2, <2>1, <2>2 DEF IsSupported, BraketGate, QiskitGateNames
<1>3. ASSUME n \in ControlShims, ControlledGates[n][1] <= device.controls,
             NEW b \in device.operations \cap DOMAIN BraketToQiskitNames,
             ControlledGates[n][2] = BraketToQiskitNames[b]
      PROVE  /\ n \in QiskitGateNames
             /\ n \notin Classes => IsSupported(FinalName(NameOf(n)))
             /\ n \in Classes => n \in device.operations
  <2>1. n \in QiskitGateNames /\ n \notin Classes
    BY <1>3 DEF QiskitGateNames, ControlShims, Classes
  <2>2. QiskitControlledGateNamesToBraketGates[n] = b
    <3>1. BraketName(BraketToQiskitNames[b]) = b
      BY NamesAreOfTheirGates
    <3> QED
      BY <1>3, <3>1, BasesAreGates
  <2>3. FinalName(NameOf(n)) = Controlled(ControlledGates[n][1], b)
    BY <1>3, <2>1, <2>2, NamesFit DEF NameFits, ToBraketName
  <2>4. /\ Controlled(ControlledGates[n][1], b).kind = "ctrl"
        /\ Controlled(ControlledGates[n][1], b).name = b
        /\ Controlled(ControlledGates[n][1], b).n = ControlledGates[n][1]
        /\ Controlled(ControlledGates[n][1], b) # Plain("U")
    BY DEF Controlled, Plain
  <2> QED
    BY <1>3, <2>1, <2>3, <2>4 DEF IsSupported, BraketGate
<1> QED
  BY <1>1, <1>2, <1>3 DEF HasGate

(* gateset_from_properties asks for what the device has, and mcx.          *)
LEMMA GatesetIsHad ==
  \A n \in GatesetFromProperties(device) : HasGate(n) \/ n = "mcx"
<1> DEFINE named == QiskitNames(device.operations)
           gates == named \cup (IF "u" \in named THEN AdditionalUGates ELSE {})
<1> SUFFICES ASSUME NEW n \in GatesetFromProperties(device) PROVE HasGate(n) \/ n = "mcx"
  OBVIOUS
<1>1. \A m \in named : \E b \in device.operations \cap DOMAIN BraketToQiskitNames : m = BraketToQiskitNames[b]
  BY DEF QiskitNames
<1>2. n \in gates \/ n \in ControlledGateset(gates, device.controls)
  BY DEF GatesetFromProperties
<1>3. "u" \in named => "u" \in device.operations
  <2>1. "u" \in SameName
    BY DEF SameName
  <2> QED
    BY <1>1, <2>1, NamesAreOfTheirGates
<1> HIDE DEF named
<1>4. CASE n \in gates
  BY <1>1, <1>3, <1>4 DEF HasGate
<1>5. CASE n \in ControlledGateset(gates, device.controls) /\ n # "mcx"
  <2>1. /\ n \in ControlShims /\ ControlledGates[n][1] <= device.controls
        /\ ControlledGates[n][2] \in gates
    BY <1>5, OnlyMcxIsOpen DEF ControlledGateset
  <2>2. ControlledGates[n][2] \in Range(BraketToQiskitNames)
    BY <2>1, BasesAreGates, NamesAreOfTheirGates
  <2>3. ControlledGates[n][2] \notin AdditionalUGates
    BY <2>2, NamesAreGates
  <2>4. ControlledGates[n][2] \in named
    BY <2>1, <2>3
  <2> QED
    BY <1>1, <2>1, <2>4 DEF HasGate
<1> QED
  BY <1>2, <1>4, <1>5

(* So does a simulator's target.                                           *)
LEMMA SimulatorIsHad ==
  \A n \in SimulatorNames : HasGate(n) \/ n \in NonGateTargetOps
<1> SUFFICES ASSUME NEW n \in SimulatorNames PROVE HasGate(n) \/ n \in NonGateTargetOps
  OBVIOUS
<1>1. \A m \in SimulatorGates(device) :
        \E b \in device.operations \cap DOMAIN BraketToQiskitNames : m = BraketToQiskitNames[b]
  BY DEF SimulatorGates
<1>2. CASE n \in SimulatorGates(device)
  BY <1>1, <1>2 DEF HasGate
<1>3. CASE n \in ControlledGateset(SimulatorGates(device), device.controls) \cap StandardGates
  <2>1. /\ n \in ControlShims /\ ControlledGates[n][1] <= device.controls
        /\ ControlledGates[n][2] \in SimulatorGates(device)
    BY <1>3, OnlyMcxIsOpen DEF ControlledGateset
  <2> QED
    BY <1>1, <2>1 DEF HasGate
<1> QED
  BY <1>2, <1>3 DEF SimulatorNames, NonGateTargetOps

(* The lines of a gate and a measurement, whichever comes first: those     *)
(* that measure nothing are the gate's, and one for the circuit's phase.   *)
LEMMA LinesOfOneGate ==
  ASSUME NEW c, IsCircuit(c), NEW o, Len(c.insts) = 2,
         NEW g \in {1, 2}, c.insts[3 - g].op = "measure",
         NEW x \in Range(Emitted(c, o).lines), x.name # Plain("measure")
  PROVE  \/ x.name = Plain("gphase") /\ "global_phase" \in o.basis
         \/ \E i \in 1..Len(Shown(c, o)) :
              /\ g \in KeptPlaces(c, o) /\ Shown(c, o)[i] = c.insts[g]
              /\ IsLineOf(x, c, o, i) /\ x = Lines(Emitted(c, o))[i]
<1> DEFINE n == Len(Shown(c, o))
           m == Before(c, o)
           lines == Emitted(c, o).lines
<1>1. /\ DOMAIN lines = 1..(m + n) /\ \A i \in 1..n : IsLineOf(lines[m + i], c, o, i)
      /\ m = 1 => lines[1].name = Plain("gphase")
  BY EmittedFacts
<1>2. n \in Nat /\ m \in {0, 1} /\ (m = 1 => "global_phase" \in o.basis)
  BY ShownFacts, DumpedFacts DEF Before
<1>3. Lines(Emitted(c, o)) = [i \in 1..n |-> lines[m + i]]
  BY LinesAre
<1>4. PICK p : Listing(p, n, KeptPlaces(c, o)) /\ \A b \in 1..n : Shown(c, o)[b] = c.insts[p[b]]
  BY ShownFacts
<1>5. KeptPlaces(c, o) \subseteq {1, 2}
  <2>1. DOMAIN c.insts = 1..2
    BY CircuitFacts
  <2> QED
    BY <2>1 DEF KeptPlaces
<1> HIDE DEF n, m, lines
<1>6. PICK j \in 1..(m + n) : x = lines[j]
  BY <1>1 DEF Range, lines
<1>7. CASE j <= m
  BY <1>1, <1>2, <1>6, <1>7
<1>8. CASE j > m
  <2> DEFINE i == j - m
  <2>1. i \in 1..n /\ m + i = j
    BY <1>2, <1>6, <1>8
  <2> HIDE DEF i
  <2>2. IsLineOf(x, c, o, i) /\ x.name = FinalName(PassedName(c, o, i))
    BY <1>1, <1>6, <2>1 DEF IsLineOf
  <2>3. p[i] # 3 - g
    <3> SUFFICES ASSUME p[i] = 3 - g PROVE FALSE
      OBVIOUS
    <3>1. Shown(c, o)[i].op = "measure"
      BY <1>4, <2>1
    <3>2. "measure" \in NotGates \ {"kraus"} /\ "measure" \notin PragmasOf(o.basis)
      BY DEF NotGates, PragmasOf, PragmaOps
    <3>3. PassedName(c, o, i) = Plain("measure")
      BY <3>1, <3>2, NotGatesKeepTheirNames DEF PassedName
    <3> QED
      BY <2>2, <3>2, <3>3, NotGatesKeepTheirNames
  <2>4. p[i] = g /\ g \in KeptPlaces(c, o)
    BY <1>4, <1>5, <2>1, <2>3 DEF Listing
  <2> QED
    BY <1>2, <1>3, <1>4, <1>6, <2>1, <2>2, <2>4 DEF n
<1> QED
  BY <1>2, <1>6, <1>7, <1>8

(* What the transpiler gives: a gate and a measurement.                    *)
LEMMA OneGateIs ==
  ASSUME NEW op, NEW param, NEW q, NEW layout
  PROVE  LET c == OneGate(op, param, q, layout)
         IN /\ Len(c.insts) = 2 /\ DOMAIN c.insts = {1, 2}
            /\ c.insts[1] = Inst(op, param, 1, q, << >>)
            /\ c.insts[2].op = "measure" /\ c.qregs # << >> /\ c.width = Width
BY DEF OneGate, Inst

(* What is compiled of it for a target: the gate is substituted.           *)
LEMMA SubstitutedIs ==
  ASSUME OfRotations, NEW op, NEW param, NEW q, NEW layout
  PROVE  LET c == Substituted(OneGate(op, param, q, layout))
         IN /\ Len(c.insts) = 2
            /\ c.insts[1] = Substitute(Inst(op, param, 1, q, << >>))
            /\ c.insts[2].op = "measure" /\ c.qregs # << >> /\ c.width = Width
<1> DEFINE c == OneGate(op, param, q, layout)
           s == [i \in DOMAIN c.insts |-> Substitute(c.insts[i])]
           d == Substituted(c)
<1>1. /\ Len(c.insts) = 2 /\ DOMAIN c.insts = {1, 2}
      /\ c.insts[1] = Inst(op, param, 1, q, << >>)
      /\ c.insts[2].op = "measure" /\ c.qregs # << >> /\ c.width = Width
  BY OneGateIs
<1>2. {"insts", "qregs", "width"} \subseteq DOMAIN c
  BY DEF OneGate
<1>3. d = [c EXCEPT !.insts = s]
  BY DEF Substituted
<1> HIDE DEF c, d
<1>4. d.insts = s /\ d.qregs = c.qregs /\ d.width = c.width
  BY <1>2, <1>3
<1>5. DOMAIN s = 1..2
  BY <1>1
<1>6. Len(s) = 2 /\ s[1] = Substitute(c.insts[1]) /\ s[2] = Substitute(c.insts[2])
  BY <1>1, <1>5
<1>7. s[2] = c.insts[2]
  BY <1>1, <1>6 DEF Substitute, OfRotations
<1> QED
  BY <1>1, <1>4, <1>6, <1>7 DEF c, d

(* What run() compiles for where it compiles for the device's own gates.   *)
LEMMA ArgsOfTheDevice ==
  ASSUME call.mode \in {"native", "local"}
  PROVE  /\ ResolvedArgs.basis = (DOMAIN entries \ NonGateTargetOps) \cup SubstitutedGateNames
         /\ ResolvedArgs.labelsGiven = (QubitLabels # NoLabels)
<1> DEFINE t == ForTarget
<1>1. /\ DOMAIN t = {"basis", "keepsBarriers", "nativePath", "iqm", "verbatim",
                     "labels", "labelsGiven", "restrictions"}
      /\ t.basis = (DOMAIN entries \ NonGateTargetOps) \cup SubstitutedGateNames
      /\ t.labelsGiven = (QubitLabels # NoLabels)
  BY ForTargetFacts
<1> HIDE DEF t
<1>2. ResolvedArgs = t \/ ResolvedArgs = [t EXCEPT !.restrictions = NativeAngleRestrictions(device)]
  BY DEF ResolvedArgs, t
<1> QED
  BY <1>1, <1>2

(* The place of a gate, by the device's labels: a qubit, or a pair of      *)
(* connected ones.                                                         *)
LEMMA LabelsOfPlaces ==
  ASSUME device \in Devices, NEW b, NEW i, IsPlaceFor(b, i)
  PROVE  /\ Range(LabelsAt(i)) \subseteq device.nodes
         /\ Len(LabelsAt(i)) = 2 => Connected(device, LabelsAt(i))
<1>1. IsFiniteSet(device.nodes) /\ device.nodes \subseteq Int
  BY DevicesAssumption
<1>2. CASE IsPlace1(i)
  <2>1. PICK q \in device.nodes : i = <<Index(device, q)>>
    BY <1>2 DEF IsPlace1
  <2>2. LabelsAt(i) = <<q>>
    BY <1>1, <2>1, LabelOfItsIndex DEF LabelsAt
  <2> HIDE DEF LabelsAt
  <2>3. Range(<<q>>) = {q} /\ Len(<<q>>) = 1
    BY DEF Range
  <2> QED
    BY <2>1, <2>2, <2>3
<1>3. CASE IsPlace2(i)
  <2>1. PICK p, q \in device.nodes :
          Connected(device, <<p, q>>) /\ i = <<Index(device, p), Index(device, q)>>
    BY <1>3 DEF IsPlace2
  <2>2. LabelsAt(i) = <<p, q>>
    BY <1>1, <2>1, LabelOfItsIndex DEF LabelsAt
  <2>3. Range(<<p, q>>) = {p, q}
    BY DEF Range
  <2> QED
    BY <2>1, <2>2, <2>3
<1> QED
  BY <1>2, <1>3 DEF IsPlaceFor

(* A gate of the device on qubits it has it on, by their labels, or a      *)
(* calibrated one with its angle.                                          *)
NativeAt(y, i) ==
  LET name == BraketGate(FinalName(NameOf(y.op)))
      labels == LabelsAt(i)
  IN IF device.calibrations = {}
       THEN /\ name \in device.native
            /\ Range(labels) \subseteq device.nodes
            /\ Len(labels) = 2 => Connected(device, labels)
       ELSE \E c \in device.calibrations :
              c.gate = name /\ c.at = labels /\ c.param = y.param

(* So is what the transpiler gives for a device's target, once substituted.*)
LEMMA GivenIsNative ==
  ASSUME TargetInv, PlacesInv, stage = "built", device.type = "qpu",
         NEW n \in DOMAIN entries \ NotTranspiled, NEW i \in DOMAIN entries[n],
         NEW param, i # << >> => param \in ParamsAt(n, i)
  PROVE  LET y == Substitute(Inst(n, param, 1, i, << >>))
         IN /\ y.op \in QiskitGateNames \ Classes /\ y.op \notin NotGates
            /\ y.q = i /\ i # << >> /\ NativeAt(y, i)
<1> DEFINE x == Inst(n, param, 1, i, << >>)
           y == Substitute(x)
<1> SUFFICES /\ y.op \in QiskitGateNames \ Classes /\ y.op \notin NotGates
             /\ y.q = i /\ i # << >> /\ NativeAt(y, i)
  OBVIOUS
<1>1. device \in Devices /\ Offered /\ EntryInv(n)
  BY DEF TargetInv, PlacesInv, EntriesInv
<1>2. /\ DOMAIN x = {"op", "param", "id", "q", "c", "path"} /\ x.path = << >>
      /\ x.op = n /\ x.param = param /\ x.q = i
  BY DEF Inst
<1>3. /\ AdditionalUGates \cap device.native = {}
      /\ \A c \in device.calibrations : c.gate \notin AdditionalUGates
  BY <1>1, DevicesAssumption
<1>6. \A b : IsPlaceFor(b, i) => i # << >>
  BY <1>1, PlacesAreQubits DEF IsPlaceFor
<1> HIDE DEF x
<1>4. CASE n \in DOMAIN substitutes
  <2> DEFINE by == substitutes[n][i]
  <2>1. i \in DOMAIN substitutes[n] /\ n \in {"x", "sx", "sxdg"} /\ by.gate = "rx"
    BY <1>1, <1>4, OfferedByRotations DEF Offered
  <2>2. "rx" \in Qubits12 /\ "rx" \notin AdditionalUGates /\ "rx" \notin NotTranspiled
    BY DEF Qubits12, OneQubitGates, AdditionalUGates, NotTranspiled, NonGateTargetOps
  <2>3. GateName("rx") = "rx"
    BY DEF GateName, BraketToQiskitNames, Renamed, SameName
  <2>4. y = [x EXCEPT !.op = "rx", !.param = by.param]
    BY <1>2, <1>4, <2>1, <2>3 DEF Substitute
  <2>5. y.op = "rx" /\ y.q = i /\ y.param = by.param
    BY <1>2, <2>4
  <2>6. /\ "rx" \in QiskitGateNames \ Classes /\ "rx" \notin NotGates
        /\ BraketGate(FinalName(NameOf("rx"))) = "rx"
    BY <2>2, <2>3, NativeWrittenAsItself
  <2>7. \E c \in device.calibrations :
          c.gate = by.gate /\ c.param = by.param /\ c.at = LabelsAt(i)
    BY <1>4, <2>1, SubstitutesStandFor DEF SubstitutesAreCalibrated
  <2>8. i # << >>
    <3>1. CASE IsPlace1(i)
      BY <1>1, <3>1, PlacesAreQubits
    <3>2. ASSUME NEW b \in Qubits12, IsOfTheDevice(n, b) PROVE i # << >>
      BY <1>6, <3>2 DEF IsOfTheDevice
    <3> QED
      BY <1>1, <1>4, <2>1, <3>1, <3>2 DEF EntryInv
  <2> HIDE DEF y, by
  <2> QED
    BY <2>1, <2>5, <2>6, <2>7, <2>8 DEF NativeAt
<1>5. CASE n \notin DOMAIN substitutes
  <2>1. y = x
    BY <1>2, <1>5 DEF Substitute
  <2>2. n \notin {"if_else", "barrier", "measure"}
    BY DEF NotTranspiled, NonGateTargetOps
  <2>3. PICK b \in Qubits12 : IsOfTheDevice(n, b)
    BY <1>1, <1>5, <2>2 DEF EntryInv
  <2>4. n = GateName(b) /\ IsPlaceFor(b, i) /\ (device.calibrations = {} => b \in device.native)
    BY <2>3 DEF IsOfTheDevice
  <2>5. i # << >>
    BY <1>6, <2>4
  <2> HIDE DEF y
  <2>6. CASE device.calibrations = {}
    <3>1. b \in device.native /\ b \notin AdditionalUGates /\ GateName(b) \notin NotTranspiled
      BY <1>3, <2>4, <2>6
    <3>2. /\ n \in QiskitGateNames \ Classes /\ n \notin NotGates
          /\ BraketGate(FinalName(NameOf(n))) = b
      BY <2>4, <3>1, NativeWrittenAsItself
    <3> QED
      BY <1>1, <1>2, <2>1, <2>4, <2>5, <2>6, <3>1, <3>2, LabelsOfPlaces DEF NativeAt
  <2>7. CASE device.calibrations # {}
    <3>1. PICK c \in device.calibrations :
            /\ c.gate \in Qubits12 /\ GateName(c.gate) = n /\ c.at = LabelsAt(i)
            /\ c.param = param
      BY <1>5, <2>5, <2>7 DEF ParamsAt, Qubits12
    <3>2. /\ n \in QiskitGateNames \ Classes /\ n \notin NotGates
          /\ BraketGate(FinalName(NameOf(n))) = c.gate
      BY <1>3, <3>1, NativeWrittenAsItself
    <3> QED
      BY <1>2, <2>1, <2>5, <2>7, <3>1, <3>2 DEF NativeAt
  <2> QED
    BY <2>6, <2>7
<1> QED
  BY <1>4, <1>5

(* What is compiled for a device's own gates.                              *)
LEMMA CompiledForTheDevice ==
  ASSUME TargetInv, PlacesInv, OfRotations, stage = "built", device.type = "qpu",
         IsTranspiled, ~ForBasisGates, NEW c \in Compiled
  PROVE  \E y, i :
           /\ Len(c.insts) = 2 /\ c.insts[1] = y /\ c.insts[2].op = "measure"
           /\ c.qregs # << >> /\ c.width = Width
           /\ y.op \in QiskitGateNames \ Classes /\ y.op \notin NotGates
           /\ y.q = i /\ i # << >> /\ NativeAt(y, i)
<1>1. PICK t \in Transpiled : c = Substituted(t)
  BY DEF Compiled
<1>2. PICK n \in DOMAIN entries \ NotTranspiled :
        \E i \in DOMAIN entries[n] : t \in GatesAt(n, i)
  BY <1>1 DEF Transpiled
<1>3. PICK i \in DOMAIN entries[n] : t \in GatesAt(n, i)
  BY <1>2
<1>4. PICK param :
        /\ t = OneGate(n, param, IF i = << >> THEN Wires(n) ELSE i, TargetIsQpu)
        /\ i # << >> => param \in ParamsAt(n, i)
  BY <1>3 DEF GatesAt
<1> DEFINE y == Substitute(Inst(n, param, 1, i, << >>))
<1>5. /\ y.op \in QiskitGateNames \ Classes /\ y.op \notin NotGates
      /\ y.q = i /\ i # << >> /\ NativeAt(y, i)
  BY <1>4, GivenIsNative
<1>6. c = Substituted(OneGate(n, param, i, TargetIsQpu))
  BY <1>1, <1>4, <1>5
<1>7. Len(c.insts) = 2 /\ c.insts[1] = y /\ c.insts[2].op = "measure" /\ c.qregs # << >> /\ c.width = Width
  BY <1>6, SubstitutedIs
<1> HIDE DEF y
<1> QED
  BY <1>5, <1>7

(* And for a simulator, or for the service to compile.                     *)
LEMMA CompiledForTheRest ==
  ASSUME TargetInv, PlacesInv, OfRotations, stage = "built",
         ForBasisGates \/ device.type = "simulator",
         IsTranspiled, ~(ForBasisGates /\ UnknownBasisGate), NEW c \in Compiled
  PROVE  \E y : /\ Len(c.insts) = 2 /\ c.insts[1] = y /\ c.insts[2].op = "measure"
                /\ HasGate(y.op)
<1>1. CASE ForBasisGates
  <2>1. PICK n \in GatesetFromProperties(device) : c = OneGate(n, "free", Wires(n), FALSE)
    BY <1>1 DEF Compiled, Transpiled
  <2>2. n # "mcx"
    BY <1>1, <2>1, OnlyMcxIsOpen DEF UnknownBasisGate
  <2>3. HasGate(n)
    BY <2>2, GatesetIsHad
  <2>4. \A q : Inst(n, "free", 1, q, << >>).op = n
    BY DEF Inst
  <2> DEFINE q == Wires(n)
             y == Inst(n, "free", 1, q, << >>)
  <2>5. y.op = n
    BY <2>4
  <2> HIDE DEF q
  <2>6. Len(c.insts) = 2 /\ c.insts[1] = y /\ c.insts[2].op = "measure"
    BY <2>1, OneGateIs DEF q
  <2> HIDE DEF y
  <2> QED
    BY <2>3, <2>5, <2>6
<1>2. CASE device.type = "simulator" /\ ~ForBasisGates
  <2>1. PICK t \in Transpiled : c = Substituted(t)
    BY <1>2 DEF Compiled
  <2>2. PICK n \in DOMAIN entries \ NotTranspiled :
          \E i \in DOMAIN entries[n] : t \in GatesAt(n, i)
    BY <1>2, <2>1 DEF Transpiled
  <2>3. PICK param : \E q : t = OneGate(n, param, q, TargetIsQpu)
    BY <2>2 DEF GatesAt
  <2>4. PICK q : t = OneGate(n, param, q, TargetIsQpu)
    BY <2>3
  <2>5. substitutes = << >> /\ n \in SimulatorNames
    BY <1>2, <2>2 DEF PlacesInv, EntriesInv
  <2>6. Substitute(Inst(n, param, 1, q, << >>)) = Inst(n, param, 1, q, << >>)
    BY <2>5 DEF Substitute
  <2>7. HasGate(n)
    BY <2>2, <2>5, SimulatorIsHad DEF NotTranspiled
  <2>8. Inst(n, param, 1, q, << >>).op = n
    BY DEF Inst
  <2> QED
    BY <2>1, <2>4, <2>6, <2>7, <2>8, SubstitutedIs
<1> QED
  BY <1>1, <1>2

(* The name of a gate that is no class.                                    *)
LEMMA GateIsWritten ==
  ASSUME NEW c, NEW o, NEW i, Shown(c, o)[i].op \notin Classes
  PROVE  PassedName(c, o, i) = NameOf(Shown(c, o)[i].op)
BY DEF PassedName, NameOf, PragmasOf, PragmaOps, Classes

(* A phase on its own is only written where the device has one.            *)
LEMMA PhaseIsHad ==
  ASSUME ProgramsInv, OfRotations, stage = "built", IsTranspiled,
         ~(ForBasisGates /\ UnknownBasisGate), "global_phase" \in ResolvedArgs.basis
  PROVE  ~(device.type = "qpu" /\ ~ForBasisGates) /\ IsSupported(Plain("gphase"))
<1>1. TargetInv /\ PlacesInv /\ Given /\ device.type \in {"qpu", "simulator"}
  BY DEF ProgramsInv, PlacesInv, EntriesInv
<1>2. "global_phase" \notin SubstitutedGateNames
  <2> SUFFICES ASSUME "global_phase" \in SubstitutedGateNames PROVE FALSE
    OBVIOUS
  <2>1. PICK m \in DOMAIN substitutes :
          \E by \in Range(substitutes[m]) : "global_phase" = GateName(by.gate)
    BY DEF SubstitutedGateNames
  <2>2. PICK i \in DOMAIN substitutes[m] : "global_phase" = GateName(substitutes[m][i].gate)
    BY <2>1 DEF Range
  <2>3. substitutes[m][i].gate = "rx"
    BY <1>1, OfferedByRotations DEF TargetInv
  <2>4. "rx" \in Qubits12
    BY DEF Qubits12, OneQubitGates
  <2> QED
    BY <2>2, <2>3, <2>4, NamesOnQubits
<1>3. "global_phase" \notin NonGateTargetOps \cup {"measure", "if_else", "barrier", "x", "sx", "sxdg"}
  BY DEF NonGateTargetOps
<1>4. device.type = "qpu" => "global_phase" \notin DOMAIN entries
  <2> SUFFICES ASSUME device.type = "qpu", "global_phase" \in DOMAIN entries PROVE FALSE
    OBVIOUS
  <2>1. EntryInv("global_phase")
    BY <1>1 DEF PlacesInv, EntriesInv
  <2>2. PICK b \in Qubits12 : IsOfTheDevice("global_phase", b)
    BY <1>3, <2>1 DEF EntryInv, OfRotations
  <2>3. GateName(b) = "global_phase"
    BY <2>2 DEF IsOfTheDevice
  <2> QED
    BY <2>3, NamesOnQubits
<1>5. /\ ~(device.type = "qpu" /\ ~ForBasisGates)
      /\ \/ "global_phase" \in SimulatorNames
         \/ "global_phase" \in GatesetFromProperties(device)
  <2>1. CASE ResolvedArgs.basis = (DOMAIN entries \ NonGateTargetOps) \cup SubstitutedGateNames
    BY <1>1, <1>2, <1>4, <2>1 DEF PlacesInv, EntriesInv
  <2>2. CASE /\ call.mode = "plain" /\ device.type # "simulator"
             /\ ResolvedArgs.basis = GatesetFromProperties(device)
    BY <1>1, <2>2 DEF ForBasisGates
  <2> QED
    BY <1>1, <2>1, <2>2, BasisFor DEF IsTranspiled
<1>6. HasGate("global_phase")
  BY <1>3, <1>5, SimulatorIsHad, GatesetIsHad
<1>7. "global_phase" \notin Classes
  BY DEF Classes
<1>8. FinalName(NameOf("global_phase")) = Plain("gphase")
  BY DEF NameOf, Shim, AdditionalUGates, GPhasePlaceholder, FinalName
<1> QED
  BY <1>5, <1>6, <1>7, <1>8, HadIsSupported

(* The first instruction is the first that is shown, if it is shown.       *)
LEMMA FirstIsFirst ==
  ASSUME NEW c, IsCircuit(c), NEW o, 1 \in KeptPlaces(c, o)
  PROVE  Shown(c, o)[1] = c.insts[1]
<1> DEFINE n == Len(Shown(c, o))
           K == KeptPlaces(c, o)
<1>1. PICK p : Listing(p, n, K) /\ \A b \in 1..n : Shown(c, o)[b] = c.insts[p[b]]
  BY ShownFacts
<1>2. n \in Nat /\ K \subseteq Nat \ {0}
  <2>1. c.insts \in Seq(Insts(c))
    BY CircuitFacts
  <2>2. DOMAIN c.insts = 1..Len(c.insts) /\ Len(c.insts) \in Nat
    BY <2>1
  <2>3. K \subseteq DOMAIN c.insts
    BY DEF KeptPlaces
  <2>4. n \in Nat
    BY ShownFacts
  <2> QED
    BY <2>2, <2>3, <2>4
<1> HIDE DEF n, K
<1>3. PICK a \in 1..n : p[a] = 1
  BY <1>1 DEF Listing, K
<1>4. a = 1
  <2> SUFFICES ASSUME a # 1 PROVE FALSE
    OBVIOUS
  <2>1. 1 \in 1..n /\ 1 < a
    BY <1>2, <1>3
  <2>2. p[1] < p[a] /\ p[1] \in Nat \ {0}
    BY <1>1, <1>2, <1>3, <2>1 DEF Listing
  <2> QED
    BY <1>3, <2>2
<1> QED
  BY <1>1, <1>2, <1>3, <1>4

(* RunsOnlyWhatTheDeviceHas: what the transpiler may give for the target   *)
(* that _qpu_target and _simulator_target build, or for the gates of       *)
(* gateset_from_properties, is written as gates the device has, on qubits  *)
(* it has them on, by the labels _remap_qubits puts.                       *)
THEOREM RunsWhatTheDeviceHas == Spec => []RunsOnlyWhatTheDeviceHas
<1>1. ProgramsInv /\ OfRotations => RunsOnlyWhatTheDeviceHas
  <2> SUFFICES ASSUME ProgramsInv, OfRotations, IsTranspiled, NEW p \in DOMAIN programs,
                      NEW x \in Range(programs[p].lines),
                      x.name \notin {Plain("measure"), Plain("barrier")}
               PROVE  IF device.type = "qpu" /\ ~ForBasisGates
                        THEN IsNative(x, [k \in DOMAIN x.q |-> x.q[k].at])
                        ELSE \/ /\ x.name.kind = "pragma"
                                /\ Kept(compiled[p])[1].op \in device.operations
                             \/ IsSupported(x.name)
    BY DEF RunsOnlyWhatTheDeviceHas
  <2> DEFINE b == compiled[p]
             o == ResolvedArgs
             gate == b.insts[1]
  <2>0. PICK c : IsProgramOf(programs[p], b, c, o)
    BY OfAProgram
  <2> DEFINE e == Emitted(c, o)
             insts == Shown(c, o)
             n == Len(insts)
  <2>1. /\ IsCircuit(c) /\ Emittable(c, o) /\ LabelsFit(c, o) /\ b \in Compiled
        /\ programs[p] = e /\ IsCircuit(b) /\ Kept(b) = Shown(b, o)
        /\ SameBut(c, b) /\ ~(ForBasisGates /\ UnknownBasisGate) /\ stage = "built"
    BY <2>0, OfAProgram DEF IsProgramOf
  <2>2. /\ TargetInv /\ PlacesInv /\ Given /\ device \in Devices
        /\ device.type \in {"qpu", "simulator"}
        /\ o.basis \subseteq QiskitGateNames \cup NoGateOps
    BY <2>1, BasisIsOfGates DEF ProgramsInv, PlacesInv, EntriesInv, TargetInv
  <2>3. PICK w : IsOrdered(c, b, Len(b.insts), w, o)
    BY <2>0 DEF IsProgramOf
  <2> HIDE DEF b, o, e, gate, insts, n
  <2>4. Len(b.insts) = 2 /\ b.insts[2].op = "measure"
    <3>1. CASE device.type = "qpu" /\ ~ForBasisGates
      BY <2>1, <2>2, <3>1, CompiledForTheDevice
    <3>2. CASE ~(device.type = "qpu" /\ ~ForBasisGates)
      BY <2>1, <2>2, <3>2, CompiledForTheRest
    <3> QED
      BY <3>1, <3>2
  <2>5. PICK g \in {1, 2} : /\ Len(c.insts) = 2 /\ c.insts[g] = gate
                            /\ c.insts[3 - g].op = "measure"
    <3>1. /\ Len(c.insts) = 2
          /\ \A i \in 1..2 : w[i] \in 1..2 /\ c.insts[i] = b.insts[w[i]]
          /\ \A i, j \in 1..2 : w[i] = w[j] => i = j
          /\ \A m \in 1..2 : \E i \in 1..2 : w[i] = m
      BY <2>3, <2>4 DEF IsOrdered
    <3>2. PICK g \in {1, 2} : w[g] = 1
      BY <3>1
    <3>3. 3 - g \in 1..2 /\ 3 - g # g
      BY <3>2
    <3>4. w[3 - g] = 2
      BY <3>1, <3>2, <3>3
    <3> QED
      BY <2>4, <3>1, <3>2, <3>3, <3>4 DEF gate
  <2>6. \/ x.name = Plain("gphase") /\ "global_phase" \in o.basis
        \/ \E i \in 1..n : /\ g \in KeptPlaces(c, o) /\ insts[i] = gate
                           /\ IsLineOf(x, c, o, i) /\ x = Lines(e)[i]
    <3>1. x \in Range(Emitted(c, o).lines) /\ x.name # Plain("measure")
      BY <2>1 DEF e
    <3> QED
      BY <2>1, <2>5, <3>1, LinesOfOneGate DEF e, insts, n
  <2>7. CASE x.name = Plain("gphase") /\ "global_phase" \in o.basis
    BY <2>1, <2>7, PhaseIsHad DEF o
  <2>8. ASSUME NEW i \in 1..n, insts[i] = gate, IsLineOf(x, c, o, i), x = Lines(e)[i],
               device.type = "qpu" /\ ~ForBasisGates
        PROVE  IsNative(x, [k \in DOMAIN x.q |-> x.q[k].at])
    <3>1. PICK y : \E h : /\ gate = y /\ b.qregs # << >> /\ b.width = Width
                          /\ y.op \in QiskitGateNames \ Classes /\ y.op \notin NotGates
                          /\ y.q = h /\ h # << >> /\ NativeAt(y, h)
      BY <2>1, <2>2, <2>8, CompiledForTheDevice DEF gate
    <3>2. PICK h : /\ gate = y /\ b.qregs # << >> /\ b.width = Width
                   /\ y.op \in QiskitGateNames \ Classes /\ y.op \notin NotGates
                   /\ y.q = h /\ h # << >> /\ NativeAt(y, h)
      BY <3>1
    <3>3. insts[i] = y /\ IsInstruction(y, c) /\ c.width = Width
      BY <2>1, <2>8, <3>2, ShownFacts DEF insts, n, SameBut
    <3>4. x.name = FinalName(NameOf(y.op)) /\ x.param = y.param
      BY <2>8, <3>2, <3>3, GateIsWritten DEF IsLineOf, insts
    <3>5. x.q = [j \in DOMAIN y.q |-> QubitAt(c, o, y.q[j])]
      BY <2>1, <2>8, <3>2, <3>3, LinesKeepTheCircuit DEF insts, n, e, PragmaOps, Classes
    <3>6. ASSUME NEW j \in DOMAIN y.q
          PROVE  x.q[j].at = LabelOfIndex(device, y.q[j])
      <4>1. QubitAt(c, o, y.q[j]) = QubitOf(c, y.q[j])
        BY QubitsAt DEF o
      <4>2. PhysicalQubits(c) = NoLabels
        BY <2>1, <3>2 DEF PhysicalQubits, SameBut
      <4>3. /\ Cardinality(device.nodes) \in Nat
            /\ y.q[j] \in 0..(Cardinality(device.nodes) - 1)
        <5>1. Cardinality(device.nodes) \in Nat
          BY <2>2, DevicesAssumption, FS_CardinalityType
        <5>2. y.q \in Seq(0..(Cardinality(device.nodes) - 1))
          BY <2>8, <3>3 DEF IsInstruction, Width
        <5> QED
          BY <5>1, <5>2
      <4>4. /\ QubitLabels = [k \in 1..Cardinality(device.nodes) |-> LabelOfIndex(device, k - 1)]
            /\ QubitLabels # NoLabels
        BY <2>8, <4>3 DEF QubitLabels, NoLabels
      <4>5. QubitLabels[y.q[j] + 1] = LabelOfIndex(device, y.q[j])
        BY <4>3, <4>4
      <4>6. o.labelsGiven
        BY <2>2, <2>8, <4>4, ArgsOfTheDevice DEF o, IsTranspiled, ForBasisGates, Given, Modes
      <4> QED
        BY <3>5, <4>1, <4>2, <4>5, <4>6 DEF QubitOf, QubitRef, o
    <3>7. DOMAIN x.q = DOMAIN h /\ [k \in DOMAIN x.q |-> x.q[k].at] = LabelsAt(h)
      BY <3>2, <3>5, <3>6 DEF LabelsAt
    <3> QED
      BY <3>2, <3>4, <3>7 DEF IsNative, NativeAt
  <2>9. ASSUME NEW i \in 1..n, insts[i] = gate, IsLineOf(x, c, o, i),
               g \in KeptPlaces(c, o), ~(device.type = "qpu" /\ ~ForBasisGates)
        PROVE  \/ x.name.kind = "pragma" /\ Kept(b)[1].op \in device.operations
               \/ IsSupported(x.name)
    <3>1. HasGate(gate.op)
      BY <2>1, <2>2, <2>9, CompiledForTheRest DEF gate
    <3>2. CASE gate.op \notin Classes
      <4>1. x.name = FinalName(NameOf(gate.op))
        BY <2>9, <3>2, GateIsWritten DEF IsLineOf, insts
      <4> QED
        BY <3>1, <3>2, <4>1, HadIsSupported
    <3>3. CASE gate.op \in Classes
      <4>1. gate.op \in PragmasOf(o.basis)
        BY <2>1, <2>2, <2>9, <3>3, WrittenAs
          DEF insts, n, Classes, NotGates, PragmasOf, PragmaOps
      <4>2. \E k : x.name = FinalName(PragmaPlaceholder(k))
        BY <2>9, <4>1 DEF IsLineOf, PassedName, FirstName, insts
      <4>3. x.name.kind = "pragma"
        BY <4>2 DEF FinalName, PragmaPlaceholder
      <4>4. 1 \in KeptPlaces(b, o)
        <5>1. DOMAIN b.insts = 1..2
          BY <2>3, <2>4 DEF IsOrdered
        <5> QED
          BY <2>5, <2>9, <5>1 DEF KeptPlaces, gate
      <4>5. Kept(b)[1] = gate
        BY <2>1, <4>4, FirstIsFirst DEF gate
      <4> QED
        BY <3>1, <3>3, <4>3, <4>5, HadIsSupported
    <3> QED
      BY <3>2, <3>3
  <2> QED
    BY <2>6, <2>7, <2>8, <2>9 DEF b
<1> QED
  BY <1>1, RotationsKept, PTL
=============================================================================
