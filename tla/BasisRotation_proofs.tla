------------------------ MODULE BasisRotation_proofs ------------------------
(***************************************************************************)
(* Proofs about BasisRotation, for any pragmas on any qubits: the pass     *)
(* refuses only what conflicts; what it lets pass although it conflicts    *)
(* are matrices; and where nothing conflicts, every place is measured in   *)
(* its basis, with the eigenvalues of its rotation.                        *)
(***************************************************************************)
EXTENDS BasisRotation, FiniteSetTheorems, WellFoundedInduction, TLAPS

(* A set of numbers has a least one.                                       *)
LEMMA Least ==
  ASSUME NEW S \in SUBSET Nat, S # {}
  PROVE  \E n \in S : \A m \in S : n <= m
<1> DEFINE R == OpToRel(<, Nat)
<1>1. IsWellFoundedOn(R, Nat)
  BY NatLessThanWellFounded
<1>2. \A m, n \in Nat : <<m, n>> \in R <=> m < n
  BY DEF OpToRel
<1> HIDE DEF R
<1>3. PICK n \in S : \A m \in S : ~(<<m, n>> \in R)
  BY <1>1, WFMin
<1>4. ASSUME NEW m \in S PROVE n <= m
  <2>1. n \in Nat /\ m \in Nat /\ ~(m < n)
    BY <1>2, <1>3
  <2> QED
    BY <2>1
<1> QED
  BY <1>4

-----------------------------------------------------------------------------
(* The loop over the factors takes the targets from left to right: its     *)
(* counter is defined, starts at zero, and each factor moves it by its     *)
(* qubits, never back.                                                     *)
Taken(factors, idx, n) ==
  idx = [i \in 0..n |-> IF i = 0 THEN 0 ELSE idx[i - 1] + Arity[factors[i]]]

LEMMA CounterExists ==
  ASSUME NEW factors, NEW n \in Nat
  PROVE  \E idx : Taken(factors, idx, n)
<1> DEFINE Bad == {m \in Nat : ~\E idx : Taken(factors, idx, m)}
<1>1. SUFFICES Bad = {}
  OBVIOUS
<1>2. SUFFICES ASSUME NEW m \in Bad, \A k \in Bad : m <= k PROVE FALSE
  BY Least
<1>3. CASE m = 0
  <2>1. Taken(factors, [i \in 0..0 |-> 0], 0)
    BY DEF Taken
  <2> QED
    BY <1>3, <2>1
<1>4. CASE m # 0
  <2>1. m - 1 \in Nat /\ m - 1 \notin Bad
    BY <1>2, <1>4
  <2>2. PICK idx : Taken(factors, idx, m - 1)
    BY <2>1
  <2> DEFINE more == [i \in 0..m |-> IF i = m THEN idx[m - 1] + Arity[factors[m]]
                                     ELSE idx[i]]
  <2>3. \A i \in 0..(m - 1) :
          idx[i] = IF i = 0 THEN 0 ELSE idx[i - 1] + Arity[factors[i]]
    BY <2>1, <2>2 DEF Taken
  <2>4. \A i \in 0..m : more[i] = IF i = 0 THEN 0 ELSE more[i - 1] + Arity[factors[i]]
    BY <1>4, <2>1, <2>3
  <2>5. Taken(factors, more, m)
    BY <2>4 DEF Taken
  <2> QED
    BY <2>5
<1> QED
  BY <1>3, <1>4

LEMMA ObsIdxTakes ==
  ASSUME NEW factors \in Seq(Factor)
  PROVE  Taken(factors, ObsIdx(factors), Len(factors))
<1>1. Len(factors) \in Nat
  OBVIOUS
<1>2. \E idx : Taken(factors, idx, Len(factors))
  BY <1>1, CounterExists
<1> QED
  BY <1>2 DEF Taken, ObsIdx

LEMMA ObsIdxGrows ==
  ASSUME NEW factors \in Seq(Factor),
         \A i \in DOMAIN factors : Arity[factors[i]] \in Nat
  PROVE  /\ \A i \in 0..Len(factors) : ObsIdx(factors)[i] \in Nat
         /\ ObsIdx(factors)[0] = 0
         /\ \A j \in 0..Len(factors) : \A i \in 0..j :
              ObsIdx(factors)[i] <= ObsIdx(factors)[j]
<1> DEFINE idx == ObsIdx(factors)
           n == Len(factors)
<1>1. \A i \in 0..n : idx[i] = IF i = 0 THEN 0 ELSE idx[i - 1] + Arity[factors[i]]
  BY ObsIdxTakes DEF Taken
<1> HIDE DEF idx
<1> DEFINE Bad == {j \in 0..n : idx[j] \notin Nat \/ \E i \in 0..j : ~(idx[i] <= idx[j])}
<1>2. SUFFICES Bad = {}
  BY <1>1 DEF idx
<1>3. SUFFICES ASSUME NEW j \in Bad, \A k \in Bad : j <= k PROVE FALSE
  <2>1. Bad \in SUBSET Nat
    OBVIOUS
  <2> HIDE DEF Bad
  <2> QED
    BY <2>1, Least
<1>4. CASE j = 0
  BY <1>1, <1>4
<1>5. CASE j # 0
  <2>1. j - 1 \in 0..n /\ j - 1 \notin Bad /\ j \in DOMAIN factors
    BY <1>3, <1>5
  <2>2. idx[j - 1] \in Nat /\ \A i \in 0..(j - 1) : idx[i] <= idx[j - 1]
    BY <2>1
  <2>3. idx[j] = idx[j - 1] + Arity[factors[j]] /\ Arity[factors[j]] \in Nat
    BY <1>1, <1>5, <2>1
  <2>4. \A i \in 0..(j - 1) : idx[i] \in Nat
    <3> SUFFICES ASSUME NEW i \in 0..(j - 1) PROVE idx[i] \in Nat
      OBVIOUS
    <3>1. i \notin Bad
      BY <1>3
    <3> QED
      BY <3>1
  <2>5. \A i \in 0..j : idx[i] <= idx[j]
    BY <2>2, <2>3, <2>4
  <2> QED
    BY <2>2, <2>3, <2>5
<1> QED
  BY <1>4, <1>5

(* The part of the targets a factor takes.                                 *)
LEMMA SliceOfTargets ==
  ASSUME NEW T \in Seq(Nat), NEW a \in Nat, NEW b \in Nat, a <= b, b <= Len(T)
  PROVE  /\ SubSeq(T, a + 1, b) \in Seq(Nat) /\ Len(SubSeq(T, a + 1, b)) = b - a
         /\ \A x \in ToSet(SubSeq(T, a + 1, b)) :
              \E t \in DOMAIN T : x = T[t] /\ a < t /\ t <= b
<1> DEFINE s == SubSeq(T, a + 1, b)
<1>1. s \in Seq(Nat) /\ Len(s) = b - a
  OBVIOUS
<1>2. \A m \in 1..(b - a) : s[m] = T[a + m] /\ a + m \in DOMAIN T
  OBVIOUS
<1>3. DOMAIN s = 1..(b - a)
  BY <1>1
<1> HIDE DEF s
<1>4. ASSUME NEW x \in ToSet(s)
      PROVE  \E t \in DOMAIN T : x = T[t] /\ a < t /\ t <= b
  <2>1. PICK m \in 1..(b - a) : x = s[m]
    BY <1>3, <1>4 DEF ToSet
  <2>2. x = T[a + m] /\ a + m \in DOMAIN T
    BY <1>2, <2>1
  <2>3. a < a + m /\ a + m <= b
    OBVIOUS
  <2> QED
    BY <2>2, <2>3
<1> QED
  BY <1>1, <1>4 DEF s

-----------------------------------------------------------------------------
(* A plan's operations are of factors, on qubits of their own; a letter's  *)
(* is on one qubit.                                                        *)
Observable(p) == p \in Pragmas /\ p.kind = "observable"

LEMMA TargetsAreQubits ==
  ASSUME NEW p \in Pragmas, p.kind # "invariant"
  PROVE  Targets(p) \in Seq(Nat)
BY PragmasAssumption DEF Targets

LEMMA PlanIsApart ==
  ASSUME NEW p, Observable(p), ValidPlan(p)
  PROVE  \A i, j \in DOMAIN Plan(p) :
           On(Plan(p)[i]) \cap On(Plan(p)[j]) # {} => i = j
<1>1. /\ Targets(p) \in Seq(Nat) /\ p.observable \in Seq(Factor)
      /\ \A k, l \in DOMAIN Targets(p) : Targets(p)[k] = Targets(p)[l] => k = l
  BY TargetsAreQubits, PragmasAssumption DEF Observable, ValidPlan, IsInjective
<1>2. SUFFICES ASSUME NEW i \in DOMAIN Plan(p), NEW j \in DOMAIN Plan(p),
                      NEW q \in On(Plan(p)[i]), q \in On(Plan(p)[j])
               PROVE  i = j
  OBVIOUS
<1>3. CASE Repeats(p)
  BY <1>1, <1>2, <1>3 DEF Plan, On, Op, ToSet
<1>4. CASE ~Repeats(p)
  <2> DEFINE idx == ObsIdx(p.observable)
             n == Len(p.observable)
  <2>1. /\ \A k \in 0..n : idx[k] \in Nat
        /\ \A k \in 0..n : \A l \in 0..k : idx[l] <= idx[k]
        /\ idx[n] = Len(Targets(p))
    <3>1. \A k \in DOMAIN p.observable : Arity[p.observable[k]] \in Nat
      BY <1>1, ArityAssumption DEF ValidPlan
    <3> QED
      BY <1>1, <1>4, <3>1, ObsIdxGrows DEF ValidPlan
  <2> HIDE DEF idx
  <2>2. \A k \in DOMAIN p.observable :
          Plan(p)[k].on = SubSeq(Targets(p), idx[k - 1] + 1, idx[k])
    BY <1>4 DEF Plan, Op, idx
  <2>3. DOMAIN Plan(p) = 1..n
    BY <1>1, <1>4 DEF Plan
  <2>4. ASSUME NEW k \in 1..n, NEW x \in On(Plan(p)[k])
        PROVE  \E t \in DOMAIN Targets(p) :
                 x = Targets(p)[t] /\ idx[k - 1] < t /\ t <= idx[k]
    <3>1. /\ idx[k - 1] \in Nat /\ idx[k] \in Nat /\ idx[k] <= Len(Targets(p))
          /\ idx[k - 1] <= idx[k]
      BY <2>1
    <3>2. x \in ToSet(SubSeq(Targets(p), idx[k - 1] + 1, idx[k]))
      <4>1. k \in DOMAIN p.observable
        BY <1>1, <2>4
      <4> QED
        BY <2>2, <2>4, <4>1 DEF On
    <3> QED
      BY <1>1, <3>1, <3>2, SliceOfTargets
  <2>5. PICK t \in DOMAIN Targets(p) :
          q = Targets(p)[t] /\ idx[i - 1] < t /\ t <= idx[i]
    BY <1>2, <2>3, <2>4
  <2>6. PICK u \in DOMAIN Targets(p) :
          q = Targets(p)[u] /\ idx[j - 1] < u /\ u <= idx[j]
    BY <1>2, <2>3, <2>4
  <2>7. t = u /\ t \in Nat
    <3>1. Targets(p)[t] = Targets(p)[u] /\ DOMAIN Targets(p) \subseteq Nat
      BY <1>1, <2>5, <2>6
    <3> QED
      BY <1>1, <3>1
  <2>8. i \in 1..n /\ j \in 1..n
    BY <1>2, <2>3
  <2>9. ~(i < j)
    <3>1. i < j => idx[i] <= idx[j - 1]
      BY <2>1, <2>8
    <3> QED
      BY <2>1, <2>5, <2>6, <2>7, <2>8, <3>1
  <2>10. ~(j < i)
    <3>1. j < i => idx[j] <= idx[i - 1]
      BY <2>1, <2>8
    <3> QED
      BY <2>1, <2>5, <2>6, <2>7, <2>8, <3>1
  <2> QED
    BY <2>8, <2>9, <2>10
<1> QED
  BY <1>3, <1>4

LEMMA PlanIsOfFactors ==
  ASSUME NEW p, Observable(p), ValidPlan(p), NEW op \in ToSet(Plan(p))
  PROVE  /\ op = Op(op.gate, op.on) /\ op.gate \in Factor
         /\ On(op) \subseteq Nat
         /\ op.gate \in Letter => \E q : op.on = <<q>>
<1>1. Targets(p) \in Seq(Nat) /\ p.observable \in Seq(Factor)
  BY TargetsAreQubits, PragmasAssumption DEF Observable
<1>2. PICK i \in DOMAIN Plan(p) : op = Plan(p)[i]
  BY DEF ToSet
<1>3. CASE Repeats(p)
  BY <1>1, <1>2, <1>3 DEF Plan, On, Op, ToSet, Repeats
<1>4. CASE ~Repeats(p)
  <2> DEFINE idx == ObsIdx(p.observable)
  <2>1. /\ i \in 1..Len(p.observable) /\ p.observable[i] \in Factor
        /\ op = Op(p.observable[i], SubSeq(Targets(p), idx[i - 1] + 1, idx[i]))
    BY <1>1, <1>2, <1>4 DEF Plan
  <2>2. /\ \A k \in DOMAIN p.observable : Arity[p.observable[k]] \in Nat
        /\ idx[Len(p.observable)] = Len(Targets(p))
    BY <1>1, <1>4, ArityAssumption DEF ValidPlan
  <2>3. /\ idx[i - 1] \in Nat /\ idx[i] \in Nat /\ idx[i] <= Len(Targets(p))
        /\ idx[i] = idx[i - 1] + Arity[p.observable[i]]
    <3>1. /\ \A k \in 0..Len(p.observable) : idx[k] \in Nat
          /\ idx[i] <= idx[Len(p.observable)]
      <4>1. /\ \A k \in 0..Len(p.observable) : idx[k] \in Nat
            /\ \A k \in 0..Len(p.observable) : \A l \in 0..k : idx[l] <= idx[k]
        BY <1>1, <2>2, ObsIdxGrows
      <4>2. i \in 0..Len(p.observable) /\ Len(p.observable) \in 0..Len(p.observable)
        BY <1>1, <2>1
      <4> HIDE DEF idx
      <4> QED
        BY <4>1, <4>2
    <3>2. idx[i] = idx[i - 1] + Arity[p.observable[i]]
      BY <1>1, <2>1, ObsIdxTakes DEF Taken
    <3> QED
      BY <1>1, <2>1, <2>2, <3>1, <3>2
  <2> HIDE DEF idx
  <2>4. op.gate = p.observable[i] /\ op.on = SubSeq(Targets(p), idx[i - 1] + 1, idx[i])
    BY <2>1 DEF Op
  <2>5. op.on \in Seq(Nat) /\ Len(op.on) = Arity[p.observable[i]]
    <3>1. idx[i - 1] <= idx[i] /\ idx[i] - idx[i - 1] = Arity[p.observable[i]]
      <4>1. Arity[p.observable[i]] \in Nat
        BY <1>1, <2>1, <2>2
      <4> QED
        BY <2>3, <4>1
    <3> QED
      BY <1>1, <2>3, <2>4, <3>1, SliceOfTargets
  <2>6. op.gate \in Letter => op.on = <<op.on[1]>>
    <3>1. op.gate \in Letter => Len(op.on) = 1
      BY <2>1, <2>4, <2>5, ArityAssumption
    <3> QED
      BY <2>5, <3>1
  <2>7. op = Op(op.gate, op.on) /\ op.gate \in Factor
    BY <2>1 DEF Op
  <2>8. On(op) \subseteq Nat
    BY <2>5 DEF On, ToSet
  <2> QED
    BY <2>6, <2>7, <2>8
<1> QED
  BY <1>3, <1>4

-----------------------------------------------------------------------------
(* The places of the pragmas gone through.                                 *)
Proper(a) ==
  /\ a = Op(a.gate, a.on) /\ a.gate \in Factor /\ On(a) \subseteq Nat
  /\ a.gate \in Letter => \E q : a.on = <<q>>

LEMMA PlacesAreProper ==
  ASSUME done \in Seq(Pragmas), NEW a \in Places
  PROVE  Proper(a)
<1>1. PICK i \in DOMAIN done : a \in PlacesOf(done[i])
  BY DEF Places
<1> DEFINE p == done[i]
<1>2. p \in Pragmas
  BY <1>1
<1> HIDE DEF p
<1>3. CASE p.kind = "observable" /\ ValidPlan(p)
  BY <1>1, <1>2, <1>3, PlanIsOfFactors DEF PlacesOf, Observable, Proper, p
<1>4. CASE p.kind = "probability"
  <2>1. PICK q \in ToSet(Targets(p)) : a = Op("z", <<q>>)
    BY <1>1, <1>4 DEF PlacesOf, p
  <2>2. q \in Nat
    BY <1>2, <1>4, <2>1, TargetsAreQubits DEF ToSet
  <2> QED
    BY <2>1, <2>2, ArityAssumption DEF Proper, Op, On, ToSet
<1> QED
  BY <1>1, <1>2, <1>3, <1>4 DEF PlacesOf, p

LEMMA PlacesGrow ==
  ASSUME done \in Seq(Pragmas), NEW p \in Pragmas, done' = Append(done, p)
  PROVE  Places' = Places \cup PlacesOf(p) /\ done' \in Seq(Pragmas)
<1>1. /\ DOMAIN done' = DOMAIN done \cup {Len(done) + 1} /\ done' \in Seq(Pragmas)
      /\ \A i \in DOMAIN done : done'[i] = done[i]
      /\ done'[Len(done) + 1] = p
  OBVIOUS
<1> QED
  BY <1>1 DEF Places

(* What a pragma asks of each qubit is the gate of its place there.        *)
Asks(P, asked) ==
  /\ DOMAIN asked = UNION {On(a) : a \in P}
  /\ \A a \in P : \A q \in On(a) : asked[q] = a.gate

LEMMA ObservableAsks ==
  ASSUME NEW p, Observable(p), ValidPlan(p)
  PROVE  Asks(ToSet(Plan(p)), AskedBasis(Plan(p)))
<1> DEFINE P == ToSet(Plan(p))
<1>1. \A a, b \in P : On(a) \cap On(b) # {} => a = b
  BY PlanIsApart DEF ToSet
<1>2. ASSUME NEW a \in P, NEW q \in On(a)
      PROVE  (CHOOSE op \in P : q \in On(op)) = a
  BY <1>1, <1>2
<1>3. ASSUME NEW a \in P, NEW q \in On(a)
      PROVE  AskedBasis(Plan(p))[q] = a.gate
  BY <1>2, <1>3 DEF AskedBasis
<1> QED
  BY <1>3 DEF Asks, AskedBasis

LEMMA ProbabilityAsks ==
  ASSUME NEW p
  PROVE  Asks({Op("z", <<q>>) : q \in ToSet(Targets(p))},
              [q \in ToSet(Targets(p)) |-> "z"])
<1> DEFINE T == ToSet(Targets(p))
           P == {Op("z", <<q>>) : q \in T}
           asked == [q \in T |-> "z"]
<1>1. \A q : On(Op("z", <<q>>)) = {q} /\ Op("z", <<q>>).gate = "z"
  BY DEF On, Op, ToSet
<1> HIDE DEF T
<1>2. ASSUME NEW a \in P PROVE On(a) \subseteq T /\ a.gate = "z"
  <2>1. PICK q \in T : a = Op("z", <<q>>)
    OBVIOUS
  <2> QED
    BY <1>1, <2>1
<1>3. ASSUME NEW q \in T PROVE \E a \in P : q \in On(a)
  <2>1. Op("z", <<q>>) \in P
    OBVIOUS
  <2> QED
    BY <1>1, <2>1
<1>4. DOMAIN asked = UNION {On(a) : a \in P}
  BY <1>2, <1>3
<1>5. \A a \in P : \A q \in On(a) : asked[q] = a.gate
  BY <1>2
<1> HIDE DEF P, asked
<1>6. Asks(P, asked)
  BY <1>4, <1>5 DEF Asks
<1> QED
  BY <1>6 DEF P, asked, T

-----------------------------------------------------------------------------
(* all_qubit_bases says of each qubit what its places ask for, and nothing *)
(* that none of them does.                                                 *)
BasesFit ==
  /\ \A a \in Places : \A q \in On(a) :
       q \in DOMAIN bases /\ (a.gate # "i" => bases[q] = a.gate)
  /\ \A q \in DOMAIN bases : \E a \in Places : q \in On(a) /\ a.gate = bases[q]

(* The rotations are of places, no two on one qubit, and every qubit of a  *)
(* place with gates has one.                                               *)
HasRotation(q) ==
  \E k \in DOMAIN rotations : \E i \in DOMAIN rotations[k] : q \in On(rotations[k][i])

RotationsFit ==
  /\ \E S : rotations \in Seq(S)
  /\ \A k \in DOMAIN rotations : \A i \in DOMAIN rotations[k] :
       rotations[k][i] \in Places /\ HasGates(rotations[k][i])
  /\ \A k, j \in DOMAIN rotations :
       \A i \in DOMAIN rotations[k], l \in DOMAIN rotations[j] :
         On(rotations[k][i]) \cap On(rotations[j][l]) # {} => k = j /\ i = l
  /\ \A a \in Places : HasGates(a) =>
       \A q \in On(a) : HasRotation(q)

(* The eigenvalues are those of a place; that of no qubits is rotated.     *)
EigenvaluesFit ==
  \A g \in DOMAIN eigenvalues :
    /\ Op(eigenvalues[g], g) \in Places /\ eigenvalues[g] \in Factor \ Letter
    /\ ToSet(g) = {} =>
         \E k \in DOMAIN rotations : Op(eigenvalues[g], g) \in Range(rotations[k])

Fits == BasesFit /\ RotationsFit /\ EigenvaluesFit

LEMMA Commit ==
  ASSUME BasesFit, NEW P, NEW asked, Asks(P, asked), ~Conflict(asked),
         bases' = Committed(asked), Places' = Places \cup P
  PROVE  BasesFit'
<1> DEFINE new == NewlyCommitted(asked)
<1>1. /\ DOMAIN bases' = DOMAIN bases \cup DOMAIN asked
      /\ \A q \in DOMAIN bases' : bases'[q] = IF q \in new THEN asked[q] ELSE bases[q]
  BY DEF Committed
<1>2. \A q \in DOMAIN bases : q \in new => bases[q] = "i"
  BY DEF NewlyCommitted
<1>3. \A q \in DOMAIN asked : q \notin new => q \in DOMAIN bases /\
        (asked[q] # "i" => bases[q] = asked[q])
  BY DEF NewlyCommitted, Conflict
<1> HIDE DEF new
<1>4. ASSUME NEW a \in Places', NEW q \in On(a)
      PROVE  q \in DOMAIN bases' /\ (a.gate # "i" => bases'[q] = a.gate)
  <2>1. CASE a \in Places
    BY <1>1, <1>2, <1>4, <2>1 DEF BasesFit
  <2>2. CASE a \in P
    BY <1>1, <1>3, <1>4, <2>2 DEF Asks
  <2> QED
    BY <1>4, <2>1, <2>2
<1>5. ASSUME NEW q \in DOMAIN bases'
      PROVE  \E a \in Places' : q \in On(a) /\ a.gate = bases'[q]
  <2>1. CASE q \in new
    <3>1. q \in DOMAIN asked
      BY <2>1 DEF new, NewlyCommitted
    <3>2. PICK a \in P : q \in On(a)
      BY <3>1 DEF Asks
    <3> QED
      BY <1>1, <2>1, <3>2 DEF Asks
  <2>2. CASE q \notin new
    <3>1. q \in DOMAIN bases
      BY <1>1, <1>3, <1>5, <2>2
    <3> QED
      BY <1>1, <1>5, <2>2, <3>1 DEF BasesFit
  <2> QED
    BY <2>1, <2>2
<1> QED
  BY <1>4, <1>5 DEF BasesFit

LEMMA ConflictsClash ==
  ASSUME BasesFit, NEW P, NEW asked, Asks(P, asked), Conflict(asked)
  PROVE  \E a \in Places, b \in P : Clash(a, b)
<1>1. PICK q \in DOMAIN asked \cap DOMAIN bases :
        asked[q] # "i" /\ bases[q] \notin {"i", asked[q]}
  BY DEF Conflict
<1>2. PICK a \in Places : q \in On(a) /\ a.gate = bases[q]
  BY <1>1 DEF BasesFit
<1>3. PICK b \in P : q \in On(b) /\ b.gate = asked[q]
  BY <1>1 DEF Asks
<1> QED
  BY <1>1, <1>2, <1>3 DEF Clash

LEMMA OverlapsClash ==
  ASSUME BasesFit, NEW P, NEW asked, Asks(P, asked), ~Conflict(asked),
         NEW b \in P, HasGates(b), Overlaps(b, NewlyCommitted(asked))
  PROVE  \E a \in Places : Clash(a, b)
<1>1. PICK r \in On(b), q \in On(b) :
        r \notin NewlyCommitted(asked) /\ q \in NewlyCommitted(asked)
  BY DEF Overlaps
<1>2. b.gate # "i" /\ asked[r] = b.gate /\ asked[q] = b.gate
      /\ r \in DOMAIN asked /\ q \in DOMAIN asked
  BY DEF HasGates, Asks
<1>3. r \in DOMAIN bases /\ bases[r] = b.gate
  BY <1>1, <1>2 DEF NewlyCommitted, Conflict
<1>4. PICK a \in Places : r \in On(a) /\ a.gate = b.gate
  BY <1>3 DEF BasesFit
<1>5. a # b
  BY <1>1, <1>2, <1>4 DEF BasesFit, NewlyCommitted
<1> QED
  BY <1>2, <1>4, <1>5 DEF Clash

(* A sequence one longer.                                                  *)
LEMMA OneMore ==
  ASSUME NEW s, \E S : s \in Seq(S), NEW x
  PROVE  /\ \E S : Append(s, x) \in Seq(S)
         /\ Len(Append(s, x)) = Len(s) + 1 /\ Len(s) \in Nat
         /\ DOMAIN s = 1..Len(s)
         /\ DOMAIN Append(s, x) = DOMAIN s \cup {Len(s) + 1}
         /\ Len(s) + 1 \notin DOMAIN s
         /\ \A k \in DOMAIN s : Append(s, x)[k] = s[k]
         /\ Append(s, x)[Len(s) + 1] = x
<1>1. PICK S : s \in Seq(S)
  OBVIOUS
<1>2. s \in Seq(S \cup {x}) /\ x \in S \cup {x}
  BY <1>1
<1>3. /\ Append(s, x) \in Seq(S \cup {x})
      /\ Len(Append(s, x)) = Len(s) + 1 /\ Len(s) \in Nat /\ DOMAIN s = 1..Len(s)
      /\ \A k \in 1..Len(s) : Append(s, x)[k] = s[k]
      /\ Append(s, x)[Len(s) + 1] = x
  BY <1>2
<1>4. DOMAIN Append(s, x) = 1..(Len(s) + 1)
  BY <1>3
<1> QED
  BY <1>3, <1>4

(* What a turn of the loop adds: the operations of its plan on new qubits. *)
LEMMA Rotate ==
  ASSUME done \in Seq(Pragmas), Fits, NEW p, Observable(p), ValidPlan(p),
         NEW ops, ops = Plan(p), NEW asked, asked = AskedBasis(ops),
         NEW new, new = NewlyCommitted(asked), ~Conflict(asked),
         NEW gates, gates = {i \in DOMAIN ops : HasGates(ops[i])},
         \A i \in gates : ~Overlaps(ops[i], new),
         Places' = Places \cup ToSet(ops),
         rotations' = Append(rotations, Restrict(ops, {i \in gates : Kept(ops[i], new)})),
         eigenvalues' = FirstKept(eigenvalues, ops)
  PROVE  RotationsFit' /\ EigenvaluesFit'
<1> DEFINE kept == {i \in gates : Kept(ops[i], new)}
           last == Len(rotations) + 1
           layer == Restrict(ops, kept)
<1>1. DOMAIN layer = kept /\ \A i \in kept : layer[i] = ops[i]
  BY DEF Restrict
<1> HIDE DEF layer
<1>2. /\ \E S : rotations' \in Seq(S)
      /\ DOMAIN rotations' = DOMAIN rotations \cup {last} /\ last \notin DOMAIN rotations
      /\ \A k \in DOMAIN rotations : rotations'[k] = rotations[k]
      /\ rotations'[last] = layer
  <2>1. \E S : rotations \in Seq(S)
    BY DEF Fits, RotationsFit
  <2>2. rotations' = Append(rotations, layer)
    BY DEF layer
  <2>3. /\ \E S : Append(rotations, layer) \in Seq(S)
        /\ DOMAIN Append(rotations, layer) = DOMAIN rotations \cup {last}
        /\ last \notin DOMAIN rotations
        /\ \A k \in DOMAIN rotations : Append(rotations, layer)[k] = rotations[k]
        /\ Append(rotations, layer)[last] = layer
    BY <2>1, OneMore
  <2> HIDE DEF last
  <2> QED
    BY <2>2, <2>3, Zenon
<1>3. /\ kept \subseteq DOMAIN ops
      /\ \A i \in kept : HasGates(ops[i]) /\ On(ops[i]) \subseteq new
      /\ \A i \in gates : i \in kept \/ On(ops[i]) \cap new = {}
  BY DEF Kept, Overlaps
<1>4. Asks(ToSet(ops), asked)
  BY ObservableAsks
<1>5. \A i, j \in DOMAIN ops : On(ops[i]) \cap On(ops[j]) # {} => i = j
  BY PlanIsApart
<1>6. \A i \in DOMAIN ops : ops[i] \in ToSet(ops)
  BY DEF ToSet
<1>7. \A q \in new : q \in DOMAIN bases => bases[q] = "i"
  BY DEF NewlyCommitted
<1> HIDE DEF kept, last
<1>8. ASSUME NEW k \in DOMAIN rotations', NEW i \in DOMAIN rotations'[k]
      PROVE  rotations'[k][i] \in Places' /\ HasGates(rotations'[k][i])
  BY <1>1, <1>2, <1>3, <1>6, <1>8 DEF Fits, RotationsFit
<1>9. ASSUME NEW k \in DOMAIN rotations, NEW i \in DOMAIN rotations[k], NEW j \in kept
      PROVE  On(rotations[k][i]) \cap On(ops[j]) = {}
  <2>1. rotations[k][i] \in Places /\ rotations[k][i].gate # "i"
    BY <1>9 DEF Fits, RotationsFit, HasGates
  <2>2. \A q \in On(rotations[k][i]) : q \in DOMAIN bases /\ bases[q] # "i"
    BY <2>1 DEF Fits, BasesFit
  <2> QED
    BY <1>3, <1>7, <1>9, <2>2
<1>10. ASSUME NEW k \in DOMAIN rotations', NEW j \in DOMAIN rotations',
              NEW i \in DOMAIN rotations'[k], NEW l \in DOMAIN rotations'[j],
              On(rotations'[k][i]) \cap On(rotations'[j][l]) # {}
       PROVE  k = j /\ i = l
  <2>1. CASE k = last /\ j = last
    BY <1>1, <1>2, <1>3, <1>5, <1>10, <2>1
  <2>2. CASE k = last /\ j # last
    BY <1>1, <1>2, <1>9, <1>10, <2>2
  <2>3. CASE k # last /\ j = last
    BY <1>1, <1>2, <1>9, <1>10, <2>3
  <2>4. CASE k # last /\ j # last
    BY <1>2, <1>10, <2>4 DEF Fits, RotationsFit
  <2> QED
    BY <2>1, <2>2, <2>3, <2>4
<1>11. ASSUME NEW a \in Places, HasGates(a), NEW q \in On(a)
       PROVE  HasRotation(q)'
  BY <1>2, <1>11 DEF Fits, RotationsFit, HasRotation
<1>12. ASSUME NEW a \in ToSet(ops), HasGates(a), NEW q \in On(a)
       PROVE  HasRotation(q)'
  <2>1. PICK i \in DOMAIN ops : a = ops[i]
    BY <1>12 DEF ToSet
  <2>2. i \in gates
    BY <1>12, <2>1
  <2>3. CASE i \in kept
    <3>1. last \in DOMAIN rotations' /\ i \in DOMAIN rotations'[last]
          /\ rotations'[last][i] = a
      BY <1>1, <1>2, <2>1, <2>3
    <3> QED
      BY <1>12, <3>1 DEF HasRotation
  <2>4. CASE i \notin kept
    <3>1. q \in DOMAIN asked /\ q \notin new /\ asked[q] = a.gate /\ a.gate # "i"
      BY <1>3, <1>4, <1>12, <2>1, <2>2, <2>4 DEF Asks, HasGates
    <3>2. q \in DOMAIN bases /\ bases[q] = a.gate
      BY <3>1 DEF NewlyCommitted, Conflict
    <3>3. PICK b \in Places : q \in On(b) /\ b.gate = a.gate
      BY <3>2 DEF Fits, BasesFit
    <3>4. HasGates(b)
      BY <1>12, <3>3 DEF HasGates
    <3> QED
      BY <1>11, <3>3, <3>4
  <2> QED
    BY <2>3, <2>4
<1>13. RotationsFit'
  <2>1. \A a \in Places' : HasGates(a) => \A q \in On(a) : HasRotation(q)'
    BY <1>11, <1>12
  <2>2. \A k, j \in DOMAIN rotations' :
          \A i \in DOMAIN rotations'[k], l \in DOMAIN rotations'[j] :
            On(rotations'[k][i]) \cap On(rotations'[j][l]) # {} => k = j /\ i = l
    BY <1>10
  <2> QED
    BY <1>2, <1>8, <2>1, <2>2 DEF RotationsFit
<1>14. ASSUME NEW g \in DOMAIN eigenvalues'
       PROVE  /\ Op(eigenvalues'[g], g) \in Places'
              /\ eigenvalues'[g] \in Factor \ Letter
              /\ ToSet(g) = {} => \E k \in DOMAIN rotations' :
                   Op(eigenvalues'[g], g) \in Range(rotations'[k])
  <2> DEFINE matrices == {op \in ToSet(ops) : op.gate \notin Letter}
             first == CHOOSE op \in matrices : op.on = g
  <2>1. CASE g \in DOMAIN eigenvalues
    <3>1. eigenvalues'[g] = eigenvalues[g]
      BY <2>1 DEF FirstKept
    <3> QED
      BY <1>2, <2>1, <3>1 DEF Fits, EigenvaluesFit
  <2>2. CASE g \notin DOMAIN eigenvalues
    <3>1. eigenvalues'[g] = first.gate /\ \E op \in matrices : op.on = g
      BY <1>14, <2>2 DEF FirstKept
    <3>2. first \in matrices /\ first.on = g
      BY <3>1
    <3> HIDE DEF first
    <3>3. first = Op(first.gate, g) /\ first.gate \in Factor \ Letter
      BY <3>2, PlanIsOfFactors
    <3>4. PICK i \in DOMAIN ops : ops[i] = first
      BY <3>2 DEF ToSet
    <3>5. HasGates(first)
      BY <3>3 DEF HasGates, Letter
    <3>6. ToSet(g) = {} => i \in kept
      BY <3>2, <3>4, <3>5 DEF kept, Kept, On
    <3>7. i \in kept => first \in Range(rotations'[last])
      BY <1>1, <1>2, <3>4 DEF Range
    <3>8. ToSet(g) = {} => \E k \in DOMAIN rotations' : first \in Range(rotations'[k])
      BY <1>2, <3>6, <3>7
    <3>9. first \in Places'
      BY <3>2
    <3> QED
      BY <3>1, <3>3, <3>8, <3>9
  <2> QED
    BY <2>1, <2>2
<1> QED
  BY <1>13, <1>14 DEF EigenvaluesFit

-----------------------------------------------------------------------------
(* The invariant: while the pass has refused nothing, what it has committed*)
(* and added fits the places; once it is done, the circuit is made of them;*)
(* and what it has refused clashes.                                        *)
CircuitIsMade ==
  /\ circuit = Append(rotations, [q \in DOMAIN bases |-> Measure(q)])
  /\ clbitOf = [q \in DOMAIN bases |-> ClbitOf(q)]

Running == pc \notin {"conflict", "invalid"}

PassInv ==
  /\ pc \in {"start", "loop", "added", "unchanged", "measured", "conflict",
             "invalid"}
  /\ done \in Seq(Pragmas)
  /\ IsFiniteSet(DOMAIN bases) /\ DOMAIN bases \subseteq Nat
  /\ \A q \in DOMAIN bases : bases[q] \in Factor
  /\ \A k \in DOMAIN rotations : \A i \in DOMAIN rotations[k] :
       HasGates(rotations[k][i])
  /\ \A g \in DOMAIN eigenvalues : eigenvalues[g] \in Factor \ Letter
  /\ Running => Fits
  /\ pc = "added" => CircuitIsMade
  /\ RefusalHasAReason

LEMMA PassInit == Init => PassInv
<1> SUFFICES ASSUME Init PROVE PassInv
  OBVIOUS
<1>1. /\ DOMAIN bases = {} /\ DOMAIN eigenvalues = {} /\ Places = {}
      /\ rotations = << >> /\ DOMAIN rotations = {} /\ pc = "start"
      /\ done \in Seq(Pragmas) /\ rotations \in Seq({})
  BY DEF Init, Empty, Places
<1>2. IsFiniteSet(DOMAIN bases)
  BY <1>1, FS_EmptySet
<1>3. Fits
  BY <1>1 DEF Fits, BasesFit, RotationsFit, EigenvaluesFit
<1> QED
  BY <1>1, <1>2, <1>3 DEF PassInv, RefusalHasAReason

(* A step that leaves the pass's tables alone.                             *)
LEMMA FitsKept ==
  ASSUME Fits, Places' = Places, UNCHANGED <<bases, rotations, eigenvalues>>
  PROVE  Fits'
BY DEF Fits, BasesFit, RotationsFit, EigenvaluesFit, HasRotation

(* A turn without gates adds none.                                         *)
LEMMA NothingRotated ==
  ASSUME Fits, UNCHANGED <<rotations, eigenvalues>>,
         NEW P, \A a \in P : ~HasGates(a), Places' = Places \cup P
  PROVE  RotationsFit' /\ EigenvaluesFit'
<1>1. RotationsFit'
  BY DEF Fits, RotationsFit, HasRotation
<1>2. EigenvaluesFit'
  BY DEF Fits, EigenvaluesFit
<1> QED
  BY <1>1, <1>2

LEMMA TargetsAreFinite ==
  ASSUME NEW T \in Seq(Nat)
  PROVE  IsFiniteSet(ToSet(T)) /\ ToSet(T) \subseteq Nat
<1>1. T \in Surjection(1..Len(T), ToSet(T))
  BY DEF Surjection, ToSet
<1>2. IsFiniteSet(1..Len(T))
  BY FS_Interval
<1> QED
  BY <1>1, <1>2, FS_Surjection DEF ToSet

(* The qubits committed are finitely many numbers.                         *)
LEMMA AskedOfTargets ==
  ASSUME NEW p, Observable(p), ValidPlan(p)
  PROVE  DOMAIN AskedBasis(Plan(p)) \subseteq ToSet(Targets(p))
<1>1. Targets(p) \in Seq(Nat) /\ p.observable \in Seq(Factor)
  BY TargetsAreQubits, PragmasAssumption DEF Observable
<1>2. SUFFICES ASSUME NEW i \in DOMAIN Plan(p), NEW q \in On(Plan(p)[i])
               PROVE  q \in ToSet(Targets(p))
  BY DEF AskedBasis, ToSet
<1>3. CASE Repeats(p)
  BY <1>1, <1>2, <1>3 DEF Plan, On, Op, ToSet
<1>4. CASE ~Repeats(p)
  <2> DEFINE idx == ObsIdx(p.observable)
             n == Len(p.observable)
  <2>1. \A k \in DOMAIN p.observable : Arity[p.observable[k]] \in Nat
    BY <1>1, ArityAssumption DEF ValidPlan
  <2>2. /\ \A k \in 0..n : idx[k] \in Nat
        /\ \A k \in 0..n : \A l \in 0..k : idx[l] <= idx[k]
        /\ idx[n] = Len(Targets(p))
    BY <1>1, <1>4, <2>1, ObsIdxGrows DEF ValidPlan
  <2>3. /\ i \in 1..n
        /\ Plan(p)[i].on = SubSeq(Targets(p), idx[i - 1] + 1, idx[i])
    <3>1. /\ DOMAIN Plan(p) = 1..n
          /\ \A k \in DOMAIN p.observable :
               Plan(p)[k] = Op(p.observable[k], SubSeq(Targets(p), idx[k - 1] + 1, idx[k]))
      BY <1>1, <1>4 DEF Plan
    <3>2. i \in 1..n /\ i \in DOMAIN p.observable
      BY <1>1, <1>2, <3>1
    <3> HIDE DEF idx
    <3>3. Plan(p)[i] = Op(p.observable[i], SubSeq(Targets(p), idx[i - 1] + 1, idx[i]))
      BY <3>1, <3>2
    <3>4. \A f, g : Op(f, g).on = g
      BY DEF Op
    <3> QED
      BY <3>2, <3>3, <3>4
  <2> HIDE DEF idx
  <2>4. /\ idx[i - 1] \in Nat /\ idx[i] \in Nat /\ idx[i - 1] <= idx[i]
        /\ idx[i] <= Len(Targets(p))
    <3>1. i - 1 \in 0..n /\ i \in 0..n /\ n \in 0..n /\ i - 1 \in 0..i /\ i \in 0..n
      BY <1>1, <2>3
    <3> QED
      BY <2>2, <3>1
  <2>5. q \in ToSet(SubSeq(Targets(p), idx[i - 1] + 1, idx[i]))
    BY <1>2, <2>3 DEF On
  <2>6. PICK t \in DOMAIN Targets(p) : q = Targets(p)[t]
    BY <1>1, <2>4, <2>5, SliceOfTargets
  <2> QED
    BY <1>1, <2>6 DEF ToSet
<1> QED
  BY <1>3, <1>4

LEMMA CommittedIsFinite ==
  ASSUME IsFiniteSet(DOMAIN bases), DOMAIN bases \subseteq Nat,
         \A q \in DOMAIN bases : bases[q] \in Factor,
         NEW T \in Seq(Nat), NEW asked, DOMAIN asked \subseteq ToSet(T),
         \A q \in DOMAIN asked : asked[q] \in Factor
  PROVE  LET new == Committed(asked)
         IN /\ IsFiniteSet(DOMAIN new) /\ DOMAIN new \subseteq Nat
            /\ \A q \in DOMAIN new : new[q] \in Factor
<1>1. IsFiniteSet(ToSet(T)) /\ ToSet(T) \subseteq Nat
  BY TargetsAreFinite
<1>2. IsFiniteSet(DOMAIN asked)
  BY <1>1, FS_Subset
<1>3. IsFiniteSet(DOMAIN bases \cup DOMAIN asked)
  BY <1>2, FS_Union
<1> QED
  BY <1>1, <1>3 DEF Committed, NewlyCommitted

LEMMA PassNext ==
  ASSUME PassInv, [Next]_vars
  PROVE  PassInv'
<1> USE DEF PassInv
<1>1. CASE NoPragmas \/ StartLoop
  <2>1. Places' = Places
    BY <1>1 DEF NoPragmas, StartLoop, Places
  <2>2. Fits'
    BY <1>1, <2>1, FitsKept DEF NoPragmas, StartLoop, Running
  <2> QED
    BY <1>1, <2>1, <2>2
       DEF NoPragmas, StartLoop, Running, RefusalHasAReason
<1>2. CASE AppendOperations
  <2>1. Places' = Places
    BY <1>2 DEF AppendOperations, Places
  <2>2. Fits'
    BY <1>2, <2>1, FitsKept DEF AppendOperations, Running
  <2>3. CircuitIsMade'
    BY <1>2 DEF AppendOperations, CircuitIsMade, Measure, ClbitOf
  <2> QED
    BY <1>2, <2>1, <2>2, <2>3 DEF AppendOperations, RefusalHasAReason
<1>3. CASE UNCHANGED vars
  <2>1. Places' = Places
    BY <1>3 DEF vars, Places
  <2>2. Running => Fits'
    BY <1>3, <2>1, FitsKept DEF vars
  <2>3. CircuitIsMade => CircuitIsMade'
    BY <1>3 DEF vars, CircuitIsMade, Measure, ClbitOf
  <2> QED
    BY <1>3, <2>1, <2>2, <2>3 DEF vars, Running, RefusalHasAReason
<1>4. ASSUME NEW p \in Pragmas, SkipInvariant(p)
      PROVE  PassInv'
  <2>1. /\ done' = Append(done, p) /\ Running
        /\ UNCHANGED <<pc, bases, rotations, eigenvalues, circuit, clbitOf>>
        /\ pc = "loop" /\ p.kind = "invariant"
    BY <1>4 DEF SkipInvariant, Turn, Running
  <2>2. Places' = Places /\ done' \in Seq(Pragmas)
    BY <2>1, PlacesGrow DEF PlacesOf
  <2>3. Fits'
    BY <2>1, <2>2, FitsKept
  <2> QED
    BY <2>1, <2>2, <2>3 DEF RefusalHasAReason
<1>5. ASSUME NEW p \in Pragmas, AddProbability(p)
      PROVE  PassInv'
  <2> DEFINE asked == [q \in ToSet(Targets(p)) |-> "z"]
             P == {Op("z", <<q>>) : q \in ToSet(Targets(p))}
  <2>1. /\ done' = Append(done, p) /\ Fits /\ pc = "loop"
        /\ p.kind = "probability"
        /\ UNCHANGED <<rotations, eigenvalues>>
    BY <1>5 DEF AddProbability, Raise, Turn, Running
  <2>2. Places' = Places \cup P /\ done' \in Seq(Pragmas)
    BY <2>1, PlacesGrow DEF PlacesOf
  <2>3. Asks(P, asked)
    BY ProbabilityAsks
  <2>4. Targets(p) \in Seq(Nat)
    BY <2>1, TargetsAreQubits
  <2>5. CASE Conflict(asked)
    <3>1. pc' = "conflict" /\ bases' = bases
      BY <1>5, <2>5 DEF AddProbability, Raise
    <3>2. \E a \in Places, b \in P : Clash(a, b)
      BY <2>1, <2>3, <2>5, ConflictsClash DEF Fits
    <3>3. RefusalHasAReason'
      BY <2>2, <3>2 DEF RefusalHasAReason
    <3> QED
      BY <2>1, <2>2, <3>1, <3>3 DEF Running
  <2>6. CASE ~Conflict(asked)
    <3>1. pc' = "loop" /\ bases' = Committed(asked)
      BY <1>5, <2>1, <2>6 DEF AddProbability
    <3>2. BasesFit'
      BY <2>1, <2>2, <2>3, <2>6, <3>1, Commit DEF Fits
    <3>3. \A a \in P : ~HasGates(a)
      BY DEF HasGates, Op
    <3>4. RotationsFit' /\ EigenvaluesFit'
      BY <2>1, <2>2, <3>3, NothingRotated
    <3>5. \A q \in DOMAIN asked : asked[q] \in Factor
      BY ArityAssumption
    <3>6. /\ IsFiniteSet(DOMAIN bases') /\ DOMAIN bases' \subseteq Nat
          /\ \A q \in DOMAIN bases' : bases'[q] \in Factor
      BY <2>4, <3>1, <3>5, CommittedIsFinite
    <3> QED
      BY <2>1, <2>2, <3>1, <3>2, <3>4, <3>6 DEF Fits, Running, RefusalHasAReason
  <2> QED
    BY <2>5, <2>6
<1>6. ASSUME NEW p \in Pragmas, AddObservable(p)
      PROVE  PassInv'
  <2> DEFINE ops == Plan(p)
             asked == AskedBasis(ops)
             new == NewlyCommitted(asked)
             gates == {i \in DOMAIN ops : HasGates(ops[i])}
  <2>1. /\ done' = Append(done, p) /\ Fits /\ pc = "loop"
        /\ Observable(p)
    BY <1>6 DEF AddObservable, Raise, Turn, Running, Observable
  <2>2. /\ Places' = Places \cup PlacesOf(p) /\ done' \in Seq(Pragmas)
        /\ ValidPlan(p) => PlacesOf(p) = ToSet(ops)
    BY <2>1, PlacesGrow DEF PlacesOf, Observable
  <2>3. CASE ~ValidPlan(p)
    BY <1>6, <2>1, <2>2, <2>3
       DEF AddObservable, Raise, Running, RefusalHasAReason
  <2>4. CASE ValidPlan(p) /\ (Conflict(asked) \/ \E i \in gates : Overlaps(ops[i], new))
    <3>1. pc' = "conflict" /\ UNCHANGED <<bases, rotations, eigenvalues>>
      BY <1>6, <2>4 DEF AddObservable, Raise
    <3>2. Asks(ToSet(ops), asked)
      BY <2>1, <2>4, ObservableAsks
    <3>3. \E a \in Places, b \in ToSet(ops) : Clash(a, b)
      <4>1. CASE Conflict(asked)
        BY <2>1, <3>2, <4>1, ConflictsClash DEF Fits
      <4>2. CASE ~Conflict(asked)
        <5>1. PICK i \in gates : Overlaps(ops[i], new)
          BY <2>4, <4>2
        <5>2. ops[i] \in ToSet(ops) /\ HasGates(ops[i])
          BY DEF ToSet
        <5> QED
          BY <2>1, <3>2, <4>2, <5>1, <5>2, OverlapsClash DEF Fits
      <4> QED
        BY <4>1, <4>2
    <3>4. RefusalHasAReason'
      BY <2>2, <2>4, <3>3 DEF RefusalHasAReason
    <3> QED
      BY <2>1, <2>2, <3>1, <3>4 DEF Running
  <2>5. CASE /\ ValidPlan(p) /\ ~Conflict(asked)
             /\ \A i \in gates : ~Overlaps(ops[i], new)
    <3>1. /\ pc' = "loop" /\ bases' = Committed(asked)
          /\ rotations' = Append(rotations,
                                 Restrict(ops, {i \in gates : Kept(ops[i], new)}))
          /\ eigenvalues' = FirstKept(eigenvalues, ops)
      BY <1>6, <2>1, <2>5 DEF AddObservable
    <3>2. Places' = Places \cup ToSet(ops)
      BY <2>2, <2>5
    <3>3. Asks(ToSet(ops), asked)
      BY <2>1, <2>5, ObservableAsks
    <3>4. BasesFit'
      BY <2>1, <2>5, <3>1, <3>2, <3>3, Commit DEF Fits
    <3>5. RotationsFit' /\ EigenvaluesFit'
      BY <2>1, <2>5, <3>1, <3>2, Rotate
    <3>6. /\ \A k \in DOMAIN rotations' : \A i \in DOMAIN rotations'[k] :
               HasGates(rotations'[k][i])
          /\ \A g \in DOMAIN eigenvalues' : eigenvalues'[g] \in Factor \ Letter
      BY <3>5 DEF RotationsFit, EigenvaluesFit
    <3>7. Targets(p) \in Seq(Nat) /\ DOMAIN asked \subseteq ToSet(Targets(p))
      BY <2>1, <2>5, TargetsAreQubits, AskedOfTargets DEF Observable
    <3>8. \A q \in DOMAIN asked : asked[q] \in Factor
      BY <2>1, <2>5, <3>3, PlanIsOfFactors DEF Asks
    <3>9. /\ IsFiniteSet(DOMAIN bases') /\ DOMAIN bases' \subseteq Nat
          /\ \A q \in DOMAIN bases' : bases'[q] \in Factor
      BY <3>1, <3>7, <3>8, CommittedIsFinite
    <3> QED
      BY <2>2, <3>1, <3>4, <3>5, <3>6, <3>9 DEF Fits, Running, RefusalHasAReason
  <2> QED
    BY <2>3, <2>4, <2>5
<1> QED
  BY <1>1, <1>2, <1>3, <1>4, <1>5, <1>6 DEF Next

-----------------------------------------------------------------------------
(* TypeOK: committed bases, rotations and eigenvalues stay what their names*)
(* say, whatever the pragmas (basis_rotation_pass.py, run).                *)
THEOREM PassTyping == Spec => []TypeOK
<1>1. PassInv => TypeOK
  BY DEF PassInv, TypeOK
<1> QED
  BY <1>1, PassInit, PassNext, PTL DEF Spec

(* RefusalHasAReason: whatever is measured on whichever qubits, and in     *)
(* whatever order, the pass calls pragmas conflicting only when two places *)
(* on one qubit differ, neither of them the identity's                     *)
(* (_check_basis_conflict, and the overlap of run).                        *)
THEOREM RefusalsHaveAReason == Spec => []RefusalHasAReason
<1>1. PassInv => RefusalHasAReason
  BY DEF PassInv
<1> QED
  BY <1>1, PassInit, PassNext, PTL DEF Spec

(* What the pass lets pass although it differs are places of one matrix on *)
(* different qubits: letters that differ are always refused.               *)
OnlyMatricesPass ==
  pc = "added" => \A a, b \in Places :
    Clash(a, b) => a.gate = b.gate /\ a.gate \notin Letter

(* OnlyMatricesPass: _check_basis_conflict compares what is asked of each  *)
(* qubit, and not of which qubits it is asked together.                    *)
THEOREM LettersNeverPass == Spec => []OnlyMatricesPass
<1>1. ASSUME PassInv PROVE OnlyMatricesPass
  <2> SUFFICES ASSUME pc = "added", NEW a \in Places, NEW b \in Places, Clash(a, b)
               PROVE  a.gate = b.gate /\ a.gate \notin Letter
    BY DEF OnlyMatricesPass
  <2>1. PICK q \in On(a) \cap On(b) : TRUE
    BY DEF Clash
  <2>2. a.gate = b.gate
    BY <1>1, <2>1 DEF PassInv, Running, Fits, BasesFit, Clash
  <2>3. Proper(a) /\ Proper(b)
    BY <1>1, PlacesAreProper DEF PassInv
  <2>4. ASSUME a.gate \in Letter PROVE FALSE
    <3>1. PICK x, y : a.on = <<x>> /\ b.on = <<y>>
      BY <2>2, <2>3, <2>4 DEF Proper
    <3>2. x = q /\ y = q
      BY <2>1, <3>1 DEF On, ToSet
    <3>3. a = b
      BY <2>2, <2>3, <3>1, <3>2 DEF Proper
    <3> QED
      BY <3>3 DEF Clash
  <2> QED
    BY <2>2, <2>4
<1> QED
  BY <1>1, PassInit, PassNext, PTL DEF Spec

-----------------------------------------------------------------------------
(* Where nothing clashes, a qubit's rotation is that of any of its places. *)
LEMMA RotationOfItsPlace ==
  ASSUME PassInv, pc = "added", DifferentObservablesRaise,
         NEW a \in Places, NEW q \in On(a), a.gate # "i",
         NEW k \in DOMAIN rotations, NEW i \in DOMAIN rotations[k],
         q \in On(rotations[k][i])
  PROVE  rotations[k][i] = a
BY DEF PassInv, Running, Fits, RotationsFit, DifferentObservablesRaise, Clash, HasGates

(* Two qubits are measured into two clbits.                                *)
LEMMA ClbitsDiffer ==
  ASSUME IsFiniteSet(DOMAIN bases), DOMAIN bases \subseteq Nat,
         NEW q \in DOMAIN bases, NEW r \in DOMAIN bases, q < r
  PROVE  /\ ClbitOf(q) \in Nat /\ ClbitOf(r) \in Nat /\ ClbitOf(q) >= OldClbits
         /\ ClbitOf(q) < ClbitOf(r)
<1> DEFINE Under(x) == {y \in DOMAIN bases : y < x}
<1>1. \A x : IsFiniteSet(Under(x)) /\ Cardinality(Under(x)) \in Nat
  BY FS_Subset, FS_CardinalityType
<1>2. Under(q) \in SUBSET Under(r) /\ q \in Under(r) /\ q \notin Under(q)
  OBVIOUS
<1> HIDE DEF Under
<1>3. Cardinality(Under(q)) < Cardinality(Under(r))
  <2>1. /\ Cardinality(Under(q)) <= Cardinality(Under(r))
        /\ Cardinality(Under(q)) = Cardinality(Under(r)) => Under(q) = Under(r)
    BY <1>1, <1>2, FS_Subset
  <2>2. Under(q) # Under(r)
    BY <1>2
  <2> QED
    BY <1>1, <2>1, <2>2
<1>4. /\ ClbitOf(q) = OldClbits + Cardinality(Under(q))
      /\ ClbitOf(r) = OldClbits + Cardinality(Under(r))
  BY DEF ClbitOf, Under
<1> QED
  BY <1>1, <1>3, <1>4, BoundAssumption

LEMMA ClbitsOfTheirOwn ==
  ASSUME IsFiniteSet(DOMAIN bases), DOMAIN bases \subseteq Nat
  PROVE  /\ \A q \in DOMAIN bases : ClbitOf(q) >= OldClbits
         /\ \A q, r \in DOMAIN bases : ClbitOf(q) = ClbitOf(r) => q = r
<1>1. \A q \in DOMAIN bases : ClbitOf(q) >= OldClbits
  <2> SUFFICES ASSUME NEW q \in DOMAIN bases PROVE ClbitOf(q) >= OldClbits
    OBVIOUS
  <2>1. Cardinality({r \in DOMAIN bases : r < q}) \in Nat
    BY FS_Subset, FS_CardinalityType
  <2> QED
    BY <2>1, BoundAssumption DEF ClbitOf
<1>2. ASSUME NEW q \in DOMAIN bases, NEW r \in DOMAIN bases, ClbitOf(q) = ClbitOf(r)
      PROVE  q = r
  <2>1. ~(q < r)
    BY <1>2, ClbitsDiffer
  <2>2. ~(r < q)
    BY <1>2, ClbitsDiffer
  <2> QED
    BY <2>1, <2>2
<1> QED
  BY <1>1, <1>2

(* EveryPlaceIsMeasured: where no two places clash that the pass let pass, *)
(* every qubit of every place is rotated by that place, once, and measured *)
(* into a clbit of its own (run, 264-333).                                 *)
THEOREM PlacesAreMeasured ==
  Spec => [](DifferentObservablesRaise => EveryPlaceIsMeasured)
<1>1. ASSUME PassInv, DifferentObservablesRaise
      PROVE  EveryPlaceIsMeasured
  <2> SUFFICES ASSUME pc = "added", NEW a \in Places, NEW q \in On(a)
               PROVE  /\ a.gate # "i" =>
                           IF HasGates(a) THEN OneRotation(a, q)
                           ELSE \A k \in 1..Len(rotations) : At(k, q) = {}
                      /\ Len(circuit) = Len(rotations) + 1 /\ At(Len(circuit), q) = {q}
                      /\ circuit[Len(circuit)][q] =
                           [gate |-> "measure", on |-> <<q>>, clbit |-> clbitOf[q]]
                      /\ clbitOf[q] >= OldClbits
                      /\ \A r \in DOMAIN clbitOf : clbitOf[r] = clbitOf[q] => r = q
    BY DEF EveryPlaceIsMeasured
  <2> DEFINE last == [r \in DOMAIN bases |-> Measure(r)]
  <2>1. /\ Fits /\ q \in DOMAIN bases /\ circuit = Append(rotations, last)
        /\ clbitOf = [r \in DOMAIN bases |-> ClbitOf(r)]
    BY <1>1 DEF PassInv, Running, Fits, BasesFit, CircuitIsMade
  <2>2. /\ Len(circuit) = Len(rotations) + 1
        /\ DOMAIN rotations = 1..Len(rotations)
        /\ \A k \in 1..Len(rotations) : circuit[k] = rotations[k]
        /\ circuit[Len(circuit)] = last
        /\ Len(circuit) \notin 1..Len(rotations)
    <3>1. \E S : rotations \in Seq(S)
      BY <2>1 DEF Fits, RotationsFit
    <3> HIDE DEF last
    <3>2. /\ Len(Append(rotations, last)) = Len(rotations) + 1
          /\ DOMAIN rotations = 1..Len(rotations)
          /\ Len(rotations) + 1 \notin DOMAIN rotations
          /\ \A k \in DOMAIN rotations : Append(rotations, last)[k] = rotations[k]
          /\ Append(rotations, last)[Len(rotations) + 1] = last
      BY <3>1, OneMore
    <3> QED
      BY <2>1, <3>2
  <2>3. \A k \in 1..Len(rotations) :
          At(k, q) = {i \in DOMAIN rotations[k] : q \in On(rotations[k][i])}
    BY <2>2 DEF At
  <2>4. ASSUME HasGates(a) PROVE OneRotation(a, q)
    <3>1. PICK k \in DOMAIN rotations : \E i \in DOMAIN rotations[k] :
            q \in On(rotations[k][i])
      BY <2>1, <2>4 DEF Fits, RotationsFit, HasRotation
    <3>2. PICK i \in DOMAIN rotations[k] : q \in On(rotations[k][i])
      BY <3>1
    <3>3. rotations[k][i] = a
      BY <1>1, <2>4, <3>2, RotationOfItsPlace DEF HasGates
    <3>4. \A j \in DOMAIN rotations : \A l \in DOMAIN rotations[j] :
            q \in On(rotations[j][l]) => j = k /\ l = i
      BY <2>1, <3>2 DEF Fits, RotationsFit
    <3>5. At(k, q) = {i} /\ circuit[k][i] = a /\ i \in DOMAIN circuit[k]
      BY <2>2, <2>3, <3>2, <3>3, <3>4
    <3>6. \A j \in 1..Len(rotations) : j # k => At(j, q) = {}
      BY <2>2, <2>3, <3>4
    <3> QED
      BY <2>2, <3>1, <3>5, <3>6 DEF OneRotation
  <2>5. ASSUME a.gate # "i", ~HasGates(a), NEW k \in 1..Len(rotations)
        PROVE  At(k, q) = {}
    <3>1. SUFFICES ASSUME NEW i \in DOMAIN rotations[k], q \in On(rotations[k][i])
                   PROVE  FALSE
      BY <2>3
    <3>2. rotations[k][i] = a /\ HasGates(rotations[k][i])
      BY <1>1, <2>1, <2>2, <2>5, <3>1, RotationOfItsPlace DEF Fits, RotationsFit
    <3> QED
      BY <2>5, <3>2
  <2>6. At(Len(circuit), q) = {q}
    BY <2>1, <2>2 DEF At, On, Measure, ToSet
  <2>7. circuit[Len(circuit)][q] =
          [gate |-> "measure", on |-> <<q>>, clbit |-> clbitOf[q]]
    BY <2>1, <2>2 DEF Measure
  <2>8. /\ clbitOf[q] >= OldClbits
        /\ \A r \in DOMAIN clbitOf : clbitOf[r] = clbitOf[q] => r = q
    BY <1>1, <2>1, ClbitsOfTheirOwn DEF PassInv
  <2> QED
    BY <2>2, <2>4, <2>5, <2>6, <2>7, <2>8
<1> QED
  BY <1>1, PassInit, PassNext, PTL DEF Spec

(* EigenvaluesFitRotation: where no two places clash that the pass let     *)
(* pass, the eigenvalues of a group of qubits are those of the matrix that *)
(* is rotated on it (run, 291-311).                                        *)
THEOREM EigenvaluesOfRotations ==
  Spec => [](DifferentObservablesRaise => EigenvaluesFitRotation)
<1>1. ASSUME PassInv, DifferentObservablesRaise
      PROVE  EigenvaluesFitRotation
  <2> SUFFICES ASSUME pc = "added", NEW g \in DOMAIN eigenvalues
               PROVE  \E k \in DOMAIN rotations :
                        Op(eigenvalues[g], g) \in Range(rotations[k])
    BY DEF EigenvaluesFitRotation
  <2> DEFINE a == Op(eigenvalues[g], g)
  <2>1. /\ a \in Places /\ a.gate \in Factor \ Letter /\ On(a) = ToSet(g)
        /\ Fits
    BY <1>1 DEF PassInv, Running, Fits, EigenvaluesFit, Op, On
  <2>2. CASE ToSet(g) = {}
    BY <2>1, <2>2 DEF Fits, EigenvaluesFit
  <2>3. CASE ToSet(g) # {}
    <3>1. PICK q \in On(a) : TRUE
      BY <2>1, <2>3
    <3>2. HasGates(a) /\ a.gate # "i"
      BY <2>1 DEF HasGates, Letter
    <3>3. PICK k \in DOMAIN rotations : \E i \in DOMAIN rotations[k] :
            q \in On(rotations[k][i])
      BY <2>1, <3>1, <3>2 DEF Fits, RotationsFit, HasRotation
    <3>4. PICK i \in DOMAIN rotations[k] : q \in On(rotations[k][i])
      BY <3>3
    <3>5. rotations[k][i] = a
      BY <1>1, <2>1, <3>1, <3>2, <3>4, RotationOfItsPlace
    <3> QED
      BY <3>4, <3>5 DEF Range
  <2> QED
    BY <2>2, <2>3
<1> QED
  BY <1>1, PassInit, PassNext, PTL DEF Spec

(* Observables that are letters need no such condition: all that differ    *)
(* are refused, and all that pass are measured.                            *)
THEOREM LettersAreMeasured ==
  ASSUME Factor \subseteq Letter
  PROVE  Spec => [](DifferentObservablesRaise /\ EveryPlaceIsMeasured)
<1>1. ASSUME PassInv, OnlyMatricesPass PROVE DifferentObservablesRaise
  <2>1. \A a \in Places : a.gate \in Letter
    BY <1>1, PlacesAreProper DEF PassInv, Proper
  <2> QED
    BY <1>1, <2>1 DEF OnlyMatricesPass, DifferentObservablesRaise
<1>2. Spec => []PassInv
  BY PassInit, PassNext, PTL DEF Spec
<1> QED
  BY <1>1, <1>2, LettersNeverPass, PlacesAreMeasured, PTL
=============================================================================
