----------------------------- MODULE Primitives -----------------------------
(***************************************************************************)
(* BraketEstimator and BraketSampler (providers/braket_estimator.py,       *)
(* braket_sampler.py): run() makes the bindings of one program set out of  *)
(* all pubs, an observable at a time; when its result is there (see        *)
(* PrimitiveJob), _translate_result goes over the bindings again and puts  *)
(* each value where it belongs in its pub's array.                         *)
(*                                                                         *)
(* External: numpy and Qiskit's containers (PubArrays), the iteration      *)
(* order of a frozenset, and the program set's result, which has for each  *)
(* binding a value per input set and observable, input set by input set.   *)
(* The compiled circuit keeps its qubits: observables are not moved along  *)
(* with a layout that the transpiler chooses (see the README).             *)
(***************************************************************************)
EXTENDS PubArrays, SequencesExt, TLC

CONSTANTS PubLists,  \* kind -> the lists of pubs that run() may be given
          Parameters,\* the parameters of every circuit that has any, a sequence
          ByteSize,  \* bits in a byte (8)
          Default    \* run()'s own precision, or shots

Kind == {"estimator", "grouping", "sampler"}  \* "grouping": abelian_grouping
Unset == 0                                    \* a pub's precision: None

ASSUME ParametersAssumption == Parameters \in Seq(STRING) /\ IsInjective(Parameters)
ASSUME ByteSizeAssumption == ByteSize \in Nat \ {0}
ASSUME DefaultAssumption == Default \in Nat \ {Unset}

VARIABLES kind,     \* which primitive it is
          pubs,     \* coerced_pubs
          phase,    \* where run() or the translation of its result is
          k,        \* the pub its loop is at
          todo,     \* the pub's observables that no binding has yet
          bindings, \* all_bindings
          metas,    \* pub_metadata: per pub, its bindings' result maps
          accuracy, \* the precision, or shots, the program set is run with
          local,    \* bindings of the pub that have been read
          offset,   \* binding_offset
          values    \* pub_results: per pub, index -> value

vars == <<kind, pubs, phase, k, todo, bindings, metas, accuracy, local, offset,
          values>>

Pub == pubs[k]
IsEstimator == kind # "sampler"

TypeOK ==
  /\ kind \in Kind /\ pubs \in PubLists[kind]
  /\ phase \in {"new", "run", "translate", "result", "done", "raised"}
  /\ k \in 1..(Len(pubs) + 1)
  /\ phase = "translate" /\ k <= Len(pubs) /\ IsEstimator =>
       todo \subseteq {Pub.observables[ij] : ij \in DOMAIN Pub.observables}
  /\ \A i \in DOMAIN bindings :
       bindings[i].count \in Nat \ {0} /\ bindings[i].sum \in BOOLEAN
  /\ Len(metas) <= Len(pubs)
  /\ accuracy \in Nat
  /\ offset + local \in 0..Len(bindings)
  /\ Len(values) = Len(pubs)

Zeros(pub) == [ij \in Indices(Shape(pub)) |-> EmptyBag]

Init ==
  /\ kind \in Kind /\ pubs \in PubLists[kind]
  /\ phase = "new" /\ k = 1 /\ todo = {}
  /\ bindings = <<>> /\ metas = <<>> /\ accuracy = Unset
  /\ local = 0 /\ offset = 0
  /\ values = [i \in DOMAIN pubs |-> <<>>]

-----------------------------------------------------------------------------
(* __init__ refuses a backend whose device has no program sets.            *)
Construct ==
  /\ phase = "new"
  /\ \E programSets \in BOOLEAN :
       phase' = IF programSets THEN "run" ELSE "raised"
  /\ UNCHANGED <<kind, pubs, k, todo, bindings, metas, accuracy, local, offset,
                 values>>

(* run(): _pub_precision and _pub_shots want one value for all pubs; none  *)
(* at all raises StopIteration.                                            *)
Accuracies(list) == {list[i].accuracy : i \in DOMAIN list}

Observables(pub) == {pub.observables[ij] : ij \in DOMAIN pub.observables}

ToPub(i) ==
  /\ k' = i
  /\ todo' = IF IsEstimator /\ i <= Len(pubs) THEN Observables(pubs[i]) ELSE {}

Refuse ==
  /\ phase = "run" /\ Cardinality(Accuracies(pubs)) # 1
  /\ phase' = "raised"
  /\ UNCHANGED <<kind, pubs, k, todo, bindings, metas, accuracy, local, offset,
                 values>>

Accept ==
  /\ phase = "run" /\ Cardinality(Accuracies(pubs)) = 1
  /\ \E a \in Accuracies(pubs) : accuracy' = IF a = Unset THEN Default ELSE a
  /\ phase' = "translate" /\ ToPub(1)
  /\ metas' = [i \in DOMAIN pubs |-> <<>>]
  /\ UNCHANGED <<kind, pubs, bindings, local, offset, values>>

-----------------------------------------------------------------------------
(* BraketEstimator._translate_pub: obs_groups maps an observable to the    *)
(* positions it has in the broadcast arrays, with their parameter indices. *)
Positions(pub) == 1..Size(Shape(pub))

ObsGroup(pub, o) ==
  {<<n, ParamAt(pub, Unravel(Shape(pub), n))>> :
     n \in {m \in Positions(pub) :
              ObservableAt(pub, Unravel(Shape(pub), m)) = o}}

ParamsOf(pub, o) == {pair[2] : pair \in ObsGroup(pub, o)}
FirstPosition(pub, o) ==
  CHOOSE n \in {pair[1] : pair \in ObsGroup(pub, o)} :
    \A pair \in ObsGroup(pub, o) : n <= pair[1]

InOrder(pub, S) ==
  SetToSortSeq(S, LAMBDA a, b : FirstPosition(pub, a) < FirstPosition(pub, b))

(* matching_obs_keys.  Mutant: observables  asked for under fewer of the   *)
(* parameters join in.                                                     *)
Matching_Fewer(pub, left, o) ==
  {m \in left : ParamsOf(pub, m) \subseteq ParamsOf(pub, o)}
Matching(pub, left, o) ==
  {m \in left : ParamsOf(pub, m) = ParamsOf(pub, o)}

(* param_idx_map, from the order in which the input sets are (from 0).     *)
(* Mutant: the map enumerates the set again, in an order of its own.       *)
ParamIdx_Again(order, param) ==
  (CHOOSE i \in DOMAIN order :
     SetToSeq({order[j] : j \in DOMAIN order})[i] = param) - 1
ParamIdx(order, param) == (CHOOSE i \in DOMAIN order : order[i] = param) - 1

(* _with_input_names gives the i-th parameter an input name of its own,    *)
(* here i; _translate_parameters makes a column of values per input name.  *)
(* The value of parameter p at index n of the arrays is <<n, p>>.          *)
InputName(p) == CHOOSE i \in DOMAIN Parameters : Parameters[i] = p

TranslateParameters(list) ==
  [name \in {InputName(p) : p \in Range(Parameters)} |->
     FlattenSeq([i \in DOMAIN list |->
       LET own == SelectSeq(Parameters, LAMBDA p : InputName(p) = name)
       IN [j \in DOMAIN own |-> <<list[i], own[j]>>]])]

Binding(order, observables, sum) ==
  [inputs |-> IF NoParam \in Range(order) THEN <<>> ELSE TranslateParameters(order),
   count |-> Len(order), observables |-> observables, sum |-> sum]

(* External: executable i of a binding takes the i-th value of each input; *)
(* the index of the arrays that these values belong to.                    *)
Mixed == <<0, 0>>
IndexRun(b, i) ==
  LET bound == [name \in DOMAIN b.inputs |-> b.inputs[name][i]]
  IN IF b.inputs = <<>> THEN NoParam
     ELSE IF \E n \in {bound[name][1] : name \in DOMAIN bound} :
               bound = [j \in DOMAIN Parameters |-> <<n, Parameters[j]>>]
          THEN bound[1][1] ELSE Mixed

(* Each Sum has a binding of its own, the monomials share one.  An entry   *)
(* of a result map: position, index of the observable, of the input set.   *)
Entries(pub, obs, order) ==
  UNION {{[position |-> pair[1], obs |-> i - 1, param |-> ParamIdx(order, pair[2])] :
            pair \in ObsGroup(pub, obs[i])} : i \in DOMAIN obs}

Separate(pub, keys, order) ==
  LET sums == SelectSeq(keys, IsSum)
      monomials == SelectSeq(keys, LAMBDA o : ~IsSum(o))
      lists == [i \in DOMAIN sums |-> <<sums[i]>>]
                 \o IF monomials = <<>> THEN <<>> ELSE <<monomials>>
  IN [i \in DOMAIN lists |->
        [binding |-> Binding(order, lists[i], i <= Len(sums)),
         map |-> Entries(pub, lists[i], order)]]

(* _emit_commuting_groups: a binding per group of labels, and the terms of *)
(* every observable sent to their label's one.  Within a group a support   *)
(* determines the label.                                                   *)
Labels(keys) == UNION {DOMAIN keys[i] : i \in DOMAIN keys}

Grouped(pub, keys, order, groups) ==
  [g \in DOMAIN groups |->
     [binding |->
        Binding(order, <<[l \in {BasisLabel(groups[g])} |-> 1]>>, FALSE),
      map |->
        UNION {{[position |-> pair[1], param |-> ParamIdx(order, pair[2]),
                 weight |-> keys[i][l], support |-> Support(l)] :
                  l \in DOMAIN keys[i] \cap groups[g],
                  pair \in ObsGroup(pub, keys[i])} : i \in DOMAIN keys}]]

AddBindings(new) ==
  /\ bindings' = bindings \o [i \in DOMAIN new |-> new[i].binding]
  /\ metas' = [metas EXCEPT ![k] = @ \o [i \in DOMAIN new |-> new[i].map]]

GroupObservables ==
  /\ phase = "translate" /\ IsEstimator /\ todo # {}
  /\ LET first == InOrder(Pub, todo)[1]
         keys == InOrder(Pub, Matching(Pub, todo, first))
     IN /\ \E order \in SetToSeqs(ParamsOf(Pub, first)) :
             IF kind = "estimator"
               THEN AddBindings(Separate(Pub, keys, order))
               ELSE \E p \in Groupings(Labels(keys)) :
                      AddBindings(Grouped(Pub, keys, order, SetToSeq(p)))
        /\ todo' = todo \ {keys[i] : i \in DOMAIN keys}
  /\ UNCHANGED <<kind, pubs, phase, k, accuracy, local, offset, values>>

NextPub ==
  /\ phase = "translate" /\ k <= Len(pubs) /\ IsEstimator /\ todo = {}
  /\ ToPub(k + 1)
  /\ UNCHANGED <<kind, pubs, phase, bindings, metas, accuracy, local, offset,
                 values>>
-----------------------------------------------------------------------------
(* BraketSampler._translate_pub: one binding, with every parameter index   *)
(* in np.ndindex's order.                                                  *)
AllParams(shape) == [n \in 1..Size(shape) |-> Unravel(shape, n)]

SamplePub ==
  /\ phase = "translate" /\ k <= Len(pubs) /\ ~IsEstimator
  /\ LET inputs == IF Pub.pshape = <<>> THEN <<NoParam>> ELSE AllParams(Pub.pshape)
     IN AddBindings(<<[binding |-> Binding(inputs, <<>>, FALSE),
                       map |-> {}]>>)
  /\ ToPub(k + 1)
  /\ UNCHANGED <<kind, pubs, phase, accuracy, local, offset, values>>

(* The program set is run; its result is there.                            *)
HaveResult ==
  /\ phase = "translate" /\ k = Len(pubs) + 1
  /\ phase' = "result" /\ k' = 1
  /\ values' = [i \in DOMAIN pubs |-> Zeros(pubs[i])]
  /\ UNCHANGED <<kind, pubs, todo, bindings, metas, accuracy, local, offset>>

-----------------------------------------------------------------------------
(* BraketEstimator._translate_result: what an entry's value is ...         *)
ResultOf(b, entry) ==
  IF b.sum
    THEN ValueOf(b.observables[1], IndexRun(b, entry.param + 1))
    ELSE LET n == Len(b.observables)
             at == entry.param * n + entry.obs
         IN ValueOf(b.observables[(at % n) + 1], IndexRun(b, (at \div n) + 1))

(* ... and for a group what the parity of its support's columns adds.      *)
Contribution(b, entry) ==
  LET basis == CHOOSE l \in DOMAIN b.observables[1] : TRUE
      columns == {Column(basis, q) : q \in entry.support}
  IN [t \in {Term(ParityOf(basis, columns), IndexRun(b, entry.param + 1))} |->
        entry.weight]

With(evs, b, map) ==
  [ij \in DOMAIN evs |->
     LET here == {e \in map : Unravel(Shape(Pub), e.position) = ij}
     IN IF kind = "grouping"
          THEN FoldSet(LAMBDA e, sum : sum (+) Contribution(b, e), evs[ij], here)
          ELSE IF here = {} THEN evs[ij]
          ELSE ResultOf(b, CHOOSE e \in here : TRUE)]

ReadBinding ==
  /\ phase = "result" /\ IsEstimator /\ local < Len(metas[k])
  /\ values' = [values EXCEPT
       ![k] = With(@, bindings[offset + local + 1], metas[k][local + 1])]
  /\ local' = local + 1
  /\ UNCHANGED <<kind, pubs, phase, k, todo, bindings, metas, accuracy, offset>>

NextOffset == offset + Len(metas[k])

ToNextResult ==
  /\ offset' = NextOffset
  /\ local' = 0
  /\ k' = IF k = Len(pubs) THEN k ELSE k + 1
  /\ phase' = IF k = Len(pubs) THEN "done" ELSE phase

EndResult ==
  /\ phase = "result" /\ IsEstimator /\ local = Len(metas[k])
  /\ ToNextResult
  /\ UNCHANGED <<kind, pubs, todo, bindings, metas, accuracy, values>>

-----------------------------------------------------------------------------
(* BraketSampler._translate_result.  A column of the measurements holds    *)
(* what one clbit was under the executable's input set; a register's are   *)
(* those from its first bit's on, packed into bytes, the last byte first.  *)
(* A register is the sequence of its clbits' indices.                      *)
(* Mutant: the bytes are not flipped.                                      *)
FlippedByte_Kept(count, y) == y
FlippedByte(count, y) == count + 1 - y

Packed(register, param) ==
  LET n == Len(register)
      start == IF n = 0 THEN 0 ELSE register[1]
      count == n \div ByteSize + (IF n % ByteSize > 0 THEN 1 ELSE 0)
  IN [y \in 1..count |->
        [j \in 0..(ByteSize - 1) |->
           LET bit == (FlippedByte(count, y) - 1) * ByteSize + j
           IN IF bit < n THEN <<start + bit, param>> ELSE <<>>]]

Arrays(pub, b) ==
  [ij \in Indices(Shape(pub)) |->
     LET i == IF pub.pshape = <<>> THEN 1
              ELSE CHOOSE n \in 1..b.count : AllParams(pub.pshape)[n] = ij
     IN [r \in DOMAIN pub.cregs |-> Packed(pub.cregs[r], IndexRun(b, i))]]

ReadSamples ==
  /\ phase = "result" /\ ~IsEstimator
  /\ values' = [values EXCEPT ![k] = Arrays(Pub, bindings[k])]
  /\ ToNextResult
  /\ UNCHANGED <<kind, pubs, todo, bindings, metas, accuracy>>

Next ==
  \/ Construct \/ Refuse \/ Accept
  \/ GroupObservables \/ NextPub \/ SamplePub \/ HaveResult
  \/ ReadBinding \/ EndResult \/ ReadSamples

Spec == Init /\ [][Next]_vars

-----------------------------------------------------------------------------
(* Every place in a pub's array has the value of the observable that       *)
(* broadcasting puts there, under the parameters it puts there, whichever  *)
(* bindings, groups and order of input sets it went through.               *)
ValuesInTheirPlace ==
  phase = "done" /\ IsEstimator =>
    \A i \in DOMAIN pubs : \A ij \in Indices(Shape(pubs[i])) :
      values[i][ij] = ValueOf(ObservableAt(pubs[i], ij), ParamAt(pubs[i], ij))

(* Likewise for a sampler: bit j of a register, read as Qiskit's BitArray  *)
(* reads it, is that register's clbit under the place's parameters.        *)
BitOf(bytes, j) == bytes[Len(bytes) - j \div ByteSize][j % ByteSize]

SamplesInTheirPlace ==
  phase = "done" /\ ~IsEstimator =>
    \A i \in DOMAIN pubs : \A ij \in Indices(Shape(pubs[i])) :
      \A r \in DOMAIN pubs[i].cregs : \A j \in DOMAIN pubs[i].cregs[r] :
        BitOf(values[i][ij][r], j - 1) =
          <<pubs[i].cregs[r][j], ParamAt(pubs[i], ij)>>

Before(i) == FoldSet(LAMBDA j, n : n + Len(metas[j]), 0, 1..(i - 1))
BindingsOf(i) == {bindings[Before(i) + n] : n \in DOMAIN metas[i]}
Executables(b) ==
  {<<b.observables[n], IndexRun(b, m)>> :
     n \in DOMAIN b.observables, m \in 1..b.count}
Asked(pub) ==
  {<<ObservableAt(pub, ij), ParamAt(pub, ij)>> : ij \in Indices(Shape(pub))}

NumberOfRuns(i) ==
  FoldSet(LAMBDA n, sum : sum + Len(bindings[Before(i) + n].observables)
                              * bindings[Before(i) + n].count,
          0, DOMAIN metas[i])

(* Completing products never runs what was not asked for: the executables  *)
(* of a pub are its pairs of observable and parameters, each once ("appears *)
(* in at most one CircuitBinding", _translate_pub).                        *)
EachPairRunsOnce ==
  kind = "estimator" /\ phase \in {"result", "done"} =>
    \A i \in DOMAIN pubs :
      /\ UNION {Executables(b) : b \in BindingsOf(i)} = Asked(pubs[i])
      /\ NumberOfRuns(i) = Cardinality(Asked(pubs[i]))
=============================================================================
