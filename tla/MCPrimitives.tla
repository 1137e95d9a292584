---------------------------- MODULE MCPrimitives ----------------------------
(* The instance of Primitives for TLC: pubs over two qubits. *)
EXTENDS Primitives

MCParameters == <<"theta", "phi">>

L(a, b) == (0 :> a @@ 1 :> b)
MCObservables ==
  {L("I", "Z") :> 1,                                     \* column 0, qubit 1
   L("Z", "Z") :> 1 @@ L("I", "I") :> 2 @@ L("I", "Z") :> 2,
   L("X", "Y") :> 1}

Shapes == {<<1, 1>>, <<1, 2>>, <<2, 1>>, <<2, 2>>}
Estimated(oshapes, pshapes, observables, accuracies) ==
  UNION {[oshape : {s}, pshape : pshapes, accuracy : accuracies,
          observables : [Indices(s) -> observables]] : s \in oshapes}

Sampled(accuracies) ==
  [oshape : {<<1, 1>>}, pshape : {<<>>, <<1, 2>>, <<2, 3>>}, accuracy : accuracies,
   cregs : {<<<<0>>, <<1, 2, 3>>, <<>>>>, <<<<0, 1, 2, 3>>>>}]

Alone(S) == {<<pub>> : pub \in S}
Pairs(S) == S \X S

Many == Estimated(Shapes, Shapes \cup {<<>>}, MCObservables, {Unset})
Few == Estimated({<<1, 2>>}, {<<>>, <<2, 1>>},
                 {L("I", "Z") :> 1, L("Z", "Z") :> 1 @@ L("X", "I") :> 2}, {Unset, 2})

MCPubLists ==
  [kd \in Kind |->
     {<<>>} \cup IF kd = "sampler" THEN Alone(Sampled({Unset})) \cup Pairs(Sampled({Unset, 2}))
               ELSE Alone(Many) \cup Pairs(Few)]
=============================================================================
