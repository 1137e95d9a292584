# Qiskit-Braket provider: a TLA+ model

A verification project for `src/qiskit_braket_provider`: modules that model
what the provider does, TLC configurations that check them on small instances,
and TLAPS proofs for every value of the constants. Line numbers below are those of the files in
`src/qiskit_braket_provider/providers/` unless a path says otherwise.

## The system

A user builds a Qiskit circuit (or an OpenQASM 3 program), hands it to a backend
or a primitive, and gets a job back. The provider translates the circuit,
submits it to Amazon Braket or a local simulator, and answers the job's
questions from what the service says of its tasks.

| part | state | operations | what is hard | correct when |
|---|---|---|---|---|
| **Task job** `braket_quantum_task.py` | handles of one or more tasks, each remembering the last state it fetched | `status`, `result`, `cancel`, `queue_position` | a call is a loop of requests; the service and other threads move between two of them; waits give up; a cancel is refused half way | each answer is one the job could give at some moment of the call; answers never go back; a result fits its tasks |
| **Backends** `braket_backend.py` | tasks created so far | `run` (local, program set, batch), `retrieve_job` | a submission fails in the middle, the cleanup fails too; three ways to submit | results in program order, nothing left behind, a retrieved job is the job |
| **Primitive job** `braket_primitive_task.py` | tasks of a split program set, the cached result | `result`, `status`, `done`, `running`, `cancelled`, `in_final_state`, `cancel` | unlocked cache, parts that fail, a task that refuses to be cancelled | whole results or none, stable once given; "over" is for good |
| **Basis rotation pass** `passes/basis_rotation_pass.py` | basis each qubit is committed to, groups kept | `run` over result pragmas | observables that overlap, identities committed first | every requested qubit is rotated once and measured once, or the list is refused |
| **OpenQASM context** `qasm_context.py` | stack of circuits, qubits, classical offsets, scopes | one callback per statement of the interpreter | bits that appear inside nested blocks; blocks closed before the circuit has its final width; loops captured or unrolled | all circuits of the stack share their bits; blocks fit; names mean their bits |
| **Compilation and verbatim boxes** `compilation.py`, `passes/verbatim_passes.py` | the circuit, the stash of boxes | `_compile`, extract, restore, inline | the transpiler reorders, lays out, removes | a box comes back once, in place, on its qubits |
| **`to_braket`** `adapter.py` | `measured_qubits` | one case per instruction | measurements are moved to the end | a final measurement finds what the circuit's found |
| **`to_qiskit(Circuit)`** `adapter.py` | verbatim buffer, next classical bit | one case per instruction | delimited boxes; measurements in a box; Braket and Qiskit order controls, their states and the qubits of a matrix differently | the circuit read does what the one given does, and is the same again after `to_braket` |
| **Estimator, Sampler** `braket_estimator.py`, `braket_sampler.py` | bindings made so far, maps from results to places | `run`, `_translate_result` | observables regrouped into products and commuting groups, orders of sets, offsets over pubs | each value is at its place, under its parameters; nothing runs that was not asked for |
| **Targets** `target.py` | the transpiler's target, the gates it offers in place of calibrated ones | construction from a device's properties, substitution after transpilation | labels with gaps, errors of qubits and pairs, angles calibrated on some qubits only | errors and calibrations are at the qubits the device states them for |
| **Formatting passes** `passes/braket_formatting_passes.py`, `adapter.py` | names substituted | `to_oq3`: bits merged, box wrapped, gates renamed, qubits replaced, placeholders resolved | text rewritten in several turns; five tables name the same gates | the program has the circuit's instructions, each under its own name, on its qubits and bits |
| provider, gate tables, annotations, deprecated wrappers | none | lookups | nothing concurrent | `get_backend` and the tables are part of the modules below; the wrappers are not modelled |

The parts meet as follows. `to_qiskit` of an OpenQASM program drives the OpenQASM
context, and the basis rotation pass works on what it leaves; of a `Circuit` it
reads instruction after instruction. A backend builds the target of its device
once; its `run` decides from its arguments what to compile for, calls `_compile`,
writes each circuit as a program (`to_oq3`), submits, and makes a task job out of the tasks. A primitive makes a
program set, splits it for the device's limit and makes a primitive job over the
tasks; it aggregates their states with the same `_aggregate_task_status` as the
task job.

## Modules

| module | models | uses |
|---|---|---|
| `TaskStatus` | `_TASK_STATUS_MAP`, `_aggregate_task_status` (28-66): pure operators | |
| `JobLifecycle` | abstract: a job with one status at every moment, and threads that are told it | `TaskStatus` |
| `QuantumJob` | `BraketQuantumTask`, with the service and any number of threads | `TaskStatus`, `JobLifecycle` |
| `GateTables` | `gate_mappings.py`: the tables of names, controls, shims, substitutes and placeholders, as functions | |
| `Targets` | `target.py`: a device's properties become a target, with its substitutes | `GateTables` |
| `ToOQ3` | `to_oq3` and `_compile_to_oq3` around it, the formatting passes: operators | `GateTables` |
| `BackendRun` | the submission of `run`, and `retrieve_job` | |
| `Backends` | `get_backend`, a backend's construction, `run` from its arguments to its tasks: composes the four above | `Targets`, `ToOQ3`, `BackendRun` |
| `PrimitiveJob` | `BraketPrimitiveTask` | `TaskStatus` |
| `BasisRotation` | `AddBasisRotationAndMeasurement.run` and its helpers | |
| `QasmContext` | `_QiskitProgramContext`, driven by an interpreter | |
| `ToBraket` | `to_braket`, `_compile`, the verbatim passes, `_translate_to_braket` | |
| `ToQiskit` | `to_qiskit` of a Braket `Circuit` | |
| `Translation` | `to_braket` of a Qiskit circuit, or of a Braket circuit that `to_qiskit` reads first: composes the two above | `ToBraket`, `ToQiskit` |
| `PubArrays` | broadcasting (numpy), Pauli labels, `_pauli_support`, `_group_basis_label`, columns: operators | |
| `Primitives` | `BraketEstimator`, `BraketSampler`: `run` and `_translate_result` | `PubArrays` |
| `TaskStatus_proofs`, `JobLifecycle_proofs`, `QuantumJob_proofs`, `PrimitiveJob_proofs`, `Backends_proofs`, `BasisRotation_proofs`, `QasmContext_proofs`, `ToBraket_proofs` | theorems (`Backends_proofs` is about `Targets` and `BackendRun`, too) | |
| `MC*` | instances for TLC: argument sets only | |

A definition named `Op_Word` next to `Op` is a mutant: `Op` as a plausible bug
would have it, kept to show that a property can fail.

### QuantumJob

`state` is the service's view of each task, `cached` what its handle fetched
last. `pc` and `pos` say in which call a thread is and at which task of its
loop, and each request is an action. `status()` is
`StartStatus`, one `FetchState` per task (231-238), `AnswerStatus`. `cancel()`
is one `CancelTask` per task, or `CancelRaises`, which leaves the loop (224).
`result()` gets every task's item (`GetItem`, or `GiveUp` when the wait ends
early), then reads the status from the handles (`ReadCached`,
`use_cached_value=True`, 208) and returns (`ListResult`); a program set's one
task has `ProgramSetResult`. `began` is a history variable: the tasks' states
when a thread's `status()` began.

`JobLifecycle` is what a caller may rely on: the job has one status that only
moves forward, and a thread is told a status the job could have had between the
call's start and its end. `ImplementsLifecycle` is the refinement, with `status` mapped to
the aggregate of the present states.

### Targets

One `Devices` record is a device's properties. `ReadDevice` is the head of
`_qpu_target` (297-366): labels become their places among the sorted labels
(`Index`), error rates are read per qubit (`Read1q`) and per connected pair in
both directions (`Read2q`). Without calibrated angles `AddNative` adds the native
gates; with them, one angle per step (`AddFirst`, `AddAnother`, `SkipCalibrated`),
in any order that keeps a gate's angles together, since it is a dictionary's. What
an angle stands for (`Substitutes`: `rx(pi)` is `x`) goes into the target and into `substitutes`, which
`Substitute` reads after transpilation (103-118). `SimulatorTarget` and
`RefuseDevice` are the other devices.

### ToOQ3

A circuit is the sequence of its innermost instructions, each with the path of
the blocks it is in, so that what the code does by recursion is done to every
element. `Prepared`, `Named`, `ConsolidateClbits`, `WrapInVerbatimBox`,
`RenameGates`, `Dumps` (external), `RemapQubits` and `NormalizeFormatting` are the passes
in the order `Emitted` applies them (`Consolidated`, `Passed` and `Dumped` are the program on the way;
`Those` picks elements of a sequence); `Emittable` is every refusal on the way. A program is the
lines with a name, qubit and bit references, instead of text; a name is a record, so that a
placeholder and the text that takes its place differ. Text replaced by accident
is modelled where it can happen (`Hit`). The passes run on Qiskit's DAG (`pm.run`, `adapter.py:882-887`, and
`WrapInVerbatimBox.run`, 120 and 143), which gives a circuit back in an order of its own: `DagOrders` are all orders
that keep what shares a qubit or a bit (`Tied`) as it was, with every block a node. `CompileNext` takes any one of
them, so that in verbatim mode `x(1); x(0)` may be written with `x(0)` first, and a measurement may move to the end past
gates of other qubits.

### BackendRun and Backends

`pc` follows one `run`: `Submit` per program on the local backend with
`SubmitRaises`, `CleanupCancel` and `CleanupRaises` for the `except` block
(262-275); `UseProgramSet` decides between one program set task and an SDK batch
on AWS. `retrieve_job` (353-358) rebuilds a job from its id. `Backends` puts what comes
before in front of it: `GetBackend` (`braket_provider.py` 32-104), `Configure` (the
target, a step of `Targets` at a time), and `CompileNext` per circuit, with
`ResolvedArgs` for what the mode of the call compiles for
(`_resolve_compilation_args`, 525-533). The transpiler is external: for a target, any one of
its gates on the qubits it is there for, and a measurement; in the modes without
transpilation, the circuit given.

### PrimitiveJob

Like `QuantumJob`, but `done()` and its like ask every task anew, `cancel()`
goes on after a refusal, and `translated` is the unlocked cache `_result`.
`over` and `late` are history: some thread was told that the job is over, and
this thread's question began after that.

### BasisRotation

One action per pragma (`SkipInvariant`, `AddProbability`, `AddObservable`).
`Committed` is `_check_basis_conflict` for the qubits of one factor, with the
identity's upgrade; `AppendOperations` the rotations, kept by the place of their factor
in the plan they come from, and after them one measurement per qubit. A matrix is an opaque name; its eigenvalues and rotation are looked at
only for which group they belong to.

### QasmContext

`Next` reads one statement or ends one block; programs are chosen as they are
read. A circuit of the stack has qubits, clbits and instructions with the bits
they cover. `WithCapacity` adds a new qubit to every circuit of the stack (239-250);
`EndTrue`, `EndFalse` and `Synced` handle the two bodies of a branch (519-535);
`EndProbe`, `Again` and `EndUnroll` the loop that is visited once and then
captured or visited for each of its values (563-598); `Widened` is
`_finalize_scoped_bodies`. `Assign` is by value: of zero, of the next value, or of the innermost
loop's variable, which is a number on the first visit and a symbol in a captured body (`Index`). So
`Modifies` compares what the code compares, the values before and after the first visit (573-580).
`captured` and `rising` are history: a `for` body's capture changed the variable; each assignment
made it larger.

### ToBraket

`phase` follows the pipeline for one circuit: `CheckArguments`, `Extract`, the
transpiler's `LayOut`, `Exchange` and `LosePlaceholder`, `Restore` or `Inline`,
one `Translate` per instruction, `Finish`. `others` says whether another circuit of the same
call has a verbatim box: `_compile` decides for all circuits at once
(196-206). Every instruction carries an id, so that a property can follow it into
the output: its place in the source and, in a box, its place in the body (0 outside).
`Before` is the order of the source. `StatementsAssumption` says that a body names
its box's qubits and bits by their place and that placeholders are made by the
extraction only.

### ToQiskit and Translation

One action per kind of instruction (`ReadOperation`, `ReadBarrier`, `ReadMeasure`,
`StartVerbatimBox`, `EndVerbatimBox`), and `EndReading` with its `measure_all`.
`QubitMap` is the place among the sorted qubits; `CtrlState` and `MatrixOrder`
are the two reversals. `Translation` starts with either kind of circuit: a Braket
circuit is read (`Reading`), handed over (`HandOver`) and goes on as `ToBraket` does.

### Primitives

`kind` is the sampler, or the estimator without or with `abelian_grouping`.
`Construct`, `Refuse` and `Accept` are the checks; then, pub after pub, each
`GroupObservables` is one turn of the loop over `obs_groups` (227-299): it takes
the first observable left, all others asked for under the same parameters, and
adds their bindings (`Separate`, or `Grouped` for `_emit_commuting_groups`).
`ReadBinding` and `EndResult` are the two loops of the estimator's `_translate_result`,
`ReadSamples` one turn of the sampler's. What was measured is symbolic: a value
is the bag of (label, parameter index) pairs it is a sum of, so that a value in
a wrong place, a swapped column or a term counted twice is a different bag. The
parity of a group's columns is that of the basis on these columns' qubits. The
order of a frozenset, and the partition into commuting groups, are any.
`PrimitiveJob` is where the program set is split, waited for and merged.

## Runs

| run | shows | bounds |
|---|---|---|
| `job` | non-atomic `status()` implements the abstract job; answers agree and never go back | two tasks, one polling thread, one polling and cancelling |
| `job_result` | a `Result` fits its tasks, its cached status is not behind what the thread knows; a cancel ends the job and releases a waiting `result()` | two tasks, waits may give up |
| `job_program_set` | the program set path: a whole result or an exception (`ProgramSetResultIsWhole`) | one task, two threads making every call, first states CREATED to QUEUED |
| `backend_run` | from device to results: errors and substitutes at their qubits, programs that keep the circuit's instructions, their order on each qubit and bit, names, bits and boxes, nothing the device has not, results in program order, nothing left behind | 19 devices (gaps in the labels, several errors, pairs stated against their edge, calibrated angles that collide, parts outside the topology), six register layouts with every circuit of up to two of twelve statements, and of three where measurements and a gate meet, in every order of their DAGs, five modes, runs of up to four programs submitted in all three ways |
| `primitive` | whole and stable results, "over" is for good, cancel passes a task that refuses | two tasks for three executables, one task refuses |
| `basis_rotation` | every place rotated and measured once, refusals justified, eigenvalues belong to rotations that are there | four pragmas over three qubits |
| `qasm_context` | shared qubits, fitting blocks and final widths, names, no captured assignment in a `for` when each makes the variable larger | five statements, nested at will, registers of one and two bits |
| `to_braket` | boxes return once and in place, measurements at the end are faithful, refusals justified; a Braket circuit is read as it is, and comes back in its order | Qiskit circuits of three instructions of fourteen, seven sets of arguments, two qubits, two bits; Braket circuits of two operations of seven with a box anywhere, and three longer ones |
| `primitives` | values and samples in their places, every pair of observable and parameters run once and nothing else | one pub of any shapes up to 2 x 2 (samplers 2 x 3) with three observables over two qubits, or two pubs; two parameters; bytes of two bits |
| `basis_rotation_matrix`, `qasm_shadow`, `to_braket_unitary` | a counterexample each, see below | small |

Why the bounds are enough to be interesting. Two tasks are the least for which
`status()` is not atomic, and two threads the least for which one call can
overtake another; the aggregate looks at the *set* of states, so a third task
adds combinations but no new kind of race, and the theorems cover every
number. Four pragmas let an identity, its upgrade, a conflict and a duplicate
meet. Five statements hold a block in a block with a statement before and
after. Three instructions hold two boxes and what lies between them, or a
measurement, one that overwrites it and an operation after. The devices of
`backend_run` are few and each one odd in several ways: labels 0, 2 and 5 make a
place differ from its label; two angles stand for `x`, on one qubit and on two;
a pair has two errors and is stated in both orders. Two statements hold a block
next to an instruction or in a block; three measurements and a gate hold a
measurement in the middle and one at the end. In Braket circuits the
qubits are 7 and 3, so that places and labels differ in order.
The three observables of `primitives` are a monomial that leaves out qubit 0, a
sum of three terms one of which is the identity, and a monomial of a basis that
does not commute with theirs; four places let two observables share all, some or none of
their parameters. A register of three bits has two bytes of two bits.
Deadlock is checked where the model is meant to go on (`job`, `job_result`,
`job_program_set`, `primitive`: threads can always ask again). The other runs
are of single passes that end, and switch it off.

### Fairness

Only `job_result` and `primitive` state fairness. A thread in a call
goes on with it (weak fairness of `Continue`): the calls are plain loops of SDK
requests, each of which returns or raises. The service finishes a task it runs
and one it cancels (`Finish`), but a queued task may wait for ever, as it does on a
device that is offline, and nobody is obliged to start a call or to cancel.
So `CancelReleasesResult` says that a `result()` blocked on a queued task is
released by a cancel, not that it returns by itself.

## Where the code disagrees

- `basis_rotation_matrix`: a matrix of two qubits counts as committed on the same
  qubits in the other order, or across two groups; it is neither rotated for nor
  refused (`basis_rotation_pass.py:128`).
- `qasm_shadow`: a register declared in a loop's scope takes over the outer one's name
  for the rest of the program (`qasm_context.py:287`).
- `to_braket_unitary`: `unitary` and `kraus` on a measured qubit are translated before
  the measurement; every other gate is refused there (`adapter.py:422-432`, 441-444).

Seen while modelling, in the model or not, without a run of their own:
`retrieve_job` (`braket_backend.py:358`) makes a list job of whatever id it is given, so
a program set's job comes back as a list of one circuit task, whose result it
then reads as a circuit's (`ResultsInProgramOrder` leaves this case out);
`BraketEstimator` transpiles a pub's circuit (192-198), which with a connectivity or
`optimization_level > 0` may lay out or route it anew (`adapter.py:365-374` warns of that), but
translates observables on the given qubit numbers (`adapter.py:618-622`);
its metadata says `target_precision` is the call's, also when the shots are
those for the pubs' own (142, 511); `BraketSampler` takes a register's bits to be
adjacent (202, 219), which registers made of existing bits need not be;
`_TASK_STATUS_MAP` has no `CREATED`, so `status()` of such a task raises `KeyError`
(`QuantumJob` has the answer "KeyError"); `queue_position()` of several tasks asks
about the ids joined by `;` (160, `PlaceGiven`); `success` of a list's `Result` is always
true, as a `JobStatus` is compared with strings (215); the basis rotation pass
skips a result type whose docstring announces `NotImplementedError`
(`basis_rotation_pass.py:231`, 278).

Of loops and cleanups: `evaluate_for_range` compares the variables' values before and after the first visit of a body
(`qasm_context.py:573-580`), so an assignment of the value a variable already has (`x = i` with a first value equal
to `x`) is captured with the body, and `evaluate_while_condition` (608-639) captures a body without comparing anything:
what they assign is what one visit assigns (`NoChangeIsCaptured` is about the rest). The cleanup of a local run ends at the
first cancel that raises (`braket_backend.py:271-274`), as `cancel()` does
(`braket_quantum_task.py:224`): the tasks after that one are not asked (`NothingLeftBehind` says that it is exactly these).

Of targets and backends: when a device states the errors of a pair in both orders,
each takes the other's place in the target (`target.py:436-442`; `ErrorIsOfItsPlace` therefore
takes a pair either way round); a pair without errors has its default in one order
only (352-354); a qubit of the topology without `oneQubitProperties` is left out of
the qubits' properties and so moves those after it; a device that lists `measure`
as a native gate gives measurements a gate's errors. The substitution after
transpilation does not look into blocks (`target.py:113`), so an `x` inside an `if` goes to a
device that has `rx` only. A device with an unlimited number of controls and
`cnot` has `mcx` among its gates, which `_basis_gates_target` refuses as unknown
(`compilation.py:98`): every `run` on it raises (`UnknownBasisGate`). With a custom
pass manager the target is `None` and an IQM device is not known as one, though the
error it would raise names `pass_manager` (`adapter.py:1049-1056`): no refusal, and
measurements outside the box (`ForPassManager`). `WrapInVerbatimBox` decides which measurements are at the end, and stay outside the box, on the order the
DAG gives (`braket_formatting_passes.py:120`), while its docstring (112-113) has earlier ones "always stay inside so circuit order is preserved": a measurement followed only by gates of other qubits may be outside, and
order is preserved per qubit and bit (`BoxHoldsTheProgram` claims that). `to_oq3` writes `MeasureFF` and `CCPRx`
under their Qiskit names. An output register whose name ends with the quantum
register's name is written over by `_remap_qubits`, which replaces text
(`braket_formatting_passes.py:295`; `Hit`).

Of translations: `verbatim_box_name` is ignored when the input is a Braket `Circuit`, whose
boxes are always labelled "verbatim"; a program compiled for the service
has the contents of its verbatim boxes inlined. `to_qiskit` puts a measurement within a
verbatim box before the box (`adapter.py:738`), so that the round trip of such a circuit may
be refused. `qasm_context.py:341` hands the control states on in their order, where
`adapter.py:731` reverses them; in which order the interpreter gives them is external, and the
model leaves the controls of OpenQASM gates out.

## Proofs

Each theorem holds for every value of the constants that the named assumptions
of its module allow; TLC evaluates those assumptions in every run.

**The job's status** (`TaskStatus_proofs`, `JobLifecycle_proofs`, `QuantumJob_proofs`), for every
number of tasks, every set of threads, every kind of job and every assignment of
calls to threads:

- `AggregateMonotone`: when tasks move forward the aggregate
  follows; a final aggregate stays. This is where the order of the tests in
  `_aggregate_task_status` matters.
- `Typing`: `TypeOK`; `JobImplementsLifecycle`: `Spec => Lifecycle!Spec`.
- `FinalAnswersAgreeAlways`, `AnswersNeverRegressAlways`: consequences, by way
  of the same properties proved of the abstract job.

`TypeOK` alone is not inductive: `result()` must know that it has all its
items (`ItemsThere`). For the refinement the invariant is `ReadsInOrder`: every
state a thread has read so far lies between the state at the call's start
(`began`) and the present one. With monotonicity of the aggregate this puts the
answer between the job's status at the call's start and now, which is what the
abstract `Tell` asks for. In the abstract job, `ToldFollows` (whatever a thread
was told, the job's status follows it) gives agreement and monotonicity.
The service is assumed to move a task only forward, and from CANCELLING to CANCELLED only.

**The job's result** (`QuantumJob_proofs`): `ResultItemsAlwaysFitStatus`,
`ResultIsAlwaysComplete`, `ProgramSetResultIsAlwaysWhole` and
`ResultNeverBehindAnswer`. A `Result` mixes items, states the handles remember and,
through other threads, states fetched later, so `ResultInv` says how they are
related at every moment: what a handle remembers precedes the task's state
(`Remembers`), an item is of a task that ended and whose handle knows it (`ItemsFit`), the
states `result()` has read are states the tasks had, the last ones where it has the item
(`ReadFits`), what `status()` has read the handles know (`StatusRemembered`), and a status told
is the aggregate of states that all handles have since remembered (`AnswerRemembered`). The
last makes `ResultNotBehindAnswer` a consequence of `AggregateMonotone`.

**The primitive job** (`PrimitiveJob_proofs`), for any number of executables, limit, threads and
refusing tasks: `JobTyping`, `ResultIsAlwaysWhole`, `ResultAlwaysStays`,
`OverIsAlwaysForGood`. `WholeInv` says that whatever a thread holds came from completed
tasks and is all the executables, which makes two concurrent translations equal;
that the tasks' numbers cover the executables (`TasksNumbered`, `EveryExecutableHasATask`) is
arithmetic on the ceiling of executables by limit. `OverInv` says that once a thread was told that the job is over every
task is settled, and what a later question has read is; `TasksStaySettled` keeps it.

**The run** (`Backends_proofs`), for any number of programs, wherever submission and cleanup fail:
`RunTyping`, `RunLeavesNothingBehind`, `RunKeepsProgramOrder`. `RunInv` relates the loops' index to
the tasks made and asked (`LoopInv`, `CleanupInv`): where the cleanup raises, at the task `next`, those
up to it have been asked and no other, so that the tasks left behind are known exactly. `OrderInv` says that until `run` returns
task n is of program n.

**The target** (`Backends_proofs`), for any devices with finitely many integer labels:
`SubstitutesAlwaysCalibrated`, for every order in which the angles are added, and
`ErrorsOfTheirPlace`, that errors in the target are stated and none that is stated is dropped. Both rest on `LabelOfItsIndex`: places are one to one with labels, as a smaller label
has fewer labels below it. `TargetInv` says that each substitute is offered exactly where
the target has it and stands for an angle calibrated there (`Offered`, `Stands`). `ErrorsInv`
says the same of errors at every step: those read so far are stated (`KnownIsStated`), those
in the target are stated at the labels of their place (`EntriesStated`), and a device that
calibrates or lists `measure` has it in the target before the end, so that the last step
adds no other (`MeasureAdded`). `NoneDropped` is the other direction: wherever the device states an
error of a gate, on its topology, the table that was read has one (`KnownIsThere`); the angles added so
far have theirs (`AddedWithErrors`), which a later angle of the same substitute does not
undo, as all gates of one qubit have errors at the same places; and a native gate has its own whichever of
the names it shares is looked up (`NamesTellQubits`).

**The backend** (`Backends_proofs`): `BuildsItsTarget` and `RunsAsABackend` prove that every behaviour
of `Backends` is one of `Targets` and one of `BackendRun`, in the variables of each. So the
theorems above hold of the composition (`BackendSubstitutesAreCalibrated`,
`BackendErrorsOfTheirPlace`, `BackendLeavesNothingBehind`, `BackendKeepsProgramOrder`), and
`BackendTyping` with them.

**The programs** (`Backends_proofs`), for any devices, calls and circuits: `ProgramsKeepTheirCircuits`,
`BoxesHoldTheirPrograms`, `BitsOfProgramsStayApart`, `EachNameMeansTheGate`, `RunsWhatTheDeviceHas`. All of them are of
every order into which the DAG may sort a circuit, and claim the circuit's order per qubit and bit only.
`DevicesAssumption` has the edges between the device's qubits and no `u1`, `u2` or `u3` among its gates (they are
Qiskit's names; a device of Braket has U alone), and `ScenariosAssumption` the given circuits `IsCircuit`: what Qiskit guarantees of
one, and one thing more, that a circuit whose qubits are in no register has a physical label for each (the
provider makes no other; of such loose qubits the theorems say nothing). `EndsWithAssumption` is a
fact about the constant `EndsWith`. The argument has five parts.

- *Any circuit.* The passes pick elements of sequences or change them one by one. `FlattenSeqIsGrid`
  and `FlatteningIs` characterise `FlattenSeq` by a grid (each element has a row and a column, in order),
  `ThoseListed` and `ThoseIs` so what is picked; `PreparedFacts`, `ConsolidatedFacts`, `PassedFacts`,
  `DumpedFacts` and `RemapFacts` follow the instructions through each pass, up to `EmittedFacts`: line by
  line, what is written of an instruction (`IsLineOf`). `QubitsAreWhereTheyHaveToBe` needs what `_remap_qubits`
  refuses, `PragmasAreMatrices` what `to_oq3` refuses. `BitsHaveTheirNames` says that references to bits
  are one to one, and `BitsKeepTheirPlaces` that the text replacement for the quantum register hits none of
  them; the order of the conditions' bits comes by `FlatteningOfImages`.
- *Any order.* A circuit in an order of its DAG is a circuit on the same qubits and bits (`IsOrdered`, `OrderFacts`,
  `OrderedIsCircuit`), so that the facts above are true of it. `ShownInOrder` gives the one-to-one map from what it shows
  to what the circuit given shows, under which what is tied keeps its order; it needs that no two instructions have one id
  (`ShownIds`). `WrittenInOrder` finds the instructions of the lines again by these ids, and `OfAProgram` puts it together
  for the circuit and the program beside it.
- *Any device.* A circuit that is compiled is one (`CompiledFit`): of those the transpiler gives, because
  the target has gates only on its qubits and pairs of qubits. That is `PlacesInv`, inductive over the steps that
  build a target: what was read is at places of the device (`KnownInv`), and each entry is a gate the
  device has there, one that stands for another, or no gate (`EntryInv`). `Recorded` says that each program
  was emitted from the circuit beside it, with the arguments the call resolves to, and `Given` that the
  call is one of the scenarios. `ProgramsInv` is all of them with `TargetInv`.
- *Any name.* `NamesAreOfTheirGates`: the table of names is one to one and its inverse is the inverse. From it
  `NamesFit` follows gate by gate: what `RenameGates` writes is known to `dumps`, means the gate, and is what
  `to_braket` would make of it. Nothing else is ever written, because what a program is emitted for has only
  gates that both Qiskit and Braket have (`BasisIsOfGates`): a target by `EntryInv`, to_oq3's default by its
  tables, and `gateset_from_properties` but for `mcx`, whose controls have no number and which
  `_basis_gates_target` refuses (`OnlyMcxIsOpen`). `OfRotations`, inductive with the target's steps, says that
  what stands for another gate is `x`, `sx` or `sxdg`.
- *Any gate the transpiler may give.* Of a device's target it is a gate of the device at the labels of its place
  or, once substituted, an angle calibrated there (`GivenIsNative`, from `EntryInv` and
  `SubstitutesStandFor`); of the rest, one whose operation the device has (`SimulatorIsHad`, `GatesetIsHad`).
  `LinesOfOneGate` finds its line in the program, and `NativeWrittenAsItself` and `HadIsSupported`
  say that the name on it is that of the operation; a phase of its own is only written where the device has one
  (`PhaseIsHad`).

**Basis rotation** (`BasisRotation_proofs`), for any pragmas, matrices and number of qubits:
`PassTyping`, `RefusalsHaveAReason`, `LettersNeverPass`, `PlacesAreMeasured`,
`EigenvaluesOfRotations`, `LettersAreMeasured`. `PassInv` has one part for each thing the loop
accumulates: every qubit asked for is committed, to what is asked unless that is the identity, and to
nothing that is not asked (`BasesFit`); rotations are of places, share no qubit, and cover every place with gates
(`RotationsFit`); eigenvalues are of places (`EigenvaluesFit`); and at the end `CircuitIsMade`. That the
measured circuit is right is proved where no two places clash that the pass let pass: the
run `basis_rotation_matrix` shows that the code lets a matrix clash with itself, and there the
property's "one rotation, of this place" has no meaning. `LettersNeverPass` proves that nothing but a
matrix on different qubits passes that way, and `LettersAreMeasured` that observables of letters
satisfy the condition. `EveryPlaceIsMeasured` and `EigenvaluesFitRotation` hold without it in
the run `basis_rotation`, where matrices that clash are refused.

**to_braket** (`ToBraket_proofs`), for circuits of any length, any instructions and bodies that
`StatementsAssumption` allows, any arguments, and every exchange, layout and loss of the
transpiler: `RefusalsHaveAReason`, `BoxesStay`, `GatesInOrder`, `BitsHeld` and `Typed`. They are about `Spec`, a
circuit given in Qiskit. The instructions to translate are those of the source with the bodies in
place of the boxes; `Items` names them by their ids, so that "each once, in order" does not depend on
where they stand in a sequence. `Inv` follows the pipeline:

- `UntouchedInv`. Until the transpiler the circuit is the source and nothing is out.
- `TranspileInv`. The circuit is `Held`: each instruction there once, on the qubits of the
  layout, those that share a wire in the order of the source, and under an extraction a placeholder
  for each box, with the stash holding its body under a label no other box has. A placeholder is
  missing exactly if `lost` says so. An exchange keeps this because its guard is that the two share no
  wire; a box's placeholder is on all wires of its body, so what may not pass a placeholder is what may
  not pass some instruction of the body.
- `TranslateInv`. What is to come is in order and once (`Coming`); what is out is in order and before all
  that is to come on the same qubits (`OutInOrder`); each item is one or the other (`NothingMissing`); and
  each bit has its last measurement (`LastWrite`): of those read so far none into this bit is later, it
  comes before whatever is still to come on its wires, and no gate that came after it is
  on its qubit (`BitsWritten`).

The step from the second to the third is `RestoresBoxes`: putting the bodies back gives a circuit
whose items, seen by their ids, are arranged as the placeholders were (`Arranged`). It needs the closed form of
`FlattenSeq`, an instruction of the result being the j-th of the i-th sequence (`IsGrid`), which is
proved by the least counterexample as below. `BitsHeld` adds that `FinalOrder` lists all bits by rank
(`FinalOrderFull`, from the pigeonhole facts of the library).

**The OpenQASM context** (`QasmContext_proofs`), for programs of any length and nesting. Whatever
names a program declares: `QubitsShared`, `FinishedCircuitsAreWide` and `NothingCaptured`. When no block
declares a name of an enclosing one (`~Shadowing`): `NamesMeanBits`, `FinishedWide`,
`MeasuresDeclared`. The run `qasm_shadow` shows that the second three need their condition: the code
keeps one offset per name. The invariant has six parts, the last two for `NothingCaptured`.

- `SharedInv`. The circuits on the stack were made one after the other, all
  have the program's qubits, and every other circuit, closed or kept as a
  branch's first body, has the first of them (`Shares`). It is inductive because
  `_ensure_qubit_capacity` extends all of the stack alike and `_extend_bits` fills up by position, so that a
  circuit is always left with the qubits it had or with all (`SharesOfSameQubits`). To pop the
  stack one must know that the interpreter's blocks fit it: `Framed` has a
  numbering from blocks to circuits that is stepwise by one, or by nothing for a
  loop visited in place.
- `WrapsInv`. A circuit on the stack begins with the clbits of those below it
  (`Nested`), a branch's first body with those of the circuit the branch is in
  (`FirstBodies`), and an instruction is as wide as each of its bodies, no one of which is still open,
  so that no later declaration widens it (`Wrapped`). This is what Qiskit asks of a block (`Fits`), and it survives the dropped first
  visit of a loop because a body is never older than the circuit it is dropped with (`OlderThan`).
- `NamesInv`. The offset of a name leads, in the circuit of the block that declares it, to the bits declared
  (`Bound`), and with `Nested` in every circuit above; without shadowing a name is declared
  in one open block at most (`DeclaredOnce`).
- `FreshInv`. The qubits of the program's circuit ascend, so each is there once. At the end
  `WithAll` gives a body the qubits it lacks one at a time; as the body has the
  first of them, what it has after n of them is the longer of what it had and the first n (`WithAllOfFirst`), and
  the result is all of them.
- `ReadInv`. A body that is visited again is read again, from its first statement to its "end". The statements
  read so far have a depth (`Depth`), and each open block is as deep as its place in the program says (`Nests`);
  so the outermost body that is re-read ends exactly where the program read so far does, and all that is
  read until then is the body's own (`Rereads`).
- `QuietInv`, of programs whose assignments make the variable larger (`rising`): then a change on the first visit is
  seen in the values. A program that once had another assignment is out for good (`StaysRising`). Without it the code misses assignments, see the disagreements. Only
  the outermost loop is refused for a change, since inner ones see a scope of their own, and its
  first visit is compared. Of that visit it says that when an inner body was captured with a change, the
  variable is larger than it was before and the loop's circuit has, or will get, an instruction
  (`Emits`): at the "end" the loop is refused, never visited in place. When nothing changed, its body has no assignment,
  and when it captured nothing, only silent statements (`NoAssign`, `Silent`); by `ReadInv` this
  is true of all that is read when the body is visited again.

`WithAll` is a recursive function, whose closed form is proved by its least counterexample:
the library's theorem that `<` is well founded on the naturals needs no operator as a parameter.

Only model-checked: liveness (`CancelEndsJob`, `CancelReleasesResult`,
`CancelEndsOtherTasks`; liveness and `ENABLED` are out of the prover's reach);
`ReadsTheCircuit` of `ToQiskit`, `RoundTripKeepsTheOrder` of `Translation` and everything about `Primitives`,
whose properties are about selections, sorting and bags: the prover knows no facts of `SelectSeq`,
`SortSeq` and `SetToSortSeq` or of the folds of bags, nor of `@@` and `:>`. A Braket circuit, read first, joins
`ToBraket` at `HandOver`; the theorems about `ToBraket` do not speak of it, the run of `Translation` does. The `TypeOK` of
`PrimitiveJob`, `BasisRotation` and `ToBraket` is proved and in no run; that of `QasmContext` and `Primitives`
documents the state and is in no run.

## Abstractions

- A request to the service and the handle's note of its answer are one step;
  the SDK's batch submission is one step.
- The interpreter visits blocks well nested, and programs name only visible
  registers. Loops over no value are not visited. Global phase, parameters and the
  resolution of indices are left out of `QasmContext`; a measurement goes to a
  register's first bit.
- The transpiler keeps the order on each quantum and classical wire. What it
  rewrites outside the boxes is left out, as are routing, barriers in the output,
  global phase, gate parameters, and boxes with another label or within boxes.
  A custom pass manager is taken to be such a transpiler, too.
- In `Primitives` the compiled circuit keeps its qubits (the default
  optimization level on a circuit the device can run as it is), arrays have two
  dimensions, a pub without parameter values has none of any shape, every
  classical bit has its column in the measurements, and a sampler's registers
  are adjacent bits. An observable is a map from label to coefficient.
- In `Targets` error rates are small numbers and angles are symbols; a range of angles has two
  of them inside. In `ToOQ3` a program is lines with references, not text, `box`
  and `if` are the blocks, and a circuit's global phase is a set of its gates.
- Qiskit's DAG may give a circuit back in any order that keeps what shares a qubit or a bit, with a block a
  node; the one order Qiskit takes (by the index of the bits) is one of these. One order,
  chosen before the passes, stands for the sorts of all of them: what `WrapInVerbatimBox` decides
  depends on the last sort before it only, and a sort after it can only exchange
  measurements outside the box and lines in it, which are in no order that is
  claimed. Placeholders are numbered before the last sort; the numbers are names
  and no more. A block of the code also holds the qubits it is given and does not use, which gives fewer orders.
- `Backends` compiles each circuit by itself and does not lay it out: the transpiler
  there gives one gate, `ToBraket` is where it reorders and lays out.
- `ToQiskit` leaves out gate powers and parameters; `ToBraket` leaves out the global phase
  (`adapter.py:461-476`) and the box around the whole circuit (480-483).

## Not modelled, and what is left

- The deprecated wrappers only warn. `repr`, default options and the search of the
  service's devices keep no state.
- Gate arguments, powers and controls of OpenQASM programs, and the arithmetic of their
  variables beyond one counter: `QasmContext` is about bits and blocks.
- Matrices, decompositions and angle formulas of the gate classes are numbers.
- The circuit of a primitive's pub, its compilation and the renaming of its parameters, and the metadata of
  its results. What the transpiler may do to the qubits of an observable is a
  disagreement above without a property, as the service's numbering is external.
- Worth adding: the controls of OpenQASM gates, a primitive's circuit through
  `Backends`, retries of a submission by the SDK, and a proof of the way there and back in `Translation`.
