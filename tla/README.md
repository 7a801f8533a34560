# A TLA+ model of hrt-verilator-exts

The repository reads the JSON syntax tree Verilator writes for an RTL design, turns it into a typed
`Design`, and gives that design to two back ends: `simulator-rust` generates a Rust crate that
simulates it cycle by cycle, and `formal` converts it to a transition system for a model checker.
This directory models what those programs do with a design: what they accept, what order they run its
statements in, what state they think it has, and what a call of the generated model does to it. The
modules are translated from the Rust code, definition by definition; `PROJECT.json` names the lines
each definition stands for.

## 1. The system

| Component | Files | State it keeps | Operations |
|---|---|---|---|
| JSON document | `parser-verilator/src/document.rs`, `ast/decimal_biguint.rs` | the parsed tree | deserialise, walk |
| Data type resolver | `parser/dtype.rs`, `ast/range.rs` | memo of resolved addresses, the set being resolved, the type table | `resolve`, `finish` |
| AST parser | `parser.rs`, `parser/expression.rs` | variable ids, data types | `parse`, `parse_statement`, `parse_target`, `parse_expression` |
| Design and access collection | `ast.rs`, `ast/collect.rs` | the typed design | `collect_accesses`, `collect_reads` |
| Sequential analysis | `ast/sequential.rs` | live-in sets, footprints | `analyze`, `analyze_statement`, `collect_footprints` |
| Simulator generator | `simulator-rust/src/lib.rs`, `util.rs`, `main.rs` | generator, naming maps | `Generator::generate`, `order_combinational`, `signal_fields`, `generate_project` |
| The generated model | text emitted by `simulator-rust/src/lib.rs` | `Model.values: Env`, `Model.state: State` | `new`, `eval`, `tick`, `state` |
| Simulator runtime | `simulator-rust-runtime/src/*.rs` | bit vectors | `select`, `assign_select`, `array_offset`, arithmetic |
| Formal converter | `formal/src/convert.rs` | symbolic environment, pending environment, transition system | `convert`, `on_stmt`, `merge_environments`, `add_properties`, `apply_reset` |
| Formal CLI | `formal/src/main.rs` | arguments | `select_property`, zero initialisation, output |

How they interact. The parser calls the resolver, then `sequential::analyze`, and rejects the design when
analyze does. The generator calls `analyze` again and takes from it the registers (the fields of `State`)
and the variables with nonblocking writes (those copied from `pending` at the end of `run_sequential`); it
calls `order_combinational` for the order of the combinational statements, and emits one function per
phase. The converter calls `analyze` for its registers and does its own ordering. The generated model is a
value its user calls: `eval` works on a copy of `values`, `tick` replaces them and then evals.

What is hard. No thread runs concurrently here, but the *language* is concurrent: the clocked processes of
an edge run in any order, statement by statement, and `run_sequential` is one of those orders; whether one
is enough depends on a static analysis of bit footprints, blocking and nonblocking assignments and
sampled values. Combinational logic must be settled before an edge whatever order it was written in. The
state the user sees must be the state there is. Two back ends must agree about one design. Each is
ordering, staleness or a boundary; `PROJECT.json` lists them as hazards at their lines.

What makes each component correct:

- *Sequential analysis*: a supported design has one outcome per edge; no process writes outside the
  footprint found for it; `registers` holds all state that later behaviour depends on.
- *order_combinational and the settling loop*: the logic is settled when the edge comes; the loop ends, and
  panics only on logic that has no fixed point.
- *The generated model*: an edge ends in the outcome the language gives it; clocked code reads only
  pre-edge registers and samples; equal states answer equal calls equally.
- *Formal converter*: the simulator's cycles are steps of the transition system it writes.
- *Data type resolver*: one id per type, an error for a cycle, no dependence on the order of requests.
- *AST parser*: a design has the statements of its hierarchy, whatever order the file has; every process
  it keeps is triggered by the chosen clock or reset.
- *Expressions and targets*: generated code and transition system compute one value; an assignment writes
  the bits the analysis was told of.
- *Naming and serialization*: arrays are recognised only when complete; a value survives containers, bits
  and accessors.
- *generate_project*: never writes over files it did not create.

## 2. The modules

`Design` is the data the modules about whole designs share. The others stand on the runtime's bit vectors
(`BitsRuntime`) or on data of their own.

```
Design            statements, targets, footprints, one step of execution
  Sequential      analyze, order_combinational, capture_sampled
    DesignProofs      TLAPS: types, execution, the order, the samples, soundness of analyze_statement
    EdgeScheduler     what a clock edge means: processes in any interleaving (abstract)
      EdgeSchedulerProofs   TLAPS
    Simulator         the generated Model: new, eval, tick, phase by phase
      SimulatedEdge     Simulator beside an instance of EdgeScheduler
        WiredEdge         ... with wires asleep, or propagating during the edge
          WiredEdgeProofs       TLAPS, of Simulator and the two edges
    StateSufficiency  two instances of Simulator, compared
      StateSufficiencyProofs  TLAPS
    FormalConvert     the transition system of a design
      TransitionSystem    ... as a model checker runs it (abstract)
      FormalSimulation    Simulator, shown to implement TransitionSystem

BitsRuntime       the runtime's bit vectors
  Expressions       nested expressions in both back ends
  Targets           assignments into arrays of arrays: parser, analysis, generator
    AssignmentStatements  an assignment statement: Expressions and Targets together
      AssignmentStatementsProofs  TLAPS, of expressions, targets and statements
  TypeAccessors     the generated Rust types and their accessors
  SignalContainers  names, grouping and layout of Inputs, Outputs and State
    GeneratedValues     ... in the hands of a user: with an instance of TypeAccessors

AstParser         scopes, sensitivity domains, statement lists, select_domains
ProjectGenerator  generate_project and the file system, with failures and kills
  SimulatorCli      the whole process: an instance of AstParser, then ProjectGenerator
    SimulatorCliProofs      TLAPS, of generate_project, the parser and the process

DataTypeResolver  the type table the parser builds, depth first
  DataTypeResolverProofs  TLAPS

RecursionFacts    TLAPS: what FoldLeft and recursive functions over numbers compute

DesignFamilies    the small designs TLC is given;  MC*  one module per family of runs
```

**Design** models `ast.rs`, `collect.rs`, `target_regions` of `sequential.rs`, and what `emit_statement`,
`emit_target` and the runtime's `select`, `assign_select` and `array_offset` do. A location is one bit of
one variable and a store gives each a value, so partial writes, overlaps and writes past the end are what
they are in the code. Statements are numbered and name their children, where the code nests vectors.
Expressions have one operator over variables: what the properties tell apart is which bits a value depends
on. `ExecStep` executes one statement of a stack, as the generated straight-line code does;
`AssignPending` sends nonblocking results aside.

**Sequential** models `analyze` in full over those statements: `Flow` is `analyze_statement`, `Registers`
and `Nonblocking` what `SequentialInfo` holds, `AnalyzeError` the five refusals in the code's order. It
also models `order_combinational`.

**EdgeScheduler** is the abstract specification: the clocked processes as concurrent processes. `Begin`
takes any store, `Step(p)` runs one statement of process p, `Update` applies the deferred writes when all
have suspended. Its assumption `DesignsWellFormed` says what the parser and Verilator guarantee.

**Simulator** is the generated code. `StartCall` is the entry of `eval` or `tick` with `apply_inputs`;
`Execute` runs one statement of a combinational pass or of `run_sequential`; `EndPass` is the settling
loop's decision; `Sample` is `capture_sampled`; `Commit` is the end of `run_sequential` and the assignment
of `self.values`, after which `tick` evaluates; `Evaluate` is `make_evaluation`. The clock is not a
variable: `input_ids` drops it and no phase reads it, but it counts in the loop's limit (`PassLimit`).

**SimulatedEdge** forks at each edge: the store after `Sample` goes to `run_sequential` and to an instance
of EdgeScheduler, and the ends are compared. **WiredEdge** adds a choice made at the start: the logic is asleep during an edge,
as in SimulatedEdge, or `awake`, and then `Propagate` lets a continuous assignment follow a blocking write
before another process reads the wire. **StateSufficiency** ticks two models apart
until `state()` is equal and from then on gives both the same calls.

## 3. What the runs check

| Run | Question | Bounds |
|---|---|---|
| `race` | Do all interleavings of a supported edge end in the store `run_sequential` leaves (`AsleepIsRaceFree`), also with wires that propagate during the edge if no process reads a wire downstream of a blocking write (`IsolatedIsRaceFree`)? Does clocked code read only what was there before the edge (`ReadsPreEdge`)? | 56 x 30 pairs of processes of one or two statements each, over blocking and nonblocking, whole and partial writes at constant and dynamic offsets; 144 designs with a memory of two words of two bits, declared 1 down to 0, one process per lane; 15 designs with sampled values, nested samples and a property; 2 with a memory of one word and a process that panics at the index it does not have; with and without propagation |
| `edge` | From *every* store, does an edge stay well formed, hold back nonblocking results and write only its footprint? (`EdgeTypeOK`, `NonblockingHeld`, `WritesOwnBits`) | shorter designs, all stores |
| `state` | Is `State` all the state? (`RegistersSuffice`) | 30 designs of temporaries and wires, of which 12 have a latch or a cycle that holds a value and are excepted (`LatchFree`, `CycleFree`), 15 with samples; two models, any calls |
| `latch` | Also with combinational latches, or a cycle that holds a value? No: violated | those 12 designs |
| `settle` | Is the logic settled before the edge, does the loop panic only on logic without a fixed point, does every call return? (`SettledBeforeEdge`, `PanicMeansDivergence`, `CallsReturn`) | all orders of up to three of eight combinational statements, with cycles and partial writes |
| `chain` | Is the pass limit enough for acyclic logic through one vector? No: violated | six bits, three variables and the clock |
| `formal` | Is the generated model an implementation of the transition system, and does a reset cycle reach the initial values computed for it? (`ImplementsTransitionSystem`, `ResetReachesInit`) | 135 of 300 designs, those that convert and assign on all paths: five clocked processes, with and without samples, enables, reset and blocking temporaries, five arrangements of wires (out of order, undriven, latched, a cycle), assertions and covers set by combinational or clocked code; any calls |
| `cover_export` | Is the bad state of an exported cover that the cover is hit? No: violated | the same |
| `types` | Does `resolve` answer what an address means, whatever came before; do parts come first; is recursion bounded; do the members of a struct tile it? (`AnswersAreMeaning`, `PartsComeFirst`, `RecursionBounded`, `MembersTile`, `CallsConsistent`) | 26,010 documents of three addresses and a dangling one, all kinds of nodes and links, `usize` of four bits |
| `statements` | Do generated code and transition system compute what an operator means, and does an assignment land where the parser, the analysis and a later read think it does? (`RuntimeIsRtl`, `BackendsAgree`, `Canonical`, `ReadsBack`, `WritesAreKnown`, `ConstantRegionIsExact`) | two nested operators, all of them, over all literals of one to three bits, results of up to four, an else value that is any literal; storage of 1 and 3 bits and then as wide as the vector, `usize` of three; each value into five variables: none, one or two dimensions, either direction, bounds above zero, every index and part inside and outside |
| `values` | Do type names stay distinct, does grouping into arrays keep every signal, in its place, are packed bits laid out as documented, does a value survive a container, its bits, its accessors and the way back? (`TypeNamesDistinct`, `SignalsGrouped`, `LayoutAsDocumented`, `ValuesSurvive`, `Lossless`) | up to three variables named from ten clashing, numbered and keyword names, of two types, all choices of signals; structs, unions, enums, aliases and arrays nested four deep, two changes |
| `cli` | Does parsing end with the statements of the hierarchy and one edge, and does the process leave the file system right, whatever fails? (`StatementsKept`, `OneEdge`, `ParsingEnds`, `RefusalChangesNothing`, `SuccessIsComplete`, `OthersFilesKept`, `DependencyLeadsToRuntime`) | 31,129 documents: three scopes in every order and hierarchy, rings included, or none, up to three kinds of statement per block, eight sensitivity trees, four clocks, five resets; two runs over a file system with a link, paths through `..` (out of a link, out of a directory, out of one that is missing, beyond the root), failures and kills at every step, a user in between |

Why the bounds are enough. What can go wrong at an edge involves two processes and a location: one writes
it, the other writes or reads it, and the assignment kinds, the part selected and the order decide. Two
statements per process give every such combination with a statement before or after it, and every store of
one- and two-bit variables is reached or enumerated. Partial writes need two parts (vectors of two and
three bits) and dynamic offsets that hit, miss and run over the end; the memory has two elements. The
settling loop's limit is the number of variables, so its boundary is reached with a vector longer than
the design has variables (`chain`) and with cycles. Calls are unbounded: the runs explore every sequence.
An operator or a step into a target behaves by the relation of widths (equal, narrower, wider, at and past
the storage type, at and past `usize`) and of an index to its range; two nested operators are enough for a
value in storage that an earlier operation left dirty. Three names or scopes give every clash, repetition,
chain and ring; a second run of the generator meets whatever a first one left.
Three addresses give every shape of cycle, of sharing and of a cycle reached from outside, in every order
of the sweep; arrays of three by three exceed the four-bit limits.

Violations. `latch`: a combinational latch, like the cycle `w = u; u = in ? q : w`, keeps its value in
`Model.values`, is not in `State`, and makes models with equal state differ. `chain`: statements that each drive one bit of a vector, written from the
top down, need more passes than there are variables; the generated model panics with "combinational logic
did not reach a fixed point" although it would. `cover_export`: the wires of assertions are bad states as
they are, and an exported cover is negated although it has the same polarity as a bad state, so the
exported system is in its bad state whenever the cover is not hit; `main.rs:46` and `tests.rs:706-713` mean the opposite.

Known limits of the code that no run is about, because a property states the case apart:

- `analyze` compares variables and so accepts a process that reads a wire driven by another process's
  blocking write; awake wires then give the edge two outcomes. `WiresIsolated`, the premise of
  `IsolatedIsRaceFree`, is the check it does not make.
- `unique_name` numbers a repeated name without looking whether the numbered one is free: signals `a`, `a`
  and `a_1` give two fields `a_1`. Only type names stay distinct, since they have no underscore.
- `generate_project` asks `exists()` of a path with `..` behind a missing directory, which is false;
  `create_dir_all` makes the directory and the path leads to files that are overwritten. `cli` has such a
  request, `tmp/../out`; `OthersFilesKept` and `SuccessIsComplete` are stated of the others
  (`LeavesThere`: every `..` leaves a directory that was there before the run).
- `relative_path` removes `..` by name while the file system follows links first: a path that leaves a
  link by `..` gets a dependency that leads elsewhere (excepted in `DependencyLeadsToRuntime`).
- The converter cuts a shift amount to the width of the result (`AmountFits`, premise of `BackendsAgree`).
- A dynamic part of an array element is checked by `assign_select` against the end of the variable only
  (`Guarded`: Verilator's own check comes first).

Fairness. `CallsReturn` needs `WF(Work)`, where Work is every step of a call that has started: a call is
straight-line Rust in the caller's thread, so a started call keeps executing. Calls themselves are not
fair: the user need not call. `ParsingEnds` needs `WF(Parse)` for the same reason: `run` is one thread and
parsing waits for nothing. What comes after parsing has no fairness: it may fail or be killed.

Deadlock is unchecked in `race`, `settle` and `chain`, since a model that has panicked stops; in `types` and `cli`,
because a parse that met an error stops and the runs are bounded; in `statements` and `values`, because an
assignment or a container is at its end when it is done.

## 4. What is proved

Every theorem is about all values of the constants: designs, documents, variables and file systems of any
size, and behaviours of any length. Each stands on assumptions that the module declaring the constants
names, and that TLC evaluates in the runs of that module.

| Theorem | States | For all |
|---|---|---|
| `AsleepIsRaceFreeCorrect`, `ReadsPreEdgeCorrect` | `AsleepIsRaceFree`, `ReadsPreEdge` of run `race` | sets of well-formed designs, calls and interleavings |
| `IsolatedIsRaceFreeCorrect` | `IsolatedIsRaceFree` of run `race`, if wires have one driver and follow no sample | the same, and any order of processes and wires |
| `SettledBeforeEdgeCorrect` | `SettledBeforeEdge` of run `settle`, if passes are iterated or no bit that is read has two drivers | sets of well-formed designs, any calls |
| `TypeCorrect` (WiredEdgeProofs) | `TypeOK` of run `race` | the same |
| `RegistersAreEnough` | `RegistersSuffice` of run `state` | sets of well-formed designs, any calls of two models |
| `EdgeTypeCorrect`, `NonblockingHeldCorrect`, `WritesOwnBitsCorrect` | the properties of run `edge` | the same |
| `AnswersAreMeaningCorrect`, `MembersTileCorrect`, `PartsComeFirstCorrect`, `CallsConsistentCorrect`, `RecursionBoundedCorrect` | the properties of run `types` | sets of documents; those about `Meaning` and recursion, of finite ones |
| `CanonicalCorrect`, `RtlCorrect`, `BackendsAgreeCorrect` | `Canonical`, `RuntimeIsRtl`, `BackendsAgree` of run `statements` | storage types, widths, operands and nestings of operators |
| `RegionsCoverWrites`, `LiteralRegionsAreExact`, `ReadsBackCorrect`, `TypeCorrect` (AssignmentStatementsProofs) | `WritesAreKnown`, `ConstantRegionIsExact`, `ReadsBack`, `TypeOK` of run `statements`, of an assignment of any value | variables of any dimensions, targets of any depth |
| `StatementsAreAssignments`, `StatementsAssignCorrectly` | `StatementSpec => TargetSpec`, so that these hold of statements whose value an expression yields | all of the above |
| `OthersFilesKeptCorrect`, `SuccessIsCompleteCorrect`, `RefusalsChangeNothing`, `DependencyLeadsCorrect`, `TypeCorrect` (SimulatorCliProofs) | the properties of `generate_project` in run `cli` | file systems with links, requests, users, failures and kills |
| `CliImplementsGenerator`, `CliKeepsItsPromises` | `CliSpec => Spec`, so that they hold of the command | the same |
| `StatementsKeptCorrect`, `OneEdgeCorrect`, `CliTypeCorrect` | `StatementsKept`, `OneEdge`, `CliTypeOK` of run `cli` | documents with any scopes, hierarchies and blocks, and any clocks and resets |

**The clock edge** (`EdgeSchedulerProofs`, `WiredEdgeProofs`, on `DesignProofs`). Two models of an
edge are compared, the processes in any order and the generated `run_sequential`; the argument
goes through a third, each process alone. Executing one statement is a function of the machine it runs on,
so a process that runs alone from the store of the edge goes through one chain of machines (`Reachable`)
with at most one end (`UniqueEnd`). The invariant says that of every process, in the interleaving as well
as in the sequential run: what it sees is what its solo run sees, its bits of the store and of the deferred
writes are those of its solo run, and its stack is that of a machine on the chain (`Together`). A step of
one process keeps this of all, because a statement writes only bits of its process's footprint
(`DestinationInFootprint`), because footprints are disjoint, and because no process reads a variable that
another writes with blocking assignments: three of the five refusals of `analyze` are what the proof needs
(`Overlap`, mixed kinds, `CrossProcessRead`). When both runs are at their end, each process is at the end of
one chain, and the stores agree bit by bit; copying whole pending variables (`CopyPending`) is the same as
updating deferred bits, because pending starts as a copy of the store and no process writes such a variable
directly (`SupportedNotMixed`). A `tick` that panics at an undeclared index leaves no store, and `RaceFree` excepts it.

`ReadsPreEdge` needs that `capture_sampled` has computed every sample from the store of the edge, samples
of samples included: after as many rounds as there are samples nothing changes (`SamplesSettle`, by the
ranks of `SampledOK`), and no statement writes a sampled variable. `TypeCorrect` covers what
`order_combinational` computes: the order lists the combinational statements (`OrderFacts`).

**The settling loop** (`WiredEdgeProofs`, on `DesignProofs`). `SettledBeforeEdge` says that one more pass
would change nothing. The invariant (`PassInvariant`) is that a pass is somewhere on the run of the
statements from the store kept before it, so that in `sample` the store is where such a run has ended. That
a run ends at all within the steps `Run` allows is `RunEnds`: it executes no statement twice, as each has one
place (`Fresh`). If passes were iterated, the last one has changed nothing. If not, a second run, from the store
the first has ended in, is laid beside the first (`Following`, `FollowingStep`, `RunsAgain`): it executes the
same statements, because what a statement reads has in the first run its last value by then
(`Forward`). This is what the order of `order_combinational` gives (`OrderForward`): a variable is available
when one statement that writes it is placed, and a write that does not read its variable is of all of it
(`WholeFootprint`). It is not enough when another statement drives the same bits: of `if (c) a = x`, `b = a`,
`a = ~x` the second is placed between the drivers and reads what `a` was, unless `c` holds. So the theorem
has the premise that passes are iterated or no bit that is read has two drivers (`SingleDrivers`); it allows
partial drivers of one variable, latches and cycles.

**The awake edge** (`WiredEdgeProofs`). The wires that follow blocking writes (`Followers`) are closed under
what the statements that read them write (`DownstreamClosed`: a round that finds no new statement adds
nothing, and there are no more statements than rounds). The invariant (`Attended`) is `Together` of the store
in which these wires are put back to what they were at the edge (`Masked`). A step of a process keeps it
because it sees none of them (`FollowersUnseen`, by `WiresIsolated`), so that it is the step it takes in the
masked store (`MaskedStep`). A statement that propagates writes either such wires only, or reads what
is still as it was at the edge; then it changes nothing, since alone it changed nothing there
(`PropagateKeeps`, `QuietFollows`). That every statement is quiet alone follows from a whole pass that changes
nothing if no two of them drive one bit (`StaysAlone`, `OneDriver`), and lasts through `capture_sampled`
if none reads a sample (`SettledEach`, `SamplesUnread`). Without the two premises a wire may move
that follows no blocking write, and a process may see it. Every design of run `race` has
them, as an assumption of `MCRace` says.

**The state** (`StateSufficiencyProofs`, on `DesignProofs`). `RegistersSuffice` rests on `analyze_statement`
being sound (`StatementSound`): two runs of a statement, from stores that agree on what is live-in, end in
stores that agree on what it assigns, through every branch, block and array index. Its invariant gives every
statement still on the stack of a run the variables assigned before it (`Expected`); a branch that only one
of two runs takes cannot occur, because its condition is live-in. What `Model::state` hides is what clocked
statements leave in their blocking temporaries (`Temporaries`), and the checks of `analyze` and what it
collects keep those inside their statement: nothing outside the clocked statements reads one, none is
live-in anywhere, none is an output (`TemporariesFacts`). From there, for two stores that agree on the rest:
the combinational logic settles to the same values, by the order of `order_combinational` when it takes one
pass and by the ranks of `CycleFree` when it is iterated (`PassAgrees`, `FixedPointAgrees`, `SettledAgree`);
an edge from there ends in stores that agree again, on what the edge assigns too (`EdgesAgree`); and so do
outputs and, from the next edge on, properties (`EvaluationsAgree`). The two models are records of one
shape; the invariant (`Joint`) says of each what its call has come to (`ModelOK`: it is somewhere in a pass
from the settled values, or in the edge from them), and of both that they were alike before the calls they
are in (`Alongside`), although one may be a whole call ahead. What no statement writes agrees from the start
(`Untouched`). The instances of `Simulator` have operators of their own, which `SameOperatorsA` and `B`
identify with those of the lemmas.

The assumption of all these is `DesignsWellFormed`. Its parts come from the parser and from Verilator: references
resolve; operands of a bitwise operator have one width; `parse_target` accepts one index and one select;
`OffsetOK`: an offset is a number and a part of an array element ends inside the element, which
`parse_target` checks of constants and Verilator's bounds guards ensure of the others, since
`assign_select` only checks against the end of the whole variable; `SampledOK`: a sampled variable has an
expression of its width, no statement assigns it, and samples do not sample each other in a circle, in
which the generator would expand them without end; and statements are numbered with the parts of a statement
before it, each in one place (`PartsOf`, `Listed`, `NestedOnce`), where the code nests vectors of statements.

**The type table** (`DataTypeResolverProofs`). One invariant (`Inv`) is about the stack of calls: they are
of different nodes, those in `resolving`, none of which has a number yet, and what a call has collected is
in the table. It gives `CallsConsistent`, `PartsComeFirst` and, for finite documents, `RecursionBounded`.
`MembersTile` adds that every struct in the table was laid out as `Finish` does it (`LaidOut`); that the
members then cover each bit once is a fact about partial sums (`MembersCover`). `AnswersAreMeaning`
compares the depth-first search with `Meaning`, the least fixed point over the document: the rounds of
`Meaning` settle after as many as there are nodes (`RoundsSettle`), and what has a meaning has a rank that
its parts come below. The invariant is that every number in the table is of an address that means its
width, that every call on the stack is of a part of the call below it, and that an answer of "none" is of
an address that means none; when a call finds itself on the stack, the ranks along it would decrease in a
circle (`CycleMeansNone`). The assumptions are the types of nodes (`NodesTyped`, `AddressesPositive`).

**Expressions** (`AssignmentStatementsProofs`). The argument is about whole numbers instead of bits: a vector
`Holds` a number at a width if its bits are that number modulo the power of the width, and two vectors that
hold one number at one width are one vector (`HoldsUnique`). Storage that wraps around at its own, larger
width cuts off nothing that matters (`StorageCuts`), and the bit loops of the runtime compute sums of powers,
which are numbers again (`NumberByDigits`). So each operator of the runtime holds `RtlNumber`
(`OperatorsCompute`), which is `RuntimeIsRtl`, and each of the converter's terms holds it too (`TermsAgree`):
that is how the two back ends agree, neither being compared with the other. The invariant (`ExpressionInv`)
is that operands are vectors that storage may hold and that an operator was applied to operands of
the widths Verilator gives them (`Applied`). `BackendsAgree` has the premise `AmountFits`, since the
converter does cut a shift amount. The assumptions are that there are finitely many
primitive types (`WidthsAssumption`) and finitely many widths of results, and that none of these, no literal
and no `usize` is zero bits wide (`ResultWidthsAssumption`).

**Targets** (`AssignmentStatementsProofs`). The offset the statement computes is among the starts the analysis
keeps, and is the only one as long as all steps are literals (`OffsetKnown`). It needs that a step into an
array matches one declared index and that `array_offset` is where that element starts (`IndexIsDeclared`,
`StepIsKnown`), and that only the last step is a select (`TargetOK`). `VariablesAssumption` is that an array
is as wide as its elements together, which the resolver computes. `RegionsCoverWrites` carries
`WritesOwnBitsCorrect`, which is about one index and one select, to targets of any depth.
`ReadsBack` takes more: every other element reads what it was. The expression for an element is a nesting of
`array_select`s, each a copy of bits, and the statement has one offset. The proof says of each path
that it leads to the bits from its offset on (`Leads`, `LeadsInside`, `LeadsRead`), and
that paths to different elements lead to disjoint bits (`PathsApart`); then what `assign_select` does to the
bits of the whole vector (`AssignSelectBits`) gives both halves (`SelectAssigned`, `SelectElsewhere`). The
invariant (`BitsInv`) adds to `OffsetKnown` that no vector has a stray bit, that all starts the analysis keeps
end inside the variable, that the path walked so far leads to its offset, and what was assigned.
`ValuesAssumption` is that values and what is stored before have no more bits than their width.

**Project files** (`SimulatorCliProofs`). The invariant (`RInv`) keeps the file system one (`FsOK`: the
parent of every file and directory is a directory, links stay, and no file is where a directory is) and
says of a run that has passed its check: if every `..` of its path leaves a directory that was there
(`LeavesThere`), the directory it resolves to was missing or empty when the run started (`WasFresh`), the
components it has created are there (`Created`), and the files below that directory are just those it has
written, whole (`FilesOfRun`). Then a file it writes next cannot be anyone's, and after the sixth the
directory is complete. A step of the walk to a path depends only on links, which no run changes, and on
`..`, which goes up by one (`WalksAgree`); that the directory `exists()` looks at is the one
`create_dir_all` makes is `MayUseFresh` with `LocatedFresh`, and this is where `LeavesThere` is needed.
`DependencyLeadsToRuntime` is in `DInv`: a path whose components are resolved stays itself when it is
resolved again, also while the run makes directories (`AbsoluteIsResolved`, `ResolvedStays`), and going up
from it by as many `..` as the common prefix leaves and down the rest ends at the target
(`UpAndDown`, `RelativeLeads`). The assumptions are that links lead to directories and are in one, that the
runtime crate exists (`LinksLeadToDirectories`, `DirectoriesAreNested`, `RuntimeIsThere`), and that a user's
files are no links. `CliSpec => Spec` carries the theorems over to the process that parses first.

**The parser** (`SimulatorCliProofs`). Two facts stand behind `StatementsKept`. A pass of `find_scopes` stays
inside every set that has the roots and is closed downwards, and a pass that finds nothing has reached
such a set, so the passes end in the hierarchy itself, in whatever order the file lists the scopes
(`PassInHierarchy`). And `parse` spreads each block over the lists as `Share` says (`AddedFacts`), so that
after k blocks each list is the concatenation of k shares (`Gathered`). `ParserInv` says both of every
phase: nothing outside the hierarchy is found and, once the variables are numbered, all of it (`Reached`);
domains and lists are those of the blocks found (`Taken`). `OneEdge` adds that what `select_domains`
returns is among the design's domains and has all of them in it (`Chosen`, `DomainsInDesign`): the refusal
of any other domain is what it needs. The assumptions are `DocumentsWellFormed` (lists are lists, an
address begins with a number, statements have one of the kinds, a TOPSCOPE leads to scopes of the
document) and `OptionsAreLists` (at most one clock and one reset); two scopes may have one address.

**Recursion** (`RecursionFacts`). The library's induction theorems take an operator as a parameter, which
the provers cannot instantiate. Stated of sets instead, as "a set with 0 and the successor of each of its
members holds every number" (`NaturalsInSet`), induction is in reach, and so is what a recursive function
over numbers and `FoldLeft` compute (`IterationExists`, `IterationValues`, `IterationInvariant`,
`FoldExists`). The proofs about samples, passes, orders, partial sums, rounds and walks stand on these.

**What the theorems take from the library.** Of the powers of two the provers know nothing. That
2^(n+1) = 2^n + 2^n (`PowerStep`) is derived from `FS_SUBSET`, the number of subsets of a finite set; the
proof of `FS_SUBSET` that comes with TLAPS leaves that step (`TwoExpLemma`) unproved. Everything about
expressions, `TypeOK` and `ReadsBack` rests on this fact of arithmetic. Other library facts are cited by name.

Only model-checked, and why:

- *Not true of every well-formed design*: `PanicMeansDivergence`, which `chain` violates.
- *Refinement of the transition system* (`ImplementsTransitionSystem`) and `ResetReachesInit`: a relation
  between two evaluations of all combinational logic in two different orders.
- *Names, layout and accessors* (`TypeNamesDistinct`, `SignalsGrouped`, `LayoutAsDocumented`,
  `ValuesSurvive`, `Lossless`): recursive over types, with RECURSIVE operators.
- *Liveness* (`CallsReturn`, `ParsingEnds`) is outside the prover's reach.

## 5. The formal converter and the data types

**FormalConvert** models `formal/src/convert.rs`. The code computes with symbolic expressions over inputs
and registers; the model computes with their values under one valuation, and quantifies over valuations.
Which variables have an expression (`Known`) does not depend on the valuation, so what the converter
accepts (`Converts`) is computed with all zeros. The translations the code leaves as `todo!` (part selects,
array elements, conditions wider than a bit) are conversions that fail. `OnEdge` is the pass over
combinational logic, sampled expressions and clocked processes; `NextOf` takes the next states from it
and `System` the outputs and properties, after the registers are set back to their current values.
`ResetInit` is `apply_reset`: a register gets an initial value when its next state under an active
reset is the same for all valuations; the simplifier is assumed to recognise every such expression.

**TransitionSystem** is the abstract specification: what a model checker does with the system written.
`Choose` picks inputs, `Clock` takes the next states, `Show` looks at outputs and properties. A property
that a clocked process sets belongs to the clock and not to the look, since the simulator's `tick`
evaluates after the edge: `fired` keeps it in between.

**FormalSimulation** maps the generated model onto it: the registers are `State`, the inputs those of the
last call together with the variables that are read and never driven, and what is shown is the last
`Evaluation`. `ImplementsTransitionSystem` is the refinement `T!Spec`: each phase of a call is a choice of
inputs, a clock, a look, or a stutter. It holds for designs in which combinational logic assigns on all
paths (`LatchFree`) and clocked processes assign their properties on all paths (`PropertiesAssigned`).
Without these the back ends differ: what a branch leaves unassigned is zero in the transition system
(`merge_environments`, which asks itself why) and the old value in the simulator. It assumes
`--zero-init`, which is how the generated model starts, and a release build: a debug build stops at the
assertion that no continuous assignment reaches `on_stmt`. `ResetReachesInit` compares `apply_reset` with
a simulated cycle under reset, from every state the calls reach.

**DataTypeResolver** models `parser/dtype.rs`: `resolve` calls itself through `resolve_node`, and each call
is a frame of `frames`; `resolving` is the code's own list of addresses. `TryDeclaration` is the sweep that
drops errors, `RequestType` the parser's calls, after the first error of which it stops. `Meaning` says
what an address should resolve to, without a stack or a table: the least fixed point over the document.

## 6. Expressions, targets, values, documents and files

**BitsRuntime** models `simulator-rust-runtime`: a vector is a width and the number in its storage, which
may hold more bits than the width; each operation masks, or not, where the code does. `PrimitiveWidths`
and `UsizeBits` scale Rust's 1, 8, ... 128 and 64 down, and keep the boundaries.

**Expressions** grows an expression from literals, an operator at a time, as both back ends compute it:
`EmitUnary`, `EmitBinary` and `EmitExpression` are what `emit_expression` writes, `UnaryExpression`,
`BinaryExpression` and `OnBvExpr` the converter's terms, `NoTerm` where it has a `todo!` or an error. The
widths of operands are those Verilator gives them (`WidthsAgree`). A conditional has three parts: condition
and then value are operands that may be nested, the else value is any literal (`other` of its node).
`RuntimeIsRtl` compares with whole numbers cut to a width.

**Targets** walks a target from the variable outwards: parser (`StepAccepted`), analysis (`StepOffsets`)
and generated code (`StepOffset`) recurse over it in the same order, so `Step` takes one step of all.
**AssignmentStatements** composes the two: the value an expression yields is what is written.

**SignalContainers** models `unique_names`, `snake_identifier`, `type_identifier`, `signal_fields` and the
serialization of `Inputs`, `Outputs` and `State`. A name is a sequence of words, digits and separators.
The signals a container is for stay in `collected` beside the fields made of them, so that `SignalsGrouped`
and `ValuesSurvive` notice a signal that `signal_fields` would lose.
**TypeAccessors** models the types of `emit_data_types`; a user opens a value, replaces a part and closes
it again. **GeneratedValues** lets that user work on an element of a container, which is then packed.

**AstParser** models `find_scopes`, the numbering of variables, `parse_sensitivity_domains`, the sorting of
statements in `parse`, and `select_domains` with `resolve_reset` of both back ends. A statement is a kind
and a number here; its inside is the matter of Design and Targets.

**ProjectGenerator** models `generate_project` one system call at a time, over a file system with links.
`Kill` ends the process anywhere, half a file included; the user writes and removes between runs.
**SimulatorCli** is `main.rs`: the document is parsed and its domains selected before any file is touched.
The document is dropped then, so a second run is that of the same file system with any request.

## 7. What is not modelled

- Verilator's JSON and its traversal (`document.rs`): conversion of data, no state of its own.
- The type table beyond widths and index ranges; names of enum constants, accessors and properties: the
  compiler refuses a clash.
- Arrays and part selects in the converter: `todo!` in the code.
- Text: formatting of the emitted source, documentation comments, error wording; traces and debug output.
- Arguments, RON and the converter's file output.
- Two generators at a time in one directory: nothing in the code locks it.
- Two combinational drivers of one whole variable: Verilator rejects or resolves them before the tree is
  written.
- Processes that only a reset triggers: the list of sequential statements keeps no trigger.

## 8. Plan

Done: all modules above and their proofs. What is left, in this order:

1. Multi-driver logic in the runs: `order_combinational` with two drivers of one variable (`lib.rs:1475`),
   which `SettledBeforeEdgeCorrect` excepts.
2. An abstract specification of the generated model with one atomic cycle per call.
