------------------------------ MODULE Targets ------------------------------
(***************************************************************************)
(* Assignments into unpacked arrays of any depth: the target the parser    *)
(* accepts (parse_target), the bits the analysis takes it to write         *)
(* (target_regions) and the statement the simulator generates for it       *)
(* (emit_target, emit_statement, the runtime's assign_select).             *)
(*                                                                         *)
(* A target is a variable and the steps into it, outermost first.  A step  *)
(* is an ARRAYSEL or a SEL; its value is a literal, or is read when the    *)
(* assignment runs and is then unknown to the parser and the analysis.     *)
(* All three recurse over the steps from the variable outwards, so one     *)
(* action takes a step in all of them.                                     *)
(***************************************************************************)
EXTENDS BitsRuntime, SequencesExt

CONSTANTS
  Variables,     \* [width, dims: declared ranges [left, right, element], outermost first],
                 \* where element is the width of what the dimension is an array of
  Patterns,      \* the values of a vector of some width: Patterns[w] is a set of numbers
  Values         \* the vectors an expression may yield

VARIABLES
  variable,      \* the variable assigned to
  steps,         \* the target: [kind, constant, value, width]
  starts,        \* target_regions: where the bits written may start
  offset,        \* emit_target: where they do start when the statement runs
  panics,        \* whether an index is outside its declared range then
  phase,         \* "evaluate", "parse", then "Assigned", "Panic" or "Rejected"
  before,        \* the variable before the assignment
  after,         \* and after it
  written        \* the value assigned

targetVars == <<variable, steps, starts, offset, panics, phase, before, after, written>>

ArraySel(constant, value) ==
  [kind |-> "ARRAYSEL", constant |-> constant, value |-> value, width |-> 0]
Sel(constant, value, width) ==
  [kind |-> "SEL", constant |-> constant, value |-> value, width |-> width]

-----------------------------------------------------------------------------
(* Data types.                                                             *)

RangeLength(range) ==
  IF range.left <= range.right THEN range.right - range.left + 1
                               ELSE range.left - range.right + 1

\* Width of the type `depth` dimensions into v.
WidthAt(v, depth) == IF depth = 0 THEN v.width ELSE v.dims[depth].element

Dimensions == [left : Nat, right : Nat, element : Nat]

\* The resolver gives an array the width of its elements together.
ASSUME VariablesAssumption ==
  \A v \in Variables :
    /\ v.width \in Nat /\ v.dims \in Seq(Dimensions)
    /\ \A d \in 1 .. Len(v.dims) :
         WidthAt(v, d - 1) = RangeLength(v.dims[d]) * v.dims[d].element

\* What storage of those widths holds.
ASSUME ValuesAssumption ==
  /\ Values \subseteq [width : Nat, bits : Nat] /\ \A value \in Values : IsVector(value)
  /\ \A v \in Variables : Patterns[v.width] \subseteq 0 .. 2 ^ v.width - 1

Selects(target) == target # <<>> /\ target[Len(target)].kind = "SEL"

\* assignment_target_width; also the width of the same path as an expression.
TargetWidth(v, target) ==
  IF Selects(target) THEN target[Len(target)].width ELSE WidthAt(v, Len(target))

-----------------------------------------------------------------------------
(* Parser: parse_target, validate_assignment.                              *)

\* A base is a VARREF or an ARRAYSEL, and an ARRAYSEL's base is an array.
\* A SEL must fit; of its offset only a literal is checked, of an index nothing.
StepAccepted(v, target, step) ==
  /\ ~ Selects(target)
  /\ step.kind = "ARRAYSEL" => Len(target) < Len(v.dims)
  /\ step.kind = "SEL" =>
       (IF step.constant THEN step.value ELSE 0) + step.width <= TargetWidth(v, target)

AssignmentAccepted(v, target, value) ==
  target # <<>> => value.width = TargetWidth(v, target)

-----------------------------------------------------------------------------
(* Analysis: target_regions.                                               *)

\* Where a step may lead within the bits of its base.
StepOffsetsOfFirst(v, target, step) ==  \* mutant: a variable index taken for the first element
  IF step.kind = "SEL"
  THEN {o \in 0 .. TargetWidth(v, target) - step.width : step.constant => o = step.value}
  ELSE LET range == v.dims[Len(target) + 1] IN
       {k * range.element : k \in
          {n \in 0 .. RangeLength(range) - 1 :
             IF step.constant THEN step.value = range.left + n ELSE n = 0}}

StepOffsetsOfAny(v, target, step) ==    \* mutant: a literal taken for a variable index
  IF step.kind = "SEL" THEN 0 .. TargetWidth(v, target) - step.width
  ELSE LET range == v.dims[Len(target) + 1] IN
       {k * range.element : k \in 0 .. RangeLength(range) - 1}

\* The index of the element at some place of a declared range.
Declared(range, k) == IF range.left <= range.right THEN range.left + k ELSE range.left - k

StepOffsets(v, target, step) ==
  IF step.kind = "SEL"
  THEN {o \in 0 .. TargetWidth(v, target) - step.width : step.constant => o = step.value}
  ELSE LET range == v.dims[Len(target) + 1] IN
       {k * range.element : k \in
          {n \in 0 .. RangeLength(range) - 1 : step.constant => step.value = Declared(range, n)}}

\* The bits in the regions.
Region == UNION {start .. start + TargetWidth(variable, steps) - 1 : start \in starts}

-----------------------------------------------------------------------------
(* Simulator: emit_target, emit_expression and emit_statement.             *)

\* What a step adds to the offset; an index outside the declared range panics.
StepOffset(v, target, step) ==
  IF step.kind = "SEL" THEN step.value
  ELSE LET range == v.dims[Len(target) + 1] IN
       ArrayOffset(step.value, range.left, range.right, range.element)

StepPanics(v, target, step) ==
  step.kind = "ARRAYSEL" /\
  LET range == v.dims[Len(target) + 1] IN ~ InRange(step.value, range.left, range.right)

EmitTargetOfLast(base, own) == own       \* mutant: the base's offset is dropped
EmitTarget(base, own) == base + own

EmitAssignmentUnsized(old, value) ==     \* mutant: no resize_owned
  IF steps = <<>> THEN Vector(variable.width, value.bits)
  ELSE AssignSelect(old, offset, TargetWidth(variable, steps), value)

\* Of the value of a whole variable the parser does not check the width; it is
\* resized.  A part is assigned in place.
EmitAssignment(old, value) ==
  IF steps = <<>> THEN Resize(value, variable.width, FALSE)
  ELSE AssignSelect(old, offset, TargetWidth(variable, steps), value)

\* The same path as an expression selects step by step.
EmitRead(v, target, vector) ==
  FoldLeft(LAMBDA value, i :
             LET base == SubSeq(target, 1, i - 1) IN
             Select(value, StepOffset(v, base, target[i]),
                    TargetWidth(v, Append(base, target[i]))),
           vector, [i \in DOMAIN target |-> i])

-----------------------------------------------------------------------------
TypeOK ==
  /\ variable \in Variables
  /\ phase \in {"evaluate", "parse", "Rejected", "Panic", "Assigned"}
  /\ starts \subseteq 0 .. variable.width
  /\ IsVector(before) /\ IsVector(after) /\ IsVector(written)

TargetInit ==
  /\ variable \in Variables
  /\ steps = <<>> /\ starts = {0} /\ offset = 0 /\ panics = FALSE
  /\ phase = "evaluate"
  /\ before = Zero(0) /\ after = before /\ written = Zero(0)

\* The value is evaluated, with some variable as it is then.
Evaluate ==
  /\ phase = "evaluate"
  /\ phase' = "parse"
  /\ written' \in Values
  /\ variable' \in Variables
  /\ before' \in {Vector(variable'.width, n) : n \in Patterns[variable'.width]}
  /\ after' = before'
  /\ UNCHANGED <<steps, starts, offset, panics>>

\* One more step of the target, in the parser, the analysis and the generator.
Step(step) ==
  /\ phase = "parse"
  /\ StepAccepted(variable, steps, step)
  /\ steps' = Append(steps, step)
  /\ starts' = {s + o : s \in starts, o \in StepOffsets(variable, steps, step)}
  /\ offset' = EmitTarget(offset, StepOffset(variable, steps, step))
  /\ panics' = (panics \/ StepPanics(variable, steps, step))
  /\ UNCHANGED <<variable, phase, before, after, written>>

\* bound: the indices, offsets and widths of a step.
TargetSteps ==
  {ArraySel(constant, value) : constant \in BOOLEAN, value \in 0 .. variable.width}
    \cup {Sel(constant, value, width) : constant \in BOOLEAN, value \in 0 .. variable.width,
                                        width \in 1 .. variable.width + 1}

RefuseStep ==
  /\ phase = "parse"
  /\ {step \in TargetSteps : ~ StepAccepted(variable, steps, step)} # {}
  /\ phase' = "Rejected"
  /\ UNCHANGED <<variable, steps, starts, offset, panics, before, after, written>>

\* The statement is parsed, generated and executed.
Assign ==
  /\ phase = "parse"
  /\ phase' = IF ~ AssignmentAccepted(variable, steps, written) THEN "Rejected"
              ELSE IF panics THEN "Panic" ELSE "Assigned"
  /\ after' = IF phase' = "Assigned" THEN EmitAssignment(before, written) ELSE after
  /\ UNCHANGED <<variable, steps, starts, offset, panics, before, written>>

TargetNext == Evaluate \/ Assign \/ RefuseStep \/ \E step \in TargetSteps : Step(step)
TargetSpec == TargetInit /\ [][TargetNext]_targetVars

-----------------------------------------------------------------------------
(* Properties.                                                             *)

\* Verilator wraps a variable offset in a check against the width of what is
\* selected from; the statement of an offset beyond it is not reached.
Guarded ==
  Selects(steps) =>
    steps[Len(steps)].value + steps[Len(steps)].width <= WidthAt(variable, Len(steps) - 1)

\* The bits the statement writes, and those that it does change.
Written == offset .. offset + TargetWidth(variable, steps) - 1
Changed == {i \in 0 .. before.width - 1 : BitSet(before, i) # BitSet(after, i)}

\* The paths to the elements of the variable.
ElementPaths(v) ==
  {[d \in DOMAIN v.dims |-> ArraySel(TRUE, path[d])] :
     path \in {p \in [DOMAIN v.dims -> 0 .. v.width] :
                 \A d \in DOMAIN v.dims : InRange(p[d], v.dims[d].left, v.dims[d].right)}}
Reached(path, target) ==
  \A i \in DOMAIN target : target[i].kind = "ARRAYSEL" =>
    i \in DOMAIN path /\ path[i].value = target[i].value

\* An accepted assignment can be read back through the same path, and leaves
\* every element that is not on the path and every bit it does not write as
\* they were, for any nesting, direction and origin of the declared ranges
\* (emit_target against emit_expression).
ReadsBack ==
  phase = "Assigned" /\ Guarded =>
    /\ EmitRead(variable, steps, after) = Resize(written, TargetWidth(variable, steps), FALSE)
    /\ Changed \subseteq Written
    /\ \A path \in ElementPaths(variable) :
         ~ Reached(path, steps) =>
           EmitRead(variable, path, after) = EmitRead(variable, path, before)

\* The analysis knows every bit an assignment writes, whatever the values of
\* its variable indices and offsets are: two processes it takes for writers of
\* disjoint bits are (collect_footprints, target_regions).
WritesAreKnown == phase = "Assigned" /\ Guarded => Written \subseteq Region

\* And it claims no bit the target cannot reach: of a literal target the region
\* is the one the statement writes, so the analysis rejects no two processes
\* that write different elements or parts.
ConstantRegionIsExact ==
  phase = "Assigned" /\ Guarded /\ (\A i \in DOMAIN steps : steps[i].constant) =>
    Region = Written
=============================================================================
