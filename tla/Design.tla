------------------------------- MODULE Design -------------------------------
(***************************************************************************)
(* The typed design the parser hands to both back ends (ast.rs), and what  *)
(* one statement of it reads, may write and does to a store.               *)
(*                                                                         *)
(* A design is a record:                                                   *)
(*   width       variable -> number of bits of its flattened value         *)
(*   indices     variable -> the declared unpacked indices, in storage     *)
(*               order, or <<>> for a variable that is no unpacked array   *)
(*   direction   variable -> "Input", "Output" or "None"                   *)
(*   sampled     sampled variable -> the expression it samples             *)
(*   property    property variable -> "Assertion", "Assumption" or "Cover" *)
(*   internal    the variables Verilator introduced                        *)
(*   history     the ones of them that hold past values for assertions     *)
(*   statement   the statements, children before their parent: a Block or  *)
(*               an If names its children by their position, where the     *)
(*               code nests Vec<Statement>                                 *)
(*   root        position -> the top-level statement it is a part of       *)
(*   initial, combinational, sequential    positions of top-level          *)
(*               statements, in source order                               *)
(*   static      the positions in initial that are INITIALSTATIC blocks    *)
(*                                                                         *)
(* A location is one bit of one variable; a store (Env in the generated    *)
(* model) maps every location to 0 or 1.  A value is a sequence of bits,   *)
(* least significant first.                                                *)
(***************************************************************************)
EXTENDS Integers, Sequences, FiniteSets, TLC

Bit == {0, 1}

Variables(d) == DOMAIN d.width
Statements(d) == DOMAIN d.statement
LocationsOf(d, v) == {<<v, i>> : i \in 0 .. d.width[v] - 1}
Locations(d) == UNION {LocationsOf(d, v) : v \in Variables(d)}
Stores(d) == [Locations(d) -> Bit]

LocationsIn(d, vs) == UNION {LocationsOf(d, v) : v \in vs}
StoresOf(d, vs) == [LocationsIn(d, vs) -> Bit]
Project(d, vs, store) == [l \in LocationsIn(d, vs) |-> store[l]]

InputIds(d)  == {v \in Variables(d) : d.direction[v] = "Input"}
OutputIds(d) == {v \in Variables(d) : d.direction[v] = "Output"}

-----------------------------------------------------------------------------
(* Expressions: one operator applied to variables or to a literal.  Nested *)
(* operands, signedness and the arithmetic operators are left out: what    *)
(* the properties tell apart is which bits a value depends on.             *)

Constant(bits)    == [op |-> "Constant", args |-> <<>>, bits |-> bits]
Ref(v)            == [op |-> "Variable", args |-> <<v>>]
Not(v)            == [op |-> "BitwiseNot", args |-> <<v>>]
And(v, w)         == [op |-> "BitwiseAnd", args |-> <<v, w>>]
Xor(v, w)         == [op |-> "BitwiseXor", args |-> <<v, w>>]
Mux(c, v, w)      == [op |-> "Conditional", args |-> <<c, v, w>>]
Slice(v, o, w)    == [op |-> "Select", args |-> <<v>>, offset |-> o, width |-> w]
SliceAt(v, ix, w) == [op |-> "Select", args |-> <<v, ix>>, width |-> w]

\* collect.rs: the variables an expression reads.
ExpressionReads(e) == {e.args[i] : i \in DOMAIN e.args}

\* A bit outside the value reads as zero (Bits::bit, Bits::select, Bits::resize).
BitOf(bits, i) == IF i + 1 \in DOMAIN bits THEN bits[i + 1] ELSE 0
Word(d, env, v) == [i \in 1 .. d.width[v] |-> env[<<v, i - 1>>]]
Truthy(bits) == \E i \in DOMAIN bits : bits[i] = 1

\* The number a value stands for when it is used as an offset or an index.
ToUsize(bits) ==
  LET upTo[n \in 0 .. Len(bits)] ==
        IF n = 0 THEN 0 ELSE upTo[n - 1] + bits[n] * 2 ^ (n - 1)
  IN  upTo[Len(bits)]

Eval(d, e, env) ==
  LET word(i)   == Word(d, env, e.args[i])
      bits(f(_)) == [i \in 1 .. d.width[e.args[1]] |-> f(i)]
      offset    == IF Len(e.args) = 2 THEN ToUsize(word(2)) ELSE e.offset
  IN CASE e.op = "Constant"    -> e.bits
       [] e.op = "Variable"    -> word(1)
       [] e.op = "BitwiseNot"  -> LET f(i) == 1 - word(1)[i] IN bits(f)
       [] e.op = "BitwiseAnd"  -> LET f(i) == word(1)[i] * word(2)[i] IN bits(f)
       [] e.op = "BitwiseXor"  -> LET f(i) == (word(1)[i] + word(2)[i]) % 2 IN bits(f)
       [] e.op = "Conditional" -> IF Truthy(word(1)) THEN word(2) ELSE word(3)
       [] e.op = "Select"      -> [i \in 1 .. e.width |-> BitOf(word(1), offset + i - 1)]

-----------------------------------------------------------------------------
(* Assignment targets.  The parser accepts a variable, an element of an    *)
(* unpacked array, and one part select of either (parse_target): a target  *)
(* is a variable with at most one index and at most one select.  Arrays of *)
(* arrays are left out.                                                    *)

Whole(v)           == [var |-> v, index |-> <<>>, select |-> <<>>]
Element(v, e)      == [var |-> v, index |-> <<e>>, select |-> <<>>]
Part(t, e, w)      == [t EXCEPT !.select = <<[offset |-> e, width |-> w]>>]

IsWhole(t) == t.index = <<>> /\ t.select = <<>>

\* collect.rs: a partial target reads the variable it updates, and its indices.
TargetReads(t) ==
  (IF IsWhole(t) THEN {} ELSE {t.var})
    \cup (UNION {ExpressionReads(t.index[i]) : i \in DOMAIN t.index})
    \cup (UNION {ExpressionReads(t.select[i].offset) : i \in DOMAIN t.select})

ElementWidth(d, v) == d.width[v] \div Len(d.indices[v])

\* The bits an index may reach: those of the element a constant index
\* declares, or of every element; then those a part select of it may reach.
ElementRegions(d, t) ==
  IF t.index = <<>> THEN {[start |-> 0, width |-> d.width[t.var]]}
  ELSE LET e      == t.index[1]
           layout == d.indices[t.var]
           offsets == IF e.op = "Constant"
                        THEN {k \in DOMAIN layout : layout[k] = ToUsize(e.bits)}
                        ELSE DOMAIN layout
       IN  {[start |-> (k - 1) * ElementWidth(d, t.var),
             width |-> ElementWidth(d, t.var)] : k \in offsets}

SelectRegionsShort(s, parent) ==    \* mutant: misses the last offset
  LET offsets == IF s.offset.op = "Constant" THEN {ToUsize(s.offset.bits)}
                                             ELSE 0 .. parent.width - s.width - 1
  IN  {[start |-> parent.start + o, width |-> s.width] :
          o \in {x \in offsets : x + s.width <= parent.width}}

SelectRegions(s, parent) ==
  LET offsets == IF s.offset.op = "Constant" THEN {ToUsize(s.offset.bits)}
                                             ELSE 0 .. parent.width - s.width
  IN  {[start |-> parent.start + o, width |-> s.width] :
          o \in {x \in offsets : x + s.width <= parent.width}}

TargetRegions(d, t) ==
  IF t.select = <<>> THEN ElementRegions(d, t)
  ELSE UNION {SelectRegions(t.select[1], parent) : parent \in ElementRegions(d, t)}

\* Every location an assignment to t may write.
TargetFootprint(d, t) ==
  {<<t.var, i>> : i \in UNION {r.start .. r.start + r.width - 1 : r \in TargetRegions(d, t)}}

\* array_offset asserts that the index is a declared one.
IndexDeclared(d, t, env) ==
  t.index = <<>> \/ \E k \in DOMAIN d.indices[t.var] :
                       d.indices[t.var][k] = ToUsize(Eval(d, t.index[1], env))

TargetStart(d, t, env) ==
  LET position == CHOOSE k \in DOMAIN d.indices[t.var] :
                    d.indices[t.var][k] = ToUsize(Eval(d, t.index[1], env))
  IN  (IF t.index = <<>> THEN 0 ELSE (position - 1) * ElementWidth(d, t.var))
        + (IF t.select = <<>> THEN 0 ELSE ToUsize(Eval(d, t.select[1].offset, env)))

TargetWidth(d, t) ==
  IF t.select # <<>> THEN t.select[1].width
  ELSE IF t.index # <<>> THEN ElementWidth(d, t.var) ELSE d.width[t.var]

\* The locations one execution writes: assign_select skips an assignment that
\* would run over the end of the variable.
Destination(d, t, env) ==
  LET start == TargetStart(d, t, env)
      end   == start + TargetWidth(d, t)
  IN  {l \in LocationsOf(d, t.var) :
         /\ IndexDeclared(d, t, env) /\ end <= d.width[t.var]
         /\ start <= l[2] /\ l[2] < end}

-----------------------------------------------------------------------------
(* Statements. *)

Assign(kind, t, e) == [kind |-> "Assignment", assign |-> kind, target |-> t, value |-> e]
Block(ids)         == [kind |-> "Block", body |-> ids]
If(e, ids, others) == [kind |-> "If", condition |-> e, then |-> ids, else |-> others]

ToIds(ids) == {ids[i] : i \in DOMAIN ids}

\* What the code finds by walking the tree of a top-level statement n.
Inside(d, n) == {m \in Statements(d) : d.root[m] = n}
AssignmentsIn(d, n) == {m \in Inside(d, n) : d.statement[m].kind = "Assignment"}

StatementReads(d, n) ==
  UNION {CASE d.statement[m].kind = "Assignment" ->
                TargetReads(d.statement[m].target) \cup ExpressionReads(d.statement[m].value)
           [] d.statement[m].kind = "If" -> ExpressionReads(d.statement[m].condition)
           [] OTHER -> {} : m \in Inside(d, n)}

StatementWrites(d, n) == {d.statement[a].target.var : a \in AssignmentsIn(d, n)}

Footprint(d, n) == UNION {TargetFootprint(d, d.statement[a].target) : a \in AssignmentsIn(d, n)}

-----------------------------------------------------------------------------
(* What the parser and Verilator ensure of a design: every name is         *)
(* declared, operators have their operands, bitwise operands and the       *)
(* branches of a conditional one width, and a statement's parts belong to  *)
(* the same top-level statement and come before it.                        *)

Arity ==
  [Constant |-> {0}, Variable |-> {1}, BitwiseNot |-> {1}, BitwiseAnd |-> {2},
   BitwiseXor |-> {2}, Conditional |-> {3}, Select |-> {1, 2}]

ExpressionOK(d, e) ==
  /\ e.op \in DOMAIN Arity
  /\ e.args \in Seq(Variables(d)) /\ Len(e.args) \in Arity[e.op]
  /\ e.op = "Constant" => e.bits \in Seq(Bit)
  /\ e.op \in {"BitwiseAnd", "BitwiseXor"} => d.width[e.args[1]] = d.width[e.args[2]]
  /\ e.op = "Conditional" => d.width[e.args[2]] = d.width[e.args[3]]

\* The offset of a part select is a number, and a part of an element ends
\* within the element (parse_target checks the constant ones).
OffsetOK(d, t, offset) ==
  /\ offset \in Nat
  /\ t.index # <<>> => offset + t.select[1].width <= ElementWidth(d, t.var)

TargetOK(d, t) ==
  /\ t.var \in Variables(d)
  /\ t.index # <<>> => /\ t.index = <<t.index[1]>> /\ ExpressionOK(d, t.index[1])
                       /\ d.indices[t.var] \in Seq(Int) /\ d.indices[t.var] # <<>>
  /\ t.select # <<>> => /\ t.select = <<t.select[1]>> /\ t.select[1].width \in Nat
                        /\ ExpressionOK(d, t.select[1].offset)
                        /\ \A env \in Stores(d) :
                             OffsetOK(d, t, ToUsize(Eval(d, t.select[1].offset, env)))

PartsOf(d, n, ids) == ids \in Seq(Inside(d, d.root[n])) /\ \A m \in ToIds(ids) : m < n

Listed(ids) == \A i, j \in DOMAIN ids : ids[i] = ids[j] => i = j

\* What is nested in a statement, is nested there once and nowhere else.
Nested(d, n) ==
  LET s == d.statement[n] IN
  CASE s.kind = "Block" -> ToIds(s.body)
    [] s.kind = "If"    -> ToIds(s.then) \cup ToIds(s.else)
    [] OTHER            -> {}

NestedOnce(d) ==
  /\ \A n \in Statements(d) :
       /\ d.statement[n].kind = "Block" => Listed(d.statement[n].body)
       /\ d.statement[n].kind = "If" => Listed(d.statement[n].then) /\ Listed(d.statement[n].else)
  /\ \A m, n \in Statements(d) : m # n => Nested(d, m) \cap Nested(d, n) = {}
  /\ \A n \in Statements(d) : \A m \in Nested(d, n) : d.root[m] # m

StatementOK(d, n) ==
  LET s == d.statement[n] IN
  \/ /\ s.kind = "Assignment" /\ s.assign \in {"Blocking", "Nonblocking", "Continuous"}
     /\ TargetOK(d, s.target) /\ ExpressionOK(d, s.value)
  \/ s.kind = "Block" /\ PartsOf(d, n, s.body)
  \/ /\ s.kind = "If" /\ ExpressionOK(d, s.condition)
     /\ PartsOf(d, n, s.then) /\ PartsOf(d, n, s.else)

ValueWidth(d, e) ==
  CASE e.op = "Constant"    -> Len(e.bits)
    [] e.op = "Conditional" -> d.width[e.args[2]]
    [] e.op = "Select"      -> e.width
    [] OTHER                -> d.width[e.args[1]]

\* A sampled variable has its value from an expression of its width and from
\* no statement; samples do not sample each other in a circle, in which the
\* generator would expand them without end.
SampledOK(d) ==
  /\ DOMAIN d.sampled \subseteq Variables(d)
  /\ \A v \in DOMAIN d.sampled :
       /\ ExpressionOK(d, d.sampled[v])
       /\ ValueWidth(d, d.sampled[v]) = d.width[v]
  /\ \A n \in Statements(d) :
       d.statement[n].kind = "Assignment" => d.statement[n].target.var \notin DOMAIN d.sampled
  /\ \E rank \in [DOMAIN d.sampled -> 0 .. Cardinality(DOMAIN d.sampled) - 1] :
       \A v, w \in DOMAIN d.sampled : w \in ExpressionReads(d.sampled[v]) => rank[w] < rank[v]

WellFormed(d) ==
  /\ IsFiniteSet(Variables(d)) /\ IsFiniteSet(Statements(d))
  /\ Statements(d) = 1 .. Cardinality(Statements(d))
  /\ d.width \in [Variables(d) -> Nat]
  /\ \A n \in Statements(d) : StatementOK(d, n)
  /\ \A ids \in {d.initial, d.combinational, d.sequential} :
       ids \in Seq(Statements(d)) /\ Listed(ids) /\ \A n \in ToIds(ids) : d.root[n] = n
  /\ NestedOnce(d)
  /\ SampledOK(d)

-----------------------------------------------------------------------------
(* Execution.  A machine runs the statements on its stack against env;     *)
(* nonblocking assignments go to pending (emit_statement).                 *)

StoreBitsPastEnd(d, store, t, value, env) ==   \* mutant: no check against the end
  LET start   == TargetStart(d, t, env)
      written == {<<t.var, start + i>> : i \in 0 .. TargetWidth(d, t) - 1}
  IN  [l \in DOMAIN store \cup written |->
         IF l \in written THEN BitOf(value, l[2] - start) ELSE store[l]]

StoreBits(d, store, t, value, env) ==
  LET start   == TargetStart(d, t, env)
      written == Destination(d, t, env)
  IN  [l \in DOMAIN store |-> IF l \in written THEN BitOf(value, l[2] - start) ELSE store[l]]

AssignEnvAtOnce(d, s, env) ==       \* mutant: nonblocking taken for blocking
  StoreBits(d, env, s.target, Eval(d, s.value, env), env)

AssignEnv(d, s, env) ==
  IF s.assign = "Nonblocking" THEN env
  ELSE StoreBits(d, env, s.target, Eval(d, s.value, env), env)

AssignPending(d, s, env, pending) ==
  IF s.assign = "Nonblocking"
    THEN StoreBits(d, pending, s.target, Eval(d, s.value, env), env)
    ELSE pending

\* The stack after its first statement has been entered.
Unfold(d, s, env, rest) ==
  CASE s.kind = "Block" -> s.body \o rest
    [] s.kind = "If"    -> (IF Truthy(Eval(d, s.condition, env)) THEN s.then ELSE s.else) \o rest
    [] OTHER            -> rest

\* An assignment through an undeclared array index panics.
Panics(d, s, env) == s.kind = "Assignment" /\ ~ IndexDeclared(d, s.target, env)

\* One statement of a machine [stack, env, pending, panicked].
ExecStep(d, m) ==
  IF m.stack = <<>> \/ m.panicked THEN m
  ELSE LET s == d.statement[Head(m.stack)] IN
       IF Panics(d, s, m.env) THEN [m EXCEPT !.panicked = TRUE]
       ELSE IF s.kind = "Assignment"
         THEN [m EXCEPT !.stack   = Tail(@),
                        !.env     = AssignEnv(d, s, m.env),
                        !.pending = AssignPending(d, s, m.env, @)]
         ELSE [m EXCEPT !.stack = Unfold(d, s, m.env, Tail(@))]

Machine(ids, env, pending) ==
  [stack |-> ids, env |-> env, pending |-> pending, panicked |-> FALSE]

\* A statement is executed at most once by a run, so a run ends within as many
\* steps as the design has statements.  To compare m makes TLC evaluate it now.
Run(d, ids, env) ==
  LET now(m) == IF m = m THEN m ELSE Machine(ids, env, env)
      after[k \in 0 .. Cardinality(Statements(d))] ==
        IF k = 0 THEN Machine(ids, env, env) ELSE now(ExecStep(d, after[k - 1]))
  IN  after[Cardinality(Statements(d))]

=============================================================================
