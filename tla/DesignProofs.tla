---------------------------- MODULE DesignProofs ----------------------------
(***************************************************************************)
(* Lemmas about designs and their statements: values and stores, stacks    *)
(* and footprints, the order of the combinational statements, what         *)
(* analyze_statement finds (its soundness: StatementSound) and what runs   *)
(* of statements write and depend on.  The proofs about the scheduler, the *)
(* generated model and the state of two models cite them by name.          *)
(***************************************************************************)
EXTENDS Sequential, SequenceTheorems, FiniteSetTheorems, RecursionFacts

-----------------------------------------------------------------------------
(* Values and stores. *)

\* A bit read out of a value of bits is a bit, in or out of range.
LEMMA BitOfIsBit ==
  ASSUME NEW bits, \A i \in DOMAIN bits : bits[i] \in Bit, NEW i
  PROVE  BitOf(bits, i) \in Bit
BY DEF BitOf, Bit

\* The word of a variable has a bit of the store at each of its positions.
LEMMA WordBits ==
  ASSUME NEW d, WellFormed(d), NEW env \in Stores(d), NEW v \in Variables(d)
  PROVE  /\ DOMAIN Word(d, env, v) = 1 .. d.width[v]
         /\ \A i \in DOMAIN Word(d, env, v) : Word(d, env, v)[i] \in Bit
<1>1. d.width[v] \in Nat
  BY DEF WellFormed
<1>2. ASSUME NEW i \in 1 .. d.width[v]
      PROVE  <<v, i - 1>> \in Locations(d)
  <2>1. i - 1 \in 0 .. d.width[v] - 1
    BY <1>1
  <2> QED BY <2>1 DEF Locations, LocationsOf
<1>3. \A l \in Locations(d) : env[l] \in Bit
  BY DEF Stores
<1> QED BY <1>2, <1>3 DEF Word

\* Evaluating an expression over a store yields bits.
LEMMA EvalIsBits ==
  ASSUME NEW d, WellFormed(d), NEW env \in Stores(d), NEW e, ExpressionOK(d, e)
  PROVE  \A i \in DOMAIN Eval(d, e, env) : Eval(d, e, env)[i] \in Bit
<1> DEFINE word(i) == Word(d, env, e.args[i])
<1>1. /\ e.op \in {"Constant", "Variable", "BitwiseNot", "BitwiseAnd", "BitwiseXor",
                   "Conditional", "Select"}
      /\ Len(e.args) \in Arity[e.op]
      /\ e.args \in Seq(Variables(d))
  BY DEF ExpressionOK, Arity
<1>2. ASSUME NEW i \in 1 .. Len(e.args)
      PROVE  /\ DOMAIN word(i) = 1 .. d.width[e.args[i]]
             /\ \A j \in DOMAIN word(i) : word(i)[j] \in Bit
  <2>1. e.args[i] \in Variables(d)
    BY <1>1, ElementOfSeq
  <2> QED BY <2>1, WordBits
<1> HIDE DEF word
<1>3. CASE e.op = "Constant"
  <2>1. e.bits \in Seq(Bit)
    BY <1>3 DEF ExpressionOK
  <2>2. \A i \in DOMAIN e.bits : e.bits[i] \in Bit
    BY <2>1
  <2> QED BY <1>3, <2>2 DEF Eval
<1>4. CASE e.op = "Variable"
  <2>1. Len(e.args) = 1
    BY <1>1, <1>4 DEF Arity
  <2> QED BY <1>2, <1>4, <2>1 DEF Eval, word
<1>5. CASE e.op = "BitwiseNot"
  <2>1. Len(e.args) = 1
    BY <1>1, <1>5 DEF Arity
  <2>2. Eval(d, e, env) = [i \in 1 .. d.width[e.args[1]] |-> 1 - word(1)[i]]
    BY <1>5 DEF Eval, word
  <2>3. \A i \in 1 .. d.width[e.args[1]] : word(1)[i] \in Bit
    <3>1. 1 \in 1 .. Len(e.args)
      BY <2>1
    <3> QED BY <1>2, <3>1
  <2>4. \A a \in Bit : 1 - a \in Bit
    BY DEF Bit
  <2> QED BY <2>2, <2>3, <2>4
<1>6. CASE e.op \in {"BitwiseAnd", "BitwiseXor"}
  <2>0. Arity["BitwiseAnd"] = {2} /\ Arity["BitwiseXor"] = {2}
    BY DEF Arity
  <2>1. Len(e.args) = 2
    BY <1>1, <1>6, <2>0
  <2>2. \A i \in 1 .. d.width[e.args[1]] : word(1)[i] \in Bit /\ word(2)[i] \in Bit
    <3>1. d.width[e.args[1]] = d.width[e.args[2]]
      BY <1>6 DEF ExpressionOK
    <3>2. 1 \in 1 .. Len(e.args) /\ 2 \in 1 .. Len(e.args)
      BY <2>1
    <3> QED BY <1>2, <3>1, <3>2
  <2>3. ASSUME NEW a \in Bit, NEW b \in Bit
        PROVE  a * b \in Bit /\ (a + b) % 2 \in Bit
    BY DEF Bit
  <2>4. CASE e.op = "BitwiseAnd"
    <3>1. Eval(d, e, env) = [i \in 1 .. d.width[e.args[1]] |-> word(1)[i] * word(2)[i]]
      BY <2>4 DEF Eval, word
    <3> QED BY <2>2, <2>3, <3>1
  <2>5. CASE e.op = "BitwiseXor"
    <3>1. Eval(d, e, env) = [i \in 1 .. d.width[e.args[1]] |-> (word(1)[i] + word(2)[i]) % 2]
      BY <2>5 DEF Eval, word
    <3> QED BY <2>2, <2>3, <3>1
  <2> QED BY <1>6, <2>4, <2>5
<1>7. CASE e.op = "Conditional"
  <2>1. Len(e.args) = 3
    BY <1>1, <1>7 DEF Arity
  <2>2. Eval(d, e, env) \in {word(2), word(3)}
    BY <1>7 DEF Eval, word
  <2> QED BY <1>2, <2>1, <2>2
<1>8. CASE e.op = "Select"
  <2>1. Len(e.args) \in {1, 2}
    BY <1>1, <1>8 DEF Arity
  <2> DEFINE offset == IF Len(e.args) = 2 THEN ToUsize(word(2)) ELSE e.offset
  <2>2. Eval(d, e, env) = [i \in 1 .. e.width |-> BitOf(word(1), offset + i - 1)]
    BY <1>8 DEF Eval, word
  <2>3. \A i \in DOMAIN word(1) : word(1)[i] \in Bit
    BY <1>2, <2>1
  <2> HIDE DEF offset
  <2> QED BY <2>2, <2>3, BitOfIsBit
<1> QED BY <1>1, <1>3, <1>4, <1>5, <1>6, <1>7, <1>8

\* A value has the width of its expression.
LEMMA EvalIsWord ==
  ASSUME NEW d, WellFormed(d), NEW env, NEW e, ExpressionOK(d, e)
  PROVE  Eval(d, e, env) = [i \in 1 .. ValueWidth(d, e) |-> Eval(d, e, env)[i]]
<1>1. /\ e.op \in {"Constant", "Variable", "BitwiseNot", "BitwiseAnd", "BitwiseXor",
                   "Conditional", "Select"}
      /\ Len(e.args) \in Arity[e.op]
  BY DEF ExpressionOK, Arity
<1>2. CASE e.op = "Constant"
  <2>1. e.bits \in Seq(Bit)
    BY <1>2 DEF ExpressionOK
  <2>2. e.bits = [i \in 1 .. Len(e.bits) |-> e.bits[i]]
    BY <2>1, LenProperties
  <2> QED BY <1>2, <2>2 DEF Eval, ValueWidth
<1>3. CASE e.op = "Variable"
  BY <1>3 DEF Eval, ValueWidth, Word
<1>4. CASE e.op \in {"BitwiseNot", "BitwiseAnd", "BitwiseXor"}
  <2>1. ValueWidth(d, e) = d.width[e.args[1]]
    BY <1>4 DEF ValueWidth
  <2>2. CASE e.op = "BitwiseNot"
    BY <2>1, <2>2 DEF Eval
  <2>3. CASE e.op = "BitwiseAnd"
    BY <2>1, <2>3 DEF Eval
  <2>4. CASE e.op = "BitwiseXor"
    BY <2>1, <2>4 DEF Eval
  <2> QED BY <1>4, <2>2, <2>3, <2>4
<1>5. CASE e.op = "Conditional"
  <2>1. d.width[e.args[2]] = d.width[e.args[3]]
    BY <1>5 DEF ExpressionOK
  <2> QED BY <1>5, <2>1 DEF Eval, ValueWidth, Word
<1>6. CASE e.op = "Select"
  BY <1>6 DEF Eval, ValueWidth
<1> QED BY <1>1, <1>2, <1>3, <1>4, <1>5, <1>6

\* A target's destination lies in its variable, so in the store.
LEMMA DestinationInVariable ==
  ASSUME NEW d, NEW t, NEW env, NEW l \in Destination(d, t, env)
  PROVE  l \in LocationsOf(d, t.var) /\ l[1] = t.var
BY DEF Destination, LocationsOf

\* Writing bits keeps a store a store over the same values.
LEMMA StoreBitsType ==
  ASSUME NEW d, NEW B, Bit \subseteq B, NEW store \in [Locations(d) -> B], NEW t, NEW env,
         NEW value, \A i \in DOMAIN value : value[i] \in Bit
  PROVE  /\ StoreBits(d, store, t, value, env) \in [Locations(d) -> B]
         /\ \A l \in Locations(d) :
              l \notin Destination(d, t, env) => StoreBits(d, store, t, value, env)[l] = store[l]
<1> DEFINE start == TargetStart(d, t, env)
           written == Destination(d, t, env)
<1>1. StoreBits(d, store, t, value, env) =
        [l \in Locations(d) |-> IF l \in written THEN BitOf(value, l[2] - start) ELSE store[l]]
  BY DEF StoreBits
<1>2. \A i : BitOf(value, i) \in B
  BY BitOfIsBit
<1> HIDE DEF start, written
<1>3. \A l \in Locations(d) : store[l] \in B
  OBVIOUS
<1>4. StoreBits(d, store, t, value, env) \in [Locations(d) -> B]
  BY <1>1, <1>2, <1>3
<1>5. \A l \in Locations(d) : l \notin written => StoreBits(d, store, t, value, env)[l] = store[l]
  BY <1>1
<1> QED BY <1>4, <1>5 DEF written

-----------------------------------------------------------------------------
(* The statements of a process. *)

\* Entering a statement keeps a stack within any set that has all the parts
\* of its top-level statement.
LEMMA UnfoldStaysInside ==
  ASSUME NEW d, WellFormed(d), NEW n \in Statements(d), NEW env,
         NEW I, Inside(d, d.root[n]) \subseteq I, NEW rest \in Seq(I)
  PROVE  Unfold(d, d.statement[n], env, rest) \in Seq(I)
<1> DEFINE s == d.statement[n]
<1>1. StatementOK(d, n)
  BY DEF WellFormed
<1>2. \A ids : PartsOf(d, n, ids) => ids \o rest \in Seq(I)
  <2> SUFFICES ASSUME NEW ids, ids \in Seq(Inside(d, d.root[n])) PROVE ids \o rest \in Seq(I)
    BY DEF PartsOf
  <2>1. ids \in Seq(I)
    OBVIOUS
  <2> QED BY <2>1, ConcatProperties
<1>3. CASE s.kind = "Assignment"
  BY <1>3 DEF Unfold
<1>4. CASE s.kind = "Block" /\ PartsOf(d, n, s.body)
  BY <1>2, <1>4 DEF Unfold
<1>5. CASE s.kind = "If" /\ PartsOf(d, n, s.then) /\ PartsOf(d, n, s.else)
  BY <1>2, <1>5 DEF Unfold
<1> QED BY <1>1, <1>3, <1>4, <1>5 DEF StatementOK

\* An assignment writes bits, one of the two stores, and only in the
\* destination of its target.
LEMMA AssignmentWrites ==
  ASSUME NEW d, WellFormed(d), NEW s, ExpressionOK(d, s.value), NEW env \in Stores(d),
         NEW B, Bit \subseteq B, NEW pending \in [Locations(d) -> B]
  PROVE  /\ AssignEnv(d, s, env) \in Stores(d)
         /\ AssignPending(d, s, env, pending) \in [Locations(d) -> B]
         /\ \A l \in Locations(d) :
              /\ AssignEnv(d, s, env)[l] # env[l] =>
                   s.assign # "Nonblocking" /\ l \in Destination(d, s.target, env)
              /\ AssignPending(d, s, env, pending)[l] # pending[l] =>
                   s.assign = "Nonblocking" /\ l \in Destination(d, s.target, env)
<1> DEFINE value == Eval(d, s.value, env)
<1>1. \A i \in DOMAIN value : value[i] \in Bit
  BY EvalIsBits
<1> HIDE DEF value
<1>2. env \in [Locations(d) -> Bit]
  BY DEF Stores
<1>3. /\ StoreBits(d, env, s.target, value, env) \in [Locations(d) -> Bit]
      /\ \A l \in Locations(d) :
           l \notin Destination(d, s.target, env) =>
             StoreBits(d, env, s.target, value, env)[l] = env[l]
  <2>1. Bit \subseteq Bit
    OBVIOUS
  <2> QED BY ONLY <1>1, <1>2, <2>1, StoreBitsType
<1>4. /\ StoreBits(d, pending, s.target, value, env) \in [Locations(d) -> B]
      /\ \A l \in Locations(d) :
           l \notin Destination(d, s.target, env) =>
             StoreBits(d, pending, s.target, value, env)[l] = pending[l]
  BY ONLY <1>1, pending \in [Locations(d) -> B], Bit \subseteq B, StoreBitsType
<1>5. AssignEnv(d, s, env) =
        IF s.assign = "Nonblocking" THEN env ELSE StoreBits(d, env, s.target, value, env)
  BY DEF AssignEnv, value
<1>6. AssignPending(d, s, env, pending) =
        IF s.assign = "Nonblocking" THEN StoreBits(d, pending, s.target, value, env) ELSE pending
  BY DEF AssignPending, value
<1> QED BY <1>2, <1>3, <1>4, <1>5, <1>6 DEF Stores

-----------------------------------------------------------------------------
(* Kinds of assignments and footprints. *)

\* analyze accepts no variable that is written with both kinds.
LEMMA SupportedNotMixed ==
  ASSUME NEW d, Supported(d)
  PROVE  Blocking(d) \cap Nonblocking(d) = {}
BY DEF Supported, AnalyzeError

\* The variable an assignment of a process writes is counted with its kind.
LEMMA AssignedVariable ==
  ASSUME NEW d, NEW p \in Processes(d),
         NEW a \in Inside(d, d.sequential[p]),
         d.statement[a].kind = "Assignment",
         d.statement[a].assign \in {"Blocking", "Nonblocking", "Continuous"}
  PROVE  /\ d.statement[a].assign = "Nonblocking" =>
              d.statement[a].target.var \in Nonblocking(d)
         /\ d.statement[a].assign # "Nonblocking" =>
              d.statement[a].target.var \in Blocking(d)
<1>1. a \in AssignmentsIn(d, d.sequential[p])
  BY DEF AssignmentsIn
<1>2. d.sequential[p] \in ToIds(d.sequential)
  BY DEF ToIds, Processes
<1>3. \A kinds : d.statement[a].assign \in kinds =>
        d.statement[a].target.var \in AssignedBy(d, d.sequential, kinds)
  BY <1>1, <1>2 DEF AssignedBy
<1> QED BY <1>3 DEF Blocking, Nonblocking

\* The element an index selects is one of the regions of the index.
LEMMA ElementInRegions ==
  ASSUME NEW d, WellFormed(d), NEW t, TargetOK(d, t), NEW env, IndexDeclared(d, t, env)
  PROVE  \E r \in ElementRegions(d, t) :
           /\ r.start \in Int /\ r.width \in Nat
           /\ t.index = <<>> => r.start = 0 /\ r.width = d.width[t.var]
           /\ t.index # <<>> => r.width = ElementWidth(d, t.var)
           /\ t.select = <<>> => r.start = TargetStart(d, t, env)
           /\ t.select # <<>> =>
                r.start + ToUsize(Eval(d, t.select[1].offset, env)) = TargetStart(d, t, env)
<1>1. d.width[t.var] \in Nat
  BY DEF TargetOK, WellFormed
<1>2. CASE t.index = <<>>
  <2>1. ElementRegions(d, t) = {[start |-> 0, width |-> d.width[t.var]]}
    BY <1>2 DEF ElementRegions
  <2>2. TargetStart(d, t, env) =
          0 + (IF t.select = <<>> THEN 0 ELSE ToUsize(Eval(d, t.select[1].offset, env)))
    BY <1>2 DEF TargetStart
  <2> QED BY <1>1, <1>2, <2>1, <2>2
<1>3. CASE t.index # <<>>
  <2> DEFINE layout == d.indices[t.var]
             index == ToUsize(Eval(d, t.index[1], env))
             k == CHOOSE j \in DOMAIN layout : layout[j] = index
             EW == ElementWidth(d, t.var)
             r == [start |-> (k - 1) * EW, width |-> EW]
  <2>1. layout \in Seq(Int) /\ layout # <<>>
    BY <1>3 DEF TargetOK
  <2>2. Len(layout) \in Nat \ {0} /\ DOMAIN layout = 1 .. Len(layout)
    BY <2>1, EmptySeq, LenProperties
  <2>3. EW \in Nat
    <3>1. \A m \in Nat, n \in Nat \ {0} : m \div n \in Nat
      OBVIOUS
    <3> QED BY <1>1, <2>2, <3>1 DEF ElementWidth
  <2>4. k \in DOMAIN layout /\ layout[k] = index
    BY <1>3 DEF IndexDeclared
  <2> HIDE DEF k
  <2>5. r.start \in Int /\ r.width \in Nat
    <3>1. k - 1 \in Int
      BY <2>2, <2>4
    <3> QED BY <2>3, <3>1
  <2>6. r \in ElementRegions(d, t)
    <3>1. CASE t.index[1].op = "Constant"
      <4>1. Eval(d, t.index[1], env) = t.index[1].bits
        BY <3>1 DEF Eval
      <4>2. layout[k] = ToUsize(t.index[1].bits)
        BY <2>4, <4>1
      <4> QED BY <1>3, <2>4, <3>1, <4>2 DEF ElementRegions
    <3>2. CASE t.index[1].op # "Constant"
      BY <1>3, <2>4, <3>2 DEF ElementRegions
    <3> QED BY <3>1, <3>2
  <2>7. TargetStart(d, t, env) =
          r.start + (IF t.select = <<>> THEN 0 ELSE ToUsize(Eval(d, t.select[1].offset, env)))
    BY <1>3 DEF TargetStart, k
  <2> QED BY <1>3, <2>5, <2>6, <2>7
<1> QED BY <1>2, <1>3

\* Whatever the store, an assignment writes only locations of the footprint
\* target_regions computes for its target without knowing the store.
LEMMA DestinationInFootprint ==
  ASSUME NEW d, WellFormed(d), NEW t, TargetOK(d, t), NEW env \in Stores(d),
         NEW l \in Destination(d, t, env)
  PROVE  l \in TargetFootprint(d, t)
<1> DEFINE start == TargetStart(d, t, env)
           width == TargetWidth(d, t)
<1>1. /\ IndexDeclared(d, t, env) /\ start + width <= d.width[t.var]
      /\ start <= l[2] /\ l[2] < start + width
  BY DEF Destination
<1>2. l = <<t.var, l[2]>> /\ l[2] \in Int
  <2>1. d.width[t.var] \in Nat
    BY DEF TargetOK, WellFormed
  <2>2. PICK i \in 0 .. d.width[t.var] - 1 : l = <<t.var, i>>
    BY DEF Destination, LocationsOf
  <2> QED BY <2>1, <2>2
<1>3. PICK parent \in ElementRegions(d, t) :
        /\ parent.start \in Int /\ parent.width \in Nat
        /\ t.index = <<>> => parent.start = 0 /\ parent.width = d.width[t.var]
        /\ t.index # <<>> => parent.width = ElementWidth(d, t.var)
        /\ t.select = <<>> => parent.start = start
        /\ t.select # <<>> =>
             parent.start + ToUsize(Eval(d, t.select[1].offset, env)) = start
  BY <1>1, ElementInRegions
<1> HIDE DEF start, width
<1> SUFFICES \E r \in TargetRegions(d, t) : l[2] \in r.start .. r.start + r.width - 1
  BY <1>2 DEF TargetFootprint
<1>4. CASE t.select = <<>>
  <2>1. width = parent.width
    BY <1>3, <1>4 DEF TargetWidth, width
  <2>2. parent \in TargetRegions(d, t)
    BY <1>4 DEF TargetRegions
  <2>3. l[2] \in parent.start .. parent.start + parent.width - 1
    BY <1>1, <1>2, <1>3, <1>4, <2>1
  <2> QED BY <2>2, <2>3
<1>5. CASE t.select # <<>>
  <2> DEFINE s == t.select[1]
             o == ToUsize(Eval(d, s.offset, env))
             r == [start |-> parent.start + o, width |-> s.width]
  <2>1. s.width \in Nat /\ o \in Nat
    BY <1>5 DEF TargetOK, OffsetOK
  <2>2. t.index # <<>> => o + s.width <= parent.width
    BY <1>3, <1>5 DEF TargetOK, OffsetOK
  <2>3. s.offset.op = "Constant" => o = ToUsize(s.offset.bits)
    BY DEF Eval
  <2>4. width = s.width
    BY <1>5 DEF TargetWidth, width
  <2>5. start = parent.start + o
    BY <1>3, <1>5
  <2> HIDE DEF o
  <2>6. o + s.width <= parent.width
    BY <1>1, <1>3, <2>1, <2>2, <2>4, <2>5
  <2>7. r \in SelectRegions(s, parent)
    <3>1. o \in 0 .. parent.width - s.width
      BY <1>3, <2>1, <2>6
    <3> QED BY <2>3, <2>6, <3>1 DEF SelectRegions
  <2>8. r \in TargetRegions(d, t)
    BY <1>5, <2>7 DEF TargetRegions
  <2>9. l[2] \in r.start .. r.start + r.width - 1
    BY <1>1, <1>2, <1>3, <2>1, <2>4, <2>5
  <2> QED BY <2>8, <2>9
<1> QED BY <1>4, <1>5


-----------------------------------------------------------------------------
(* What a step depends on: nothing but the variables the top-level         *)
(* statement reads.                                                        *)

Agree(d, vs, env, other) == \A l \in LocationsIn(d, vs) : env[l] = other[l]

\* The bits of a variable.
LEMMA WordAgrees ==
  ASSUME NEW d, WellFormed(d), NEW v \in Variables(d), NEW vs, v \in vs,
         NEW env, NEW other, Agree(d, vs, env, other)
  PROVE  Word(d, env, v) = Word(d, other, v)
<1>1. d.width[v] \in Nat
  BY DEF WellFormed
<1>2. ASSUME NEW i \in 1 .. d.width[v]
      PROVE  env[<<v, i - 1>>] = other[<<v, i - 1>>]
  <2>1. i - 1 \in 0 .. d.width[v] - 1
    BY <1>1
  <2> QED BY <2>1 DEF Agree, LocationsIn, LocationsOf
<1> QED BY <1>2 DEF Word

\* The value of an expression.
LEMMA EvalAgrees ==
  ASSUME NEW d, WellFormed(d), NEW e, ExpressionOK(d, e), NEW vs, ExpressionReads(e) \subseteq vs,
         NEW env, NEW other, Agree(d, vs, env, other)
  PROVE  Eval(d, e, env) = Eval(d, e, other)
<1>1. /\ e.op \in {"Constant", "Variable", "BitwiseNot", "BitwiseAnd", "BitwiseXor",
                   "Conditional", "Select"}
      /\ Len(e.args) \in Arity[e.op]
      /\ e.args \in Seq(Variables(d))
  BY DEF ExpressionOK, Arity
<1>2. ASSUME NEW i \in 1 .. Len(e.args)
      PROVE  Word(d, env, e.args[i]) = Word(d, other, e.args[i])
  <2>1. e.args[i] \in Variables(d) /\ i \in DOMAIN e.args
    BY <1>1, ElementOfSeq
  <2>2. e.args[i] \in vs
    BY <2>1 DEF ExpressionReads
  <2> QED BY <2>1, <2>2, WordAgrees
<1>3. CASE e.op = "Constant"
  BY <1>3 DEF Eval
<1>4. CASE e.op \in {"Variable", "BitwiseNot"}
  <2>1. 1 \in 1 .. Len(e.args)
    BY <1>1, <1>4 DEF Arity
  <2> QED BY <1>2, <1>4, <2>1 DEF Eval
<1>5. CASE e.op \in {"BitwiseAnd", "BitwiseXor"}
  <2>1. 1 \in 1 .. Len(e.args) /\ 2 \in 1 .. Len(e.args)
    BY <1>1, <1>5 DEF Arity
  <2> QED BY <1>2, <1>5, <2>1 DEF Eval
<1>6. CASE e.op = "Conditional"
  <2>1. Len(e.args) = 3
    BY <1>1, <1>6 DEF Arity
  <2>2. 1 \in 1 .. Len(e.args) /\ 2 \in 1 .. Len(e.args) /\ 3 \in 1 .. Len(e.args)
    BY <2>1
  <2> QED BY <1>2, <1>6, <2>2 DEF Eval
<1>7. CASE e.op = "Select"
  <2>1. 1 \in 1 .. Len(e.args) /\ (Len(e.args) = 2 => 2 \in 1 .. Len(e.args))
    BY <1>1, <1>7 DEF Arity
  <2> QED BY <1>2, <1>7, <2>1 DEF Eval
<1> QED BY <1>1, <1>3, <1>4, <1>5, <1>6, <1>7

\* The places a target names.
LEMMA TargetAgrees ==
  ASSUME NEW d, WellFormed(d), NEW t, TargetOK(d, t), NEW vs, TargetReads(t) \subseteq vs,
         NEW env, NEW other, Agree(d, vs, env, other)
  PROVE  /\ IndexDeclared(d, t, env) = IndexDeclared(d, t, other)
         /\ TargetStart(d, t, env) = TargetStart(d, t, other)
         /\ Destination(d, t, env) = Destination(d, t, other)
<1>1. t.index # <<>> => Eval(d, t.index[1], env) = Eval(d, t.index[1], other)
  <2> SUFFICES ASSUME t.index # <<>> PROVE Eval(d, t.index[1], env) = Eval(d, t.index[1], other)
    OBVIOUS
  <2>1. t.index = <<t.index[1]>> /\ ExpressionOK(d, t.index[1])
    BY DEF TargetOK
  <2>2. 1 \in DOMAIN t.index
    BY <2>1
  <2>3. ExpressionReads(t.index[1]) \subseteq vs
    BY <2>2 DEF TargetReads
  <2> QED BY <2>1, <2>3, EvalAgrees
<1>2. t.select # <<>> =>
        Eval(d, t.select[1].offset, env) = Eval(d, t.select[1].offset, other)
  <2> SUFFICES ASSUME t.select # <<>>
               PROVE  Eval(d, t.select[1].offset, env) = Eval(d, t.select[1].offset, other)
    OBVIOUS
  <2>1. t.select = <<t.select[1]>> /\ ExpressionOK(d, t.select[1].offset)
    BY DEF TargetOK
  <2>2. 1 \in DOMAIN t.select
    BY <2>1
  <2>3. ExpressionReads(t.select[1].offset) \subseteq vs
    BY <2>2 DEF TargetReads
  <2> QED BY <2>1, <2>3, EvalAgrees
<1>3. IndexDeclared(d, t, env) = IndexDeclared(d, t, other)
  BY <1>1 DEF IndexDeclared
<1>4. TargetStart(d, t, env) = TargetStart(d, t, other)
  <2> DEFINE at(index) == CHOOSE k \in DOMAIN d.indices[t.var] : d.indices[t.var][k] = index
             start(index, offset) ==
               (IF t.index = <<>> THEN 0 ELSE (at(index) - 1) * ElementWidth(d, t.var))
                 + (IF t.select = <<>> THEN 0 ELSE offset)
  <2>1. \A e : TargetStart(d, t, e) =
                 start(ToUsize(Eval(d, t.index[1], e)), ToUsize(Eval(d, t.select[1].offset, e)))
    BY DEF TargetStart
  <2> HIDE DEF at
  <2> QED BY <1>1, <1>2, <2>1
<1> QED BY <1>3, <1>4 DEF Destination

\* A statement of the process.
LEMMA StatementAgrees ==
  ASSUME NEW d, WellFormed(d), NEW r, NEW n \in Inside(d, r), NEW env, NEW other,
         Agree(d, StatementReads(d, r), env, other)
  PROVE  LET s == d.statement[n] IN
         /\ \A rest : Unfold(d, s, env, rest) = Unfold(d, s, other, rest)
         /\ s.kind = "Assignment" =>
              /\ Eval(d, s.value, env) = Eval(d, s.value, other)
              /\ TargetStart(d, s.target, env) = TargetStart(d, s.target, other)
              /\ Destination(d, s.target, env) = Destination(d, s.target, other)
<1> DEFINE s == d.statement[n]
           V == StatementReads(d, r)
<1>1. StatementOK(d, n)
  BY DEF WellFormed, Inside
<1>2. CASE s.kind = "Assignment"
  <2>1. TargetReads(s.target) \subseteq V /\ ExpressionReads(s.value) \subseteq V
    BY <1>2 DEF StatementReads
  <2>2. TargetOK(d, s.target) /\ ExpressionOK(d, s.value)
    BY <1>1, <1>2 DEF StatementOK
  <2>3. Eval(d, s.value, env) = Eval(d, s.value, other)
    BY <2>1, <2>2, EvalAgrees
  <2>4. /\ TargetStart(d, s.target, env) = TargetStart(d, s.target, other)
        /\ Destination(d, s.target, env) = Destination(d, s.target, other)
    BY <2>1, <2>2, TargetAgrees
  <2> QED BY <1>2, <2>3, <2>4 DEF Unfold
<1>3. CASE s.kind = "If"
  <2>1. ExpressionReads(s.condition) \subseteq V
    BY <1>3 DEF StatementReads
  <2>2. ExpressionOK(d, s.condition)
    BY <1>1, <1>3 DEF StatementOK
  <2>3. Eval(d, s.condition, env) = Eval(d, s.condition, other)
    BY <2>1, <2>2, EvalAgrees
  <2> QED BY <1>3, <2>3 DEF Unfold
<1>4. CASE s.kind = "Block"
  BY <1>4 DEF Unfold
<1> QED BY <1>1, <1>2, <1>3, <1>4 DEF StatementOK

\* The variables an expression or a target reads are declared.
LEMMA ExpressionReadsDeclared ==
  ASSUME NEW d, NEW e, ExpressionOK(d, e)
  PROVE  ExpressionReads(e) \subseteq Variables(d)
BY DEF ExpressionOK, ExpressionReads

\* What targets read is declared.
LEMMA TargetReadsDeclared ==
  ASSUME NEW d, NEW t, TargetOK(d, t)
  PROVE  TargetReads(t) \subseteq Variables(d)
<1>1. ASSUME NEW i \in DOMAIN t.index
      PROVE  ExpressionReads(t.index[i]) \subseteq Variables(d)
  <2>1. t.index = <<t.index[1]>> /\ ExpressionOK(d, t.index[1])
    BY DEF TargetOK
  <2> QED BY <2>1, ExpressionReadsDeclared
<1>2. ASSUME NEW i \in DOMAIN t.select
      PROVE  ExpressionReads(t.select[i].offset) \subseteq Variables(d)
  <2>1. t.select = <<t.select[1]>> /\ ExpressionOK(d, t.select[1].offset)
    BY DEF TargetOK
  <2> QED BY <2>1, ExpressionReadsDeclared
<1>3. t.var \in Variables(d)
  BY DEF TargetOK
<1> QED BY <1>1, <1>2, <1>3 DEF TargetReads

\* So are those a top-level statement reads and writes.
LEMMA ReadsDeclared ==
  ASSUME NEW d, WellFormed(d), NEW r
  PROVE  StatementReads(d, r) \subseteq Variables(d)
<1>1. ASSUME NEW m \in Inside(d, r)
      PROVE  LET s == d.statement[m] IN
             /\ s.kind = "Assignment" =>
                  TargetReads(s.target) \cup ExpressionReads(s.value) \subseteq Variables(d)
             /\ s.kind = "If" => ExpressionReads(s.condition) \subseteq Variables(d)
  <2>1. StatementOK(d, m)
    BY DEF Inside, WellFormed
  <2> QED BY <2>1, ExpressionReadsDeclared, TargetReadsDeclared DEF StatementOK
<1> QED BY <1>1 DEF StatementReads

\* What statements write is declared.
LEMMA WritesDeclared ==
  ASSUME NEW d, WellFormed(d), NEW r
  PROVE  StatementWrites(d, r) \subseteq Variables(d)
<1>1. ASSUME NEW a \in AssignmentsIn(d, r)
      PROVE  d.statement[a].target.var \in Variables(d)
  <2>1. StatementOK(d, a) /\ d.statement[a].kind = "Assignment"
    BY DEF AssignmentsIn, Inside, WellFormed
  <2> QED BY <2>1 DEF StatementOK, TargetOK
<1> QED BY <1>1 DEF StatementWrites

-----------------------------------------------------------------------------
(* Machines. *)

Machines(d) ==
  [stack : Seq(Statements(d)), env : Stores(d), pending : Stores(d), panicked : BOOLEAN]

\* A machine stays a machine over the design, whatever statement it runs.
LEMMA ExecStepType ==
  ASSUME NEW d, WellFormed(d), NEW m \in Machines(d)
  PROVE  ExecStep(d, m) \in Machines(d)
<1>1. /\ m.stack \in Seq(Statements(d)) /\ m.env \in Stores(d) /\ m.pending \in Stores(d)
      /\ m.panicked \in BOOLEAN
      /\ m = [stack |-> m.stack, env |-> m.env, pending |-> m.pending, panicked |-> m.panicked]
  BY DEF Machines
<1>2. CASE m.stack = <<>> \/ m.panicked
  BY <1>2 DEF ExecStep
<1>3. CASE m.stack # <<>> /\ ~ m.panicked
  <2> DEFINE n == Head(m.stack)
             s == d.statement[n]
  <2>1. n \in Statements(d) /\ Tail(m.stack) \in Seq(Statements(d))
    BY <1>1, <1>3, HeadTailProperties
  <2>2. StatementOK(d, n)
    BY <2>1 DEF WellFormed
  <2>3. CASE Panics(d, s, m.env)
    <3>1. ExecStep(d, m) = [m EXCEPT !.panicked = TRUE]
      BY <1>3, <2>3 DEF ExecStep
    <3> QED BY <1>1, <3>1 DEF Machines
  <2>4. CASE ~ Panics(d, s, m.env) /\ s.kind = "Assignment"
    <3>1. ExpressionOK(d, s.value)
      BY <2>2, <2>4 DEF StatementOK
    <3>2. m.pending \in [Locations(d) -> Bit] /\ Bit \subseteq Bit
      BY <1>1 DEF Stores
    <3> HIDE DEF s
    <3>3. /\ AssignEnv(d, s, m.env) \in Stores(d)
          /\ AssignPending(d, s, m.env, m.pending) \in [Locations(d) -> Bit]
      BY ONLY WellFormed(d), <1>1, <3>1, <3>2, AssignmentWrites
    <3>4. ExecStep(d, m) =
            [m EXCEPT !.stack = Tail(m.stack), !.env = AssignEnv(d, s, m.env),
                      !.pending = AssignPending(d, s, m.env, m.pending)]
      BY <1>3, <2>4 DEF ExecStep, s
    <3> QED BY <1>1, <2>1, <3>3, <3>4 DEF Machines, Stores
  <2>5. CASE ~ Panics(d, s, m.env) /\ s.kind # "Assignment"
    <3>1. Unfold(d, s, m.env, Tail(m.stack)) \in Seq(Statements(d))
      <4>1. Inside(d, d.root[n]) \subseteq Statements(d)
        BY DEF Inside
      <4> QED BY <2>1, <4>1, UnfoldStaysInside
    <3>2. ExecStep(d, m) = [m EXCEPT !.stack = Unfold(d, s, m.env, Tail(m.stack))]
      BY <1>3, <2>5 DEF ExecStep
    <3> QED BY <1>1, <3>1, <3>2 DEF Machines
  <2> QED BY <2>3, <2>4, <2>5
<1> QED BY <1>1, <1>2, <1>3

\* Run takes as many steps as the design has statements.
LEMMA RunSteps ==
  ASSUME NEW d, WellFormed(d), NEW ids \in Seq(Statements(d)), NEW env \in Stores(d)
  PROVE  LET N == Cardinality(Statements(d)) IN
         \E f \in [0 .. N -> Machines(d)] :
           /\ N \in Nat
           /\ f[0] = Machine(ids, env, env) /\ f[N] = Run(d, ids, env)
           /\ \A k \in 1 .. N : f[k] = ExecStep(d, f[k - 1])
<1> DEFINE N == Cardinality(Statements(d))
           start == Machine(ids, env, env)
           now(m) == IF m = m THEN m ELSE start
           after[k \in 0 .. N] == IF k = 0 THEN start ELSE now(ExecStep(d, after[k - 1]))
           step == [k \in 1 .. N |-> [m \in Machines(d) |-> ExecStep(d, m)]]
<1>1. N \in Nat
  BY FS_CardinalityType DEF WellFormed
<1>2. start \in Machines(d)
  BY DEF Machine, Machines
<1>3. \A m : now(m) = m
  OBVIOUS
<1>4. Run(d, ids, env) = after[N]
  BY DEF Run
<1> HIDE DEF now, start, N
<1>5. step \in Steps(N, Machines(d))
  BY ExecStepType DEF Steps
<1> HIDE DEF step
<1>6. PICK g : Iterates(g, N, Machines(d), start, step)
  BY ONLY <1>1, <1>2, <1>5, IterationExists
<1>7. /\ g = [k \in 0 .. N |-> IF k = 0 THEN start ELSE step[k][g[k - 1]]]
      /\ \A k \in 0 .. N : g[k] \in Machines(d)
      /\ \A k \in 1 .. N : k - 1 \in 0 .. N /\ g[k - 1] \in Machines(d)
  BY ONLY <1>1, <1>6, IterationValues
<1>8. g = [k \in 0 .. N |-> IF k = 0 THEN start ELSE now(ExecStep(d, g[k - 1]))]
  <2>1. \A k \in 1 .. N : step[k][g[k - 1]] = now(ExecStep(d, g[k - 1]))
    BY <1>3, <1>7 DEF step
  <2>2. \A k \in 0 .. N : k = 0 \/ k \in 1 .. N
    BY <1>1
  <2> QED BY <1>7, <2>1, <2>2
<1>9. after = [k \in 0 .. N |-> IF k = 0 THEN start ELSE now(ExecStep(d, after[k - 1]))]
  BY <1>8
<1> HIDE DEF after
<1>10. after[0] = start
  BY <1>1, <1>9
<1>11. \A k \in 1 .. N : k \in 0 .. N /\ after[k] = ExecStep(d, after[k - 1])
  <2> TAKE k \in 1 .. N
  <2>1. after[k] = now(ExecStep(d, after[k - 1])) /\ k \in 0 .. N
    BY <1>1, <1>9
  <2> QED BY <1>3, <2>1
<1>12. \A k \in 0 .. N : after[k] \in Machines(d)
  <2>1. \A k \in 1 .. N : after[k - 1] \in Machines(d) => after[k] \in Machines(d)
    BY <1>11, ExecStepType
  <2>2. after[0] \in Machines(d)
    BY <1>2, <1>10
  <2> QED BY ONLY <1>1, <2>1, <2>2, IterationInvariant
<1>13. after \in [0 .. N -> Machines(d)]
  BY <1>9, <1>12
<1> QED BY <1>1, <1>4, <1>10, <1>11, <1>13 DEF start, N

\* What a whole run leaves is a machine over the design.
LEMMA RunType ==
  ASSUME NEW d, WellFormed(d), NEW ids \in Seq(Statements(d)), NEW env \in Stores(d)
  PROVE  Run(d, ids, env) \in Machines(d)
<1> DEFINE N == Cardinality(Statements(d))
<1>1. PICK f \in [0 .. N -> Machines(d)] : N \in Nat /\ f[N] = Run(d, ids, env)
  BY RunSteps
<1> HIDE DEF N
<1>2. f[N] \in Machines(d)
  BY <1>1
<1> QED BY <1>1, <1>2

-----------------------------------------------------------------------------
(* order_combinational. *)

\* The statement taken next is one of those left, and can be taken.
LEMMA ReadyInRange ==
  ASSUME NEW d, NEW I, NEW ids \in Seq(I), NEW available
  PROVE  LET i == ReadyStatement(d, ids, available) IN
         /\ i \in 0 .. Len(ids)
         /\ i # 0 => StatementReads(d, ids[i]) \subseteq available
<1> DEFINE ready == {i \in 1 .. Len(ids) : StatementReads(d, ids[i]) \subseteq available}
<1>1. ReadyStatement(d, ids, available) =
        IF ready # {} THEN CHOOSE x \in ready : \A y \in ready : x <= y ELSE 0
  BY DEF ReadyStatement, SelectInSeq, Min
<1>2. Len(ids) \in Nat
  BY LenProperties
<1>3. ready # {} => \E x \in ready : \A y \in ready : x <= y
  <2>1. ready \subseteq Nat
    OBVIOUS
  <2> HIDE DEF ready
  <2> QED BY <2>1, LeastNatural
<1>4. ready \subseteq 1 .. Len(ids)
  OBVIOUS
<1> HIDE DEF ready
<1>5. CASE ready = {}
  BY <1>1, <1>2, <1>5
<1>6. CASE ready # {}
  <2> DEFINE first == CHOOSE x \in ready : \A y \in ready : x <= y
  <2>1. first \in ready
    BY <1>3, <1>6
  <2>2. ReadyStatement(d, ids, available) = first
    BY <1>1, <1>6
  <2>3. StatementReads(d, ids[first]) \subseteq available
    BY <2>1 DEF ready
  <2> HIDE DEF first
  <2> QED BY <1>2, <1>4, <2>1, <2>2, <2>3
<1> QED BY <1>5, <1>6

\* Without one of its statements a list has the others, each in one place.
LEMMA RemoveAtFacts ==
  ASSUME NEW I, NEW ids \in Seq(I), Listed(ids), NEW i \in 1 .. Len(ids)
  PROVE  /\ ids[i] \in I /\ RemoveAt(ids, i) \in Seq(I) /\ Listed(RemoveAt(ids, i))
         /\ Len(RemoveAt(ids, i)) = Len(ids) - 1
         /\ ToIds(RemoveAt(ids, i)) = ToIds(ids) \ {ids[i]}
<1> DEFINE n == Len(ids)
           before == SubSeq(ids, 1, i - 1)
           after == SubSeq(ids, i + 1, n)
           rest == RemoveAt(ids, i)
<1>1. n \in Nat /\ DOMAIN ids = 1 .. n /\ \A j \in 1 .. n : ids[j] \in I
  BY LenProperties, ElementOfSeq
<1>2. /\ before \in Seq(I) /\ Len(before) = i - 1
      /\ \A j \in 1 .. i - 1 : before[j] = ids[j]
  <2>1. \A j \in 1 .. i - 1 : ids[j] \in I
    BY <1>1
  <2> QED BY <1>1, <2>1, SubSeqProperties
<1>3. /\ after \in Seq(I) /\ Len(after) = n - i
      /\ \A j \in 1 .. n - i : after[j] = ids[i + j]
  <2>1. \A j \in i + 1 .. n : ids[j] \in I
    BY <1>1
  <2>2. i + 1 \in Int /\ n \in Int
    BY <1>1
  <2>3. /\ after \in Seq(I)
        /\ Len(after) = IF i + 1 <= n THEN n - (i + 1) + 1 ELSE 0
        /\ \A j \in 1 .. n - (i + 1) + 1 : after[j] = ids[(i + 1) + j - 1]
    BY <2>1, <2>2, SubSeqProperties
  <2> HIDE DEF after
  <2>4. \A j \in 1 .. n - i : j \in 1 .. n - (i + 1) + 1 /\ (i + 1) + j - 1 = i + j
    BY <1>1
  <2>5. (IF i + 1 <= n THEN n - (i + 1) + 1 ELSE 0) = n - i
    <3>1. i \in 1 .. n /\ n \in Nat
      BY <1>1
    <3> HIDE DEF n
    <3>2. CASE i + 1 <= n
      BY <3>1, <3>2
    <3>3. CASE i = n
      BY <3>1, <3>3
    <3>4. i + 1 <= n \/ i = n
      BY <3>1
    <3> QED BY <3>2, <3>3, <3>4
  <2>6. \A j \in 1 .. n - i : after[j] = ids[i + j]
    BY <2>3, <2>4
  <2>7. Len(after) = n - i
    BY ONLY <2>3, <2>5
  <2> QED BY <2>3, <2>6, <2>7
<1> HIDE DEF before, after
<1>4. rest = before \o after
  BY DEF RemoveAt, before, after
<1>5. /\ rest \in Seq(I) /\ Len(rest) = n - 1
      /\ \A j \in 1 .. n - 1 : rest[j] = IF j < i THEN ids[j] ELSE ids[j + 1]
  <2>1. /\ rest \in Seq(I) /\ Len(rest) = Len(before) + Len(after)
        /\ \A j \in 1 .. Len(before) + Len(after) :
             rest[j] = IF j <= Len(before) THEN before[j] ELSE after[j - Len(before)]
    <3> HIDE DEF rest
    <3>1. before \in Seq(I) /\ after \in Seq(I)
      BY <1>2, <1>3
    <3> QED BY ONLY <1>4, <3>1, ConcatProperties
  <2>2. Len(rest) = n - 1
    BY <1>1, <1>2, <1>3, <2>1
  <2>3. ASSUME NEW j \in 1 .. n - 1
        PROVE  rest[j] = IF j < i THEN ids[j] ELSE ids[j + 1]
    <3>1. CASE j < i
      <4>1. j \in 1 .. i - 1 /\ j <= Len(before) /\ j \in 1 .. Len(before) + Len(after)
        BY <1>1, <1>2, <1>3, <3>1
      <4> QED BY <1>2, <2>1, <3>1, <4>1
    <3>2. CASE ~ (j < i)
      <4>1. /\ ~ (j <= Len(before)) /\ j \in 1 .. Len(before) + Len(after)
            /\ j - Len(before) \in 1 .. n - i /\ i + (j - Len(before)) = j + 1
        BY <1>1, <1>2, <1>3, <3>2
      <4> QED BY <1>3, <2>1, <3>2, <4>1
    <3> QED BY <3>1, <3>2
  <2> QED BY <2>1, <2>2, <2>3
<1> HIDE DEF rest
<1>6. DOMAIN rest = 1 .. n - 1
  BY <1>5, LenProperties
<1>7. \A j, k \in 1 .. n : ids[j] = ids[k] => j = k
  BY <1>1 DEF Listed
<1>8. Listed(rest)
  <2> SUFFICES ASSUME NEW j \in 1 .. n - 1, NEW k \in 1 .. n - 1, rest[j] = rest[k]
               PROVE  j = k
    BY <1>6 DEF Listed
  <2>1. j \in 1 .. n /\ k \in 1 .. n /\ j + 1 \in 1 .. n /\ k + 1 \in 1 .. n
    BY <1>1
  <2> QED BY <1>5, <1>7, <2>1
<1>9. ToIds(rest) = ToIds(ids) \ {ids[i]}
  <2>1. ASSUME NEW j \in 1 .. n - 1
        PROVE  rest[j] \in ToIds(ids) \ {ids[i]}
    <3>1. j \in 1 .. n /\ j + 1 \in 1 .. n /\ i \in 1 .. n
      BY <1>1
    <3>2. j < i => j # i
      BY <1>1
    <3>3. ~ (j < i) => j + 1 # i
      BY <1>1
    <3> QED BY <1>1, <1>5, <1>7, <3>1, <3>2, <3>3 DEF ToIds
  <2>2. ASSUME NEW j \in 1 .. n, ids[j] # ids[i]
        PROVE  ids[j] \in ToIds(rest)
    <3>1. j # i
      BY <2>2
    <3>2. CASE j < i
      <4>1. j \in 1 .. n - 1
        BY <1>1, <3>2
      <4>2. rest[j] = ids[j]
        BY <1>5, <3>2, <4>1
      <4> QED BY <1>6, <4>1, <4>2 DEF ToIds
    <3>3. CASE j > i
      <4>1. j - 1 \in 1 .. n - 1 /\ ~ (j - 1 < i) /\ (j - 1) + 1 = j
        BY <1>1, <3>3
      <4>2. rest[j - 1] = ids[j]
        BY <1>5, <4>1
      <4> QED BY <1>6, <4>1, <4>2 DEF ToIds
    <3> QED BY <1>1, <3>1, <3>2, <3>3
  <2> QED BY <1>1, <1>6, <2>1, <2>2 DEF ToIds
<1> QED BY <1>1, <1>5, <1>8, <1>9 DEF rest

\* Two lists, one after the other.
LEMMA ListedConcat ==
  ASSUME NEW I, NEW p \in Seq(I), NEW q \in Seq(I), Listed(p), Listed(q),
         ToIds(p) \cap ToIds(q) = {}
  PROVE  /\ p \o q \in Seq(I) /\ Listed(p \o q)
         /\ ToIds(p \o q) = ToIds(p) \cup ToIds(q)
<1> DEFINE pq == p \o q
<1>1. /\ pq \in Seq(I) /\ Len(pq) = Len(p) + Len(q)
      /\ \A j \in 1 .. Len(p) + Len(q) : pq[j] = IF j <= Len(p) THEN p[j] ELSE q[j - Len(p)]
  BY ConcatProperties
<1> HIDE DEF pq
<1>2. /\ Len(p) \in Nat /\ Len(q) \in Nat /\ DOMAIN pq = 1 .. Len(p) + Len(q)
      /\ DOMAIN p = 1 .. Len(p) /\ DOMAIN q = 1 .. Len(q)
  BY <1>1, LenProperties
<1>3. \A j \in 1 .. Len(p) : j \in 1 .. Len(p) + Len(q) /\ pq[j] = p[j]
  BY <1>1, <1>2
<1>4. ASSUME NEW j \in 1 .. Len(q)
      PROVE  Len(p) + j \in 1 .. Len(p) + Len(q) /\ pq[Len(p) + j] = q[j]
  <2>1. /\ Len(p) + j \in 1 .. Len(p) + Len(q) /\ ~ (Len(p) + j <= Len(p))
        /\ (Len(p) + j) - Len(p) = j
    BY <1>2
  <2> QED BY <1>1, <2>1
<1>5. ASSUME NEW j \in 1 .. Len(p) + Len(q)
      PROVE  \/ j \in 1 .. Len(p) /\ pq[j] = p[j]
             \/ j - Len(p) \in 1 .. Len(q) /\ pq[j] = q[j - Len(p)] /\ j \notin 1 .. Len(p)
  <2>1. CASE j <= Len(p)
    BY <1>1, <1>2, <2>1
  <2>2. CASE ~ (j <= Len(p))
    <3>1. j - Len(p) \in 1 .. Len(q)
      BY <1>2, <2>2
    <3> QED BY <1>1, <2>2, <3>1
  <2> QED BY <2>1, <2>2
<1>6. ToIds(pq) = ToIds(p) \cup ToIds(q)
  BY <1>2, <1>3, <1>4, <1>5 DEF ToIds
<1>7. Listed(pq)
  <2> SUFFICES ASSUME NEW j \in 1 .. Len(p) + Len(q), NEW k \in 1 .. Len(p) + Len(q),
                      pq[j] = pq[k]
               PROVE  j = k
    BY <1>2 DEF Listed
  <2>1. \A x, y \in 1 .. Len(p) : p[x] = p[y] => x = y
    BY <1>2 DEF Listed
  <2>2. \A x, y \in 1 .. Len(q) : q[x] = q[y] => x = y
    BY <1>2 DEF Listed
  <2>3. \A x \in 1 .. Len(p), y \in 1 .. Len(q) : p[x] # q[y]
    BY <1>2 DEF ToIds
  <2> QED BY <1>2, <1>5, <2>1, <2>2, <2>3
<1> QED BY <1>1, <1>6, <1>7 DEF pq

\* What the first statements of an order write.
WritesUpTo(d, ids, k) == UNION {StatementWrites(d, ids[i]) : i \in 1 .. k}

\* The variables no combinational statement writes.
Known(d) == Variables(d) \ AllWrites(d, d.combinational)

\* order_combinational on its way: each combinational statement is in one of
\* the lists, and what an ordered one reads is known or written before it.
OrderedSoFar(d, m) ==
  /\ m.ordered \in Seq(Statements(d)) /\ Listed(m.ordered)
  /\ m.left \in Seq(Statements(d)) /\ Listed(m.left)
  /\ ToIds(m.ordered) \cup ToIds(m.left) = ToIds(d.combinational)
  /\ ToIds(m.ordered) \cap ToIds(m.left) = {}
  /\ m.available = Known(d) \cup WritesUpTo(d, m.ordered, Len(m.ordered))
  /\ \A k \in 1 .. Len(m.ordered) :
       StatementReads(d, m.ordered[k]) \subseteq Known(d) \cup WritesUpTo(d, m.ordered, k - 1)

\* One statement more.
Ordered(d, m) ==
  LET i == ReadyStatement(d, m.left, m.available) IN
  IF i = 0 THEN m
  ELSE [ordered   |-> Append(m.ordered, m.left[i]),
        left      |-> RemoveAt(m.left, i),
        available |-> m.available \cup StatementWrites(d, m.left[i])]

\* One step of the order keeps its invariant.
LEMMA OrderedStep ==
  ASSUME NEW d, WellFormed(d), NEW m, OrderedSoFar(d, m)
  PROVE  OrderedSoFar(d, Ordered(d, m))
<1> DEFINE i == ReadyStatement(d, m.left, m.available)
           I == Statements(d)
           s == m.left[i]
           next == Ordered(d, m)
           L == Len(m.ordered)
<1>1. /\ m.ordered \in Seq(I) /\ Listed(m.ordered)
      /\ m.left \in Seq(I) /\ Listed(m.left)
      /\ ToIds(m.ordered) \cup ToIds(m.left) = ToIds(d.combinational)
      /\ ToIds(m.ordered) \cap ToIds(m.left) = {}
      /\ m.available = Known(d) \cup WritesUpTo(d, m.ordered, L)
      /\ \A k \in 1 .. L :
           StatementReads(d, m.ordered[k]) \subseteq Known(d) \cup WritesUpTo(d, m.ordered, k - 1)
  BY DEF OrderedSoFar
<1> HIDE DEF I
<1>2. /\ i \in 0 .. Len(m.left) /\ Len(m.left) \in Nat
      /\ i # 0 => StatementReads(d, s) \subseteq m.available
  BY <1>1, ReadyInRange, LenProperties
<1>3. CASE i = 0
  <2>1. next = m
    BY <1>3 DEF Ordered
  <2> QED BY <2>1
<1>4. CASE i # 0
  <2>1. i \in 1 .. Len(m.left)
    BY <1>2, <1>4
  <2>2. StatementReads(d, s) \subseteq m.available
    BY <1>2, <1>4
  <2>3. next = [ordered   |-> Append(m.ordered, s),
                left      |-> RemoveAt(m.left, i),
                available |-> m.available \cup StatementWrites(d, s)]
    BY <1>4 DEF Ordered
  <2> HIDE DEF i, next
  <2>4. /\ s \in I /\ RemoveAt(m.left, i) \in Seq(I) /\ Listed(RemoveAt(m.left, i))
        /\ ToIds(RemoveAt(m.left, i)) = ToIds(m.left) \ {s}
    BY <1>1, <2>1, RemoveAtFacts
  <2>5. s \in ToIds(m.left)
    BY <1>1, <2>1, LenProperties DEF ToIds
  <2> HIDE DEF s
  <2> DEFINE more == Append(m.ordered, s)
  <2>6. /\ more \in Seq(I) /\ Len(more) = L + 1 /\ more[L + 1] = s /\ L \in Nat
        /\ \A k \in 1 .. L : more[k] = m.ordered[k]
        /\ DOMAIN more = 1 .. L + 1 /\ DOMAIN m.ordered = 1 .. L
    <3>1. more \in Seq(I) /\ Len(more) = L + 1 /\ L \in Nat
      BY <1>1, <2>4, AppendProperties, LenProperties
    <3>2. more[L + 1] = s /\ \A k \in 1 .. L : more[k] = m.ordered[k]
      BY <1>1, <2>4, AppendProperties
    <3> QED BY <1>1, <3>1, <3>2, LenProperties
  <2> HIDE DEF more, L
  <2>7. ToIds(more) = ToIds(m.ordered) \cup {s}
    <3>1. \A k \in 1 .. L + 1 : k \in 1 .. L \/ k = L + 1
      BY <2>6
    <3>2. \A k \in 1 .. L : k \in 1 .. L + 1
      BY <2>6
    <3>3. L + 1 \in 1 .. L + 1
      BY <2>6
    <3> QED BY <2>6, <3>1, <3>2, <3>3 DEF ToIds
  <2>8. Listed(more)
    <3> SUFFICES ASSUME NEW j \in 1 .. L + 1, NEW k \in 1 .. L + 1, more[j] = more[k]
                 PROVE  j = k
      BY <2>6 DEF Listed
    <3>1. \A x \in 1 .. L : m.ordered[x] \in ToIds(m.ordered) /\ m.ordered[x] # s
      BY <1>1, <2>5, <2>6 DEF ToIds
    <3>2. \A x, y \in 1 .. L : m.ordered[x] = m.ordered[y] => x = y
      BY <1>1, <2>6 DEF Listed
    <3>3. (j \in 1 .. L \/ j = L + 1) /\ (k \in 1 .. L \/ k = L + 1)
      BY <2>6
    <3> QED BY <2>6, <3>1, <3>2, <3>3
  <2>9. \A k \in 0 .. L : WritesUpTo(d, more, k) = WritesUpTo(d, m.ordered, k)
    <3>1. \A k \in 0 .. L : \A x \in 1 .. k : x \in 1 .. L
      BY <2>6
    <3> QED BY <2>6, <3>1 DEF WritesUpTo
  <2>10. WritesUpTo(d, more, L + 1) = WritesUpTo(d, m.ordered, L) \cup StatementWrites(d, s)
    <3>1. 1 .. L + 1 = (1 .. L) \cup {L + 1}
      BY <2>6
    <3>2. \A x \in 1 .. L : more[x] = m.ordered[x]
      BY <2>6
    <3> HIDE DEF more
    <3> QED BY <2>6, <3>1, <3>2 DEF WritesUpTo
  <2>11. ASSUME NEW k \in 1 .. L + 1
         PROVE  StatementReads(d, more[k]) \subseteq Known(d) \cup WritesUpTo(d, more, k - 1)
    <3>1. CASE k = L + 1
      <4>1. k - 1 = L /\ L \in 0 .. L
        BY <2>6, <3>1
      <4> QED BY <1>1, <2>2, <2>6, <2>9, <3>1, <4>1 DEF s, L
    <3>2. CASE k \in 1 .. L
      <4>1. k - 1 \in 0 .. L
        BY <2>6, <3>2
      <4> QED BY <1>1, <2>6, <2>9, <3>2, <4>1 DEF L
    <3> QED BY <2>6, <3>1, <3>2
  <2>12. ToIds(more) \cup (ToIds(m.left) \ {s}) = ToIds(d.combinational)
    BY <1>1, <2>5, <2>7
  <2>13. ToIds(more) \cap (ToIds(m.left) \ {s}) = {}
    BY <1>1, <2>5, <2>7
  <2>14. m.available \cup StatementWrites(d, s) = Known(d) \cup WritesUpTo(d, more, Len(more))
    BY <1>1, <2>6, <2>10 DEF L
  <2>15. next.ordered = more /\ next.left = RemoveAt(m.left, i)
         /\ next.available = m.available \cup StatementWrites(d, s)
    BY <2>3 DEF more
  <2> QED BY <2>4, <2>6, <2>8, <2>11, <2>12, <2>13, <2>14, <2>15 DEF OrderedSoFar, next, I
<1> QED BY <1>3, <1>4

\* What order_combinational computes: a list of the combinational statements,
\* which is iterated unless each reads only what is known or written before it.
LEMMA OrderFacts ==
  ASSUME NEW d, WellFormed(d)
  PROVE  LET order == OrderCombinational(d)
             ids   == order.statements
         IN  /\ ids \in Seq(Statements(d)) /\ Listed(ids)
             /\ ToIds(ids) = ToIds(d.combinational)
             /\ order.fixedPoint \in BOOLEAN
             /\ ~ order.fixedPoint =>
                  \A k \in 1 .. Len(ids) :
                    StatementReads(d, ids[k]) \subseteq Known(d) \cup WritesUpTo(d, ids, k - 1)
<1> DEFINE I == Statements(d)
           A == {m \in [ordered : Seq(I), left : Seq(I), available : SUBSET Variables(d)] :
                   OrderedSoFar(d, m)}
           N == Len(d.combinational)
           known == Variables(d) \ AllWrites(d, d.combinational)
           start == [ordered |-> <<>>, left |-> d.combinational, available |-> known]
           next(m) == IF ReadyStatement(d, m.left, m.available) = 0 THEN m
                      ELSE [ordered   |-> Append(m.ordered, m.left[ReadyStatement(d, m.left, m.available)]),
                            left      |-> RemoveAt(m.left, ReadyStatement(d, m.left, m.available)),
                            available |-> m.available
                              \cup StatementWrites(d, m.left[ReadyStatement(d, m.left, m.available)])]
           after[k \in 0 .. N] == IF k = 0 THEN start ELSE next(after[k - 1])
           step == [k \in 1 .. N |-> [m \in A |-> next(m)]]
<1>1. d.combinational \in Seq(I) /\ N \in Nat /\ Listed(d.combinational)
  BY LenProperties DEF WellFormed
<1>2. start \in A
  <2>1. /\ <<>> \in Seq(I) /\ Len(<<>>) = 0 /\ DOMAIN <<>> = {} /\ ToIds(<<>>) = {} /\ Listed(<<>>)
    BY EmptySeq DEF ToIds, Listed
  <2>2. WritesUpTo(d, <<>>, 0) = {}
    BY DEF WritesUpTo
  <2>3. OrderedSoFar(d, start)
    BY <1>1, <2>1, <2>2 DEF OrderedSoFar, Known
  <2> QED BY <1>1, <2>1, <2>3
<1>3. \A m : next(m) = Ordered(d, m)
  BY DEF Ordered
<1> HIDE DEF next
<1>4. ASSUME NEW m \in A
      PROVE  next(m) \in A
  <2>1. OrderedSoFar(d, Ordered(d, m))
    BY OrderedStep
  <2>2. Ordered(d, m).available \subseteq Variables(d)
    <3>1. WritesUpTo(d, Ordered(d, m).ordered, Len(Ordered(d, m).ordered)) \subseteq Variables(d)
      BY WritesDeclared DEF WritesUpTo
    <3> QED BY <2>1, <3>1 DEF OrderedSoFar, Known
  <2>3. \/ Ordered(d, m) = m
        \/ Ordered(d, m) = [ordered   |-> Ordered(d, m).ordered,
                            left      |-> Ordered(d, m).left,
                            available |-> Ordered(d, m).available]
    BY DEF Ordered
  <2>4. Ordered(d, m).ordered \in Seq(I) /\ Ordered(d, m).left \in Seq(I)
    BY <2>1 DEF OrderedSoFar
  <2>5. Ordered(d, m) \in [ordered : Seq(I), left : Seq(I), available : SUBSET Variables(d)]
    <3>1. CASE Ordered(d, m) = m
      BY <3>1
    <3>2. CASE Ordered(d, m) # m
      <4> DEFINE B == [ordered : Seq(I), left : Seq(I), available : SUBSET Variables(d)]
      <4>1. \A x \in Seq(I), y \in Seq(I), z \in SUBSET Variables(d) :
              [ordered |-> x, left |-> y, available |-> z] \in B
        OBVIOUS
      <4> HIDE DEF B, I
      <4>2. Ordered(d, m) \in B
        BY <2>2, <2>3, <2>4, <3>2, <4>1
      <4> QED BY <4>2 DEF B, I
    <3> QED BY <3>1, <3>2
  <2> QED BY <1>3, <2>1, <2>5
<1>5. OrderFrom(d, known) = after[N]
  BY DEF OrderFrom, next
<1> HIDE DEF start, N, A
<1>6. step \in Steps(N, A)
  BY <1>4 DEF Steps
<1> HIDE DEF step
<1>7. PICK g : Iterates(g, N, A, start, step)
  BY ONLY <1>1, <1>2, <1>6, IterationExists
<1>8. /\ g = [k \in 0 .. N |-> IF k = 0 THEN start ELSE step[k][g[k - 1]]]
      /\ \A k \in 0 .. N : g[k] \in A
      /\ \A k \in 1 .. N : k - 1 \in 0 .. N /\ g[k - 1] \in A
  BY ONLY <1>1, <1>7, IterationValues
<1>9. g = [k \in 0 .. N |-> IF k = 0 THEN start ELSE next(g[k - 1])]
  <2>1. \A k \in 1 .. N : step[k][g[k - 1]] = next(g[k - 1])
    BY <1>8 DEF step
  <2>2. \A k \in 0 .. N : k = 0 \/ k \in 1 .. N
    BY <1>1
  <2> QED BY <1>8, <2>1, <2>2
<1>10. after = [k \in 0 .. N |-> IF k = 0 THEN start ELSE next(after[k - 1])]
  BY <1>9
<1> HIDE DEF after
<1>11. after[0] \in A
  BY <1>1, <1>2, <1>10
<1>12. ASSUME NEW k \in 1 .. N, after[k - 1] \in A
       PROVE  after[k] \in A
  <2>1. after[k] = next(after[k - 1])
    BY <1>1, <1>10
  <2> QED BY <1>4, <1>12, <2>1
<1>13. after[N] \in A
  <2>1. \A k \in 0 .. N : after[k] \in A
    BY ONLY <1>1, <1>11, <1>12, IterationInvariant
  <2> QED BY <1>1, <2>1
<1> DEFINE m == OrderFrom(d, known)
           ids == m.ordered \o m.left
<1>14. OrderedSoFar(d, m)
  BY <1>5, <1>13 DEF A
<1>15. OrderCombinational(d) = [statements |-> ids, fixedPoint |-> m.left # <<>>]
  BY DEF OrderCombinational
<1> HIDE DEF m, known, ids
<1>16. /\ m.ordered \in Seq(I) /\ Listed(m.ordered) /\ m.left \in Seq(I) /\ Listed(m.left)
       /\ ToIds(m.ordered) \cup ToIds(m.left) = ToIds(d.combinational)
       /\ ToIds(m.ordered) \cap ToIds(m.left) = {}
  BY <1>14 DEF OrderedSoFar
<1>17. ids \in Seq(I) /\ Listed(ids) /\ ToIds(ids) = ToIds(d.combinational)
  <2> HIDE DEF I
  <2>1. m.ordered \o m.left \in Seq(I) /\ Listed(m.ordered \o m.left)
        /\ ToIds(m.ordered \o m.left) = ToIds(m.ordered) \cup ToIds(m.left)
    BY ONLY <1>16, ListedConcat
  <2> QED BY ONLY <1>16, <2>1 DEF ids
<1>18. ASSUME m.left = <<>>
       PROVE  \A k \in 1 .. Len(ids) :
                StatementReads(d, ids[k]) \subseteq Known(d) \cup WritesUpTo(d, ids, k - 1)
  <2>1. ids = m.ordered
    BY <1>16, <1>18, ConcatEmptySeq DEF ids
  <2> QED BY <1>14, <2>1 DEF OrderedSoFar
<1>19. /\ OrderCombinational(d).statements = ids
       /\ OrderCombinational(d).fixedPoint = (m.left # <<>>)
  <2>1. \A x, y : [statements |-> x, fixedPoint |-> y].statements = x
                  /\ [statements |-> x, fixedPoint |-> y].fixedPoint = y
    OBVIOUS
  <2> QED BY ONLY <1>15, <2>1
<1> QED BY <1>17, <1>18, <1>19

-----------------------------------------------------------------------------
(* capture_sampled. *)

\* One round of the samples: each from the values of the round before.
Resampled(d, store, previous) ==
  [l \in Locations(d) |->
     IF l[1] \in DOMAIN d.sampled THEN BitOf(Eval(d, d.sampled[l[1]], previous), l[2])
                                  ELSE store[l]]

\* It is a store.
LEMMA ResampledType ==
  ASSUME NEW d, WellFormed(d), NEW store \in Stores(d), NEW previous \in Stores(d)
  PROVE  Resampled(d, store, previous) \in Stores(d)
<1>1. ASSUME NEW v \in DOMAIN d.sampled, NEW i
      PROVE  BitOf(Eval(d, d.sampled[v], previous), i) \in Bit
  <2>1. ExpressionOK(d, d.sampled[v])
    BY DEF WellFormed, SampledOK
  <2>2. \A j \in DOMAIN Eval(d, d.sampled[v], previous) : Eval(d, d.sampled[v], previous)[j] \in Bit
    BY <2>1, EvalIsBits
  <2> QED BY <2>2, BitOfIsBit
<1>2. \A l \in Locations(d) : store[l] \in Bit
  BY DEF Stores
<1> QED BY <1>1, <1>2 DEF Resampled, Stores

\* capture_sampled's expansion is so many rounds as there are samples.
LEMMA CaptureRounds ==
  ASSUME NEW d, WellFormed(d), NEW store \in Stores(d)
  PROVE  LET K == Cardinality(DOMAIN d.sampled) IN
         /\ K \in Nat
         /\ \E captured :
              /\ captured[0] = store /\ captured[K] = CaptureSampled(d, store)
              /\ \A k \in 0 .. K : captured[k] \in Stores(d)
              /\ \A k \in 1 .. K : captured[k] = Resampled(d, store, captured[k - 1])
<1> DEFINE K == Cardinality(DOMAIN d.sampled)
           A == Stores(d)
           round_(previous) ==
             [l \in DOMAIN store |->
                IF l[1] \in DOMAIN d.sampled
                  THEN BitOf(Eval(d, d.sampled[l[1]], previous), l[2]) ELSE store[l]]
           captured[k \in 0 .. K] == IF k = 0 THEN store ELSE round_(captured[k - 1])
           step == [k \in 1 .. K |-> [m \in A |-> Resampled(d, store, m)]]
<1>1. K \in Nat
  <2>1. IsFiniteSet(DOMAIN d.sampled)
    BY FS_Subset DEF WellFormed, SampledOK
  <2> QED BY <2>1, FS_CardinalityType
<1>2. \A m : round_(m) = Resampled(d, store, m)
  BY DEF Stores, Resampled
<1>3. CaptureSampled(d, store) = captured[K]
  BY DEF CaptureSampled
<1> HIDE DEF round_, K
<1>4. step \in Steps(K, A)
  BY ResampledType DEF Steps
<1> HIDE DEF step, A
<1>5. store \in A
  BY DEF A
<1>6. PICK g : Iterates(g, K, A, store, step)
  BY ONLY <1>1, <1>4, <1>5, IterationExists
<1>7. /\ g = [k \in 0 .. K |-> IF k = 0 THEN store ELSE step[k][g[k - 1]]]
      /\ \A k \in 0 .. K : g[k] \in A
      /\ \A k \in 1 .. K : k - 1 \in 0 .. K /\ g[k - 1] \in A
  BY ONLY <1>1, <1>6, IterationValues
<1>8. g = [k \in 0 .. K |-> IF k = 0 THEN store ELSE round_(g[k - 1])]
  <2>1. \A k \in 1 .. K : step[k][g[k - 1]] = round_(g[k - 1])
    BY <1>2, <1>7 DEF step
  <2>2. \A k \in 0 .. K : k = 0 \/ k \in 1 .. K
    BY <1>1
  <2> QED BY <1>7, <2>1, <2>2
<1>9. captured = [k \in 0 .. K |-> IF k = 0 THEN store ELSE round_(captured[k - 1])]
  BY <1>8
<1> HIDE DEF captured
<1>10. captured[0] = store /\ \A k \in 1 .. K : captured[k] = Resampled(d, store, captured[k - 1])
  BY <1>1, <1>2, <1>9
<1>11. captured[0] \in A /\ \A k \in 1 .. K : captured[k - 1] \in A => captured[k] \in A
  BY <1>5, <1>10, ResampledType DEF A
<1>12. \A k \in 0 .. K : captured[k] \in A
  BY ONLY <1>1, <1>11, IterationInvariant
<1> QED BY <1>1, <1>3, <1>10, <1>12 DEF A, K

\* Samples that do not sample each other in a circle are settled by then:
\* each holds the value of its expression, and nothing else has changed.
LEMMA SamplesSettle ==
  ASSUME NEW d, WellFormed(d), NEW store \in Stores(d)
  PROVE  LET C == CaptureSampled(d, store) IN
         /\ C \in Stores(d)
         /\ \A l \in Locations(d) : l[1] \notin DOMAIN d.sampled => C[l] = store[l]
         /\ \A v \in DOMAIN d.sampled : Word(d, C, v) = Eval(d, d.sampled[v], C)
<1> DEFINE C == CaptureSampled(d, store)
           K == Cardinality(DOMAIN d.sampled)
           D == DOMAIN d.sampled
           ex(v) == d.sampled[v]
<1>1. /\ K \in Nat
      /\ \E captured :
           /\ captured[0] = store /\ captured[K] = C
           /\ \A k \in 0 .. K : captured[k] \in Stores(d)
           /\ \A k \in 1 .. K : captured[k] = Resampled(d, store, captured[k - 1])
  BY CaptureRounds
<1>2. PICK captured :
        /\ captured[0] = store /\ captured[K] = C
        /\ \A k \in 0 .. K : captured[k] \in Stores(d)
        /\ \A k \in 1 .. K : captured[k] = Resampled(d, store, captured[k - 1])
  BY <1>1
<1>3. /\ D \subseteq Variables(d)
      /\ \A v \in D : ExpressionOK(d, ex(v)) /\ ValueWidth(d, ex(v)) = d.width[v]
      /\ \E rank \in [D -> 0 .. K - 1] :
           \A v, w \in D : w \in ExpressionReads(ex(v)) => rank[w] < rank[v]
  BY DEF WellFormed, SampledOK
<1>4. PICK rank \in [D -> 0 .. K - 1] :
        \A v, w \in D : w \in ExpressionReads(ex(v)) => rank[w] < rank[v]
  BY <1>3
<1> HIDE DEF C, K, D, ex
<1>5. ASSUME NEW k \in 0 .. K, NEW l \in Locations(d), l[1] \notin D
      PROVE  captured[k][l] = store[l]
  <2>1. CASE k = 0
    BY <1>2, <2>1
  <2>2. CASE k \in 1 .. K
    <3>1. captured[k] = Resampled(d, store, captured[k - 1])
      BY <1>2, <2>2
    <3> QED BY <1>5, <3>1 DEF Resampled, D
  <2> QED BY <1>1, <2>1, <2>2
<1> DEFINE Settled(k, v) ==
             \A l \in LocationsOf(d, v) : captured[k][l] = BitOf(Eval(d, ex(v), captured[k]), l[2])
           Depths == {k \in Nat : k <= K => \A v \in D : rank[v] < k => Settled(k, v)}
<1>6. 0 \in Depths
  BY <1>1, <1>4
<1>7. ASSUME NEW k \in Depths
      PROVE  k + 1 \in Depths
  <2> SUFFICES ASSUME k + 1 <= K, NEW v \in D, rank[v] < k + 1
               PROVE  Settled(k + 1, v)
    OBVIOUS
  <2>1. k \in 0 .. K /\ k + 1 \in 1 .. K /\ (k + 1) - 1 = k
    BY <1>1
  <2>2. captured[k + 1] = Resampled(d, store, captured[k])
    BY <1>2, <2>1
  <2>3. ASSUME NEW w \in D, NEW l \in LocationsOf(d, w)
        PROVE  captured[k + 1][l] = BitOf(Eval(d, ex(w), captured[k]), l[2])
    <3>1. l \in Locations(d) /\ l[1] = w
      BY <1>3 DEF Locations, LocationsOf
    <3> QED BY <2>2, <3>1 DEF Resampled, D, ex
  <2>4. Agree(d, ExpressionReads(ex(v)), captured[k], captured[k + 1])
    <3> SUFFICES ASSUME NEW w \in ExpressionReads(ex(v)), NEW l \in LocationsOf(d, w)
                 PROVE  captured[k][l] = captured[k + 1][l]
      BY DEF Agree, LocationsIn
    <3>1. CASE w \in D
      <4>1. rank[w] < rank[v] /\ rank[w] \in Nat /\ rank[v] \in Nat
        BY <1>1, <1>4, <3>1
      <4>2. Settled(k, w)
        BY <2>1, <3>1, <4>1
      <4> QED BY <2>3, <3>1, <4>2
    <3>2. CASE w \notin D
      <4>1. w \in Variables(d)
        <5>1. ex(v).args \in Seq(Variables(d))
          BY <1>3 DEF ExpressionOK
        <5> QED BY <5>1 DEF ExpressionReads
      <4>2. l \in Locations(d) /\ l[1] = w
        BY <4>1 DEF Locations, LocationsOf
      <4>3. k \in 0 .. K /\ k + 1 \in 0 .. K
        BY <2>1
      <4> QED BY <1>5, <3>2, <4>2, <4>3
    <3> QED BY <3>1, <3>2
  <2>5. Eval(d, ex(v), captured[k]) = Eval(d, ex(v), captured[k + 1])
    BY <1>3, <2>4, EvalAgrees
  <2> QED BY <2>3, <2>5
<1>8. ASSUME NEW v \in D
      PROVE  \A l \in LocationsOf(d, v) : C[l] = BitOf(Eval(d, ex(v), C), l[2])
  <2>1. K \in Depths
    <3> HIDE DEF Depths
    <3> QED BY <1>1, <1>6, <1>7, NaturalsInSet
  <2>2. rank[v] < K
    BY <1>1, <1>4
  <2>3. Settled(K, v)
    BY <1>1, <2>1, <2>2
  <2> QED BY <1>2, <2>3
<1>9. ASSUME NEW v \in D
      PROVE  Word(d, C, v) = Eval(d, ex(v), C)
  <2> DEFINE value == Eval(d, ex(v), C)
  <2>1. value = [i \in 1 .. d.width[v] |-> value[i]]
    BY <1>3, EvalIsWord
  <2>2. d.width[v] \in Nat
    BY <1>3 DEF WellFormed
  <2>3. ASSUME NEW i \in 1 .. d.width[v]
        PROVE  C[<<v, i - 1>>] = value[i]
    <3>1. <<v, i - 1>> \in LocationsOf(d, v)
      BY <2>2 DEF LocationsOf
    <3>2. C[<<v, i - 1>>] = BitOf(value, i - 1)
      BY <1>8, <3>1
    <3>3. (i - 1) + 1 = i /\ i \in DOMAIN value
      BY <2>1, <2>2
    <3> QED BY <3>2, <3>3 DEF BitOf
  <2> HIDE DEF value
  <2>4. Word(d, C, v) = value
    BY <2>1, <2>3 DEF Word
  <2> QED BY <2>4 DEF value
<1>10. C \in Stores(d) /\ \A l \in Locations(d) : l[1] \notin D => C[l] = store[l]
  BY <1>1, <1>2, <1>5
<1> QED BY <1>9, <1>10 DEF C, D, ex

-----------------------------------------------------------------------------
(* analyze_statement. *)

\* What it computes from the variables assigned before.
Results(V) == [assigned : SUBSET V, liveIn : SUBSET V]

ResultsFor(V, ids, flow) == \A c \in ToIds(ids) : flow[c] \in [SUBSET V -> Results(V)]

\* FoldLeft over the statements of a list, by the set of positions done.
AnalyzedBy(f, flow, ids, start) ==
  f = [s \in SUBSET DOMAIN ids |->
         IF s = {} THEN [assigned |-> start, liveIn |-> {}]
         ELSE LET x == Max(s)
              IN  LET r == flow[ids[x]][f[s \ {x}].assigned]
                  IN  [assigned |-> r.assigned, liveIn |-> f[s \ {x}].liveIn \cup r.liveIn]]

\* A list is analyzed from its first statement to its last: each adds to what
\* is assigned when the next begins.
LEMMA AnalyzeInOrder ==
  ASSUME NEW V, NEW I, NEW ids \in Seq(I), NEW start \in SUBSET V,
         NEW flow, ResultsFor(V, ids, flow)
  PROVE  \E q \in [0 .. Len(ids) -> SUBSET V] :
           /\ q[0] = start
           /\ \A k \in 1 .. Len(ids) : q[k] = flow[ids[k]][q[k - 1]].assigned
           /\ AnalyzeStatements(flow, ids, start).assigned = q[Len(ids)]
           /\ AnalyzeStatements(flow, ids, start).liveIn =
                UNION {flow[ids[k]][q[k - 1]].liveIn : k \in 1 .. Len(ids)}
           /\ AnalyzeStatements(flow, ids, start) \in Results(V)
<1> DEFINE n == Len(ids)
           R == Results(V)
           base == [assigned |-> start, liveIn |-> {}]
           Then(acc, i) == [assigned |-> flow[ids[i]][acc.assigned].assigned,
                            liveIn |-> acc.liveIn \cup flow[ids[i]][acc.assigned].liveIn]
           G == [i \in 1 .. n |-> [acc \in R |-> Then(acc, i)]]
           h == CHOOSE f : AnalyzedBy(f, flow, ids, start)
           p == [k \in 0 .. n |-> h[1 .. k]]
<1>1. n \in Nat /\ DOMAIN ids = 1 .. n
  BY LenProperties
<1>2. AnalyzeStatements(flow, ids, start) = h[1 .. n]
  BY <1>1 DEF AnalyzeStatements, FoldLeft, MapThenFoldSet, AnalyzedBy
<1>3. base \in R
  BY DEF Results
<1>4. ASSUME NEW i \in 1 .. n, NEW acc \in R
      PROVE  Then(acc, i) \in R
  <2>1. ids[i] \in ToIds(ids)
    BY <1>1 DEF ToIds
  <2>2. acc.assigned \in SUBSET V /\ acc.liveIn \in SUBSET V
    BY DEF Results
  <2>3. flow[ids[i]][acc.assigned] \in R
    BY <2>1, <2>2 DEF ResultsFor
  <2> QED BY <2>2, <2>3 DEF Results
<1>5. G \in Steps(n, R)
  <2> HIDE DEF Then
  <2> QED BY <1>4 DEF Steps
<1> HIDE DEF R
<1>6. AnalyzedBy(h, flow, ids, start)
  <2>1. PICK f \in [SUBSET (1 .. n) -> R] : FoldsBy(f, n, base, G)
    <3> HIDE DEF G, n, base
    <3> QED BY <1>1, <1>3, <1>5, FoldExists
  <2>2. ASSUME NEW s \in SUBSET (1 .. n), s # {}
        PROVE  Max(s) \in s /\ Max(s) \in 1 .. n /\ s \ {Max(s)} \in SUBSET (1 .. n)
    <3>1. \E x \in s : \A y \in s : x >= y
      BY <1>1, <2>2, LargestInside
    <3>2. Max(s) \in s
      BY <3>1 DEF Max
    <3> QED BY <3>2
  <2>3. ASSUME NEW s \in SUBSET (1 .. n), s # {}
        PROVE  G[Max(s)][f[s \ {Max(s)}]] = Then(f[s \ {Max(s)}], Max(s))
    <3>1. f[s \ {Max(s)}] \in R
      BY <2>1, <2>2, <2>3
    <3> HIDE DEF Then
    <3> QED BY <2>2, <2>3, <3>1
  <2>4. f = [s \in SUBSET (1 .. n) |-> IF s = {} THEN base ELSE Then(f[s \ {Max(s)}], Max(s))]
    <3> HIDE DEF G, Then, base
    <3> QED BY <2>1, <2>3 DEF FoldsBy
  <2>5. AnalyzedBy(f, flow, ids, start)
    BY <1>1, <2>4 DEF AnalyzedBy
  <2> QED BY <2>5
<1> HIDE DEF h
<1>7. p[0] = base
  <2>1. 1 .. 0 = {} /\ {} \in SUBSET DOMAIN ids
    OBVIOUS
  <2>2. h[{}] = base
    BY <1>6, <2>1 DEF AnalyzedBy
  <2> QED BY <1>1, <2>1, <2>2
<1>8. ASSUME NEW k \in 1 .. n
      PROVE  p[k] = Then(p[k - 1], k)
  <2>1. Max(1 .. k) = k /\ (1 .. k) \ {k} = 1 .. k - 1 /\ 1 .. k # {}
    BY LargestPosition
  <2>2. 1 .. k \in SUBSET DOMAIN ids
    BY <1>1
  <2>3. h[1 .. k] = Then(h[1 .. k - 1], k)
    BY <1>6, <2>1, <2>2, ZenonT(60) DEF AnalyzedBy
  <2>4. k - 1 \in 0 .. n /\ k \in 0 .. n
    BY <1>1
  <2> QED BY <2>3, <2>4
<1> HIDE DEF p
<1>9. \A k \in 0 .. n : p[k] \in R
  <2>1. \A k \in 1 .. n : p[k - 1] \in R => p[k] \in R
    <3> HIDE DEF Then
    <3> QED BY <1>4, <1>8
  <2>2. n \in Nat /\ p[0] \in R
    BY <1>1, <1>3, <1>7
  <2> HIDE DEF n, Then, G
  <2> QED BY ONLY <2>1, <2>2, IterationInvariant
<1>10. AnalyzeStatements(flow, ids, start) = p[n]
  <2>1. n \in 0 .. n
    BY <1>1
  <2> QED BY <1>2, <2>1 DEF p
<1> HIDE DEF n
<1> DEFINE q == [k \in 0 .. n |-> p[k].assigned]
           live(k) == flow[ids[k]][q[k - 1]].liveIn
<1>11. q \in [0 .. n -> SUBSET V] /\ q[0] = start /\ q[n] = p[n].assigned
  <2>1. \A k \in 0 .. n : p[k].assigned \in SUBSET V
    BY <1>9 DEF R, Results
  <2> QED BY <1>1, <1>7, <2>1
<1>12. \A k \in 1 .. n : k - 1 \in 0 .. n /\ k \in 0 .. n /\ q[k - 1] = p[k - 1].assigned
                         /\ q[k] = p[k].assigned
  BY <1>1
<1> HIDE DEF q
<1>13. \A k \in 1 .. n : q[k] = flow[ids[k]][q[k - 1]].assigned
                         /\ p[k].liveIn = p[k - 1].liveIn \cup live(k)
  <2> SUFFICES ASSUME NEW k \in 1 .. n
               PROVE  /\ q[k] = flow[ids[k]][q[k - 1]].assigned
                      /\ p[k].liveIn = p[k - 1].liveIn \cup live(k)
    OBVIOUS
  <2>1. /\ p[k].assigned = flow[ids[k]][p[k - 1].assigned].assigned
        /\ p[k].liveIn = p[k - 1].liveIn \cup flow[ids[k]][p[k - 1].assigned].liveIn
    <3>1. p[k] = Then(p[k - 1], k)
      BY <1>8
    <3> HIDE DEF base, G
    <3> QED BY ONLY <3>1
  <2> QED BY <1>12, <2>1
<1> HIDE DEF Then, live
<1>14. p[n].liveIn = UNION {live(k) : k \in 1 .. n}
  <2> DEFINE S == {k \in Nat : k <= n => p[k].liveIn = UNION {live(j) : j \in 1 .. k}}
  <2>1. 0 \in S
    <3>1. p[0].liveIn = {}
      BY <1>7
    <3> QED BY <3>1
  <2>2. ASSUME NEW k \in S
        PROVE  k + 1 \in S
    <3> SUFFICES ASSUME k + 1 <= n
                 PROVE  p[k + 1].liveIn = UNION {live(j) : j \in 1 .. k + 1}
      OBVIOUS
    <3>1. k + 1 \in 1 .. n /\ (k + 1) - 1 = k /\ k \in Nat
      BY <1>1
    <3>2. p[k + 1].liveIn = p[k].liveIn \cup live(k + 1)
      BY <1>13, <3>1
    <3>3. p[k].liveIn = UNION {live(j) : j \in 1 .. k}
      BY <1>1, <3>1
    <3>4. 1 .. k + 1 = (1 .. k) \cup {k + 1}
      BY <3>1
    <3> QED BY <3>2, <3>3, <3>4
  <2>3. n \in S
    <3> HIDE DEF S
    <3> QED BY <1>1, <2>1, <2>2, NaturalsInSet
  <2> QED BY <1>1, <2>3
<1>15. p[n] \in R
  BY <1>1, <1>9
<1> QED BY <1>10, <1>11, <1>13, <1>14, <1>15 DEF n, R, live

\* It looks only at what flow says of the statements of the list.
LEMMA AnalyzeLocal ==
  ASSUME NEW V, NEW I, NEW ids \in Seq(I), NEW start \in SUBSET V, NEW flow, NEW other,
         ResultsFor(V, ids, flow), \A c \in ToIds(ids) : other[c] = flow[c]
  PROVE  AnalyzeStatements(flow, ids, start) = AnalyzeStatements(other, ids, start)
<1> DEFINE n == Len(ids)
           x == AnalyzeStatements(flow, ids, start)
           y == AnalyzeStatements(other, ids, start)
<1>1. n \in Nat /\ DOMAIN ids = 1 .. n /\ \A k \in 1 .. n : flow[ids[k]] = other[ids[k]]
  BY LenProperties DEF ToIds
<1>2. PICK q \in [0 .. n -> SUBSET V] :
        /\ q[0] = start
        /\ \A k \in 1 .. n : q[k] = flow[ids[k]][q[k - 1]].assigned
        /\ x.assigned = q[n]
        /\ x.liveIn = UNION {flow[ids[k]][q[k - 1]].liveIn : k \in 1 .. n}
        /\ x \in Results(V)
  BY AnalyzeInOrder
<1>3. PICK r \in [0 .. n -> SUBSET V] :
        /\ r[0] = start
        /\ \A k \in 1 .. n : r[k] = other[ids[k]][r[k - 1]].assigned
        /\ y.assigned = r[n]
        /\ y.liveIn = UNION {other[ids[k]][r[k - 1]].liveIn : k \in 1 .. n}
        /\ y \in Results(V)
  <2>1. ResultsFor(V, ids, other)
    BY DEF ResultsFor
  <2> QED BY ONLY <2>1, ids \in Seq(I), start \in SUBSET V, AnalyzeInOrder
<1> HIDE DEF n, x, y
<1>4. \A k \in 0 .. n : q[k] = r[k]
  <2> DEFINE S == {k \in Nat : k <= n => q[k] = r[k]}
  <2>1. 0 \in S
    BY <1>2, <1>3
  <2>2. ASSUME NEW k \in S
        PROVE  k + 1 \in S
    <3> SUFFICES ASSUME k + 1 <= n PROVE q[k + 1] = r[k + 1]
      OBVIOUS
    <3>1. k + 1 \in 1 .. n /\ (k + 1) - 1 = k /\ q[k] = r[k]
      BY <1>1
    <3> QED BY <1>1, <1>2, <1>3, <3>1, SMTT(30)
  <2>3. Nat \subseteq S
    <3> HIDE DEF S
    <3> QED BY <2>1, <2>2, NaturalsInSet
  <2> QED BY <1>1, <2>3
<1>5. x.assigned = y.assigned
  <2>1. n \in 0 .. n
    BY <1>1
  <2> QED BY <1>2, <1>3, <1>4, <2>1
<1>6. x.liveIn = y.liveIn
  <2>1. \A k \in 1 .. n : q[k - 1] = r[k - 1]
    <3>1. \A k \in 1 .. n : k - 1 \in 0 .. n
      BY <1>1
    <3> QED BY <1>4, <3>1
  <2>2. \A k \in 1 .. n : flow[ids[k]][q[k - 1]].liveIn = other[ids[k]][r[k - 1]].liveIn
    BY <1>1, <2>1
  <2> DEFINE one(k) == flow[ids[k]][q[k - 1]].liveIn
             two(k) == other[ids[k]][r[k - 1]].liveIn
  <2>3. \A k \in 1 .. n : one(k) = two(k)
    BY <2>2
  <2>4. x.liveIn = UNION {one(k) : k \in 1 .. n} /\ y.liveIn = UNION {two(k) : k \in 1 .. n}
    BY <1>2, <1>3
  <2> HIDE DEF one, two
  <2> QED BY ONLY <2>3, <2>4
<1>7. x \in Results(V) /\ y \in Results(V)
  BY <1>2, <1>3
<1>8. x = y
  BY <1>5, <1>6, <1>7 DEF Results
<1> QED BY <1>8 DEF x, y

\* What is nested in a statement.
LEMMA PartsBefore ==
  ASSUME NEW d, WellFormed(d), NEW n \in Statements(d), NEW ids, PartsOf(d, n, ids)
  PROVE  /\ ids \in Seq(Statements(d)) /\ Statements(d) \subseteq Nat \ {0}
         /\ \A c \in ToIds(ids) : c \in Statements(d) /\ c < n /\ d.root[c] = d.root[n]
<1>1. ids \in Seq(Inside(d, d.root[n])) /\ \A m \in ToIds(ids) : m < n
  BY DEF PartsOf
<1>2. Inside(d, d.root[n]) \subseteq Statements(d)
  BY DEF Inside
<1>3. \A c \in ToIds(ids) : c \in Inside(d, d.root[n])
  BY <1>1, ElementOfSeq DEF ToIds
<1>4. Statements(d) \subseteq Nat \ {0}
  <2>1. Statements(d) = 1 .. Cardinality(Statements(d)) /\ Cardinality(Statements(d)) \in Nat
    BY FS_CardinalityType DEF WellFormed
  <2> QED BY <2>1
<1>5. ids \in Seq(Statements(d))
  BY <1>1, <1>2
<1> QED BY <1>1, <1>3, <1>4, <1>5 DEF Inside

\* The result for a statement is made of those for the statements in it.
LEMMA AnalyzeStatementFacts ==
  ASSUME NEW d, WellFormed(d), NEW n \in Statements(d), NEW start \in SUBSET Variables(d),
         NEW flow, \A c \in Statements(d) :
                     c < n => flow[c] \in [SUBSET Variables(d) -> Results(Variables(d))]
  PROVE  /\ AnalyzeStatement(flow, d.statement[n], start) \in Results(Variables(d))
         /\ \A other : (\A c \in Statements(d) : c < n => other[c] = flow[c]) =>
              AnalyzeStatement(flow, d.statement[n], start)
                = AnalyzeStatement(other, d.statement[n], start)
<1> DEFINE s == d.statement[n]
           V == Variables(d)
<1>1. StatementOK(d, n)
  BY DEF WellFormed
<1>2. ASSUME NEW ids, PartsOf(d, n, ids)
      PROVE  /\ AnalyzeStatements(flow, ids, start) \in Results(V)
             /\ \A other : (\A c \in Statements(d) : c < n => other[c] = flow[c]) =>
                  AnalyzeStatements(flow, ids, start) = AnalyzeStatements(other, ids, start)
  <2>1. /\ ids \in Seq(Statements(d))
        /\ \A c \in ToIds(ids) : c \in Statements(d) /\ c < n
    BY <1>2, PartsBefore
  <2>2. ResultsFor(V, ids, flow)
    BY <2>1 DEF ResultsFor
  <2>3. AnalyzeStatements(flow, ids, start) \in Results(V)
    BY <2>1, <2>2, AnalyzeInOrder
  <2>4. ASSUME NEW other, \A c \in Statements(d) : c < n => other[c] = flow[c]
        PROVE  AnalyzeStatements(flow, ids, start) = AnalyzeStatements(other, ids, start)
    <3>1. \A c \in ToIds(ids) : other[c] = flow[c]
      BY <2>1, <2>4
    <3> QED BY <2>1, <2>2, <3>1, AnalyzeLocal
  <2> QED BY <2>3, <2>4
<1>3. CASE s.kind = "Assignment"
  <2>1. TargetOK(d, s.target) /\ ExpressionOK(d, s.value)
    BY <1>1, <1>3 DEF StatementOK
  <2>2. TargetReads(s.target) \subseteq V /\ ExpressionReads(s.value) \subseteq V
    BY <2>1, ExpressionReadsDeclared, TargetReadsDeclared
  <2>3. s.target.var \in V
    BY <2>1 DEF TargetOK
  <2> QED BY <1>3, <2>2, <2>3 DEF AnalyzeStatement, Results
<1>4. CASE s.kind = "Block" /\ PartsOf(d, n, s.body)
  BY <1>2, <1>4 DEF AnalyzeStatement
<1>5. CASE s.kind = "If" /\ ExpressionOK(d, s.condition)
           /\ PartsOf(d, n, s.then) /\ PartsOf(d, n, s.else)
  <2> DEFINE yes(f) == AnalyzeStatements(f, s.then, start)
             no(f)  == AnalyzeStatements(f, s.else, start)
  <2>1. \A f : AnalyzeStatement(f, s, start) =
                 [assigned |-> yes(f).assigned \cap no(f).assigned,
                  liveIn   |-> (ExpressionReads(s.condition) \ start)
                                 \cup yes(f).liveIn \cup no(f).liveIn]
    BY <1>5 DEF AnalyzeStatement
  <2>2. ExpressionReads(s.condition) \subseteq V
    BY <1>5, ExpressionReadsDeclared
  <2>3. yes(flow) \in Results(V) /\ no(flow) \in Results(V)
    BY <1>2, <1>5
  <2>4. \A other : (\A c \in Statements(d) : c < n => other[c] = flow[c]) =>
          yes(flow) = yes(other) /\ no(flow) = no(other)
    BY <1>2, <1>5
  <2> HIDE DEF yes, no, s, V
  <2>5. /\ yes(flow).assigned \in SUBSET V /\ yes(flow).liveIn \in SUBSET V
        /\ no(flow).assigned \in SUBSET V /\ no(flow).liveIn \in SUBSET V
    BY <2>3 DEF Results
  <2>6. AnalyzeStatement(flow, s, start) \in Results(V)
    BY <2>1, <2>2, <2>5 DEF Results
  <2>7. \A other : (\A c \in Statements(d) : c < n => other[c] = flow[c]) =>
          AnalyzeStatement(flow, s, start) = AnalyzeStatement(other, s, start)
    BY <2>1, <2>4
  <2> QED BY <2>6, <2>7 DEF s, V
<1> QED BY <1>1, <1>3, <1>4, <1>5 DEF StatementOK

\* analyze_statement, statement by statement: the recursive function exists.
LEMMA FlowUnfolds ==
  ASSUME NEW d, WellFormed(d)
  PROVE  \A n \in Statements(d) :
           /\ Flow(d)[n] \in [SUBSET Variables(d) -> Results(Variables(d))]
           /\ \A a \in SUBSET Variables(d) :
                Flow(d)[n][a] = AnalyzeStatement(Flow(d), d.statement[n], a)
<1> DEFINE N == Cardinality(Statements(d))
           V == Variables(d)
           R == [SUBSET V -> Results(V)]
           T == [1 .. N -> R]
           of(f, n) == [a \in SUBSET V |-> AnalyzeStatement(f, d.statement[n], a)]
           Unfolds(f) == f = [n \in Statements(d) |-> of(f, n)]
<1>1. N \in Nat /\ Statements(d) = 1 .. N
  BY FS_CardinalityType DEF WellFormed
<1>2. ASSUME NEW n \in 1 .. N, NEW f, \A c \in 1 .. N : c < n => f[c] \in R
      PROVE  /\ of(f, n) \in R
             /\ \A other : (\A c \in 1 .. N : c < n => other[c] = f[c]) => of(f, n) = of(other, n)
  <2>1. ASSUME NEW a \in SUBSET V
        PROVE  /\ AnalyzeStatement(f, d.statement[n], a) \in Results(V)
               /\ \A other : (\A c \in 1 .. N : c < n => other[c] = f[c]) =>
                    AnalyzeStatement(f, d.statement[n], a) = AnalyzeStatement(other, d.statement[n], a)
    <3>1. /\ n \in Statements(d)
          /\ \A c \in Statements(d) : c < n => f[c] \in [SUBSET V -> Results(V)]
      BY <1>1, <1>2
    <3>2. /\ AnalyzeStatement(f, d.statement[n], a) \in Results(V)
          /\ \A other : (\A c \in Statements(d) : c < n => other[c] = f[c]) =>
               AnalyzeStatement(f, d.statement[n], a) = AnalyzeStatement(other, d.statement[n], a)
      BY <3>1, AnalyzeStatementFacts
    <3> HIDE DEF N, R
    <3> QED BY <1>1, <3>2
  <2> QED BY <2>1
<1> HIDE DEF of
<1> DEFINE step == [k \in 1 .. N |-> [f \in T |-> [f EXCEPT ![k] = of(f, k)]]]
           none == [n \in 1 .. N |-> [a \in SUBSET V |-> [assigned |-> {}, liveIn |-> {}]]]
<1>3. none \in T
  BY DEF Results
<1> HIDE DEF N, R, none
<1>4. step \in Steps(N, T)
  <2>1. ASSUME NEW k \in 1 .. N, NEW f \in T
        PROVE  [f EXCEPT ![k] = of(f, k)] \in T
    <3>1. of(f, k) \in R
      BY <1>2
    <3> QED BY <3>1
  <2> QED BY <2>1 DEF Steps
<1> HIDE DEF step
<1>5. PICK g : Iterates(g, N, T, none, step)
  <2> HIDE DEF T
  <2> QED BY ONLY <1>1, <1>3, <1>4, IterationExists
<1>6. /\ \A k \in 0 .. N : g[k] \in T
      /\ \A k \in 1 .. N : g[k] = step[k][g[k - 1]] /\ k - 1 \in 0 .. N
  BY <1>1, <1>5 DEF Iterates
<1>7. \A k \in 1 .. N : g[k] = [g[k - 1] EXCEPT ![k] = of(g[k - 1], k)]
  BY <1>6 DEF step
<1>8. \A n \in 1 .. N : g[N][n] = of(g[N], n)
  <2> DEFINE S == {k \in Nat : k <= N => \A n \in 1 .. k : g[k][n] = of(g[k], n)}
  <2>1. 0 \in S
    OBVIOUS
  <2>2. ASSUME NEW k \in S
        PROVE  k + 1 \in S
    <3> SUFFICES ASSUME k + 1 <= N, NEW n \in 1 .. k + 1
                 PROVE  g[k + 1][n] = of(g[k + 1], n)
      OBVIOUS
    <3>1. k + 1 \in 1 .. N /\ (k + 1) - 1 = k /\ n \in 1 .. N /\ k \in 0 .. N /\ k + 1 \in 0 .. N
      BY <1>1
    <3>2. g[k + 1] = [g[k] EXCEPT ![k + 1] = of(g[k], k + 1)]
      BY <1>7, <3>1
    <3>3. g[k] \in T /\ g[k + 1] \in T
      BY <1>6, <3>1
    <3>4. \A c \in 1 .. N : c < n => g[k + 1][c] = g[k][c] /\ g[k][c] \in R
      BY <1>1, <3>1, <3>2, <3>3
    <3>5. of(g[k], n) = of(g[k + 1], n)
      BY <1>2, <3>1, <3>4
    <3>6. g[k + 1][n] = of(g[k], n)
      <4>1. CASE n = k + 1
        BY <3>1, <3>2, <3>3, <4>1
      <4>2. CASE n # k + 1
        <5>1. n \in 1 .. k /\ g[k + 1][n] = g[k][n]
          BY <1>1, <3>1, <3>2, <3>3, <4>2
        <5> QED BY <1>1, <3>1, <5>1
      <4> QED BY <4>1, <4>2
    <3> QED BY <3>5, <3>6
  <2>3. N \in S
    <3> HIDE DEF S
    <3> QED BY <1>1, <2>1, <2>2, NaturalsInSet
  <2> QED BY <1>1, <2>3
<1>9. Unfolds(g[N])
  <2>1. g[N] \in T
    BY <1>1, <1>6
  <2>2. g[N] = [n \in 1 .. N |-> g[N][n]]
    BY <2>1
  <2> QED BY <1>1, <1>8, <2>2
<1>10. Unfolds(Flow(d))
  <2>1. Flow(d) = CHOOSE f : Unfolds(f)
    BY DEF Flow, of
  <2> HIDE DEF Unfolds
  <2> QED BY <1>9, <2>1
<1>11. \A n \in 1 .. N : Flow(d)[n] = of(Flow(d), n)
  BY <1>1, <1>10
<1>12. \A n \in 1 .. N : Flow(d)[n] \in R
  <2> DEFINE S == {k \in Nat : k <= N => \A n \in 1 .. k : Flow(d)[n] \in R}
  <2>1. 0 \in S
    OBVIOUS
  <2>2. ASSUME NEW k \in S
        PROVE  k + 1 \in S
    <3> SUFFICES ASSUME k + 1 <= N, NEW n \in 1 .. k + 1
                 PROVE  Flow(d)[n] \in R
      OBVIOUS
    <3>1. k + 1 \in 1 .. N /\ n \in 1 .. N /\ k <= N
      BY <1>1
    <3>2. \A c \in 1 .. N : c < n => c \in 1 .. k
      BY <1>1, <3>1
    <3> QED BY <1>2, <1>11, <3>1, <3>2
  <2>3. N \in S
    <3> HIDE DEF S
    <3> QED BY <1>1, <2>1, <2>2, NaturalsInSet
  <2> QED BY <1>1, <2>3
<1>13. ASSUME NEW n \in Statements(d), NEW a \in SUBSET V
       PROVE  Flow(d)[n][a] = AnalyzeStatement(Flow(d), d.statement[n], a)
  BY <1>1, <1>11 DEF of
<1> QED BY <1>1, <1>12, <1>13 DEF R

\* What is live-in is read, and what is assigned is written or was assigned.
LEMMA FlowBounds ==
  ASSUME NEW d, WellFormed(d), NEW n \in Statements(d), NEW a \in SUBSET Variables(d)
  PROVE  /\ Flow(d)[n][a].liveIn \subseteq StatementReads(d, d.root[n])
         /\ Flow(d)[n][a].assigned \subseteq a \cup StatementWrites(d, d.root[n])
<1> DEFINE V == Variables(d)
           N == Cardinality(Statements(d))
           F == Flow(d)
           Bounded(m) ==
             \A b \in SUBSET V :
               /\ F[m][b].liveIn \subseteq StatementReads(d, d.root[m])
               /\ F[m][b].assigned \subseteq b \cup StatementWrites(d, d.root[m])
<1>1. N \in Nat /\ Statements(d) = 1 .. N
  BY FS_CardinalityType DEF WellFormed
<1>2. \A m \in Statements(d) :
        /\ F[m] \in [SUBSET V -> Results(V)]
        /\ \A b \in SUBSET V : F[m][b] = AnalyzeStatement(F, d.statement[m], b)
  BY FlowUnfolds
<1> HIDE DEF N, F
<1>3. ASSUME NEW m \in Statements(d), \A c \in Statements(d) : c < m => Bounded(c),
             NEW b \in SUBSET V
      PROVE  /\ F[m][b].liveIn \subseteq StatementReads(d, d.root[m])
             /\ F[m][b].assigned \subseteq b \cup StatementWrites(d, d.root[m])
  <2> DEFINE s == d.statement[m]
             reads == StatementReads(d, d.root[m])
             writes == StatementWrites(d, d.root[m])
  <2>1. F[m][b] = AnalyzeStatement(F, s, b)
    BY <1>2
  <2>2. m \in Inside(d, d.root[m]) /\ StatementOK(d, m)
    BY DEF Inside, WellFormed
  <2>3. ASSUME NEW ids, PartsOf(d, m, ids)
        PROVE  /\ AnalyzeStatements(F, ids, b).liveIn \subseteq reads
               /\ AnalyzeStatements(F, ids, b).assigned \subseteq b \cup writes
    <3> DEFINE L == Len(ids)
    <3>1. /\ ids \in Seq(Statements(d))
          /\ \A c \in ToIds(ids) : c \in Statements(d) /\ c < m /\ d.root[c] = d.root[m]
      BY <2>3, PartsBefore
    <3>2. ResultsFor(V, ids, F)
      BY <1>2, <3>1 DEF ResultsFor
    <3>3. PICK q \in [0 .. L -> SUBSET V] :
            /\ q[0] = b
            /\ \A k \in 1 .. L : q[k] = F[ids[k]][q[k - 1]].assigned
            /\ AnalyzeStatements(F, ids, b).assigned = q[L]
            /\ AnalyzeStatements(F, ids, b).liveIn =
                 UNION {F[ids[k]][q[k - 1]].liveIn : k \in 1 .. L}
            /\ AnalyzeStatements(F, ids, b) \in Results(V)
      BY <3>1, <3>2, AnalyzeInOrder
    <3>4. L \in Nat /\ DOMAIN ids = 1 .. L
      BY <3>1, LenProperties
    <3>5. ASSUME NEW k \in 1 .. L
          PROVE  /\ F[ids[k]][q[k - 1]].liveIn \subseteq reads
                 /\ F[ids[k]][q[k - 1]].assigned \subseteq q[k - 1] \cup writes
      <4>1. ids[k] \in ToIds(ids) /\ k - 1 \in 0 .. L
        BY <3>4 DEF ToIds
      <4>2. q[k - 1] \in SUBSET V /\ Bounded(ids[k]) /\ d.root[ids[k]] = d.root[m]
        BY <1>3, <3>1, <4>1
      <4> QED BY <4>2
    <3> HIDE DEF L
    <3>6. q[L] \subseteq b \cup writes
      <4> DEFINE S == {k \in Nat : k <= L => q[k] \subseteq b \cup writes}
      <4>1. 0 \in S
        BY <3>3
      <4>2. ASSUME NEW k \in S
            PROVE  k + 1 \in S
        <5> SUFFICES ASSUME k + 1 <= L PROVE q[k + 1] \subseteq b \cup writes
          OBVIOUS
        <5>1. k + 1 \in 1 .. L /\ (k + 1) - 1 = k /\ q[k] \subseteq b \cup writes
          BY <3>4
        <5>2. q[k + 1] \subseteq q[k] \cup writes
          BY <3>3, <3>5, <5>1
        <5> QED BY <5>1, <5>2
      <4>3. L \in S
        <5> HIDE DEF S
        <5> QED BY <3>4, <4>1, <4>2, NaturalsInSet
      <4> QED BY <3>4, <4>3
    <3> QED BY <3>3, <3>5, <3>6
  <2>4. CASE s.kind = "Assignment"
    <3>1. TargetReads(s.target) \cup ExpressionReads(s.value) \subseteq reads
      BY <2>2, <2>4 DEF StatementReads
    <3>2. s.target.var \in writes
      BY <2>2, <2>4 DEF StatementWrites, AssignmentsIn
    <3>3. /\ F[m][b].assigned = IF s.assign # "Nonblocking" /\ IsWhole(s.target)
                                 THEN b \cup {s.target.var} ELSE b
          /\ F[m][b].liveIn = (TargetReads(s.target) \cup ExpressionReads(s.value)) \ b
      BY <2>1, <2>4 DEF AnalyzeStatement
    <3> HIDE DEF reads, writes
    <3> QED BY <3>1, <3>2, <3>3 DEF reads, writes
  <2>5. CASE s.kind = "Block" /\ PartsOf(d, m, s.body)
    <3>1. F[m][b] = AnalyzeStatements(F, s.body, b)
      BY <2>1, <2>5 DEF AnalyzeStatement
    <3> QED BY <2>3, <2>5, <3>1
  <2>6. CASE s.kind = "If" /\ PartsOf(d, m, s.then) /\ PartsOf(d, m, s.else)
    <3> DEFINE yes == AnalyzeStatements(F, s.then, b)
               no  == AnalyzeStatements(F, s.else, b)
    <3>1. /\ F[m][b].assigned = yes.assigned \cap no.assigned
          /\ F[m][b].liveIn = (ExpressionReads(s.condition) \ b) \cup yes.liveIn \cup no.liveIn
      BY <2>1, <2>6 DEF AnalyzeStatement
    <3>2. ExpressionReads(s.condition) \subseteq reads
      BY <2>2, <2>6 DEF StatementReads
    <3>3. /\ yes.liveIn \subseteq reads /\ no.liveIn \subseteq reads
          /\ yes.assigned \subseteq b \cup writes
      BY <2>3, <2>6
    <3> HIDE DEF yes, no, reads, writes
    <3> QED BY <3>1, <3>2, <3>3 DEF reads, writes
  <2> QED BY <2>2, <2>4, <2>5, <2>6 DEF StatementOK
<1> HIDE DEF Bounded
<1>4. \A m \in Statements(d) : Bounded(m)
  <2> DEFINE S == {k \in Nat : k <= N => \A m \in 1 .. k : Bounded(m)}
  <2>1. 0 \in S
    OBVIOUS
  <2>2. ASSUME NEW k \in S
        PROVE  k + 1 \in S
    <3> SUFFICES ASSUME k + 1 <= N, NEW m \in 1 .. k + 1
                 PROVE  Bounded(m)
      OBVIOUS
    <3>1. m \in Statements(d) /\ \A c \in Statements(d) : c < m => c \in 1 .. k
      BY <1>1
    <3>2. \A c \in Statements(d) : c < m => Bounded(c)
      BY <1>1, <3>1
    <3> QED BY <1>3, <3>1, <3>2 DEF Bounded
  <2>3. N \in S
    <3> HIDE DEF S
    <3> QED BY <1>1, <2>1, <2>2, NaturalsInSet
  <2> QED BY <1>1, <2>3
<1> QED BY <1>4 DEF Bounded, F

-----------------------------------------------------------------------------
(* Runs of a list of statements. *)

Stepper(d) == [m \in Machines(d) |-> ExecStep(d, m)]

\* A run of the statements from two stores, at its end.
Finishes(d, ids, env, pending, m) ==
  m \in Reachable(Stepper(d), Machine(ids, env, pending)) /\ m.stack = <<>>

\* A step of a machine is a machine.
LEMMA StepperFacts ==
  ASSUME NEW d, WellFormed(d)
  PROVE  /\ DOMAIN Stepper(d) = Machines(d)
         /\ \A x \in Machines(d) : Stepper(d)[x] = ExecStep(d, x) /\ Stepper(d)[x] \in Machines(d)
         /\ \A start : Reachable(Stepper(d), start) \subseteq Machines(d)
<1>1. \A x \in Machines(d) : ExecStep(d, x) \in Machines(d)
  BY ExecStepType
<1>2. DOMAIN Stepper(d) = Machines(d)
      /\ \A x \in Machines(d) : Stepper(d)[x] = ExecStep(d, x) /\ Stepper(d)[x] \in Machines(d)
  BY <1>1 DEF Stepper
<1>3. \A start : Reachable(Stepper(d), start) \subseteq Machines(d)
  BY <1>2 DEF Reachable
<1> QED BY <1>2, <1>3

\* A list of statements and two stores make a machine.
LEMMA MachineType ==
  ASSUME NEW d, NEW ids \in Seq(Statements(d)), NEW env \in Stores(d), NEW pending \in Stores(d)
  PROVE  /\ Machine(ids, env, pending) \in Machines(d)
         /\ Machine(ids, env, pending).stack = ids
         /\ Machine(ids, env, pending).env = env
         /\ Machine(ids, env, pending).pending = pending
         /\ ~ Machine(ids, env, pending).panicked
BY DEF Machine, Machines

\* A run that has panicked has statements left, so a run that is at its end
\* has not panicked, and stays where it is.
LEMMA FinishedMachine ==
  ASSUME NEW d, WellFormed(d), NEW ids \in Seq(Statements(d)), NEW env \in Stores(d),
         NEW pending \in Stores(d), NEW m, Finishes(d, ids, env, pending, m)
  PROVE  /\ m \in Machines(d) /\ m.env \in Stores(d) /\ m.pending \in Stores(d)
         /\ m = Machine(<<>>, m.env, m.pending)
         /\ Stepper(d)[m] = m
<1> DEFINE start == Machine(ids, env, pending)
           C == {x \in Machines(d) : x.panicked => x.stack # <<>>}
<1>1. start \in C
  BY MachineType
<1>2. ASSUME NEW x \in C
      PROVE  Stepper(d)[x] \in C
  <2>1. Stepper(d)[x] = ExecStep(d, x) /\ ExecStep(d, x) \in Machines(d)
    BY StepperFacts
  <2>2. ExecStep(d, x).panicked => ExecStep(d, x).stack # <<>>
    <3>1. x \in Machines(d) /\ (x.panicked => x.stack # <<>>)
      OBVIOUS
    <3> DEFINE s == d.statement[Head(x.stack)]
    <3>2. CASE x.stack = <<>> \/ x.panicked
      BY <3>1, <3>2 DEF ExecStep
    <3>3. CASE x.stack # <<>> /\ ~ x.panicked /\ Panics(d, s, x.env)
      <4>1. ExecStep(d, x) = [x EXCEPT !.panicked = TRUE]
        BY <3>3 DEF ExecStep
      <4> QED BY <3>1, <3>3, <4>1 DEF Machines
    <3>4. CASE x.stack # <<>> /\ ~ x.panicked /\ ~ Panics(d, s, x.env)
      <4>1. ExecStep(d, x).panicked = x.panicked
        <5>1. CASE s.kind = "Assignment"
          <6>1. ExecStep(d, x) = [x EXCEPT !.stack = Tail(x.stack), !.env = AssignEnv(d, s, x.env),
                                            !.pending = AssignPending(d, s, x.env, x.pending)]
            BY <3>4, <5>1 DEF ExecStep
          <6> QED BY <3>1, <6>1 DEF Machines
        <5>2. CASE s.kind # "Assignment"
          <6>1. ExecStep(d, x) = [x EXCEPT !.stack = Unfold(d, s, x.env, Tail(x.stack))]
            BY <3>4, <5>2 DEF ExecStep
          <6> QED BY <3>1, <6>1 DEF Machines
        <5> QED BY <5>1, <5>2
      <4> QED BY <3>4, <4>1
    <3> QED BY <3>2, <3>3, <3>4
  <2> QED BY <2>1, <2>2
<1>3. m \in C
  <2>1. C \subseteq DOMAIN Stepper(d)
    BY StepperFacts
  <2> HIDE DEF C
  <2>2. Reachable(Stepper(d), start) \subseteq C
    BY <1>1, <1>2, <2>1, ReachableInvariant
  <2> QED BY <2>2 DEF Finishes
<1>4. m \in Machines(d) /\ m.stack = <<>> /\ m.panicked = FALSE
  <2>1. m \in Machines(d) /\ m.stack = <<>> /\ (m.panicked => m.stack # <<>>)
    BY <1>3 DEF Finishes
  <2>2. m.panicked \in BOOLEAN
    BY <2>1 DEF Machines
  <2> QED BY <2>1, <2>2
<1>5. m.env \in Stores(d) /\ m.pending \in Stores(d)
  BY <1>4 DEF Machines
<1>6. m = [stack |-> m.stack, env |-> m.env, pending |-> m.pending, panicked |-> m.panicked]
  BY <1>4 DEF Machines
<1>7. m = Machine(<<>>, m.env, m.pending)
  BY <1>4, <1>6 DEF Machine
<1>8. Stepper(d)[m] = m
  BY <1>4, StepperFacts DEF ExecStep
<1> QED BY <1>4, <1>5, <1>7, <1>8

-----------------------------------------------------------------------------
(* What a run depends on: the variables that are live-in. *)

\* An assignment leaves what agreed in agreement, and what it assigns wholly.
LEMMA AssignmentAgrees ==
  ASSUME NEW d, WellFormed(d), NEW s, TargetOK(d, s.target), ExpressionOK(d, s.value),
         NEW vs \in SUBSET Variables(d), TargetReads(s.target) \cup ExpressionReads(s.value) \subseteq vs,
         NEW env \in Stores(d), NEW other \in Stores(d), Agree(d, vs, env, other),
         NEW Q \in SUBSET Variables(d), NEW pending \in Stores(d), NEW results \in Stores(d),
         Agree(d, Q, pending, results)
  PROVE  /\ Agree(d, vs, AssignEnv(d, s, env), AssignEnv(d, s, other))
         /\ s.assign # "Nonblocking" /\ IsWhole(s.target) =>
              Agree(d, {s.target.var}, AssignEnv(d, s, env), AssignEnv(d, s, other))
         /\ Agree(d, Q, AssignPending(d, s, env, pending), AssignPending(d, s, other, results))
<1> DEFINE t == s.target
           written == Destination(d, t, env)
           bit(l) == BitOf(Eval(d, s.value, env), l[2] - TargetStart(d, t, env))
           Stored(store) == [l \in Locations(d) |-> IF l \in written THEN bit(l) ELSE store[l]]
<1>1. /\ Eval(d, s.value, env) = Eval(d, s.value, other)
      /\ TargetStart(d, t, env) = TargetStart(d, t, other)
      /\ Destination(d, t, env) = Destination(d, t, other)
  <2>1. Eval(d, s.value, env) = Eval(d, s.value, other)
    BY EvalAgrees
  <2>2. TargetReads(t) \subseteq vs
    OBVIOUS
  <2> QED BY <2>1, <2>2, TargetAgrees
<1>2. ASSUME NEW store \in Stores(d)
      PROVE  /\ StoreBits(d, store, t, Eval(d, s.value, env), env) = Stored(store)
             /\ StoreBits(d, store, t, Eval(d, s.value, other), other) = Stored(store)
  <2>1. DOMAIN store = Locations(d)
    BY DEF Stores
  <2> QED BY <1>1, <2>1 DEF StoreBits
<1>3. \A U \in SUBSET Variables(d) : LocationsIn(d, U) \subseteq Locations(d)
  BY DEF LocationsIn, Locations
<1>4. ASSUME NEW U \in SUBSET Variables(d), NEW x, NEW y, Agree(d, U, x, y)
      PROVE  Agree(d, U, Stored(x), Stored(y))
  BY <1>3, <1>4 DEF Agree
<1>5. IsWhole(t) => written = LocationsOf(d, t.var)
  <2> SUFFICES ASSUME IsWhole(t) PROVE written = LocationsOf(d, t.var)
    OBVIOUS
  <2>1. t.index = <<>> /\ t.select = <<>>
    BY DEF IsWhole
  <2>2. TargetStart(d, t, env) = 0 /\ TargetWidth(d, t) = d.width[t.var] /\ IndexDeclared(d, t, env)
    BY <2>1 DEF TargetStart, TargetWidth, IndexDeclared
  <2>3. d.width[t.var] \in Nat
    BY DEF TargetOK, WellFormed
  <2>4. \A l \in LocationsOf(d, t.var) : 0 <= l[2] /\ l[2] < d.width[t.var]
    BY <2>3 DEF LocationsOf
  <2> QED BY <2>2, <2>3, <2>4 DEF Destination
<1>6. t.var \in Variables(d)
  BY DEF TargetOK
<1>7. IsWhole(t) => \A x, y : Agree(d, {t.var}, Stored(x), Stored(y))
  <2>1. LocationsIn(d, {t.var}) = LocationsOf(d, t.var)
    BY DEF LocationsIn
  <2>2. LocationsOf(d, t.var) \subseteq Locations(d)
    BY <1>6 DEF Locations
  <2> HIDE DEF written, bit
  <2> QED BY <1>5, <2>1, <2>2 DEF Agree
<1> HIDE DEF Stored, t
<1>8. CASE s.assign = "Nonblocking"
  <2>1. /\ AssignEnv(d, s, env) = env /\ AssignEnv(d, s, other) = other
        /\ AssignPending(d, s, env, pending) = Stored(pending)
        /\ AssignPending(d, s, other, results) = Stored(results)
    BY <1>2, <1>8 DEF AssignEnv, AssignPending, t
  <2> QED BY <1>4, <1>8, <2>1 DEF t
<1>9. CASE s.assign # "Nonblocking"
  <2>1. /\ AssignEnv(d, s, env) = Stored(env) /\ AssignEnv(d, s, other) = Stored(other)
        /\ AssignPending(d, s, env, pending) = pending
        /\ AssignPending(d, s, other, results) = results
    BY <1>2, <1>9 DEF AssignEnv, AssignPending, t
  <2> QED BY <1>4, <1>7, <1>9, <2>1 DEF t
<1> QED BY <1>8, <1>9

\* What analyze_statement expects of the statements of a stack: with the
\* variables of R and those assigned so far nothing is read that may differ,
\* and in the end the variables of goal have been assigned.
Expected(d, R, goal, stack, a) ==
  /\ a \in [0 .. Len(stack) -> SUBSET Variables(d)]
  /\ \A k \in 1 .. Len(stack) :
       /\ Flow(d)[stack[k]][a[k - 1]].liveIn \subseteq R
       /\ a[k] \subseteq Flow(d)[stack[k]][a[k - 1]].assigned
  /\ goal \subseteq a[Len(stack)]

\* What is expected of a stack, of the rest of it.
LEMMA ExpectedRest ==
  ASSUME NEW d, NEW R, NEW goal, NEW stack \in Seq(Statements(d)), stack # <<>>,
         NEW a, Expected(d, R, goal, stack, a)
  PROVE  \E b : Expected(d, R, goal, Tail(stack), b) /\ b[0] = a[1]
<1> DEFINE n == Len(stack)
           b == [k \in 0 .. n - 1 |-> a[k + 1]]
<1>1. /\ n \in Nat \ {0} /\ Len(Tail(stack)) = n - 1
      /\ \A k \in 1 .. n - 1 : Tail(stack)[k] = stack[k + 1]
  <2>1. n \in Nat \ {0}
    BY EmptySeq, LenProperties
  <2> QED BY <2>1, HeadTailProperties
<1> HIDE DEF n
<1>2. /\ a \in [0 .. n -> SUBSET Variables(d)] /\ goal \subseteq a[n]
      /\ \A k \in 1 .. n : /\ Flow(d)[stack[k]][a[k - 1]].liveIn \subseteq R
                           /\ a[k] \subseteq Flow(d)[stack[k]][a[k - 1]].assigned
  BY DEF Expected, n
<1>3. \A k \in 0 .. n - 1 : k + 1 \in 0 .. n
  BY <1>1
<1>4. b \in [0 .. n - 1 -> SUBSET Variables(d)] /\ b[0] = a[1] /\ b[n - 1] = a[n]
  BY <1>1, <1>2, <1>3
<1>5. ASSUME NEW k \in 1 .. n - 1
      PROVE  /\ Flow(d)[Tail(stack)[k]][b[k - 1]].liveIn \subseteq R
             /\ b[k] \subseteq Flow(d)[Tail(stack)[k]][b[k - 1]].assigned
  <2>1. k + 1 \in 1 .. n /\ (k + 1) - 1 = k /\ b[k] = a[k + 1] /\ b[k - 1] = a[k]
    BY <1>1
  <2> HIDE DEF b
  <2> QED BY <1>1, <1>2, <2>1
<1> HIDE DEF b
<1>6. Expected(d, R, goal, Tail(stack), b)
  BY <1>1, <1>2, <1>4, <1>5 DEF Expected
<1> QED BY <1>4, <1>6

\* A list whose analysis is that of the first statement may take its place.
LEMMA ExpectedUnfold ==
  ASSUME NEW d, WellFormed(d), NEW R, NEW goal, NEW stack \in Seq(Statements(d)), stack # <<>>,
         NEW a, Expected(d, R, goal, stack, a), NEW ids \in Seq(Statements(d)),
         AnalyzeStatements(Flow(d), ids, a[0]).liveIn \subseteq R,
         a[1] \subseteq AnalyzeStatements(Flow(d), ids, a[0]).assigned
  PROVE  \E b : Expected(d, R, goal, ids \o Tail(stack), b) /\ b[0] \subseteq a[0]
<1> DEFINE n == Len(stack)
           L == Len(ids)
           F == Flow(d)
           V == Variables(d)
           all_ == ids \o Tail(stack)
<1>1. n \in Nat \ {0} /\ L \in Nat /\ Tail(stack) \in Seq(Statements(d))
      /\ Len(Tail(stack)) = n - 1 /\ \A k \in 1 .. n - 1 : Tail(stack)[k] = stack[k + 1]
  <2>1. n \in Nat \ {0}
    BY EmptySeq, LenProperties
  <2>2. L \in Nat
    BY LenProperties
  <2> QED BY <2>1, <2>2, HeadTailProperties
<1>2. /\ Len(all_) = L + (n - 1)
      /\ \A k \in 1 .. L + (n - 1) : all_[k] = IF k <= L THEN ids[k] ELSE Tail(stack)[k - L]
  <2>1. /\ Len(all_) = Len(ids) + Len(Tail(stack))
        /\ \A k \in 1 .. Len(ids) + Len(Tail(stack)) :
             all_[k] = IF k <= Len(ids) THEN ids[k] ELSE Tail(stack)[k - Len(ids)]
    BY <1>1, ConcatProperties
  <2> QED BY <1>1, <2>1
<1>3. /\ a \in [0 .. n -> SUBSET V] /\ goal \subseteq a[n]
      /\ \A k \in 1 .. n : /\ F[stack[k]][a[k - 1]].liveIn \subseteq R
                           /\ a[k] \subseteq F[stack[k]][a[k - 1]].assigned
  BY DEF Expected
<1> DEFINE whole == AnalyzeStatements(F, ids, a[0])
<1>4. \E q \in [0 .. L -> SUBSET V] :
        /\ q[0] = a[0]
        /\ \A k \in 1 .. L : q[k] = F[ids[k]][q[k - 1]].assigned
        /\ whole.assigned = q[L]
        /\ whole.liveIn = UNION {F[ids[k]][q[k - 1]].liveIn : k \in 1 .. L}
        /\ whole \in Results(V)
  <2>1. ResultsFor(V, ids, F)
    <3>1. \A c \in ToIds(ids) : c \in Statements(d)
      BY ElementOfSeq DEF ToIds
    <3> QED BY <3>1, FlowUnfolds DEF ResultsFor
  <2>2. a[0] \in SUBSET V
    BY <1>1, <1>3
  <2> HIDE DEF F, V
  <2> QED BY <2>1, <2>2, AnalyzeInOrder
<1>5. whole.liveIn \subseteq R /\ a[1] \subseteq whole.assigned
  OBVIOUS
<1> HIDE DEF n, L, F, all_, whole
<1>6. PICK q \in [0 .. L -> SUBSET V] :
        /\ q[0] = a[0]
        /\ \A k \in 1 .. L : q[k] = F[ids[k]][q[k - 1]].assigned
        /\ whole.assigned = q[L]
        /\ whole.liveIn = UNION {F[ids[k]][q[k - 1]].liveIn : k \in 1 .. L}
        /\ whole \in Results(V)
  BY <1>4
<1> DEFINE b == [k \in 0 .. L + (n - 1) |-> IF k < L THEN q[k] ELSE a[(k - L) + 1]]
<1>7. b \in [0 .. L + (n - 1) -> SUBSET V]
  <2>1. ASSUME NEW k \in 0 .. L + (n - 1)
        PROVE  (IF k < L THEN q[k] ELSE a[(k - L) + 1]) \in SUBSET V
    <3>1. CASE k < L
      <4>1. k \in 0 .. L
        BY <1>1, <3>1
      <4> QED BY <3>1, <4>1
    <3>2. CASE ~ (k < L)
      <4>1. (k - L) + 1 \in 0 .. n
        BY <1>1, <3>2
      <4> QED BY <1>3, <3>2, <4>1
    <3> QED BY <3>1, <3>2
  <2> QED BY <2>1
<1>8. b[L + (n - 1)] = a[n]
  <2>1. L + (n - 1) \in 0 .. L + (n - 1) /\ ~ (L + (n - 1) < L) /\ ((L + (n - 1)) - L) + 1 = n
    BY <1>1
  <2> QED BY <2>1
<1>9. b[0] \subseteq a[0]
  <2>1. 0 \in 0 .. L + (n - 1)
    BY <1>1
  <2>2. CASE L = 0
    <3>1. b[0] = a[1]
      BY <1>1, <2>1, <2>2
    <3> QED BY <1>5, <1>6, <2>2, <3>1
  <2>3. CASE L # 0
    <3>1. b[0] = q[0]
      BY <1>1, <2>1, <2>3
    <3> QED BY <1>6, <3>1
  <2> QED BY <2>2, <2>3
<1>10. ASSUME NEW k \in 1 .. L + (n - 1)
       PROVE  /\ F[all_[k]][b[k - 1]].liveIn \subseteq R
              /\ b[k] \subseteq F[all_[k]][b[k - 1]].assigned
  <2>1. k \in 0 .. L + (n - 1) /\ k - 1 \in 0 .. L + (n - 1)
    BY <1>1
  <2>2. CASE k <= L
    <3>1. k \in 1 .. L /\ all_[k] = ids[k] /\ b[k - 1] = q[k - 1]
      BY <1>1, <1>2, <2>1, <2>2
    <3>2. b[k] \subseteq q[k]
      <4>1. CASE k < L
        BY <2>1, <4>1
      <4>2. CASE k = L
        <5>1. b[k] = a[1]
          BY <1>1, <2>1, <4>2
        <5> QED BY <1>5, <1>6, <4>2, <5>1
      <4>3. k < L \/ k = L
        BY <1>1, <2>2, <3>1
      <4> HIDE DEF b
      <4> QED BY <4>1, <4>2, <4>3
    <3>3. F[ids[k]][q[k - 1]].liveIn \subseteq R
      BY <1>5, <1>6, <3>1
    <3> HIDE DEF b
    <3> QED BY <1>6, <3>1, <3>2, <3>3
  <2>3. CASE ~ (k <= L)
    <3> DEFINE j == (k - L) + 1
    <3>1. j \in 1 .. n /\ k - L \in 1 .. n - 1 /\ j - 1 = k - L /\ ((k - 1) - L) + 1 = k - L
      BY <1>1, <2>3
    <3>2. all_[k] = stack[j]
      BY <1>1, <1>2, <2>3, <3>1
    <3>3. b[k] = a[j] /\ b[k - 1] = a[j - 1]
      BY <1>1, <2>1, <2>3, <3>1
    <3> HIDE DEF b, j
    <3> QED BY <1>3, <3>1, <3>2, <3>3
  <2> QED BY <2>2, <2>3
<1> HIDE DEF b
<1>11. Expected(d, R, goal, all_, b)
  BY <1>2, <1>3, <1>7, <1>8, <1>10 DEF Expected, F
<1> QED BY <1>9, <1>11 DEF all_

\* Two machines at the same statement whose stores agree on what may be read
\* from there on.
Alike(d, R, Q, goal, x, y) ==
  /\ x.stack = y.stack /\ x.panicked = y.panicked
  /\ Agree(d, Q, x.pending, y.pending)
  /\ \E a : Expected(d, R, goal, x.stack, a) /\ Agree(d, R \cup a[0], x.env, y.env)

\* Stores agree on fewer variables.
LEMMA AgreeLess ==
  ASSUME NEW d, NEW vs, NEW us, us \subseteq vs, NEW x, NEW y, Agree(d, vs, x, y)
  PROVE  Agree(d, us, x, y)
BY DEF Agree, LocationsIn

\* Stores agree on the variables of both sets.
LEMMA AgreeBoth ==
  ASSUME NEW d, NEW vs, NEW us, NEW x, NEW y, Agree(d, vs, x, y), Agree(d, us, x, y)
  PROVE  Agree(d, vs \cup us, x, y)
BY DEF Agree, LocationsIn

\* A step keeps two machines alike.
LEMMA AlikeStep ==
  ASSUME NEW d, WellFormed(d), NEW R \in SUBSET Variables(d), NEW Q \in SUBSET Variables(d),
         NEW goal, NEW x \in Machines(d), NEW y \in Machines(d), Alike(d, R, Q, goal, x, y)
  PROVE  Alike(d, R, Q, goal, ExecStep(d, x), ExecStep(d, y))
<1> DEFINE stack == x.stack
           n == Head(stack)
           s == d.statement[n]
           F == Flow(d)
           V == Variables(d)
           exec(m) == ExecStep(d, m)
<1>1. /\ stack \in Seq(Statements(d)) /\ y.stack = stack
      /\ x.env \in Stores(d) /\ y.env \in Stores(d)
      /\ x.pending \in Stores(d) /\ y.pending \in Stores(d)
      /\ x.panicked = y.panicked
      /\ Agree(d, Q, x.pending, y.pending)
  BY DEF Machines, Alike
<1>2. PICK a : Expected(d, R, goal, stack, a) /\ Agree(d, R \cup a[0], x.env, y.env)
  BY DEF Alike
<1>3. CASE stack = <<>> \/ x.panicked
  BY <1>1, <1>3 DEF ExecStep
<1>4. CASE stack # <<>> /\ ~ x.panicked
  <2>1. /\ n \in Statements(d) /\ Tail(stack) \in Seq(Statements(d)) /\ Len(stack) \in Nat \ {0}
        /\ stack[1] = n
    <3>1. Len(stack) \in Nat \ {0}
      BY <1>1, <1>4, EmptySeq, LenProperties
    <3> QED BY <1>1, <1>4, <3>1, HeadTailProperties
  <2>2. StatementOK(d, n)
    BY <2>1 DEF WellFormed
  <2> DEFINE result == F[n][a[0]]
  <2>3. /\ a[0] \in SUBSET V /\ a[1] \in SUBSET V
        /\ result.liveIn \subseteq R /\ a[1] \subseteq result.assigned
    <3>1. a \in [0 .. Len(stack) -> SUBSET V] /\ 0 \in 0 .. Len(stack) /\ 1 \in 1 .. Len(stack)
      BY <1>2, <2>1 DEF Expected
    <3>2. 1 - 1 = 0 /\ 1 \in 0 .. Len(stack)
      BY <3>1
    <3> QED BY <1>2, <2>1, <3>1, <3>2 DEF Expected
  <2>4. result = AnalyzeStatement(F, s, a[0])
    BY <2>1, <2>3, FlowUnfolds
  <2> HIDE DEF result, F
  <2> DEFINE vs == R \cup a[0]
  <2>5. vs \in SUBSET V /\ Agree(d, vs, x.env, y.env)
    BY <1>2, <2>3
  <2>6. CASE s.kind = "Assignment"
    <3>1. TargetOK(d, s.target) /\ ExpressionOK(d, s.value)
      BY <2>2, <2>6 DEF StatementOK
    <3>2. /\ result.assigned = IF s.assign # "Nonblocking" /\ IsWhole(s.target)
                               THEN a[0] \cup {s.target.var} ELSE a[0]
          /\ result.liveIn = (TargetReads(s.target) \cup ExpressionReads(s.value)) \ a[0]
      BY <2>4, <2>6 DEF AnalyzeStatement
    <3> DEFINE reads == TargetReads(s.target) \cup ExpressionReads(s.value)
    <3>3. reads \subseteq vs
      <4> HIDE DEF reads
      <4>1. reads \ a[0] \subseteq R
        BY <2>3, <3>2 DEF reads
      <4> QED BY <4>1
    <3>4. IndexDeclared(d, s.target, x.env) = IndexDeclared(d, s.target, y.env)
      BY <2>5, <3>1, <3>3, TargetAgrees
    <3>5. CASE ~ IndexDeclared(d, s.target, x.env)
      <4>1. exec(x) = [x EXCEPT !.panicked = TRUE] /\ exec(y) = [y EXCEPT !.panicked = TRUE]
        BY <1>1, <1>4, <2>6, <3>4, <3>5 DEF ExecStep, Panics
      <4>2. /\ exec(x).stack = stack /\ exec(y).stack = stack
            /\ exec(x).panicked = exec(y).panicked
            /\ exec(x).env = x.env /\ exec(y).env = y.env
            /\ exec(x).pending = x.pending /\ exec(y).pending = y.pending
        BY <1>1, <4>1 DEF Machines
      <4> HIDE DEF exec
      <4>3. Alike(d, R, Q, goal, exec(x), exec(y))
        BY <1>1, <1>2, <4>2 DEF Alike
      <4> QED BY <4>3 DEF exec
    <3>6. CASE IndexDeclared(d, s.target, x.env)
      <4>1. /\ exec(x) = [x EXCEPT !.stack = Tail(x.stack), !.env = AssignEnv(d, s, x.env),
                                   !.pending = AssignPending(d, s, x.env, x.pending)]
            /\ exec(y) = [y EXCEPT !.stack = Tail(y.stack), !.env = AssignEnv(d, s, y.env),
                                   !.pending = AssignPending(d, s, y.env, y.pending)]
        BY <1>1, <1>4, <2>6, <3>4, <3>6 DEF ExecStep, Panics
      <4>2. /\ exec(x).stack = Tail(stack) /\ exec(y).stack = Tail(stack)
            /\ exec(x).panicked = exec(y).panicked
            /\ exec(x).env = AssignEnv(d, s, x.env) /\ exec(y).env = AssignEnv(d, s, y.env)
            /\ exec(x).pending = AssignPending(d, s, x.env, x.pending)
            /\ exec(y).pending = AssignPending(d, s, y.env, y.pending)
        BY <1>1, <4>1 DEF Machines
      <4> HIDE DEF exec, s, vs
      <4>3. /\ Agree(d, vs, exec(x).env, exec(y).env)
            /\ s.assign # "Nonblocking" /\ IsWhole(s.target) =>
                 Agree(d, {s.target.var}, exec(x).env, exec(y).env)
            /\ Agree(d, Q, exec(x).pending, exec(y).pending)
        <5>1. /\ WellFormed(d) /\ vs \in SUBSET Variables(d) /\ Q \in SUBSET Variables(d)
              /\ TargetReads(s.target) \cup ExpressionReads(s.value) \subseteq vs
          BY <2>5, <3>3
        <5>2. /\ Agree(d, vs, AssignEnv(d, s, x.env), AssignEnv(d, s, y.env))
              /\ s.assign # "Nonblocking" /\ IsWhole(s.target) =>
                   Agree(d, {s.target.var}, AssignEnv(d, s, x.env), AssignEnv(d, s, y.env))
              /\ Agree(d, Q, AssignPending(d, s, x.env, x.pending),
                            AssignPending(d, s, y.env, y.pending))
          BY ONLY <1>1, <2>5, <3>1, <5>1, AssignmentAgrees
        <5> QED BY ONLY <4>2, <5>2
      <4>4. Agree(d, R \cup a[1], exec(x).env, exec(y).env)
        <5>1. CASE s.assign # "Nonblocking" /\ IsWhole(s.target)
          <6>1. R \cup a[1] \subseteq vs \cup {s.target.var}
            BY <2>3, <3>2, <5>1 DEF vs
          <6>2. Agree(d, vs \cup {s.target.var}, exec(x).env, exec(y).env)
            BY <4>3, <5>1, AgreeBoth
          <6> QED BY <6>1, <6>2, AgreeLess
        <5>2. CASE ~ (s.assign # "Nonblocking" /\ IsWhole(s.target))
          <6>1. R \cup a[1] \subseteq vs
            BY <2>3, <3>2, <5>2 DEF vs
          <6> QED BY <4>3, <6>1, AgreeLess
        <5> QED BY <5>1, <5>2
      <4>5. PICK b : Expected(d, R, goal, Tail(stack), b) /\ b[0] = a[1]
        BY <1>1, <1>2, <1>4, ExpectedRest
      <4>6. Alike(d, R, Q, goal, exec(x), exec(y))
        BY <4>2, <4>3, <4>4, <4>5 DEF Alike
      <4> QED BY <4>6 DEF exec
    <3> QED BY <3>5, <3>6
  <2>7. ASSUME s.kind # "Assignment",
               NEW ids, PartsOf(d, n, ids),
               AnalyzeStatements(F, ids, a[0]).liveIn \subseteq R,
               a[1] \subseteq AnalyzeStatements(F, ids, a[0]).assigned,
               Unfold(d, s, x.env, Tail(stack)) = ids \o Tail(stack),
               Unfold(d, s, y.env, Tail(stack)) = ids \o Tail(stack)
        PROVE  Alike(d, R, Q, goal, exec(x), exec(y))
    <3>1. /\ exec(x) = [x EXCEPT !.stack = Unfold(d, s, x.env, Tail(x.stack))]
          /\ exec(y) = [y EXCEPT !.stack = Unfold(d, s, y.env, Tail(y.stack))]
      BY <1>1, <1>4, <2>7 DEF ExecStep, Panics
    <3>2. /\ exec(x).stack = ids \o Tail(stack) /\ exec(y).stack = ids \o Tail(stack)
          /\ exec(x).panicked = exec(y).panicked
          /\ exec(x).env = x.env /\ exec(y).env = y.env
          /\ exec(x).pending = x.pending /\ exec(y).pending = y.pending
      BY <1>1, <2>7, <3>1 DEF Machines
    <3>3. ids \in Seq(Statements(d))
      BY <2>1, <2>7, PartsBefore
    <3>4. PICK b : Expected(d, R, goal, ids \o Tail(stack), b) /\ b[0] \subseteq a[0]
      BY <1>1, <1>2, <1>4, <2>7, <3>3, ExpectedUnfold DEF F
    <3> HIDE DEF exec
    <3>5. Agree(d, R \cup b[0], exec(x).env, exec(y).env)
      <4>1. R \cup b[0] \subseteq vs
        BY <3>4
      <4> HIDE DEF vs
      <4> QED BY <2>5, <3>2, <4>1, AgreeLess
    <3> QED BY <1>1, <3>2, <3>4, <3>5 DEF Alike
  <2>8. CASE s.kind = "Block" /\ PartsOf(d, n, s.body)
    <3>1. result = AnalyzeStatements(F, s.body, a[0])
      BY <2>4, <2>8 DEF AnalyzeStatement
    <3>2. \A env : Unfold(d, s, env, Tail(stack)) = s.body \o Tail(stack)
      BY <2>8 DEF Unfold
    <3>3. s.kind # "Assignment"
      BY <2>8
    <3> HIDE DEF s
    <3> QED BY <2>3, <2>7, <2>8, <3>1, <3>2, <3>3
  <2>9. CASE s.kind = "If" /\ ExpressionOK(d, s.condition)
             /\ PartsOf(d, n, s.then) /\ PartsOf(d, n, s.else)
    <3> DEFINE yes == AnalyzeStatements(F, s.then, a[0])
               no  == AnalyzeStatements(F, s.else, a[0])
               reads == ExpressionReads(s.condition)
               ids == IF Truthy(Eval(d, s.condition, x.env)) THEN s.then ELSE s.else
    <3>1. /\ result.assigned = yes.assigned \cap no.assigned
          /\ result.liveIn = (reads \ a[0]) \cup yes.liveIn \cup no.liveIn
      BY <2>4, <2>9 DEF AnalyzeStatement
    <3>2. reads \subseteq vs
      <4> HIDE DEF reads, yes, no
      <4> QED BY <2>3, <3>1
    <3>3. Eval(d, s.condition, x.env) = Eval(d, s.condition, y.env)
      BY <2>5, <2>9, <3>2, EvalAgrees
    <3>4. /\ Unfold(d, s, x.env, Tail(stack)) = ids \o Tail(stack)
          /\ Unfold(d, s, y.env, Tail(stack)) = ids \o Tail(stack)
      BY <2>9, <3>3 DEF Unfold
    <3>5. /\ PartsOf(d, n, ids)
          /\ AnalyzeStatements(F, ids, a[0]).liveIn \subseteq R
          /\ a[1] \subseteq AnalyzeStatements(F, ids, a[0]).assigned
      <4>1. /\ yes.liveIn \subseteq R /\ a[1] \subseteq yes.assigned
            /\ no.liveIn \subseteq R /\ a[1] \subseteq no.assigned
        <5> HIDE DEF reads, yes, no
        <5> QED BY <2>3, <3>1
      <4>2. CASE Truthy(Eval(d, s.condition, x.env))
        BY <2>9, <4>1, <4>2
      <4>3. CASE ~ Truthy(Eval(d, s.condition, x.env))
        BY <2>9, <4>1, <4>3
      <4> QED BY <4>2, <4>3
    <3>6. s.kind # "Assignment"
      BY <2>9
    <3> HIDE DEF ids, s
    <3> QED BY <2>7, <3>4, <3>5, <3>6
  <2> QED BY <2>2, <2>6, <2>8, <2>9 DEF StatementOK
<1> QED BY <1>3, <1>4

\* Both runs go through alike machines, to one end.
LEMMA FinishesAlike ==
  ASSUME NEW d, WellFormed(d), NEW R \in SUBSET Variables(d), NEW Q \in SUBSET Variables(d),
         NEW goal, NEW ids \in Seq(Statements(d)),
         NEW env \in Stores(d), NEW pending \in Stores(d),
         NEW other \in Stores(d), NEW results \in Stores(d),
         Alike(d, R, Q, goal, Machine(ids, env, pending), Machine(ids, other, results)),
         NEW t, Finishes(d, ids, env, pending, t), NEW u, Finishes(d, ids, other, results, u)
  PROVE  Agree(d, R \cup goal, t.env, u.env) /\ Agree(d, Q, t.pending, u.pending)
<1> DEFINE F == Stepper(d)
           start == Machine(ids, env, pending)
           second == Machine(ids, other, results)
           C == {x \in Machines(d) : \E y \in Reachable(F, second) : Alike(d, R, Q, goal, x, y)}
<1>1. /\ DOMAIN F = Machines(d)
      /\ \A x \in Machines(d) : F[x] = ExecStep(d, x) /\ F[x] \in Machines(d)
      /\ \A m : Reachable(F, m) \subseteq Machines(d)
  BY StepperFacts
<1>2. start \in Machines(d) /\ second \in Machines(d)
  BY MachineType
<1> HIDE DEF F, start, second
<1>3. start \in C
  <2>1. second \in Reachable(F, second)
    BY <1>1, <1>2, ReachableStart
  <2>2. Alike(d, R, Q, goal, start, second)
    BY DEF start, second
  <2> QED BY <1>2, <2>1, <2>2
<1>4. ASSUME NEW x \in C
      PROVE  F[x] \in C
  <2>1. PICK y \in Reachable(F, second) : Alike(d, R, Q, goal, x, y)
    OBVIOUS
  <2>2. x \in Machines(d) /\ y \in Machines(d)
    BY <1>1
  <2>3. Alike(d, R, Q, goal, ExecStep(d, x), ExecStep(d, y))
    BY <2>1, <2>2, AlikeStep
  <2>4. F[y] \in Reachable(F, second)
    BY <1>1, ReachableStep
  <2> QED BY <1>1, <2>2, <2>3, <2>4
<1>5. C \subseteq DOMAIN F
  BY <1>1
<1> HIDE DEF C
<1>6. Reachable(F, start) \subseteq C
  BY <1>3, <1>4, <1>5, ReachableInvariant
<1>7. t \in Reachable(F, start) /\ u \in Reachable(F, second)
      /\ t.stack = <<>> /\ u.stack = <<>>
  BY DEF Finishes, F, start, second
<1>8. PICK y \in Reachable(F, second) : Alike(d, R, Q, goal, t, y)
  BY <1>6, <1>7 DEF C
<1>9. y.stack = <<>>
  BY <1>7, <1>8 DEF Alike
<1>10. F[y] = y /\ F[u] = u
  BY <1>1, <1>7, <1>9 DEF ExecStep
<1>11. y = u
  BY <1>1, <1>2, <1>7, <1>10, UniqueEnd
<1>12. PICK a : Expected(d, R, goal, t.stack, a) /\ Agree(d, R \cup a[0], t.env, u.env)
  BY <1>8, <1>11 DEF Alike
<1>13. goal \subseteq a[0]
  <2>1. Len(t.stack) = 0
    BY <1>7, EmptySeq
  <2> QED BY <1>12, <2>1 DEF Expected
<1>14. Agree(d, R \cup goal, t.env, u.env)
  BY <1>12, <1>13, AgreeLess
<1> QED BY <1>8, <1>11, <1>14 DEF Alike

\* analyze_statement is sound: runs of a statement from stores that agree on
\* what is live-in agree on what is assigned, and on what they agreed on.
LEMMA StatementSound ==
  ASSUME NEW d, WellFormed(d), NEW n \in Statements(d),
         NEW R \in SUBSET Variables(d), NEW Q \in SUBSET Variables(d), LiveIn(d, n) \subseteq R,
         NEW env \in Stores(d), NEW pending \in Stores(d),
         NEW other \in Stores(d), NEW results \in Stores(d),
         Agree(d, R, env, other), Agree(d, Q, pending, results),
         NEW t, Finishes(d, <<n>>, env, pending, t), NEW u, Finishes(d, <<n>>, other, results, u)
  PROVE  /\ Agree(d, R \cup Flow(d)[n][{}].assigned, t.env, u.env)
         /\ Agree(d, Q, t.pending, u.pending)
<1> DEFINE goal == Flow(d)[n][{}].assigned
           a == [k \in 0 .. 1 |-> IF k = 0 THEN {} ELSE goal]
           V == Variables(d)
<1>1. <<n>> \in Seq(Statements(d)) /\ Len(<<n>>) = 1 /\ <<n>>[1] = n
  OBVIOUS
<1>2. goal \in SUBSET V
  <2>1. Flow(d)[n] \in [SUBSET V -> Results(V)] /\ {} \in SUBSET V
    BY FlowUnfolds
  <2>2. Flow(d)[n][{}] \in Results(V)
    BY <2>1
  <2> QED BY <2>2 DEF Results
<1>3. Flow(d)[n][{}].liveIn \subseteq R
  BY DEF LiveIn
<1> HIDE DEF goal
<1>4. a \in [0 .. 1 -> SUBSET V] /\ a[0] = {} /\ a[1] = goal
  BY <1>2
<1> HIDE DEF a
<1>5. Expected(d, R, goal, <<n>>, a)
  <2>1. \A k \in 1 .. 1 : k = 1 /\ k - 1 = 0
    OBVIOUS
  <2> QED BY <1>1, <1>3, <1>4, <2>1 DEF Expected, goal
<1>6. Agree(d, R \cup a[0], env, other)
  BY <1>4
<1>7. Alike(d, R, Q, goal, Machine(<<n>>, env, pending), Machine(<<n>>, other, results))
  BY <1>5, <1>6 DEF Alike, Machine
<1> QED BY <1>1, <1>7, FinishesAlike DEF goal

\* A statement writes nothing outside its footprint.
LEMMA StatementWritesOnly ==
  ASSUME NEW d, WellFormed(d), NEW n \in Statements(d), d.root[n] = n,
         NEW env \in Stores(d), NEW pending \in Stores(d),
         NEW t, Finishes(d, <<n>>, env, pending, t)
  PROVE  \A l \in Locations(d) : l \notin Footprint(d, n) =>
           t.env[l] = env[l] /\ t.pending[l] = pending[l]
<1> DEFINE F == Stepper(d)
           start == Machine(<<n>>, env, pending)
           Same(x) == \A l \in Locations(d) : l \notin Footprint(d, n) =>
                        x.env[l] = env[l] /\ x.pending[l] = pending[l]
           C == {x \in Machines(d) : x.stack \in Seq(Inside(d, n)) /\ Same(x)}
<1>1. /\ DOMAIN F = Machines(d)
      /\ \A x \in Machines(d) : F[x] = ExecStep(d, x) /\ F[x] \in Machines(d)
  BY StepperFacts
<1>2. start \in C
  <2>1. <<n>> \in Seq(Inside(d, n)) /\ <<n>> \in Seq(Statements(d))
    BY DEF Inside
  <2>2. /\ start \in Machines(d) /\ start.stack = <<n>> /\ start.env = env
        /\ start.pending = pending
    <3> DEFINE ids == <<n>>
    <3>1. ids \in Seq(Statements(d))
      BY <2>1
    <3> HIDE DEF ids
    <3>2. /\ Machine(ids, env, pending) \in Machines(d) /\ Machine(ids, env, pending).stack = ids
          /\ Machine(ids, env, pending).env = env /\ Machine(ids, env, pending).pending = pending
      BY <3>1, MachineType
    <3> QED BY <3>2 DEF ids
  <2> HIDE DEF start
  <2> QED BY <2>1, <2>2
<1>3. ASSUME NEW x \in C
      PROVE  F[x] \in C
  <2>1. /\ x \in Machines(d) /\ x.stack \in Seq(Inside(d, n)) /\ Same(x)
        /\ x.env \in Stores(d) /\ x.pending \in Stores(d)
    BY DEF Machines
  <2> DEFINE m == Head(x.stack)
             s == d.statement[m]
             e == ExecStep(d, x)
  <2> HIDE DEF Same
  <2>2. CASE x.stack = <<>> \/ x.panicked
    <3>1. e = x
      BY <2>2 DEF ExecStep
    <3> QED BY <1>1, <2>1, <3>1
  <2>3. CASE x.stack # <<>> /\ ~ x.panicked /\ Panics(d, s, x.env)
    <3>1. e = [x EXCEPT !.panicked = TRUE]
      BY <2>3 DEF ExecStep
    <3>2. e.stack = x.stack /\ e.env = x.env /\ e.pending = x.pending
      BY <2>1, <3>1 DEF Machines
    <3> QED BY <1>1, <2>1, <3>2 DEF Same
  <2>4. CASE x.stack # <<>> /\ ~ x.panicked /\ ~ Panics(d, s, x.env)
    <3>1. m \in Inside(d, n) /\ Tail(x.stack) \in Seq(Inside(d, n))
      BY <2>1, <2>4, HeadTailProperties
    <3>2. m \in Statements(d) /\ d.root[m] = n /\ StatementOK(d, m)
      BY <3>1 DEF Inside, WellFormed
    <3>3. CASE s.kind = "Assignment"
      <4>1. e = [x EXCEPT !.stack = Tail(x.stack), !.env = AssignEnv(d, s, x.env),
                          !.pending = AssignPending(d, s, x.env, x.pending)]
        BY <2>4, <3>3 DEF ExecStep
      <4>2. /\ e.stack = Tail(x.stack) /\ e.env = AssignEnv(d, s, x.env)
            /\ e.pending = AssignPending(d, s, x.env, x.pending)
        BY <2>1, <4>1 DEF Machines
      <4>3. TargetOK(d, s.target) /\ ExpressionOK(d, s.value)
        BY <3>2, <3>3 DEF StatementOK
      <4>4. \A l \in Locations(d) : l \notin Footprint(d, n) => l \notin Destination(d, s.target, x.env)
        <5>1. m \in AssignmentsIn(d, n)
          BY <3>1, <3>3 DEF AssignmentsIn
        <5>2. TargetFootprint(d, s.target) \subseteq Footprint(d, n)
          BY <5>1 DEF Footprint
        <5> QED BY <2>1, <4>3, <5>2, DestinationInFootprint
      <4>5. \A l \in Locations(d) :
              /\ AssignEnv(d, s, x.env)[l] # x.env[l] => l \in Destination(d, s.target, x.env)
              /\ AssignPending(d, s, x.env, x.pending)[l] # x.pending[l] =>
                   l \in Destination(d, s.target, x.env)
        <5>1. x.pending \in Stores(d)
          BY <2>1
        <5>2. WellFormed(d) /\ x.env \in Stores(d) /\ ExpressionOK(d, s.value)
          BY <2>1, <4>3
        <5> HIDE DEF s, Same
        <5>3. /\ AssignEnv(d, s, x.env) \in Stores(d)
              /\ AssignPending(d, s, x.env, x.pending) \in [Locations(d) -> Bit]
              /\ \A l \in Locations(d) :
                   /\ AssignEnv(d, s, x.env)[l] # x.env[l] =>
                        s.assign # "Nonblocking" /\ l \in Destination(d, s.target, x.env)
                   /\ AssignPending(d, s, x.env, x.pending)[l] # x.pending[l] =>
                        s.assign = "Nonblocking" /\ l \in Destination(d, s.target, x.env)
          <6>1. \A B : Bit \subseteq B =>
                  \A results \in [Locations(d) -> B] :
                    /\ AssignEnv(d, s, x.env) \in Stores(d)
                    /\ AssignPending(d, s, x.env, results) \in [Locations(d) -> B]
                    /\ \A l \in Locations(d) :
                         /\ AssignEnv(d, s, x.env)[l] # x.env[l] =>
                              s.assign # "Nonblocking" /\ l \in Destination(d, s.target, x.env)
                         /\ AssignPending(d, s, x.env, results)[l] # results[l] =>
                              s.assign = "Nonblocking" /\ l \in Destination(d, s.target, x.env)
            BY ONLY <5>2, AssignmentWrites
          <6> QED BY ONLY <5>1, <6>1 DEF Stores
        <5> QED BY ONLY <5>3
      <4> HIDE DEF e, s
      <4>6. Same(e)
        BY <2>1, <4>2, <4>4, <4>5 DEF Same
      <4> QED BY <1>1, <2>1, <3>1, <4>2, <4>6 DEF e
    <3>4. CASE s.kind # "Assignment"
      <4>1. e = [x EXCEPT !.stack = Unfold(d, s, x.env, Tail(x.stack))]
        BY <2>4, <3>4 DEF ExecStep
      <4>2. e.stack = Unfold(d, s, x.env, Tail(x.stack)) /\ e.env = x.env /\ e.pending = x.pending
        BY <2>1, <4>1 DEF Machines
      <4>3. e.stack \in Seq(Inside(d, n))
        BY <3>1, <3>2, <4>2, UnfoldStaysInside
      <4> HIDE DEF e
      <4> QED BY <1>1, <2>1, <4>2, <4>3 DEF Same, e
    <3> QED BY <3>3, <3>4
  <2> QED BY <2>2, <2>3, <2>4
<1>4. t \in C
  <2>1. C \subseteq DOMAIN F
    BY <1>1
  <2> HIDE DEF C, F
  <2>2. Reachable(F, start) \subseteq C
    BY <1>2, <1>3, <2>1, ReachableInvariant
  <2> QED BY <2>2 DEF Finishes, F
<1> QED BY <1>4

\* A list is its head and then its tail.
LEMMA HeadThenTail ==
  ASSUME NEW I, NEW s \in Seq(I), s # <<>>
  PROVE  s = <<Head(s)>> \o Tail(s)
<1>1. <<Head(s)>> \in Seq(I) /\ Tail(s) \in Seq(I) /\ Len(Tail(s)) = Len(s) - 1 /\ Len(s) \in Nat \ {0}
      /\ Len(<<Head(s)>>) = 1
  BY HeadTailProperties, LenProperties, EmptySeq
<1> DEFINE q == <<Head(s)>> \o Tail(s)
<1>2. /\ q \in Seq(I) /\ Len(q) = Len(s)
      /\ \A i \in 1 .. Len(q) : q[i] = IF i <= 1 THEN Head(s) ELSE Tail(s)[i - 1]
  BY <1>1, ConcatProperties
<1>3. \A i \in 1 .. Len(s) : q[i] = s[i]
  <2>1. Head(s) = s[1] /\ \A i \in 1 .. Len(Tail(s)) : Tail(s)[i] = s[i + 1]
    BY HeadTailProperties
  <2> HIDE DEF q
  <2> QED BY <1>1, <1>2, <2>1
<1> HIDE DEF q
<1>4. q = s
  BY <1>2, <1>3
<1> QED BY <1>4 DEF q

\* A run of two lists is a run of the first and then a run of the second.
LEMMA SplitRun ==
  ASSUME NEW d, WellFormed(d), NEW p \in Seq(Statements(d)), NEW q \in Seq(Statements(d)),
         NEW env \in Stores(d), NEW pending \in Stores(d),
         NEW t, Finishes(d, p \o q, env, pending, t)
  PROVE  \E m : Finishes(d, p, env, pending, m) /\ Finishes(d, q, m.env, m.pending, t)
<1> DEFINE F == Stepper(d)
           I == Statements(d)
           start == Machine(p, env, pending)
           Ends == {m \in Reachable(F, start) : m.stack = <<>>}
           second(m) == Machine(q, m.env, m.pending)
           More(y) == [y EXCEPT !.stack = y.stack \o q]
           First == {x \in Machines(d) : \E y \in Reachable(F, start) : y.stack # <<>> /\ x = More(y)}
           Second == {x \in Machines(d) : \E m \in Ends : x \in Reachable(F, second(m))}
           C == First \cup Second
<1>1. /\ DOMAIN F = Machines(d)
      /\ \A x \in Machines(d) : F[x] = ExecStep(d, x) /\ F[x] \in Machines(d)
      /\ \A m : Reachable(F, m) \subseteq Machines(d)
  BY StepperFacts
<1>2. start \in Machines(d) /\ start.stack = p /\ start \in Reachable(F, start)
  BY <1>1, MachineType, ReachableStart
<1>3. \A m \in Ends : m = Machine(<<>>, m.env, m.pending) /\ second(m) \in Machines(d)
  <2> SUFFICES ASSUME NEW m \in Ends
               PROVE  m = Machine(<<>>, m.env, m.pending) /\ second(m) \in Machines(d)
    OBVIOUS
  <2>1. Finishes(d, p, env, pending, m)
    BY DEF Finishes
  <2> QED BY <2>1, FinishedMachine, MachineType
<1>4. \A y \in Machines(d) :
        /\ y.stack \in Seq(I) /\ More(y) \in Machines(d)
        /\ More(y).stack = y.stack \o q /\ More(y).env = y.env
        /\ More(y).pending = y.pending /\ More(y).panicked = y.panicked
        /\ More(y) = [stack |-> y.stack \o q, env |-> y.env, pending |-> y.pending,
                      panicked |-> y.panicked]
  <2> SUFFICES ASSUME NEW y \in Machines(d)
               PROVE  /\ y.stack \in Seq(I) /\ More(y) \in Machines(d)
                      /\ More(y).stack = y.stack \o q /\ More(y).env = y.env
                      /\ More(y).pending = y.pending /\ More(y).panicked = y.panicked
                      /\ More(y) = [stack |-> y.stack \o q, env |-> y.env, pending |-> y.pending,
                                    panicked |-> y.panicked]
    OBVIOUS
  <2>1. y.stack \in Seq(I)
    BY DEF Machines
  <2>2. y.stack \o q \in Seq(I)
    BY <2>1, ConcatProperties
  <2>3. More(y) = [stack |-> y.stack \o q, env |-> y.env, pending |-> y.pending,
                   panicked |-> y.panicked]
    <3>1. \A w : [y EXCEPT !.stack = w] = [stack |-> w, env |-> y.env, pending |-> y.pending,
                                           panicked |-> y.panicked]
      BY DEF Machines
    <3> QED BY ONLY <3>1
  <2> HIDE DEF More
  <2>4. More(y) \in Machines(d)
    <3> DEFINE more == y.stack \o q
    <3>1. more \in Seq(I)
      BY <2>2
    <3>2. More(y) = [stack |-> more, env |-> y.env, pending |-> y.pending, panicked |-> y.panicked]
      BY <2>3
    <3> HIDE DEF more
    <3> QED BY <3>1, <3>2 DEF Machines
  <2> QED BY <2>1, <2>3, <2>4
\* A machine that has just finished the first list begins the second.
<1>5. \A y \in Ends : More(y) = second(y) /\ More(y) \in Second
  <2> SUFFICES ASSUME NEW y \in Ends
               PROVE  More(y) = second(y) /\ More(y) \in Second
    OBVIOUS
  <2>1. y = Machine(<<>>, y.env, y.pending) /\ second(y) \in Machines(d)
    BY <1>3
  <2>2. <<>> \o q = q
    BY ConcatEmptySeq
  <2>3. More(y) = second(y)
    <3>1. /\ y \in Machines(d) /\ y.stack = <<>> /\ y.panicked = FALSE
      BY <1>1, <2>1 DEF Machine
    <3>2. More(y) = [stack |-> y.stack \o q, env |-> y.env, pending |-> y.pending,
                     panicked |-> y.panicked]
      BY <1>4, <3>1
    <3> HIDE DEF More
    <3> QED BY <2>2, <3>1, <3>2 DEF Machine
  <2>4. second(y) \in Reachable(F, second(y))
    BY <1>1, <2>1, ReachableStart
  <2> HIDE DEF More, second, Ends
  <2> QED BY <2>1, <2>3, <2>4
<1> HIDE DEF F, start
<1>6. Machine(p \o q, env, pending) \in C
  <2>1. Machine(p \o q, env, pending) = More(start)
    <3>1. More(start) = [stack |-> start.stack \o q, env |-> start.env, pending |-> start.pending,
                         panicked |-> start.panicked]
      BY <1>2, <1>4
    <3> HIDE DEF More
    <3>2. start.stack = p /\ start.env = env /\ start.pending = pending /\ start.panicked = FALSE
      BY DEF start, Machine
    <3> QED BY <3>1, <3>2 DEF Machine
  <2>2. CASE p = <<>>
    <3>1. start \in Ends
      BY <1>2, <2>2
    <3> HIDE DEF More, Ends, Second, First
    <3> QED BY <1>5, <2>1, <3>1
  <2>3. CASE p # <<>>
    <3>1. More(start) \in First
      BY <1>2, <1>4, <2>3
    <3> HIDE DEF More, Second, First
    <3> QED BY <2>1, <3>1
  <2> QED BY <2>2, <2>3
<1>7. ASSUME NEW x \in First
      PROVE  F[x] \in C
  <2>1. PICK y \in Reachable(F, start) : y.stack # <<>> /\ x = More(y)
    OBVIOUS
  <2>2. y \in Machines(d) /\ F[y] \in Reachable(F, start) /\ F[y] = ExecStep(d, y)
        /\ F[x] = ExecStep(d, x) /\ ExecStep(d, y) \in Machines(d)
    BY <1>1, ReachableStep
  <2>3. ExecStep(d, x) = More(ExecStep(d, y))
    <3> DEFINE n == Head(y.stack)
               s == d.statement[n]
    <3>1. /\ y.stack \in Seq(I) /\ x.stack = y.stack \o q /\ x.env = y.env
          /\ x.pending = y.pending /\ x.panicked = y.panicked /\ x \in Machines(d)
      BY <1>4, <2>1, <2>2
    <3>2. x.stack # <<>> /\ Head(x.stack) = n /\ Tail(x.stack) = Tail(y.stack) \o q
          /\ n \in I /\ Tail(y.stack) \in Seq(I)
      <4>1. n \in I /\ Tail(y.stack) \in Seq(I) /\ y.stack = <<n>> \o Tail(y.stack)
        BY <2>1, <3>1, HeadTailProperties, HeadThenTail
      <4>2. y.stack \o q = <<n>> \o (Tail(y.stack) \o q) /\ <<n>> \in Seq(I)
        <5>1. <<n>> \in Seq(I)
          BY <4>1
        <5> DEFINE one == <<n>>
                   tail == Tail(y.stack)
        <5>2. one \in Seq(I) /\ tail \in Seq(I) /\ q \in Seq(I) /\ y.stack = one \o tail
          BY <4>1, <5>1
        <5> HIDE DEF one, tail
        <5>3. (one \o tail) \o q = one \o (tail \o q)
          BY <5>2, ConcatAssociative
        <5> QED BY <5>1, <5>2, <5>3 DEF one, tail
      <4>3. Tail(y.stack) \o q \in Seq(I)
        BY <4>1, ConcatProperties
      <4>4. /\ <<n>> \o (Tail(y.stack) \o q) # <<>>
            /\ Head(<<n>> \o (Tail(y.stack) \o q)) = n
            /\ Tail(<<n>> \o (Tail(y.stack) \o q)) = Tail(y.stack) \o q
        BY <4>1, <4>3
      <4> QED BY <3>1, <4>1, <4>2, <4>4
    <3>3. StatementOK(d, n)
      BY <3>2 DEF WellFormed
    <3> HIDE DEF n
    <3>4. CASE y.panicked
      <4>1. ExecStep(d, y) = y /\ ExecStep(d, x) = x
        BY <3>1, <3>4 DEF ExecStep
      <4> QED BY <2>1, <4>1
    <3>5. CASE ~ y.panicked /\ Panics(d, s, y.env)
      <4>1. ExecStep(d, y) = [y EXCEPT !.panicked = TRUE]
        BY <2>1, <3>5 DEF ExecStep, n
      <4>2. ExecStep(d, x) = [x EXCEPT !.panicked = TRUE]
        BY <3>1, <3>2, <3>5 DEF ExecStep
      <4> QED BY <2>1, <2>2, <4>1, <4>2 DEF Machines
    <3>6. CASE ~ y.panicked /\ ~ Panics(d, s, y.env) /\ s.kind = "Assignment"
      <4>1. ExecStep(d, y) = [y EXCEPT !.stack = Tail(y.stack), !.env = AssignEnv(d, s, y.env),
                                       !.pending = AssignPending(d, s, y.env, y.pending)]
        BY <2>1, <3>6 DEF ExecStep, n
      <4>2. ExecStep(d, x) = [x EXCEPT !.stack = Tail(y.stack) \o q, !.env = AssignEnv(d, s, y.env),
                                       !.pending = AssignPending(d, s, y.env, y.pending)]
        BY <3>1, <3>2, <3>6 DEF ExecStep
      <4> QED BY <2>1, <2>2, <4>1, <4>2 DEF Machines
    <3>7. CASE ~ y.panicked /\ ~ Panics(d, s, y.env) /\ s.kind # "Assignment"
      <4>1. ExecStep(d, y) = [y EXCEPT !.stack = Unfold(d, s, y.env, Tail(y.stack))]
        BY <2>1, <3>7 DEF ExecStep, n
      <4>2. ExecStep(d, x) = [x EXCEPT !.stack = Unfold(d, s, y.env, Tail(y.stack) \o q)]
        BY <3>1, <3>2, <3>7 DEF ExecStep
      <4>3. Unfold(d, s, y.env, Tail(y.stack) \o q) = Unfold(d, s, y.env, Tail(y.stack)) \o q
        <5>1. \A ids : PartsOf(d, n, ids) => (ids \o Tail(y.stack)) \o q = ids \o (Tail(y.stack) \o q)
          <6> SUFFICES ASSUME NEW ids, PartsOf(d, n, ids)
                       PROVE  (ids \o Tail(y.stack)) \o q = ids \o (Tail(y.stack) \o q)
            OBVIOUS
          <6>1. ids \in Seq(I) /\ Tail(y.stack) \in Seq(I) /\ q \in Seq(I)
            BY <3>2, PartsBefore
          <6> DEFINE tail == Tail(y.stack)
          <6>2. tail \in Seq(I)
            BY <6>1
          <6> HIDE DEF tail, I
          <6>3. (ids \o tail) \o q = ids \o (tail \o q)
            BY <6>1, <6>2, ConcatAssociative
          <6> QED BY <6>3 DEF tail
        <5>2. CASE s.kind = "Block" /\ PartsOf(d, n, s.body)
          BY <5>1, <5>2 DEF Unfold
        <5>3. CASE s.kind = "If" /\ PartsOf(d, n, s.then) /\ PartsOf(d, n, s.else)
          BY <5>1, <5>3 DEF Unfold
        <5> QED BY <3>3, <3>7, <5>2, <5>3 DEF StatementOK
      <4> QED BY <2>1, <2>2, <4>1, <4>2, <4>3 DEF Machines
    <3> QED BY <3>4, <3>5, <3>6, <3>7
  <2>4. CASE ExecStep(d, y).stack = <<>>
    <3>1. ExecStep(d, y) \in Ends
      BY <2>2, <2>4
    <3> HIDE DEF More, Ends, Second, First
    <3> QED BY <1>5, <2>2, <2>3, <3>1
  <2>5. CASE ExecStep(d, y).stack # <<>>
    <3>1. More(ExecStep(d, y)) \in First
      BY <1>4, <2>2, <2>5
    <3> HIDE DEF More, Ends, Second, First
    <3> QED BY <2>2, <2>3, <3>1
  <2> QED BY <2>4, <2>5
<1>8. ASSUME NEW x \in Second
      PROVE  F[x] \in C
  <2>1. PICK m \in Ends : x \in Reachable(F, second(m))
    OBVIOUS
  <2> HIDE DEF Ends, second, First
  <2> QED BY <1>1, <2>1, ReachableStep
<1>9. t \in C /\ t.stack = <<>>
  <2>1. C \subseteq DOMAIN F
    BY <1>1
  <2>2. \A x \in C : F[x] \in C
    BY <1>7, <1>8
  <2> HIDE DEF C
  <2>3. Reachable(F, Machine(p \o q, env, pending)) \subseteq C
    BY <1>6, <2>1, <2>2, ReachableInvariant
  <2> QED BY <2>3 DEF Finishes, F
<1>10. t \notin First
  <2> SUFFICES ASSUME t \in First PROVE FALSE
    OBVIOUS
  <2>1. PICK y \in Reachable(F, start) : y.stack # <<>> /\ t = More(y)
    OBVIOUS
  <2>2. y \in Machines(d)
    BY <1>1
  <2>3. y.stack \in Seq(I) /\ t.stack = y.stack \o q
    BY <1>4, <2>1, <2>2
  <2>4. Len(y.stack \o q) = Len(y.stack) + Len(q) /\ Len(y.stack) \in Nat \ {0} /\ Len(q) \in Nat
    BY <2>1, <2>3, ConcatProperties, LenProperties, EmptySeq
  <2>5. Len(<<>>) = 0
    BY EmptySeq
  <2> QED BY ONLY <1>9, <2>3, <2>4, <2>5
<1>11. PICK m \in Ends : t \in Reachable(F, second(m))
  BY <1>9, <1>10
<1>12. Finishes(d, p, env, pending, m) /\ Finishes(d, q, m.env, m.pending, t)
  BY <1>9, <1>11 DEF Finishes, F, start
<1> QED BY <1>12

\* A machine at the end of its statements.
LEMMA EmptyMachine ==
  ASSUME NEW d, NEW env \in Stores(d), NEW pending \in Stores(d)
  PROVE  /\ Machine(<<>>, env, pending) \in Machines(d)
         /\ Machine(<<>>, env, pending).stack = <<>>
         /\ Machine(<<>>, env, pending).env = env
         /\ Machine(<<>>, env, pending).pending = pending
<1> DEFINE none == <<>>
<1>1. none \in Seq(Statements(d))
  BY EmptySeq
<1> HIDE DEF none
<1>2. /\ Machine(none, env, pending) \in Machines(d) /\ Machine(none, env, pending).stack = none
      /\ Machine(none, env, pending).env = env /\ Machine(none, env, pending).pending = pending
  BY <1>1, MachineType
<1> QED BY <1>2 DEF none

\* A run of no statement is at its end.
LEMMA EmptyRun ==
  ASSUME NEW d, WellFormed(d), NEW env \in Stores(d), NEW pending \in Stores(d),
         NEW t, Finishes(d, <<>>, env, pending, t)
  PROVE  t = Machine(<<>>, env, pending)
<1> DEFINE start == Machine(<<>>, env, pending)
<1>2. start \in Machines(d) /\ start.stack = <<>>
  BY EmptyMachine
<1>3. {start} \subseteq DOMAIN Stepper(d) /\ Stepper(d)[start] = start
  BY <1>2, StepperFacts DEF ExecStep
<1>4. \A x \in {start} : Stepper(d)[x] \in {start}
  BY <1>3
<1> HIDE DEF start
<1>5. Reachable(Stepper(d), start) \subseteq {start}
  BY <1>3, <1>4, ReachableInvariant
<1> QED BY <1>5 DEF Finishes, start

\* The machines between the statements of a run.
Passes(d, ids, j, env, pending, s) ==
  /\ s \in [0 .. j -> Machines(d)]
  /\ s[0] = Machine(<<>>, env, pending)
  /\ \A k \in 1 .. j : /\ k - 1 \in 0 .. j
                       /\ Finishes(d, <<ids[k]>>, s[k - 1].env, s[k - 1].pending, s[k])

\* A run of a list runs its statements one after the other.
LEMMA ListRun ==
  ASSUME NEW d, WellFormed(d), NEW ids \in Seq(Statements(d)), NEW env \in Stores(d),
         NEW pending \in Stores(d), NEW t, Finishes(d, ids, env, pending, t)
  PROVE  \E s : Passes(d, ids, Len(ids), env, pending, s) /\ s[Len(ids)] = t
<1> DEFINE N == Len(ids)
           I == Statements(d)
           Rest(j) == SubSeq(ids, j + 1, N)
           Good == {j \in Nat : j <= N =>
                      \E s : Passes(d, ids, j, env, pending, s)
                             /\ Finishes(d, Rest(j), s[j].env, s[j].pending, t)}
           start == Machine(<<>>, env, pending)
<1>1. /\ N \in Nat /\ <<>> \in Seq(I) /\ DOMAIN ids = 1 .. N
      /\ start \in Machines(d) /\ start.env = env /\ start.pending = pending
  BY LenProperties, EmptySeq, EmptyMachine
<1>2. 0 \in Good
  <2> DEFINE s == [k \in 0 .. 0 |-> start]
  <2>1. s[0] = start /\ s \in [0 .. 0 -> Machines(d)]
    BY <1>1
  <2>2. Rest(0) = ids
    BY <1>1, SubSeqProperties
  <2> HIDE DEF s, start, Rest
  <2>3. Passes(d, ids, 0, env, pending, s)
    BY <2>1 DEF Passes, start
  <2>4. Finishes(d, Rest(0), s[0].env, s[0].pending, t)
    BY <1>1, <2>1, <2>2
  <2> QED BY <2>3, <2>4
<1>3. ASSUME NEW j \in Good
      PROVE  j + 1 \in Good
  <2> SUFFICES ASSUME j + 1 <= N
               PROVE  \E s : Passes(d, ids, j + 1, env, pending, s)
                             /\ Finishes(d, Rest(j + 1), s[j + 1].env, s[j + 1].pending, t)
    OBVIOUS
  <2>1. j \in Nat /\ j <= N /\ j + 1 \in 1 .. N
    BY <1>1
  <2>2. PICK s : Passes(d, ids, j, env, pending, s)
                 /\ Finishes(d, Rest(j), s[j].env, s[j].pending, t)
    BY <2>1
  <2> DEFINE n == ids[j + 1]
  <2>3. n \in I /\ <<n>> \in Seq(I) /\ Rest(j + 1) \in Seq(I) /\ Rest(j) = <<n>> \o Rest(j + 1)
    <3>1. n \in I
      BY <2>1, <1>1, ElementOfSeq
    <3>2. <<n>> \in Seq(I)
      BY <3>1
    <3>3. Rest(j + 1) \in Seq(I)
      BY <1>1, <2>1, SubSeqProperties
    <3>4. SubSeq(ids, j + 1, N) = <<n>> \o SubSeq(ids, (j + 1) + 1, N)
      <4>1. j + 1 \in 1 .. Len(ids) /\ N \in j + 1 .. Len(ids)
        BY <1>1, <2>1
      <4> QED BY <4>1, SubSeqRecursiveFirst
    <3> QED BY <3>1, <3>2, <3>3, <3>4
  <2>4. s \in [0 .. j -> Machines(d)] /\ s[j] \in Machines(d)
        /\ s[j].env \in Stores(d) /\ s[j].pending \in Stores(d)
    <3>1. s \in [0 .. j -> Machines(d)] /\ j \in 0 .. j
      BY <2>1, <2>2 DEF Passes
    <3>2. s[j] \in Machines(d)
      BY <3>1
    <3> QED BY <3>1, <3>2 DEF Machines
  <2>5. Finishes(d, <<n>> \o Rest(j + 1), s[j].env, s[j].pending, t)
    BY <2>2, <2>3
  <2> HIDE DEF Rest, n
  <2>6. PICK m : Finishes(d, <<n>>, s[j].env, s[j].pending, m)
                 /\ Finishes(d, Rest(j + 1), m.env, m.pending, t)
    <3> DEFINE one == <<n>>
    <3>1. one \in Seq(I) /\ Finishes(d, one \o Rest(j + 1), s[j].env, s[j].pending, t)
      BY <2>3, <2>5
    <3> HIDE DEF one
    <3>2. \E m : Finishes(d, one, s[j].env, s[j].pending, m)
                 /\ Finishes(d, Rest(j + 1), m.env, m.pending, t)
      BY <2>3, <2>4, <3>1, SplitRun
    <3> QED BY <3>2 DEF one
  <2>7. m \in Machines(d)
    BY <2>3, <2>4, <2>6, FinishedMachine
  <2> DEFINE more == [k \in 0 .. j + 1 |-> IF k = j + 1 THEN m ELSE s[k]]
  <2>8. /\ more \in [0 .. j + 1 -> Machines(d)] /\ more[j + 1] = m
        /\ \A k \in 0 .. j : more[k] = s[k]
    <3>1. \A k \in 0 .. j + 1 : k = j + 1 \/ k \in 0 .. j
      BY <2>1
    <3>2. j + 1 \in 0 .. j + 1 /\ \A k \in 0 .. j : k \in 0 .. j + 1 /\ k # j + 1
      BY <2>1
    <3> QED BY <2>4, <2>7, <3>1, <3>2
  <2> HIDE DEF more
  <2>9. more[0] = start
    <3>1. 0 \in 0 .. j
      BY <2>1
    <3> QED BY <2>2, <2>8, <3>1 DEF Passes
  <2>10. ASSUME NEW k \in 1 .. j + 1
         PROVE  /\ k - 1 \in 0 .. j + 1
                /\ Finishes(d, <<ids[k]>>, more[k - 1].env, more[k - 1].pending, more[k])
    <3>1. k - 1 \in 0 .. j + 1 /\ k - 1 \in 0 .. j
      BY <2>1
    <3>2. CASE k = j + 1
      <4>1. more[k] = m /\ more[k - 1] = s[j] /\ k - 1 = j
        BY <2>1, <2>8, <3>1, <3>2
      <4> QED BY <2>6, <3>1, <3>2, <4>1 DEF n
    <3>3. CASE k \in 1 .. j
      <4>1. more[k] = s[k] /\ more[k - 1] = s[k - 1]
        BY <2>1, <2>8, <3>1, <3>3
      <4> QED BY <2>2, <3>1, <3>3, <4>1 DEF Passes
    <3> QED BY <2>1, <3>2, <3>3
  <2>11. Passes(d, ids, j + 1, env, pending, more)
    BY <2>8, <2>9, <2>10 DEF Passes
  <2>12. Finishes(d, Rest(j + 1), more[j + 1].env, more[j + 1].pending, t)
    BY <2>6, <2>8
  <2> QED BY <2>11, <2>12
<1>4. N \in Good
  <2> HIDE DEF Good
  <2> QED BY <1>1, <1>2, <1>3, NaturalsInSet
<1>5. PICK s : Passes(d, ids, N, env, pending, s)
               /\ Finishes(d, Rest(N), s[N].env, s[N].pending, t)
  BY <1>1, <1>4
<1>6. Rest(N) = <<>>
  BY <1>1, SubSeqProperties
<1>7. s[N] \in Machines(d) /\ s[N].env \in Stores(d) /\ s[N].pending \in Stores(d)
  <2>1. s \in [0 .. N -> Machines(d)] /\ N \in 0 .. N
    BY <1>1, <1>5 DEF Passes
  <2>2. s[N] \in Machines(d)
    BY <2>1
  <2> QED BY <2>2 DEF Machines
<1>8. t = Machine(<<>>, s[N].env, s[N].pending)
  <2> HIDE DEF Rest, N
  <2> QED BY <1>5, <1>6, <1>7, EmptyRun
<1>9. s[N] = Machine(<<>>, s[N].env, s[N].pending)
  <2>1. CASE N = 0
    <3>1. s[N] = start
      BY <1>5, <2>1 DEF Passes
    <3> QED BY <1>1, <3>1
  <2>2. CASE N # 0
    <3>1. N \in 1 .. N /\ N - 1 \in 0 .. N
      BY <1>1, <2>2
    <3>2. s \in [0 .. N -> Machines(d)]
          /\ Finishes(d, <<ids[N]>>, s[N - 1].env, s[N - 1].pending, s[N])
      BY <1>5, <3>1 DEF Passes
    <3>3. s[N - 1] \in Machines(d)
      BY <3>1, <3>2
    <3>4. s[N - 1].env \in Stores(d) /\ s[N - 1].pending \in Stores(d)
      BY <3>3 DEF Machines
    <3>5. ids[N] \in I
      BY <1>1, <3>1, ElementOfSeq
    <3> DEFINE one == <<ids[N]>>
    <3>6. one \in Seq(I)
      BY <3>5
    <3>7. Finishes(d, one, s[N - 1].env, s[N - 1].pending, s[N])
      BY <3>2
    <3> HIDE DEF one, N
    <3> QED BY <3>4, <3>6, <3>7, FinishedMachine
  <2> QED BY <2>1, <2>2
<1>10. s[N] = t
  BY <1>8, <1>9
<1> QED BY <1>5, <1>10

\* The machines between the statements have stores of the design.
LEMMA PassesType ==
  ASSUME NEW d, NEW ids, NEW j \in Nat, NEW env, NEW pending, NEW s,
         Passes(d, ids, j, env, pending, s)
  PROVE  \A k \in 0 .. j : /\ s[k] \in Machines(d) /\ s[k].env \in Stores(d)
                            /\ s[k].pending \in Stores(d)
BY DEF Passes, Machines

\* A list of top-level statements.
Tops(d, ids) == ids \in Seq(Statements(d)) /\ \A n \in ToIds(ids) : d.root[n] = n

\* A list of top statements, by position.
LEMMA TopsFacts ==
  ASSUME NEW d, NEW ids, Tops(d, ids)
  PROVE  /\ ids \in Seq(Statements(d)) /\ Len(ids) \in Nat /\ DOMAIN ids = 1 .. Len(ids)
         /\ \A k \in 1 .. Len(ids) :
              ids[k] \in Statements(d) /\ ids[k] \in ToIds(ids) /\ d.root[ids[k]] = ids[k]
<1>1. ids \in Seq(Statements(d)) /\ Len(ids) \in Nat /\ DOMAIN ids = 1 .. Len(ids)
  BY LenProperties DEF Tops
<1>2. \A k \in 1 .. Len(ids) : ids[k] \in ToIds(ids) /\ ids[k] \in Statements(d)
  BY <1>1, ElementOfSeq DEF ToIds
<1> QED BY <1>1, <1>2 DEF Tops

\* A run of a list writes nothing outside the footprints of its statements.
LEMMA ListWritesOnly ==
  ASSUME NEW d, WellFormed(d), NEW ids, Tops(d, ids),
         NEW env \in Stores(d), NEW pending \in Stores(d), NEW t, Finishes(d, ids, env, pending, t)
  PROVE  \A l \in Locations(d) :
           (\A n \in ToIds(ids) : l \notin Footprint(d, n)) =>
             t.env[l] = env[l] /\ t.pending[l] = pending[l]
<1> DEFINE N == Len(ids)
<1>1. /\ ids \in Seq(Statements(d)) /\ N \in Nat
      /\ \A k \in 1 .. N : ids[k] \in Statements(d) /\ ids[k] \in ToIds(ids) /\ d.root[ids[k]] = ids[k]
  BY TopsFacts
<1>2. PICK s : Passes(d, ids, N, env, pending, s) /\ s[N] = t
  BY <1>1, ListRun
<1>3. \A k \in 0 .. N : s[k].env \in Stores(d) /\ s[k].pending \in Stores(d)
  BY <1>1, <1>2, PassesType
<1>4. s[0].env = env /\ s[0].pending = pending
  BY <1>2, EmptyMachine DEF Passes
<1>5. \A k \in 1 .. N : /\ k - 1 \in 0 .. N
                         /\ Finishes(d, <<ids[k]>>, s[k - 1].env, s[k - 1].pending, s[k])
  BY <1>2 DEF Passes
<1> SUFFICES ASSUME NEW l \in Locations(d), \A n \in ToIds(ids) : l \notin Footprint(d, n)
             PROVE  t.env[l] = env[l] /\ t.pending[l] = pending[l]
  OBVIOUS
<1> DEFINE Same == {m \in Machines(d) : m.env[l] = env[l] /\ m.pending[l] = pending[l]}
<1>6. s[0] \in Same
  <2>1. 0 \in 0 .. N
    BY <1>1
  <2>2. s[0] \in Machines(d)
    BY <1>1, <1>2, <2>1, PassesType
  <2> QED BY <1>4, <2>2
<1>7. ASSUME NEW k \in 1 .. N, s[k - 1] \in Same
      PROVE  s[k] \in Same
  <2> DEFINE n == ids[k]
             one == <<n>>
             e == s[k - 1].env
             p == s[k - 1].pending
  <2>1. k \in 0 .. N /\ k - 1 \in 0 .. N
    BY <1>1, <1>5
  <2>2. n \in Statements(d) /\ d.root[n] = n /\ l \notin Footprint(d, n)
    BY <1>1
  <2>3. e \in Stores(d) /\ p \in Stores(d) /\ Finishes(d, <<n>>, e, p, s[k])
    BY <1>3, <1>5, <2>1
  <2> HIDE DEF n, e, p
  <2>4. s[k].env[l] = e[l] /\ s[k].pending[l] = p[l]
    BY <2>2, <2>3, StatementWritesOnly
  <2>5. s[k] \in Machines(d)
    BY <1>1, <1>2, <2>1, PassesType
  <2> QED BY <1>7, <2>4, <2>5 DEF e, p
<1>8. \A k \in 0 .. N : s[k] \in Same
  <2> HIDE DEF Same, N
  <2> QED BY ONLY <1>1, <1>6, <1>7, IterationInvariant
<1> QED BY <1>1, <1>2, <1>8

\* A location of a footprint is one of a variable the statement writes.
LEMMA FootprintWritten ==
  ASSUME NEW d, NEW n, NEW l \in Footprint(d, n)
  PROVE  l[1] \in StatementWrites(d, n)
<1>1. PICK a \in AssignmentsIn(d, n) : l \in TargetFootprint(d, d.statement[a].target)
  BY DEF Footprint
<1>2. l[1] = d.statement[a].target.var
  BY <1>1 DEF TargetFootprint
<1> QED BY <1>2 DEF StatementWrites

\* A location of a set of variables.
LEMMA LocationVariable ==
  ASSUME NEW d, NEW vs \in SUBSET Variables(d), NEW l
  PROVE  l \in LocationsIn(d, vs) <=> l \in Locations(d) /\ l[1] \in vs
BY DEF LocationsIn, Locations, LocationsOf

\* The variables agreed on after a statement: it depends on those agreed on
\* before, and what is new it assigns; or it writes none of them.
Carried(d, n, before, after) ==
  LiveIn(d, n) \subseteq before /\ after \subseteq before \cup Flow(d)[n][{}].assigned
Spared(d, n, before, after) ==
  after \subseteq before /\ after \cap StatementWrites(d, n) = {}

\* Runs of a list from stores that agree on what its statements need.
LEMMA ListAgrees ==
  ASSUME NEW d, WellFormed(d), NEW ids, Tops(d, ids),
         NEW R \in [0 .. Len(ids) -> SUBSET Variables(d)],
         \A k \in 1 .. Len(ids) :
            Carried(d, ids[k], R[k - 1], R[k]) \/ Spared(d, ids[k], R[k - 1], R[k]),
         NEW env \in Stores(d), NEW pending \in Stores(d),
         NEW other \in Stores(d), NEW results \in Stores(d),
         Agree(d, R[0], env, other),
         NEW t, Finishes(d, ids, env, pending, t), NEW u, Finishes(d, ids, other, results, u)
  PROVE  /\ Agree(d, R[Len(ids)], t.env, u.env)
         /\ \A Q \in SUBSET Variables(d) :
              /\ Agree(d, Q, pending, results)
              /\ \A k \in 1 .. Len(ids) : Carried(d, ids[k], R[k - 1], R[k])
              => Agree(d, Q, t.pending, u.pending)
<1> DEFINE N == Len(ids)
           V == Variables(d)
<1>1. /\ ids \in Seq(Statements(d)) /\ N \in Nat
      /\ \A k \in 1 .. N : ids[k] \in Statements(d) /\ ids[k] \in ToIds(ids) /\ d.root[ids[k]] = ids[k]
  BY TopsFacts
<1>2. PICK s : Passes(d, ids, N, env, pending, s) /\ s[N] = t
  BY <1>1, ListRun
<1>3. PICK r : Passes(d, ids, N, other, results, r) /\ r[N] = u
  BY <1>1, ListRun
<1>4. \A k \in 0 .. N : /\ s[k].env \in Stores(d) /\ s[k].pending \in Stores(d)
                         /\ r[k].env \in Stores(d) /\ r[k].pending \in Stores(d)
  BY <1>1, <1>2, <1>3, PassesType
<1>5. s[0].env = env /\ s[0].pending = pending /\ r[0].env = other /\ r[0].pending = results
  BY <1>2, <1>3, EmptyMachine DEF Passes
<1>6. \A k \in 1 .. N : /\ k - 1 \in 0 .. N /\ k \in 0 .. N
                         /\ Finishes(d, <<ids[k]>>, s[k - 1].env, s[k - 1].pending, s[k])
                         /\ Finishes(d, <<ids[k]>>, r[k - 1].env, r[k - 1].pending, r[k])
  BY <1>1, <1>2, <1>3 DEF Passes
<1>7. R \in [0 .. N -> SUBSET V]
      /\ \A k \in 1 .. N :
           Carried(d, ids[k], R[k - 1], R[k]) \/ Spared(d, ids[k], R[k - 1], R[k])
  OBVIOUS
<1>8. \A k \in 0 .. N : R[k] \in SUBSET V
  BY <1>7
<1> HIDE DEF N
\* One statement.
<1>9. ASSUME NEW k \in 1 .. N, Agree(d, R[k - 1], s[k - 1].env, r[k - 1].env)
      PROVE  /\ Agree(d, R[k], s[k].env, r[k].env)
             /\ \A Q \in SUBSET V :
                  Carried(d, ids[k], R[k - 1], R[k]) /\ Agree(d, Q, s[k - 1].pending, r[k - 1].pending)
                    => Agree(d, Q, s[k].pending, r[k].pending)
  <2> DEFINE n == ids[k]
             before == R[k - 1]
             after == R[k]
             e == s[k - 1].env
             p == s[k - 1].pending
             f == r[k - 1].env
             q == r[k - 1].pending
  <2>1. /\ e \in Stores(d) /\ p \in Stores(d) /\ f \in Stores(d) /\ q \in Stores(d)
        /\ Finishes(d, <<n>>, e, p, s[k]) /\ Finishes(d, <<n>>, f, q, r[k])
    BY <1>4, <1>6
  <2>2. n \in Statements(d) /\ d.root[n] = n /\ before \in SUBSET V /\ after \in SUBSET V
    BY <1>1, <1>6, <1>8
  <2>3. Agree(d, before, e, f)
    BY <1>9
  <2>4. Carried(d, n, before, after) \/ Spared(d, n, before, after)
    BY <1>7
  <2> HIDE DEF n, before, after, e, p, f, q
  <2>5. ASSUME Carried(d, n, before, after), NEW Q \in SUBSET V, Agree(d, Q, p, q)
        PROVE  Agree(d, after, s[k].env, r[k].env) /\ Agree(d, Q, s[k].pending, r[k].pending)
    <3>1. LiveIn(d, n) \subseteq before /\ after \subseteq before \cup Flow(d)[n][{}].assigned
      BY <2>5 DEF Carried
    <3>2. /\ Agree(d, before \cup Flow(d)[n][{}].assigned, s[k].env, r[k].env)
          /\ Agree(d, Q, s[k].pending, r[k].pending)
      BY <2>1, <2>2, <2>3, <2>5, <3>1, StatementSound
    <3> QED BY <3>1, <3>2, AgreeLess
  <2>6. ASSUME Spared(d, n, before, after)
        PROVE  Agree(d, after, s[k].env, r[k].env)
    <3>1. after \subseteq before /\ after \cap StatementWrites(d, n) = {}
      BY <2>6 DEF Spared
    <3>2. \A l \in LocationsIn(d, after) : l \in Locations(d) /\ l \notin Footprint(d, n)
      BY <2>2, <3>1, LocationVariable, FootprintWritten
    <3>3. \A l \in LocationsIn(d, after) : s[k].env[l] = e[l] /\ r[k].env[l] = f[l]
      BY <2>1, <2>2, <3>2, StatementWritesOnly
    <3>4. Agree(d, after, e, f)
      BY <2>3, <3>1, AgreeLess
    <3> QED BY <3>3, <3>4 DEF Agree
  <2>7. Agree(d, {}, p, q)
    BY DEF Agree, LocationsIn
  <2>8. Agree(d, after, s[k].env, r[k].env)
    BY <2>4, <2>5, <2>6, <2>7
  <2> QED BY <2>5, <2>8 DEF n, before, after, e, p, f, q
<1> DEFINE Env == {k \in Nat : k <= N => Agree(d, R[k], s[k].env, r[k].env)}
<1>10. 0 \in Env
  BY <1>5
<1>11. ASSUME NEW k \in Env PROVE k + 1 \in Env
  <2> SUFFICES ASSUME k + 1 <= N PROVE Agree(d, R[k + 1], s[k + 1].env, r[k + 1].env)
    OBVIOUS
  <2>1. k + 1 \in 1 .. N /\ (k + 1) - 1 = k /\ k <= N /\ k \in Nat
    BY <1>1
  <2>2. Agree(d, R[(k + 1) - 1], s[(k + 1) - 1].env, r[(k + 1) - 1].env)
    BY <2>1
  <2> QED BY <1>9, <2>1, <2>2
<1>12. \A k \in 0 .. N : Agree(d, R[k], s[k].env, r[k].env)
  <2> HIDE DEF Env
  <2>1. \A k \in Nat : k \in Env
    BY <1>10, <1>11, NaturalsInSet
  <2> QED BY <1>1, <2>1 DEF Env
<1>13. Agree(d, R[N], t.env, u.env)
  BY <1>1, <1>2, <1>3, <1>12
<1>14. ASSUME NEW Q \in SUBSET V, Agree(d, Q, pending, results),
              \A k \in 1 .. N : Carried(d, ids[k], R[k - 1], R[k])
       PROVE  Agree(d, Q, t.pending, u.pending)
  <2> DEFINE Pending == {k \in Nat : k <= N => Agree(d, Q, s[k].pending, r[k].pending)}
  <2>1. 0 \in Pending
    BY <1>5, <1>14
  <2>2. ASSUME NEW k \in Pending PROVE k + 1 \in Pending
    <3> SUFFICES ASSUME k + 1 <= N PROVE Agree(d, Q, s[k + 1].pending, r[k + 1].pending)
      OBVIOUS
    <3>1. k + 1 \in 1 .. N /\ (k + 1) - 1 = k /\ k <= N /\ k \in 0 .. N
      BY <1>1
    <3>2. Agree(d, Q, s[(k + 1) - 1].pending, r[(k + 1) - 1].pending)
          /\ Agree(d, R[(k + 1) - 1], s[(k + 1) - 1].env, r[(k + 1) - 1].env)
      BY <1>12, <3>1
    <3> QED BY <1>9, <1>14, <3>1, <3>2
  <2>3. N \in Pending
    <3> HIDE DEF Pending
    <3> QED BY <1>1, <2>1, <2>2, NaturalsInSet
  <2> QED BY <1>1, <1>2, <1>3, <2>3
<1> QED BY <1>13, <1>14 DEF N

-----------------------------------------------------------------------------
(* A run comes to its end. *)

\* What a step of a machine does: nothing any more, panic, assign, or enter a
\* statement and put some of what is nested in it on the stack.
Enters(d, n, parts) ==
  /\ parts \in Seq(Statements(d)) /\ Listed(parts) /\ ToIds(parts) \subseteq Nested(d, n)
  /\ \A c \in ToIds(parts) : c # n /\ d.root[c] = d.root[n]

LEMMA StepCases ==
  ASSUME NEW d, WellFormed(d), NEW x \in Machines(d)
  PROVE  LET n == Head(x.stack)
             s == d.statement[n]
             y == ExecStep(d, x)
         IN  /\ y \in Machines(d)
             /\ x.stack = <<>> \/ x.panicked => y = x
             /\ ~ (x.stack = <<>> \/ x.panicked) =>
                  /\ n \in Statements(d) /\ n \in Inside(d, d.root[n]) /\ StatementOK(d, n)
                  /\ Tail(x.stack) \in Seq(Statements(d))
                  /\ Panics(d, s, x.env) => y.stack = x.stack /\ y.env = x.env /\ y.panicked
                  /\ ~ Panics(d, s, x.env) /\ s.kind = "Assignment" =>
                       /\ y.stack = Tail(x.stack) /\ ~ y.panicked
                       /\ y.env = AssignEnv(d, s, x.env)
                  /\ ~ Panics(d, s, x.env) /\ s.kind # "Assignment" =>
                       /\ y.stack = Unfold(d, s, x.env, Tail(x.stack)) /\ ~ y.panicked
                       /\ y.env = x.env
                       /\ \E parts : Enters(d, n, parts) /\ y.stack = parts \o Tail(x.stack)
<1> DEFINE n == Head(x.stack)
           s == d.statement[n]
           y == ExecStep(d, x)
<1>1. y \in Machines(d)
  BY ExecStepType
<1>2. x.stack \in Seq(Statements(d)) /\ x.panicked \in BOOLEAN
  BY DEF Machines
<1>3. x.stack = <<>> \/ x.panicked => y = x
  BY DEF ExecStep
<1>4. ASSUME ~ (x.stack = <<>> \/ x.panicked)
      PROVE  /\ n \in Statements(d) /\ n \in Inside(d, d.root[n]) /\ StatementOK(d, n)
             /\ Tail(x.stack) \in Seq(Statements(d))
             /\ Panics(d, s, x.env) => y.stack = x.stack /\ y.env = x.env /\ y.panicked
             /\ ~ Panics(d, s, x.env) /\ s.kind = "Assignment" =>
                  /\ y.stack = Tail(x.stack) /\ ~ y.panicked
                  /\ y.env = AssignEnv(d, s, x.env)
             /\ ~ Panics(d, s, x.env) /\ s.kind # "Assignment" =>
                  /\ y.stack = Unfold(d, s, x.env, Tail(x.stack)) /\ ~ y.panicked
                  /\ y.env = x.env
                  /\ \E parts : Enters(d, n, parts) /\ y.stack = parts \o Tail(x.stack)
  <2>1. n \in Statements(d) /\ Tail(x.stack) \in Seq(Statements(d))
    BY <1>2, <1>4, HeadTailProperties
  <2>2. StatementOK(d, n) /\ n \in Inside(d, d.root[n])
    BY <2>1 DEF WellFormed, Inside
  <2>3. ASSUME Panics(d, s, x.env)
        PROVE  y.stack = x.stack /\ y.env = x.env /\ y.panicked
    <3>1. y = [x EXCEPT !.panicked = TRUE]
      BY <1>4, <2>3 DEF ExecStep
    <3> QED BY <3>1 DEF Machines
  <2>4. ASSUME ~ Panics(d, s, x.env), s.kind = "Assignment"
        PROVE  y.stack = Tail(x.stack) /\ ~ y.panicked /\ y.env = AssignEnv(d, s, x.env)
    <3>1. y = [x EXCEPT !.stack = Tail(x.stack), !.env = AssignEnv(d, s, x.env),
                        !.pending = AssignPending(d, s, x.env, x.pending)]
      BY <1>4, <2>4 DEF ExecStep
    <3> QED BY <1>4, <3>1 DEF Machines
  <2>5. ASSUME ~ Panics(d, s, x.env), s.kind # "Assignment"
        PROVE  /\ y.stack = Unfold(d, s, x.env, Tail(x.stack)) /\ ~ y.panicked
               /\ y.env = x.env
               /\ \E parts : Enters(d, n, parts) /\ y.stack = parts \o Tail(x.stack)
    <3>1. y = [x EXCEPT !.stack = Unfold(d, s, x.env, Tail(x.stack))]
      BY <1>4, <2>5 DEF ExecStep
    <3>2. y.stack = Unfold(d, s, x.env, Tail(x.stack)) /\ ~ y.panicked /\ y.env = x.env
      BY <1>4, <3>1 DEF Machines
    <3>3. ASSUME NEW parts, PartsOf(d, n, parts), Listed(parts), ToIds(parts) \subseteq Nested(d, n)
          PROVE  Enters(d, n, parts)
      <4>1. /\ parts \in Seq(Statements(d)) /\ Statements(d) \subseteq Nat \ {0}
            /\ \A c \in ToIds(parts) : c \in Statements(d) /\ c < n /\ d.root[c] = d.root[n]
        BY <2>1, <3>3, PartsBefore
      <4>2. \A c \in ToIds(parts) : c # n
        BY <2>1, <4>1
      <4> QED BY <3>3, <4>1, <4>2 DEF Enters
    <3>4. CASE s.kind = "Block"
      <4>1. PartsOf(d, n, s.body) /\ Listed(s.body) /\ ToIds(s.body) \subseteq Nested(d, n)
        BY <2>1, <2>2, <3>4 DEF StatementOK, WellFormed, NestedOnce, Nested
      <4>2. y.stack = s.body \o Tail(x.stack)
        BY <3>2, <3>4 DEF Unfold
      <4> HIDE DEF y, s
      <4> QED BY <3>2, <3>3, <4>1, <4>2
    <3>5. CASE s.kind = "If"
      <4> DEFINE parts == IF Truthy(Eval(d, s.condition, x.env)) THEN s.then ELSE s.else
      <4>1. PartsOf(d, n, parts) /\ Listed(parts) /\ ToIds(parts) \subseteq Nested(d, n)
        <5>1. /\ PartsOf(d, n, s.then) /\ Listed(s.then) /\ ToIds(s.then) \subseteq Nested(d, n)
              /\ PartsOf(d, n, s.else) /\ Listed(s.else) /\ ToIds(s.else) \subseteq Nested(d, n)
          BY <2>1, <2>2, <3>5 DEF StatementOK, WellFormed, NestedOnce, Nested
        <5> QED BY <5>1
      <4>2. y.stack = parts \o Tail(x.stack)
        BY <3>2, <3>5 DEF Unfold
      <4> HIDE DEF y, s, parts
      <4> QED BY <3>2, <3>3, <4>1, <4>2
    <3> QED BY <2>2, <2>5, <3>4, <3>5 DEF StatementOK
  <2> QED BY <2>1, <2>2, <2>3, <2>4, <2>5
<1> HIDE DEF n, s, y
<1> QED BY <1>1, <1>3, <1>4 DEF n, s, y

\* The statements of done have been executed, and what is nested in another
\* one neither has been nor is on the stack.
Fresh(d, done, stack) ==
  /\ done \subseteq Statements(d)
  /\ stack \in Seq(Statements(d)) /\ Listed(stack)
  /\ ToIds(stack) \cap done = {}
  /\ \A n \in Statements(d) : Nested(d, n) \cap (done \cup ToIds(stack)) # {} => n \in done

\* What is on a stack, by its head.
LEMMA StackHead ==
  ASSUME NEW I, NEW stack \in Seq(I), stack # <<>>, Listed(stack)
  PROVE  /\ Head(stack) \in ToIds(stack) /\ Tail(stack) \in Seq(I) /\ Listed(Tail(stack))
         /\ ToIds(Tail(stack)) \subseteq ToIds(stack) \ {Head(stack)}
<1> DEFINE N == Len(stack)
           tail == Tail(stack)
<1>1. /\ N \in Nat \ {0} /\ DOMAIN stack = 1 .. N /\ Head(stack) = stack[1]
      /\ tail \in Seq(I) /\ Len(tail) = N - 1 /\ DOMAIN tail = 1 .. N - 1
      /\ \A k \in 1 .. N - 1 : tail[k] = stack[k + 1]
  <2>1. N \in Nat \ {0} /\ DOMAIN stack = 1 .. N
    BY EmptySeq, LenProperties
  <2>2. tail \in Seq(I) /\ Len(tail) = N - 1 /\ \A k \in 1 .. N - 1 : tail[k] = stack[k + 1]
    BY <2>1, HeadTailProperties
  <2>3. DOMAIN tail = 1 .. N - 1
    BY <2>2, LenProperties
  <2> QED BY <2>1, <2>2, <2>3
<1> HIDE DEF N, tail
<1>2. \A k \in 1 .. N - 1 : k + 1 \in 1 .. N /\ k + 1 # 1
  BY <1>1
<1>3. Listed(tail)
  <2> SUFFICES ASSUME NEW i \in 1 .. N - 1, NEW j \in 1 .. N - 1, tail[i] = tail[j]
               PROVE  i = j
    BY <1>1 DEF Listed
  <2>1. i + 1 = j + 1
    BY <1>1, <1>2, ZenonT(60) DEF Listed
  <2> QED BY <1>1, <2>1
<1>4. ASSUME NEW k \in 1 .. N - 1
      PROVE  tail[k] \in ToIds(stack) \ {Head(stack)}
  <2>1. tail[k] = stack[k + 1] /\ k + 1 \in 1 .. N /\ k + 1 # 1 /\ 1 \in 1 .. N
    BY <1>1, <1>2
  <2> QED BY <1>1, <2>1 DEF Listed, ToIds
<1>5. Head(stack) \in ToIds(stack)
  <2>1. 1 \in 1 .. N
    BY <1>1
  <2> QED BY <1>1, <2>1 DEF ToIds
<1>6. ToIds(tail) \subseteq ToIds(stack) \ {Head(stack)}
  BY <1>1, <1>4 DEF ToIds
<1> QED BY <1>1, <1>3, <1>5, <1>6 DEF tail

\* A statement more has been executed.
LEMMA FreshStep ==
  ASSUME NEW d, WellFormed(d), NEW x \in Machines(d), x.stack # <<>>, ~ x.panicked,
         NEW done, Fresh(d, done, x.stack), ~ ExecStep(d, x).panicked
  PROVE  /\ Fresh(d, done \cup {Head(x.stack)}, ExecStep(d, x).stack)
         /\ Head(x.stack) \in Statements(d) \ done
<1> DEFINE h == Head(x.stack)
           tail == Tail(x.stack)
           y == ExecStep(d, x)
           more == done \cup {h}
<1>1. /\ done \subseteq Statements(d) /\ x.stack \in Seq(Statements(d)) /\ Listed(x.stack)
      /\ ToIds(x.stack) \cap done = {}
      /\ \A n \in Statements(d) : Nested(d, n) \cap (done \cup ToIds(x.stack)) # {} => n \in done
  BY DEF Fresh
<1>2. /\ h \in ToIds(x.stack) /\ tail \in Seq(Statements(d)) /\ Listed(tail)
      /\ ToIds(tail) \subseteq ToIds(x.stack) \ {h}
  BY <1>1, StackHead
<1>3. h \in Statements(d)
  BY <1>1, HeadTailProperties
<1>4. \/ y.stack = tail
      \/ \E parts : Enters(d, h, parts) /\ y.stack = parts \o tail
  BY StepCases
<1> HIDE DEF h, tail, y
<1>5. more \subseteq Statements(d) /\ h \notin done
  BY <1>1, <1>2, <1>3
<1>6. CASE y.stack = tail
  <2>1. \A n \in Statements(d) : Nested(d, n) \cap (more \cup ToIds(tail)) # {} => n \in more
    BY <1>1, <1>2
  <2> QED BY <1>1, <1>2, <1>3, <1>5, <1>6, <2>1 DEF Fresh, h, y
<1>7. CASE \E parts : Enters(d, h, parts) /\ y.stack = parts \o tail
  <2>1. PICK parts : Enters(d, h, parts) /\ y.stack = parts \o tail
    BY <1>7
  <2>2. /\ parts \in Seq(Statements(d)) /\ Listed(parts) /\ ToIds(parts) \subseteq Nested(d, h)
        /\ \A c \in ToIds(parts) : c # h
    BY <2>1 DEF Enters
  <2>3. Nested(d, h) \cap (done \cup ToIds(x.stack)) = {}
    BY <1>1, <1>3, <1>5
  <2>4. ToIds(parts) \cap ToIds(tail) = {}
    BY <1>2, <2>2, <2>3
  <2>5. /\ y.stack \in Seq(Statements(d)) /\ Listed(y.stack)
        /\ ToIds(y.stack) = ToIds(parts) \cup ToIds(tail)
    BY <1>2, <2>1, <2>2, <2>4, ListedConcat
  <2>6. ToIds(y.stack) \cap more = {}
    BY <1>1, <1>2, <2>2, <2>3, <2>5
  <2>7. \A m, n \in Statements(d) : m # n => Nested(d, m) \cap Nested(d, n) = {}
    BY DEF WellFormed, NestedOnce
  <2>8. ASSUME NEW n \in Statements(d), Nested(d, n) \cap (more \cup ToIds(y.stack)) # {}
        PROVE  n \in more
    <3>1. PICK c \in Nested(d, n) : c \in done \cup ToIds(x.stack) \/ c \in Nested(d, h)
      BY <1>2, <2>2, <2>5, <2>8
    <3>2. CASE c \in done \cup ToIds(x.stack)
      BY <1>1, <3>2
    <3>3. CASE c \in Nested(d, h)
      BY <1>3, <2>7, <3>1, <3>3
    <3> QED BY <3>1, <3>2, <3>3
  <2> QED BY <1>3, <1>5, <2>5, <2>6, <2>8 DEF Fresh, h, y
<1> QED BY <1>4, <1>6, <1>7

\* A run of top statements, each listed once, comes to its end, or panics.
LEMMA RunEnds ==
  ASSUME NEW d, WellFormed(d), NEW ids, Tops(d, ids), Listed(ids), NEW env \in Stores(d)
  PROVE  /\ Run(d, ids, env) \in Reachable(Stepper(d), Machine(ids, env, env))
         /\ Run(d, ids, env).stack = <<>> \/ Run(d, ids, env).panicked
         /\ Stepper(d)[Run(d, ids, env)] = Run(d, ids, env)
<1> DEFINE N == Cardinality(Statements(d))
           start == Machine(ids, env, env)
           R == Reachable(Stepper(d), start)
           Ended(x) == x.stack = <<>> \/ x.panicked
           Ahead(k, x) == \E done : Fresh(d, done, x.stack) /\ IsFiniteSet(done) /\ Cardinality(done) = k
<1>1. ids \in Seq(Statements(d)) /\ \A n \in ToIds(ids) : d.root[n] = n
  BY DEF Tops
<1>2. PICK f \in [0 .. N -> Machines(d)] :
        /\ N \in Nat /\ f[0] = start /\ f[N] = Run(d, ids, env)
        /\ \A k \in 1 .. N : f[k] = ExecStep(d, f[k - 1])
  BY <1>1, RunSteps
<1>3. start \in Machines(d) /\ start.stack = ids
  BY <1>1, MachineType
<1>4. /\ DOMAIN Stepper(d) = Machines(d)
      /\ \A x \in Machines(d) : Stepper(d)[x] = ExecStep(d, x) /\ Stepper(d)[x] \in Machines(d)
  BY StepperFacts
<1>5. \A n \in Statements(d) : \A m \in Nested(d, n) : d.root[m] # m
  BY DEF WellFormed, NestedOnce
<1>6. Ahead(0, start)
  <2>1. Fresh(d, {}, ids)
    BY <1>1, <1>5 DEF Fresh
  <2>2. IsFiniteSet({}) /\ Cardinality({}) = 0
    BY FS_EmptySet
  <2> QED BY <1>3, <2>1, <2>2
<1> HIDE DEF start
<1> DEFINE Good == {k \in 0 .. N : f[k] \in R /\ (Ended(f[k]) \/ Ahead(k, f[k]))}
<1>7. 0 \in Good
  <2>1. start \in R
    BY <1>3, <1>4, ReachableStart
  <2>2. 0 \in 0 .. N
    BY <1>2
  <2> HIDE DEF R, Ahead, Ended
  <2> QED BY <1>2, <1>6, <2>1, <2>2
<1>8. ASSUME NEW k \in 1 .. N, k - 1 \in Good
      PROVE  k \in Good
  <2> DEFINE x == f[k - 1]
             y == f[k]
  <2>1. /\ k \in 0 .. N /\ k - 1 \in 0 .. N /\ x \in Machines(d) /\ y = ExecStep(d, x)
        /\ x \in R /\ (Ended(x) \/ Ahead(k - 1, x))
    BY <1>2, <1>8
  <2>2. y \in R
    <3>1. Stepper(d)[x] \in R
      BY <1>4, <2>1, ReachableStep
    <3> QED BY <1>4, <2>1, <3>1
  <2> HIDE DEF x, y, R
  <2>3. CASE Ended(x)
    <3>1. y = x
      BY <2>1, <2>3 DEF ExecStep
    <3> QED BY <2>1, <2>2, <2>3, <3>1 DEF y
  <2>4. CASE ~ Ended(x) /\ y.panicked
    BY <2>1, <2>2, <2>4 DEF y
  <2>5. CASE ~ Ended(x) /\ ~ y.panicked
    <3>1. PICK done : Fresh(d, done, x.stack) /\ IsFiniteSet(done) /\ Cardinality(done) = k - 1
      BY <2>1, <2>5
    <3> DEFINE more == done \cup {Head(x.stack)}
    <3>2. Fresh(d, more, y.stack) /\ Head(x.stack) \notin done
      BY <2>1, <2>5, <3>1, FreshStep
    <3>3. IsFiniteSet(more) /\ Cardinality(more) = (k - 1) + 1
      BY <3>1, <3>2, FS_AddElement
    <3>4. (k - 1) + 1 = k
      BY <1>2
    <3> HIDE DEF more
    <3>5. Ahead(k, y)
      BY <3>2, <3>3, <3>4
    <3> HIDE DEF Ahead, Ended
    <3> QED BY <2>1, <2>2, <3>5 DEF y
  <2> QED BY <2>3, <2>4, <2>5
<1>9. N \in Good
  <2> HIDE DEF Good
  <2> DEFINE g == [k \in 0 .. N |-> k]
  <2>1. g[0] \in Good
    BY <1>2, <1>7
  <2>2. \A k \in 1 .. N : g[k - 1] \in Good => g[k] \in Good
    BY <1>2, <1>8
  <2> HIDE DEF g, N
  <2>3. \A k \in 0 .. N : g[k] \in Good
    BY ONLY <1>2, <2>1, <2>2, IterationInvariant
  <2> QED BY <1>2, <2>3 DEF g
<1>10. Ended(f[N])
  <2> SUFFICES ASSUME ~ Ended(f[N]) PROVE FALSE
    OBVIOUS
  <2>1. PICK done : Fresh(d, done, f[N].stack) /\ IsFiniteSet(done) /\ Cardinality(done) = N
    BY <1>9
  <2>2. done = Statements(d)
    <3>1. done \in SUBSET Statements(d) /\ IsFiniteSet(Statements(d))
      BY <2>1 DEF Fresh, WellFormed
    <3> QED BY <2>1, <3>1, FS_Subset
  <2>3. Head(f[N].stack) \in ToIds(f[N].stack) /\ f[N].stack \in Seq(Statements(d))
    BY <2>1, StackHead DEF Fresh
  <2>4. Head(f[N].stack) \in Statements(d)
    BY <2>3, HeadTailProperties
  <2> QED BY <2>1, <2>2, <2>3, <2>4 DEF Fresh
<1>11. f[N] \in R /\ f[N] \in Machines(d)
  BY <1>2, <1>9
<1>12. Stepper(d)[f[N]] = f[N]
  <2>1. ExecStep(d, f[N]) = f[N]
    BY <1>10 DEF ExecStep
  <2> QED BY <1>4, <1>11, <2>1
<1> HIDE DEF R
<1> QED BY <1>2, <1>10, <1>11, <1>12 DEF R, start

-----------------------------------------------------------------------------
(* Runs of the same statements from two stores. *)

\* Two machines at one statement take the same step if their stores agree on
\* what it reads: they write the same bits, and leave the others.
LEMMA StepAlongside ==
  ASSUME NEW d, WellFormed(d), NEW x \in Machines(d), NEW y \in Machines(d),
         x.stack = y.stack, x.panicked = y.panicked,
         x.stack # <<>> => Agree(d, StatementReads(d, d.root[Head(x.stack)]), x.env, y.env)
  PROVE  LET p == ExecStep(d, x)
             q == ExecStep(d, y)
         IN  /\ p.stack = q.stack /\ p.panicked = q.panicked
             /\ \A l \in Locations(d) :
                  p.env[l] = q.env[l] \/ (p.env[l] = x.env[l] /\ q.env[l] = y.env[l])
<1> DEFINE n == Head(x.stack)
           s == d.statement[n]
           r == d.root[n]
           V == StatementReads(d, r)
           p == ExecStep(d, x)
           q == ExecStep(d, y)
<1>1. CASE x.stack = <<>> \/ x.panicked
  <2>1. p = x /\ q = y
    BY <1>1, StepCases
  <2> QED BY <2>1
<1>2. CASE ~ (x.stack = <<>> \/ x.panicked)
  <2>1. /\ n \in Inside(d, r) /\ StatementOK(d, n) /\ Agree(d, V, x.env, y.env)
        /\ x.env \in Stores(d) /\ y.env \in Stores(d)
    BY <1>2, StepCases DEF Machines
  <2>2. /\ \A rest : Unfold(d, s, x.env, rest) = Unfold(d, s, y.env, rest)
        /\ s.kind = "Assignment" =>
             /\ Eval(d, s.value, x.env) = Eval(d, s.value, y.env)
             /\ TargetStart(d, s.target, x.env) = TargetStart(d, s.target, y.env)
             /\ Destination(d, s.target, x.env) = Destination(d, s.target, y.env)
    BY <2>1, StatementAgrees
  <2>3. Panics(d, s, x.env) <=> Panics(d, s, y.env)
    <3>1. CASE s.kind = "Assignment"
      <4>1. TargetReads(s.target) \subseteq V
        BY <2>1, <3>1 DEF StatementReads
      <4>2. TargetOK(d, s.target)
        BY <2>1, <3>1 DEF StatementOK
      <4>3. IndexDeclared(d, s.target, x.env) = IndexDeclared(d, s.target, y.env)
        BY <2>1, <4>1, <4>2, TargetAgrees
      <4> QED BY <4>3 DEF Panics
    <3>2. CASE s.kind # "Assignment"
      BY <3>2 DEF Panics
    <3> QED BY <3>1, <3>2
  <2>4. /\ Panics(d, s, x.env) => p.stack = x.stack /\ p.env = x.env /\ p.panicked
        /\ ~ Panics(d, s, x.env) /\ s.kind = "Assignment" =>
             p.stack = Tail(x.stack) /\ ~ p.panicked /\ p.env = AssignEnv(d, s, x.env)
        /\ ~ Panics(d, s, x.env) /\ s.kind # "Assignment" =>
             p.stack = Unfold(d, s, x.env, Tail(x.stack)) /\ ~ p.panicked /\ p.env = x.env
    BY <1>2, StepCases
  <2>5. /\ Panics(d, s, y.env) => q.stack = y.stack /\ q.env = y.env /\ q.panicked
        /\ ~ Panics(d, s, y.env) /\ s.kind = "Assignment" =>
             q.stack = Tail(y.stack) /\ ~ q.panicked /\ q.env = AssignEnv(d, s, y.env)
        /\ ~ Panics(d, s, y.env) /\ s.kind # "Assignment" =>
             q.stack = Unfold(d, s, y.env, Tail(y.stack)) /\ ~ q.panicked /\ q.env = y.env
    BY <1>2, StepCases
  <2>6. p.panicked \in BOOLEAN /\ q.panicked \in BOOLEAN
    BY StepCases DEF Machines
  <2>7. ASSUME s.kind = "Assignment", NEW l \in Locations(d)
        PROVE  \/ AssignEnv(d, s, x.env)[l] = AssignEnv(d, s, y.env)[l]
               \/ AssignEnv(d, s, x.env)[l] = x.env[l] /\ AssignEnv(d, s, y.env)[l] = y.env[l]
    <3>1. DOMAIN x.env = Locations(d) /\ DOMAIN y.env = Locations(d)
      BY <2>1 DEF Stores
    <3> HIDE DEF s
    <3> QED BY <2>2, <2>7, <3>1 DEF AssignEnv, StoreBits
  <2> HIDE DEF s, p, q, n, r, V
  <2>8. CASE Panics(d, s, x.env)
    BY <2>3, <2>4, <2>5, <2>8 DEF p, q
  <2>9. CASE ~ Panics(d, s, x.env) /\ s.kind = "Assignment"
    BY <2>3, <2>4, <2>5, <2>6, <2>7, <2>9 DEF p, q
  <2>10. CASE ~ Panics(d, s, x.env) /\ s.kind # "Assignment"
    BY <2>2, <2>3, <2>4, <2>5, <2>6, <2>10 DEF p, q
  <2> QED BY <2>8, <2>9, <2>10
<1> QED BY <1>1, <1>2

\* What the statements of a stack may write, with those they are parts of.
StackWrites(d, stack) == UNION {Footprint(d, d.root[n]) : n \in ToIds(stack)}

\* No statement of the stack reads a bit it or one after it writes.
Forward(d, stack) ==
  \A i, j \in DOMAIN stack :
    i <= j => LocationsIn(d, StatementReads(d, d.root[stack[i]]))
                \cap Footprint(d, d.root[stack[j]]) = {}

\* After a step each statement of the stack is part of one that was on it, in
\* the same order.
LEMMA StackFollows ==
  ASSUME NEW d, WellFormed(d), NEW x \in Machines(d)
  PROVE  LET new == ExecStep(d, x).stack IN
         \E f \in [DOMAIN new -> DOMAIN x.stack] :
           /\ \A i \in DOMAIN new : d.root[new[i]] = d.root[x.stack[f[i]]]
           /\ \A i, j \in DOMAIN new : i <= j => f[i] <= f[j]
<1> DEFINE old == x.stack
           new == ExecStep(d, x).stack
           S == Statements(d)
<1>1. old \in Seq(S) /\ DOMAIN old = 1 .. Len(old) /\ Len(old) \in Nat
  BY LenProperties DEF Machines
<1>2. CASE new = old
  <2> DEFINE f == [i \in DOMAIN new |-> i]
  <2>1. /\ f \in [DOMAIN new -> DOMAIN old]
        /\ \A i \in DOMAIN new : d.root[new[i]] = d.root[old[f[i]]]
        /\ \A i, j \in DOMAIN new : i <= j => f[i] <= f[j]
    BY <1>2
  <2> HIDE DEF f
  <2> QED BY <2>1
<1>3. ASSUME old # <<>>, NEW parts \in Seq(S), new = parts \o Tail(old),
             \A c \in ToIds(parts) : d.root[c] = d.root[Head(old)]
      PROVE  \E f \in [DOMAIN new -> DOMAIN old] :
               /\ \A i \in DOMAIN new : d.root[new[i]] = d.root[old[f[i]]]
               /\ \A i, j \in DOMAIN new : i <= j => f[i] <= f[j]
  <2> DEFINE L == Len(parts)
             n == Len(old)
  <2>1. /\ n \in Nat \ {0} /\ L \in Nat /\ Head(old) = old[1] /\ Tail(old) \in Seq(S)
        /\ Len(Tail(old)) = n - 1 /\ \A k \in 1 .. n - 1 : Tail(old)[k] = old[k + 1]
    <3>1. n \in Nat \ {0} /\ L \in Nat
      BY <1>1, <1>3, EmptySeq, LenProperties
    <3> QED BY <1>1, <1>3, <3>1, HeadTailProperties
  <2>2. /\ new \in Seq(S) /\ Len(new) = L + (n - 1)
        /\ \A k \in 1 .. L + (n - 1) : new[k] = IF k <= L THEN parts[k] ELSE Tail(old)[k - L]
    <3>1. /\ parts \o Tail(old) \in Seq(S)
          /\ Len(parts \o Tail(old)) = Len(parts) + Len(Tail(old))
          /\ \A k \in 1 .. Len(parts) + Len(Tail(old)) :
               (parts \o Tail(old))[k] = IF k <= Len(parts) THEN parts[k] ELSE Tail(old)[k - Len(parts)]
      BY <1>3, <2>1, ConcatProperties
    <3> HIDE DEF new
    <3> QED BY <1>3, <2>1, <3>1
  <2>3. DOMAIN new = 1 .. L + (n - 1) /\ DOMAIN parts = 1 .. L
    BY <1>3, <2>2, LenProperties
  <2> DEFINE f == [i \in 1 .. L + (n - 1) |-> IF i <= L THEN 1 ELSE (i - L) + 1]
  <2> HIDE DEF L, n, old, new
  <2>4. f \in [1 .. L + (n - 1) -> 1 .. n]
    BY <2>1
  <2>5. ASSUME NEW i \in 1 .. L + (n - 1)
        PROVE  d.root[new[i]] = d.root[old[f[i]]]
    <3>1. CASE i <= L
      <4>1. i \in 1 .. L
        BY <2>1, <3>1
      <4>2. parts[i] \in ToIds(parts)
        BY <2>3, <4>1 DEF ToIds
      <4> QED BY <1>3, <2>1, <2>2, <3>1, <4>2
    <3>2. CASE ~ (i <= L)
      <4>1. i - L \in 1 .. n - 1
        BY <2>1, <3>2
      <4> QED BY <2>1, <2>2, <3>2, <4>1
    <3> QED BY <3>1, <3>2
  <2>6. ASSUME NEW i \in 1 .. L + (n - 1), NEW j \in 1 .. L + (n - 1), i <= j
        PROVE  f[i] <= f[j]
    BY <2>1, <2>6
  <2>7. DOMAIN old = 1 .. n
    BY <1>1 DEF n
  <2> HIDE DEF f
  <2> QED BY <2>3, <2>4, <2>5, <2>6, <2>7
<1>4. \/ new = old
      \/ old # <<>> /\ new = Tail(old)
      \/ old # <<>> /\ \E parts : Enters(d, Head(old), parts) /\ new = parts \o Tail(old)
  BY StepCases
<1>5. CASE old # <<>> /\ new = Tail(old)
  <2> DEFINE none == <<>>
  <2>1. none \in Seq(S) /\ ToIds(none) = {}
    BY DEF ToIds
  <2>2. none \o Tail(old) = Tail(old)
    <3>1. Tail(old) \in Seq(S)
      BY <1>1, <1>5, HeadTailProperties
    <3> QED BY <3>1
  <2> HIDE DEF none, new, old
  <2>3. new = none \o Tail(old) /\ \A c \in ToIds(none) : d.root[c] = d.root[Head(old)]
    BY <1>5, <2>1, <2>2
  <2> QED BY <1>3, <1>5, <2>1, <2>3 DEF new, old
<1>6. CASE old # <<>> /\ \E parts : Enters(d, Head(old), parts) /\ new = parts \o Tail(old)
  <2>1. PICK parts : Enters(d, Head(old), parts) /\ new = parts \o Tail(old)
    BY <1>6
  <2>2. parts \in Seq(S) /\ \A c \in ToIds(parts) : d.root[c] = d.root[Head(old)]
    BY <2>1 DEF Enters
  <2> HIDE DEF new, old
  <2> QED BY <1>3, <1>6, <2>1, <2>2 DEF new, old
<1> HIDE DEF new, old
<1> QED BY <1>2, <1>4, <1>5, <1>6 DEF new, old

\* The statements on a stack stay in that order, and write no more.
LEMMA ForwardStep ==
  ASSUME NEW d, WellFormed(d), NEW x \in Machines(d)
  PROVE  /\ Forward(d, x.stack) => Forward(d, ExecStep(d, x).stack)
         /\ StackWrites(d, ExecStep(d, x).stack) \subseteq StackWrites(d, x.stack)
<1> DEFINE old == x.stack
           new == ExecStep(d, x).stack
<1>1. PICK f \in [DOMAIN new -> DOMAIN old] :
        /\ \A i \in DOMAIN new : d.root[new[i]] = d.root[old[f[i]]]
        /\ \A i, j \in DOMAIN new : i <= j => f[i] <= f[j]
  BY StackFollows
<1> HIDE DEF old, new
<1>2. Forward(d, old) => Forward(d, new)
  BY <1>1 DEF Forward
<1>3. StackWrites(d, new) \subseteq StackWrites(d, old)
  BY <1>1 DEF StackWrites, ToIds
<1> QED BY <1>2, <1>3 DEF old, new

\* The next statement of the stack reads nothing that is still to be written.
LEMMA ForwardHead ==
  ASSUME NEW d, NEW stack \in Seq(Statements(d)), stack # <<>>, Forward(d, stack)
  PROVE  LocationsIn(d, StatementReads(d, d.root[Head(stack)])) \cap StackWrites(d, stack) = {}
<1>1. 1 \in DOMAIN stack /\ Head(stack) = stack[1] /\ \A j \in DOMAIN stack : 1 <= j
  <2>1. Len(stack) \in Nat \ {0} /\ DOMAIN stack = 1 .. Len(stack)
    BY EmptySeq, LenProperties
  <2> QED BY <2>1, HeadTailProperties
<1>2. \A j \in DOMAIN stack :
        LocationsIn(d, StatementReads(d, d.root[Head(stack)]))
          \cap Footprint(d, d.root[stack[j]]) = {}
  BY <1>1 DEF Forward
<1> QED BY <1>2 DEF StackWrites, ToIds

\* A step writes what its statement writes.
LEMMA StepWritesOnly ==
  ASSUME NEW d, WellFormed(d), NEW x \in Machines(d), NEW l \in Locations(d),
         l \notin StackWrites(d, x.stack)
  PROVE  ExecStep(d, x).env[l] = x.env[l]
<1> DEFINE n == Head(x.stack)
           s == d.statement[n]
           y == ExecStep(d, x)
<1>1. \/ y.env = x.env
      \/ /\ x.stack # <<>> /\ n \in Inside(d, d.root[n]) /\ StatementOK(d, n)
         /\ s.kind = "Assignment" /\ y.env = AssignEnv(d, s, x.env)
  BY StepCases
<1>2. ASSUME x.stack # <<>>, n \in Inside(d, d.root[n]), StatementOK(d, n),
             s.kind = "Assignment", y.env = AssignEnv(d, s, x.env)
      PROVE  y.env[l] = x.env[l]
  <2>1. x.stack \in Seq(Statements(d)) /\ x.env \in Stores(d) /\ x.pending \in Stores(d)
    BY DEF Machines
  <2>2. n \in ToIds(x.stack)
    <3>1. 1 \in DOMAIN x.stack /\ n = x.stack[1]
      BY <1>2, <2>1, EmptySeq, LenProperties, HeadTailProperties
    <3> QED BY <3>1 DEF ToIds
  <2>3. TargetFootprint(d, s.target) \subseteq StackWrites(d, x.stack)
    <3>1. TargetFootprint(d, s.target) \subseteq Footprint(d, d.root[n])
      BY <1>2 DEF Footprint, AssignmentsIn
    <3> QED BY <2>2, <3>1 DEF StackWrites
  <2>4. TargetOK(d, s.target)
    BY <1>2 DEF StatementOK
  <2>5. DOMAIN x.env = Locations(d)
    BY <2>1 DEF Stores
  <2> HIDE DEF s, y, n
  <2>6. l \notin Destination(d, s.target, x.env)
    BY <2>1, <2>3, <2>4, DestinationInFootprint
  <2> QED BY <1>2, <2>5, <2>6 DEF AssignEnv, StoreBits
<1> HIDE DEF n, s, y
<1> QED BY <1>1, <1>2 DEF y

\* What no statement of the stack writes has its last value.
LEMMA UnwrittenStays ==
  ASSUME NEW d, WellFormed(d), NEW x \in Machines(d), NEW t \in Reachable(Stepper(d), x),
         NEW l \in Locations(d), l \notin StackWrites(d, x.stack)
  PROVE  t.env[l] = x.env[l]
<1> DEFINE F == Stepper(d)
           C == {z \in Machines(d) : /\ StackWrites(d, z.stack) \subseteq StackWrites(d, x.stack)
                                     /\ z.env[l] = x.env[l]}
<1>1. DOMAIN F = Machines(d) /\ \A z \in Machines(d) : F[z] = ExecStep(d, z) /\ F[z] \in Machines(d)
  BY StepperFacts
<1>2. x \in C
  OBVIOUS
<1>3. ASSUME NEW z \in C
      PROVE  F[z] \in C
  <2>1. /\ z \in Machines(d) /\ StackWrites(d, z.stack) \subseteq StackWrites(d, x.stack)
        /\ z.env[l] = x.env[l] /\ F[z] = ExecStep(d, z) /\ F[z] \in Machines(d)
    BY <1>1
  <2>2. StackWrites(d, ExecStep(d, z).stack) \subseteq StackWrites(d, z.stack)
    BY <2>1, ForwardStep
  <2>3. ExecStep(d, z).env[l] = z.env[l]
    BY <2>1, StepWritesOnly
  <2> HIDE DEF F
  <2> QED BY <2>1, <2>2, <2>3
<1>4. C \subseteq DOMAIN F
  BY <1>1
<1> HIDE DEF C, F
<1>5. Reachable(F, x) \subseteq C
  BY <1>2, <1>3, <1>4, ReachableInvariant
<1> QED BY <1>5 DEF C, F

\* A run that has ended in a store is followed by one that starts in it: both
\* are at the same statement, and each bit the second has not left as it was
\* is as in the first.
Following(d, end, x, y) ==
  /\ x.stack = y.stack /\ x.panicked = y.panicked
  /\ \/ x.env = y.env
     \/ /\ Forward(d, x.stack)
        /\ \A l \in Locations(d) : y.env[l] = x.env[l] \/ y.env[l] = end[l]

LEMMA FollowingStep ==
  ASSUME NEW d, WellFormed(d), NEW x \in Machines(d), NEW t \in Reachable(Stepper(d), x),
         NEW y \in Machines(d), Following(d, t.env, x, y)
  PROVE  Following(d, t.env, ExecStep(d, x), ExecStep(d, y))
<1> DEFINE p == ExecStep(d, x)
           q == ExecStep(d, y)
           r == d.root[Head(x.stack)]
<1>1. /\ x.stack \in Seq(Statements(d)) /\ x.env \in Stores(d) /\ y.env \in Stores(d)
      /\ p \in Machines(d) /\ q \in Machines(d)
  BY ExecStepType DEF Machines
<1>2. p.env \in [Locations(d) -> Bit] /\ q.env \in [Locations(d) -> Bit]
  BY <1>1 DEF Machines, Stores
<1> HIDE DEF p, q
<1>3. CASE x.env = y.env
  <2>1. x.stack # <<>> => Agree(d, StatementReads(d, r), x.env, y.env)
    BY <1>3 DEF Agree
  <2>2. /\ p.stack = q.stack /\ p.panicked = q.panicked
        /\ \A l \in Locations(d) :
             p.env[l] = q.env[l] \/ (p.env[l] = x.env[l] /\ q.env[l] = y.env[l])
    BY <2>1, StepAlongside DEF Following, p, q
  <2>3. p.env = q.env
    BY <1>2, <1>3, <2>2
  <2> QED BY <2>2, <2>3 DEF Following, p, q
<1>4. CASE /\ Forward(d, x.stack)
           /\ \A l \in Locations(d) : y.env[l] = x.env[l] \/ y.env[l] = t.env[l]
  <2>1. x.stack # <<>> => Agree(d, StatementReads(d, r), x.env, y.env)
    <3> SUFFICES ASSUME x.stack # <<>>, NEW l \in LocationsIn(d, StatementReads(d, r))
                 PROVE  x.env[l] = y.env[l]
      BY DEF Agree
    <3>1. l \notin StackWrites(d, x.stack)
      BY <1>1, <1>4, ForwardHead
    <3>2. l \in Locations(d)
      <4>1. StatementReads(d, r) \subseteq Variables(d)
        BY ReadsDeclared
      <4> QED BY <4>1, LocationVariable
    <3>3. t.env[l] = x.env[l]
      BY <3>1, <3>2, UnwrittenStays
    <3> QED BY <1>4, <3>2, <3>3
  <2>2. /\ p.stack = q.stack /\ p.panicked = q.panicked
        /\ \A l \in Locations(d) :
             p.env[l] = q.env[l] \/ (p.env[l] = x.env[l] /\ q.env[l] = y.env[l])
    BY <2>1, StepAlongside DEF Following, p, q
  <2>3. Forward(d, p.stack)
    BY <1>4, ForwardStep DEF p
  <2> QED BY <1>4, <2>2, <2>3 DEF Following, p, q
<1> QED BY <1>3, <1>4 DEF Following

\* A second run ends where the first one has, if that is where the first one
\* started, or if each statement reads only what is written before it.
LEMMA RunsAgain ==
  ASSUME NEW d, WellFormed(d), NEW ids, Tops(d, ids), Listed(ids),
         NEW env \in Stores(d), NEW pending \in Stores(d),
         NEW t, Finishes(d, ids, env, pending, t), env = t.env \/ Forward(d, ids)
  PROVE  Finishes(d, ids, t.env, t.env, Run(d, ids, t.env)) /\ Run(d, ids, t.env).env = t.env
<1> DEFINE F == Stepper(d)
           first == Machine(ids, env, pending)
           second == Machine(ids, t.env, t.env)
           u == Run(d, ids, t.env)
           C == {y \in Machines(d) : \E x \in Reachable(F, first) : Following(d, t.env, x, y)}
<1>1. ids \in Seq(Statements(d))
  BY DEF Tops
<1>2. /\ t \in Machines(d) /\ t.env \in Stores(d) /\ F[t] = t /\ t \in Reachable(F, first)
  BY <1>1, FinishedMachine DEF Finishes
<1>3. /\ u \in Reachable(F, second) /\ F[u] = u
      /\ u.stack = <<>> \/ u.panicked
  BY <1>2, RunEnds
<1>4. /\ first \in Machines(d) /\ first.stack = ids /\ first.env = env /\ ~ first.panicked
      /\ second \in Machines(d) /\ second.stack = ids /\ second.env = t.env /\ ~ second.panicked
  BY <1>1, <1>2, MachineType
<1>5. /\ DOMAIN F = Machines(d)
      /\ \A x \in Machines(d) : F[x] = ExecStep(d, x) /\ F[x] \in Machines(d)
      /\ Reachable(F, first) \subseteq Machines(d)
  BY StepperFacts
<1>6. first.panicked \in BOOLEAN /\ second.panicked \in BOOLEAN
  BY <1>4 DEF Machines
<1> HIDE DEF F, first, second, u
<1>7. second \in C
  <2>1. Following(d, t.env, first, second)
    BY <1>4, <1>6 DEF Following
  <2>2. first \in Reachable(F, first)
    BY <1>4, <1>5, ReachableStart
  <2> QED BY <1>4, <2>1, <2>2
<1>8. ASSUME NEW y \in C
      PROVE  F[y] \in C
  <2>1. PICK x \in Reachable(F, first) : Following(d, t.env, x, y)
    OBVIOUS
  <2>2. t \in Reachable(F, x)
    BY <1>2, <1>4, <1>5, ReachableEnd
  <2>3. Following(d, t.env, ExecStep(d, x), ExecStep(d, y))
    BY <1>5, <2>1, <2>2, FollowingStep DEF F
  <2>4. F[x] \in Reachable(F, first)
    BY <1>5, ReachableStep
  <2> QED BY <1>5, <2>3, <2>4
<1>9. u \in C
  <2>1. C \subseteq DOMAIN F
    BY <1>5
  <2> HIDE DEF C
  <2>2. Reachable(F, second) \subseteq C
    BY <1>7, <1>8, <2>1, ReachableInvariant
  <2> QED BY <1>3, <2>2
<1>10. PICK x \in Reachable(F, first) : Following(d, t.env, x, u)
  BY <1>9
<1>11. x = t
  <2>1. x.stack = <<>> \/ x.panicked
    BY <1>3, <1>10 DEF Following
  <2>2. F[x] = x
    <3>1. ExecStep(d, x) = x
      BY <2>1 DEF ExecStep
    <3> QED BY <1>5, <3>1
  <2> QED BY <1>2, <1>4, <1>5, <2>2, UniqueEnd
<1>12. u \in Machines(d)
  BY <1>9
<1>13. u.env \in [Locations(d) -> Bit] /\ t.env \in [Locations(d) -> Bit]
  BY <1>2, <1>12 DEF Machines, Stores
<1>14. u.env = t.env
  <2>1. t.env = u.env \/ \A l \in Locations(d) : u.env[l] = t.env[l] \/ u.env[l] = t.env[l]
    BY <1>10, <1>11 DEF Following
  <2> QED BY <1>13, <2>1
<1>15. u.stack = <<>>
  BY <1>10, <1>11 DEF Following, Finishes
<1> QED BY <1>3, <1>14, <1>15 DEF u, F, second, Finishes

\* A statement run from two stores that agree on what it reads writes the same
\* values, and the same bits stay unwritten.
LEMMA StatementFollows ==
  ASSUME NEW d, WellFormed(d), NEW n \in Statements(d), d.root[n] = n,
         NEW env \in Stores(d), NEW pending \in Stores(d), NEW other \in Stores(d),
         NEW t \in Reachable(Stepper(d), Machine(<<n>>, env, pending)), Stepper(d)[t] = t,
         Agree(d, StatementReads(d, n), env, other)
  PROVE  LET u == Run(d, <<n>>, other) IN
         \A l \in Locations(d) :
           u.env[l] = t.env[l] \/ (t.env[l] = env[l] /\ u.env[l] = other[l])
<1> DEFINE F == Stepper(d)
           ids == <<n>>
           first == Machine(ids, env, pending)
           second == Machine(ids, other, other)
           u == Run(d, ids, other)
           Coupled(x, y) ==
             /\ x.stack = y.stack /\ x.panicked = y.panicked
             /\ \A c \in ToIds(x.stack) : d.root[c] = n
             /\ \A l \in Locations(d) :
                  x.env[l] = y.env[l] \/ (x.env[l] = env[l] /\ y.env[l] = other[l])
           C == {y \in Machines(d) : \E x \in Reachable(F, first) : Coupled(x, y)}
<1>1. Tops(d, ids) /\ Listed(ids) /\ ids \in Seq(Statements(d)) /\ \A c \in ToIds(ids) : d.root[c] = n
  BY DEF Tops, Listed, ToIds
<1> HIDE DEF ids
<1>2. /\ u \in Reachable(F, second) /\ F[u] = u
      /\ u.stack = <<>> \/ u.panicked
  BY <1>1, RunEnds
<1>3. /\ first \in Machines(d) /\ first.stack = ids /\ first.env = env /\ ~ first.panicked
      /\ second \in Machines(d) /\ second.stack = ids /\ second.env = other /\ ~ second.panicked
  BY <1>1, MachineType
<1>4. /\ DOMAIN F = Machines(d)
      /\ \A x \in Machines(d) : F[x] = ExecStep(d, x) /\ F[x] \in Machines(d)
      /\ Reachable(F, first) \subseteq Machines(d)
  BY StepperFacts
<1>5. first.panicked \in BOOLEAN /\ second.panicked \in BOOLEAN
  BY <1>3 DEF Machines
<1>6. t \in Reachable(F, first) /\ F[t] = t
  BY DEF ids
<1> HIDE DEF F, first, second, u
<1>7. second \in C
  <2>1. Coupled(first, second)
    BY <1>1, <1>3, <1>5
  <2>2. first \in Reachable(F, first)
    BY <1>3, <1>4, ReachableStart
  <2> HIDE DEF Coupled
  <2> QED BY <1>3, <2>1, <2>2
<1>8. ASSUME NEW x \in Machines(d), NEW y \in Machines(d), Coupled(x, y)
      PROVE  Coupled(ExecStep(d, x), ExecStep(d, y))
  <2> DEFINE p == ExecStep(d, x)
             q == ExecStep(d, y)
  <2>1. x.stack # <<>> => Agree(d, StatementReads(d, d.root[Head(x.stack)]), x.env, y.env)
    <3> SUFFICES ASSUME x.stack # <<>>,
                        NEW l \in LocationsIn(d, StatementReads(d, d.root[Head(x.stack)]))
                 PROVE  x.env[l] = y.env[l]
      BY DEF Agree
    <3>1. Head(x.stack) \in ToIds(x.stack)
      <4>1. 1 \in DOMAIN x.stack /\ Head(x.stack) = x.stack[1]
        BY EmptySeq, LenProperties, HeadTailProperties DEF Machines
      <4> QED BY <4>1 DEF ToIds
    <3>2. d.root[Head(x.stack)] = n
      BY <1>8, <3>1
    <3>3. l \in Locations(d)
      BY <3>2, ReadsDeclared, LocationVariable
    <3>4. env[l] = other[l]
      BY <3>2 DEF Agree
    <3> QED BY <1>8, <3>3, <3>4
  <2>2. /\ p.stack = q.stack /\ p.panicked = q.panicked
        /\ \A l \in Locations(d) :
             p.env[l] = q.env[l] \/ (p.env[l] = x.env[l] /\ q.env[l] = y.env[l])
    BY <1>8, <2>1, StepAlongside
  <2>3. \A c \in ToIds(p.stack) : d.root[c] = n
    <3>1. PICK f \in [DOMAIN p.stack -> DOMAIN x.stack] :
            \A i \in DOMAIN p.stack : d.root[p.stack[i]] = d.root[x.stack[f[i]]]
      BY StackFollows
    <3> HIDE DEF p
    <3> QED BY <1>8, <3>1 DEF ToIds
  <2> HIDE DEF p, q
  <2>4. Coupled(p, q)
    BY <1>8, <2>2, <2>3
  <2> QED BY <2>4 DEF p, q
<1>9. ASSUME NEW y \in C
      PROVE  F[y] \in C
  <2>1. PICK x \in Reachable(F, first) : Coupled(x, y)
    OBVIOUS
  <2> HIDE DEF Coupled
  <2>2. Coupled(ExecStep(d, x), ExecStep(d, y))
    BY <1>4, <1>8, <2>1
  <2>3. F[x] \in Reachable(F, first)
    BY <1>4, ReachableStep
  <2> QED BY <1>4, <2>2, <2>3
<1>10. u \in C
  <2>1. C \subseteq DOMAIN F
    BY <1>4
  <2> HIDE DEF C
  <2>2. Reachable(F, second) \subseteq C
    BY <1>7, <1>9, <2>1, ReachableInvariant
  <2> QED BY <1>2, <2>2
<1>11. PICK x \in Reachable(F, first) : Coupled(x, u)
  BY <1>10
<1>12. x = t
  <2>1. x.stack = <<>> \/ x.panicked
    BY <1>2, <1>11
  <2>2. F[x] = x
    <3>1. ExecStep(d, x) = x
      BY <2>1 DEF ExecStep
    <3> QED BY <1>4, <3>1
  <2> QED BY <1>3, <1>4, <1>6, <2>2, UniqueEnd
<1>13. \A l \in Locations(d) : u.env[l] = t.env[l] \/ (t.env[l] = env[l] /\ u.env[l] = other[l])
  BY <1>11, <1>12
<1> QED BY <1>13 DEF u, ids

\* A statement writes only its own bits.
LEMMA RunWritesOnly ==
  ASSUME NEW d, WellFormed(d), NEW n \in Statements(d), d.root[n] = n, NEW env \in Stores(d)
  PROVE  /\ Run(d, <<n>>, env).env \in Stores(d)
         /\ \A l \in Locations(d) : l \notin Footprint(d, n) => Run(d, <<n>>, env).env[l] = env[l]
<1> DEFINE ids == <<n>>
           start == Machine(ids, env, env)
           u == Run(d, ids, env)
<1>1. Tops(d, ids) /\ Listed(ids) /\ ids \in Seq(Statements(d)) /\ StackWrites(d, ids) = Footprint(d, n)
  BY DEF Tops, Listed, ToIds, StackWrites
<1> HIDE DEF ids
<1>2. start \in Machines(d) /\ start.stack = ids /\ start.env = env
  BY <1>1, MachineType
<1>3. u \in Reachable(Stepper(d), start) /\ u \in Machines(d)
  BY <1>1, RunEnds, RunType
<1> HIDE DEF start, u
<1>4. \A l \in Locations(d) : l \notin Footprint(d, n) => u.env[l] = env[l]
  BY <1>1, <1>2, <1>3, UnwrittenStays
<1> QED BY <1>3, <1>4 DEF u, ids, Machines

\* A statement that leaves a store as it is writes the values of that store
\* wherever it reads the same.
LEMMA QuietFollows ==
  ASSUME NEW d, WellFormed(d), NEW n \in Statements(d), d.root[n] = n,
         NEW env \in Stores(d), Run(d, <<n>>, env).env = env,
         NEW other \in Stores(d), Agree(d, StatementReads(d, n), env, other)
  PROVE  \A l \in Locations(d) :
           Run(d, <<n>>, other).env[l] = env[l] \/ Run(d, <<n>>, other).env[l] = other[l]
<1> DEFINE ids == <<n>>
           t == Run(d, ids, env)
<1>1. Tops(d, ids) /\ Listed(ids)
  BY DEF Tops, Listed, ToIds
<1> HIDE DEF ids
<1>2. t \in Reachable(Stepper(d), Machine(ids, env, env)) /\ Stepper(d)[t] = t
  BY <1>1, RunEnds
<1>3. t.env = env
  BY DEF ids
<1> HIDE DEF t
<1>4. t \in Reachable(Stepper(d), Machine(<<n>>, env, env))
  BY <1>2 DEF ids
<1> QED BY <1>2, <1>3, <1>4, StatementFollows

\* The statements before and after one in a list.
Around(ids, n, p, q) ==
  /\ ids = p \o (<<n>> \o q)
  /\ ToIds(p) \cup ToIds(q) \subseteq ToIds(ids)
  /\ n \notin ToIds(p) /\ n \notin ToIds(q) /\ ToIds(p) \cap ToIds(q) = {}

LEMMA PlaceInList ==
  ASSUME NEW S, NEW ids \in Seq(S), Listed(ids), NEW n \in ToIds(ids)
  PROVE  \E p, q \in Seq(S) : Around(ids, n, p, q)
<1> DEFINE N == Len(ids)
<1>1. N \in Nat /\ DOMAIN ids = 1 .. N /\ \A k \in 1 .. N : ids[k] \in S
  BY LenProperties, ElementOfSeq
<1>2. PICK i \in 1 .. N : ids[i] = n
  BY <1>1 DEF ToIds
<1> DEFINE p == SubSeq(ids, 1, i - 1)
           q == SubSeq(ids, i + 1, N)
<1> HIDE DEF N
<1>3. i - 1 \in Nat /\ N - i \in Nat
  BY <1>1
<1>4. /\ p \in Seq(S) /\ Len(p) = i - 1 /\ \A k \in 1 .. i - 1 : p[k] = ids[k]
      /\ q \in Seq(S) /\ Len(q) = N - i /\ \A k \in 1 .. N - i : q[k] = ids[k + i]
  <2>1. /\ \A k \in 1 .. i - 1 : ids[k] \in S
        /\ \A k \in i + 1 .. N : ids[k] \in S
    BY <1>1
  <2>2. /\ 1 \in Int /\ i - 1 \in Int /\ i + 1 \in Int /\ N \in Int
        /\ (i - 1) - 1 + 1 = i - 1 /\ N - (i + 1) + 1 = N - i
    BY <1>1
  <2>3. /\ p \in Seq(S) /\ Len(p) = IF 1 <= i - 1 THEN (i - 1) - 1 + 1 ELSE 0
        /\ \A k \in 1 .. (i - 1) - 1 + 1 : p[k] = ids[1 + k - 1]
    BY <2>1, <2>2, SubSeqProperties
  <2>4. /\ q \in Seq(S) /\ Len(q) = IF i + 1 <= N THEN N - (i + 1) + 1 ELSE 0
        /\ \A k \in 1 .. N - (i + 1) + 1 : q[k] = ids[(i + 1) + k - 1]
    BY <2>1, <2>2, SubSeqProperties
  <2> HIDE DEF p, q
  <2>5. Len(p) = i - 1 /\ \A k \in 1 .. i - 1 : p[k] = ids[k]
    <3>1. \A k \in 1 .. i - 1 : 1 + k - 1 = k
      BY <1>1
    <3> QED BY <1>1, <2>2, <2>3, <3>1
  <2>6. Len(q) = N - i /\ \A k \in 1 .. N - i : q[k] = ids[k + i]
    <3>1. \A k \in 1 .. N - i : (i + 1) + k - 1 = k + i
      BY <1>1
    <3> QED BY <1>1, <2>2, <2>4, <3>1
  <2> QED BY <2>3, <2>4, <2>5, <2>6
<1> HIDE DEF p, q
<1>5. DOMAIN p = 1 .. i - 1 /\ DOMAIN q = 1 .. N - i
  BY <1>3, <1>4, LenProperties
<1>6. ids = p \o (<<n>> \o q)
  <2> DEFINE r == <<n>> \o q
  <2>1. <<n>> \in Seq(S) /\ Len(<<n>>) = 1 /\ <<n>>[1] = n
    BY <1>1, <1>2
  <2>2. /\ r \in Seq(S) /\ Len(r) = 1 + (N - i)
        /\ \A k \in 1 .. 1 + (N - i) : r[k] = IF k = 1 THEN n ELSE q[k - 1]
    BY <1>3, <1>4, <2>1, ConcatProperties
  <2> HIDE DEF r
  <2>3. /\ p \o r \in Seq(S) /\ Len(p \o r) = (i - 1) + (1 + (N - i))
        /\ \A k \in 1 .. (i - 1) + (1 + (N - i)) :
             (p \o r)[k] = IF k <= i - 1 THEN p[k] ELSE r[k - (i - 1)]
    BY <1>3, <1>4, <2>2, ConcatProperties
  <2>4. Len(p \o r) = N
    BY <1>1, <1>3, <2>3
  <2>5. ASSUME NEW k \in 1 .. N
        PROVE  (p \o r)[k] = ids[k]
    <3>1. (p \o r)[k] = IF k <= i - 1 THEN p[k] ELSE r[k - (i - 1)]
      BY <1>1, <1>3, <2>3
    <3>2. CASE k <= i - 1
      <4>1. k \in 1 .. i - 1
        BY <1>1, <3>2
      <4> QED BY <1>4, <3>1, <3>2, <4>1
    <3>3. CASE k = i
      <4>1. k - (i - 1) = 1 /\ 1 \in 1 .. 1 + (N - i) /\ ~ (k <= i - 1)
        BY <1>1, <1>3, <3>3
      <4>2. r[1] = n
        BY <2>2, <4>1
      <4> QED BY <1>2, <3>1, <3>3, <4>1, <4>2
    <3>4. CASE k > i
      <4>1. /\ k - (i - 1) \in 1 .. 1 + (N - i) /\ k - (i - 1) # 1 /\ (k - (i - 1)) - 1 = k - i
            /\ ~ (k <= i - 1) /\ k - i \in 1 .. N - i /\ (k - i) + i = k
        BY <1>1, <1>3, <3>4
      <4>2. r[k - (i - 1)] = q[k - i]
        BY <2>2, <4>1
      <4>3. q[k - i] = ids[k]
        BY <1>4, <4>1
      <4> QED BY <3>1, <4>1, <4>2, <4>3
    <3>5. k <= i - 1 \/ k = i \/ k > i
      BY <1>1
    <3> HIDE DEF p, r
    <3> QED BY ONLY <3>2, <3>3, <3>4, <3>5
  <2>6. p \o r = ids
    BY <1>1, <2>3, <2>4, <2>5, SeqEqual DEF N
  <2> QED BY <2>6 DEF r
<1>7. /\ \A k \in 1 .. i - 1 : k \in 1 .. N /\ k < i
      /\ \A k \in 1 .. N - i : k + i \in 1 .. N /\ k + i > i
  BY <1>1
<1>8. ToIds(p) \cup ToIds(q) \subseteq ToIds(ids)
  BY <1>1, <1>4, <1>5, <1>7 DEF ToIds
<1>9. n \notin ToIds(p) /\ n \notin ToIds(q)
  <2>1. ASSUME NEW k \in 1 .. i - 1 PROVE p[k] # n
    <3>1. k \in 1 .. N /\ k # i
      BY <1>1, <1>7
    <3> QED BY <1>1, <1>2, <1>4, <3>1 DEF Listed
  <2>2. ASSUME NEW k \in 1 .. N - i PROVE q[k] # n
    <3>1. k + i \in 1 .. N /\ k + i # i
      BY <1>1, <1>7
    <3> QED BY <1>1, <1>2, <1>4, <3>1 DEF Listed
  <2> QED BY <1>5, <2>1, <2>2 DEF ToIds
<1>10. ToIds(p) \cap ToIds(q) = {}
  <2>1. ASSUME NEW j \in 1 .. i - 1, NEW k \in 1 .. N - i
        PROVE  p[j] # q[k]
    <3>1. j \in 1 .. N /\ k + i \in 1 .. N /\ j # k + i
      BY <1>1, <1>7
    <3> QED BY <1>1, <1>4, <3>1 DEF Listed
  <2> QED BY <1>5, <2>1 DEF ToIds
<1>11. Around(ids, n, p, q)
  BY <1>6, <1>8, <1>9, <1>10 DEF Around
<1> QED BY <1>4, <1>11

\* When a list of statements leaves a store as it is and no bit is written by
\* two of them, each of them leaves it as it is.
LEMMA StaysAlone ==
  ASSUME NEW d, WellFormed(d), NEW ids, Tops(d, ids), Listed(ids), NEW env \in Stores(d),
         NEW t, Finishes(d, ids, env, env, t), t.env = env,
         \A m, n \in ToIds(ids) : m # n => Footprint(d, m) \cap Footprint(d, n) = {},
         NEW n \in ToIds(ids)
  PROVE  Run(d, <<n>>, env).env = env
<1> DEFINE S == Statements(d)
           one == <<n>>
<1>1. ids \in Seq(S) /\ \A c \in ToIds(ids) : d.root[c] = c
  BY DEF Tops
<1>2. n \in S /\ d.root[n] = n
  <2>1. \A c \in ToIds(ids) : c \in S
    BY <1>1, LenProperties, ElementOfSeq DEF ToIds
  <2> QED BY <1>1, <2>1
<1>3. one \in Seq(S)
  BY <1>2
<1>place. PICK p, q \in Seq(S) : Around(ids, n, p, q)
  BY <1>1, PlaceInList
<1>4. /\ ids = p \o (one \o q)
      /\ ToIds(p) \cup ToIds(q) \subseteq ToIds(ids)
      /\ n \notin ToIds(p) /\ n \notin ToIds(q) /\ ToIds(p) \cap ToIds(q) = {}
  BY <1>place DEF Around
<1>5. one \o q \in Seq(S) /\ Tops(d, p) /\ Tops(d, q)
  BY <1>1, <1>3, <1>4, ConcatProperties DEF Tops
<1> HIDE DEF one
<1>6. PICK m1 : Finishes(d, p, env, env, m1) /\ Finishes(d, one \o q, m1.env, m1.pending, t)
  <2>1. Finishes(d, p \o (one \o q), env, env, t)
    BY <1>4
  <2> QED BY <1>4, <1>5, <2>1, SplitRun
<1>7. m1.env \in Stores(d) /\ m1.pending \in Stores(d)
  BY <1>4, <1>6, FinishedMachine
<1>8. PICK m2 : Finishes(d, one, m1.env, m1.pending, m2) /\ Finishes(d, q, m2.env, m2.pending, t)
  BY <1>3, <1>4, <1>6, <1>7, SplitRun
<1>9. m2.env \in Stores(d) /\ m2.pending \in Stores(d) /\ Stepper(d)[m2] = m2
  BY <1>3, <1>7, <1>8, FinishedMachine
<1>10. \A l \in Locations(d) :
         /\ (\A c \in ToIds(p) : l \notin Footprint(d, c)) => m1.env[l] = env[l]
         /\ l \notin Footprint(d, n) => m2.env[l] = m1.env[l]
         /\ (\A c \in ToIds(q) : l \notin Footprint(d, c)) => env[l] = m2.env[l]
  <2>1. \A l \in Locations(d) :
          (\A c \in ToIds(p) : l \notin Footprint(d, c)) => m1.env[l] = env[l]
    BY <1>5, <1>6, ListWritesOnly
  <2>2. \A l \in Locations(d) : l \notin Footprint(d, n) => m2.env[l] = m1.env[l]
    BY <1>2, <1>7, <1>8, StatementWritesOnly DEF one
  <2>3. \A l \in Locations(d) :
          (\A c \in ToIds(q) : l \notin Footprint(d, c)) => t.env[l] = m2.env[l]
    BY <1>5, <1>8, <1>9, ListWritesOnly
  <2> QED BY <2>1, <2>2, <2>3
<1>11. ASSUME NEW l \in Locations(d)
       PROVE  m1.env[l] = env[l] /\ m2.env[l] = env[l]
  <2>1. CASE l \in Footprint(d, n)
    <3>1. \A c \in ToIds(p) \cup ToIds(q) : l \notin Footprint(d, c)
      BY <1>4, <2>1
    <3> QED BY <1>10, <3>1
  <2>2. CASE \E c \in ToIds(p) : l \in Footprint(d, c)
    <3>1. PICK c \in ToIds(p) : l \in Footprint(d, c)
      BY <2>2
    <3>2. l \notin Footprint(d, n) /\ \A b \in ToIds(q) : l \notin Footprint(d, b)
      BY <1>4, <3>1
    <3> QED BY <1>10, <3>2
  <2>3. CASE l \notin Footprint(d, n) /\ \A c \in ToIds(p) : l \notin Footprint(d, c)
    BY <1>10, <2>3
  <2> QED BY <2>1, <2>2, <2>3
<1>12. m1.env = env /\ m2.env = env
  BY <1>7, <1>9, <1>11 DEF Stores
<1>13. m2 \in Reachable(Stepper(d), Machine(<<n>>, env, m1.pending))
  BY <1>8, <1>12 DEF Finishes, one
<1>14. Agree(d, StatementReads(d, n), env, env)
  BY DEF Agree
<1>15. \A l \in Locations(d) : Run(d, <<n>>, env).env[l] = env[l]
  BY <1>2, <1>7, <1>9, <1>12, <1>13, <1>14, StatementFollows
<1>16. Run(d, <<n>>, env).env \in Stores(d)
  BY <1>2, RunWritesOnly
<1> QED BY <1>15, <1>16 DEF Stores

\* An assignment that does not read its variable writes all of it.
LEMMA WholeFootprint ==
  ASSUME NEW d, WellFormed(d), NEW n, NEW l \in Locations(d),
         l[1] \in StatementWrites(d, n), l[1] \notin StatementReads(d, n)
  PROVE  l \in Footprint(d, n)
<1>1. PICK a \in AssignmentsIn(d, n) : d.statement[a].target.var = l[1]
  BY DEF StatementWrites
<1> DEFINE t == d.statement[a].target
<1>2. IsWhole(t)
  <2>1. a \in Inside(d, n) /\ d.statement[a].kind = "Assignment"
    BY DEF AssignmentsIn
  <2>2. TargetReads(t) \subseteq StatementReads(d, n)
    BY <2>1 DEF StatementReads
  <2> QED BY <1>1, <2>2 DEF TargetReads
<1>3. PICK v \in Variables(d) : l \in LocationsOf(d, v)
  BY DEF Locations
<1>4. PICK i \in 0 .. d.width[v] - 1 : l = <<v, i>>
  BY <1>3 DEF LocationsOf
<1>5. v = t.var /\ d.width[v] \in Nat
  BY <1>1, <1>4 DEF WellFormed
<1>6. TargetRegions(d, t) = {[start |-> 0, width |-> d.width[v]]}
  BY <1>2, <1>5 DEF IsWhole, TargetRegions, ElementRegions
<1>7. i \in 0 .. 0 + d.width[v] - 1
  BY <1>5
<1> HIDE DEF t
<1>8. l \in TargetFootprint(d, t)
  BY <1>4, <1>5, <1>6, <1>7 DEF TargetFootprint
<1> QED BY <1>8 DEF Footprint, t

\* An order that is run once is one in which nothing is read before it is
\* written, unless it has two drivers.
LEMMA OrderForward ==
  ASSUME NEW d, WellFormed(d), SingleDrivers(d), ~ OrderCombinational(d).fixedPoint
  PROVE  Forward(d, OrderCombinational(d).statements)
<1> DEFINE ids == OrderCombinational(d).statements
<1>1. /\ ids \in Seq(Statements(d)) /\ Listed(ids) /\ ToIds(ids) = ToIds(d.combinational)
      /\ \A k \in 1 .. Len(ids) :
           StatementReads(d, ids[k]) \subseteq Known(d) \cup WritesUpTo(d, ids, k - 1)
  BY OrderFacts
<1> HIDE DEF ids
<1>2. DOMAIN ids = 1 .. Len(ids) /\ Len(ids) \in Nat
  BY <1>1, LenProperties
<1>3. \A n \in ToIds(d.combinational) : d.root[n] = n
  BY DEF WellFormed
<1>4. \A k \in 1 .. Len(ids) : ids[k] \in ToIds(d.combinational) /\ d.root[ids[k]] = ids[k]
  BY <1>1, <1>2, <1>3 DEF ToIds
<1>5. ASSUME NEW i \in 1 .. Len(ids), NEW j \in 1 .. Len(ids), i <= j,
             NEW l \in LocationsIn(d, StatementReads(d, ids[i])), l \in Footprint(d, ids[j])
      PROVE  FALSE
  <2>1. /\ l \in Locations(d) /\ l[1] \in StatementReads(d, ids[i])
        /\ l \in LocationsIn(d, AllReads(d, d.combinational))
    <3>1. \A n \in ToIds(d.combinational) : StatementReads(d, n) \subseteq Variables(d)
      BY ReadsDeclared
    <3>2. l \in Locations(d) /\ l[1] \in StatementReads(d, ids[i])
      BY <1>4, <3>1, LocationVariable
    <3>3. /\ AllReads(d, d.combinational) \subseteq Variables(d)
          /\ l[1] \in AllReads(d, d.combinational)
      BY <1>4, <3>1, <3>2 DEF AllReads
    <3> QED BY <3>2, <3>3, LocationVariable
  <2>2. l[1] \notin Known(d)
    <3>1. l[1] \in StatementWrites(d, ids[j])
      BY <1>5, FootprintWritten
    <3> QED BY <1>4, <3>1 DEF Known, AllWrites
  <2> DEFINE K == {k \in 1 .. Len(ids) : l[1] \in StatementWrites(d, ids[k])}
  <2>3. PICK k \in 1 .. Len(ids) : k < i /\ l[1] \in StatementWrites(d, ids[k])
    <3>1. l[1] \in WritesUpTo(d, ids, i - 1)
      BY <1>1, <2>1, <2>2
    <3>2. PICK k \in 1 .. i - 1 : l[1] \in StatementWrites(d, ids[k])
      BY <3>1 DEF WritesUpTo
    <3> QED BY <1>2, <3>2
  <2>4. PICK f \in K : \A k2 \in K : f <= k2
    <3>1. K \subseteq Nat /\ K # {}
      BY <1>2, <2>3
    <3> HIDE DEF K
    <3> QED BY <3>1, LeastNatural
  <2>5. f \in 1 .. Len(ids) /\ l[1] \in StatementWrites(d, ids[f]) /\ f <= k
    BY <2>3, <2>4
  <2>6. l[1] \notin StatementReads(d, ids[f])
    <3> SUFFICES ASSUME l[1] \in StatementReads(d, ids[f]) PROVE FALSE
      OBVIOUS
    <3>1. l[1] \in WritesUpTo(d, ids, f - 1)
      BY <1>1, <2>2, <2>5
    <3>2. PICK k2 \in 1 .. f - 1 : l[1] \in StatementWrites(d, ids[k2])
      BY <3>1 DEF WritesUpTo
    <3>3. k2 \in K /\ k2 < f
      BY <1>2, <2>5, <3>2
    <3> QED BY <1>2, <2>4, <2>5, <3>3
  <2>7. l \in Footprint(d, ids[f])
    BY <2>1, <2>5, <2>6, WholeFootprint
  <2>8. ids[f] # ids[j]
    <3>1. f # j /\ f \in DOMAIN ids /\ j \in DOMAIN ids
      BY <1>2, <1>5, <2>3, <2>5
    <3> QED BY <1>1, <3>1 DEF Listed
  <2> QED BY <1>4, <1>5, <2>1, <2>5, <2>7, <2>8 DEF SingleDrivers
<1>6. ASSUME NEW i \in 1 .. Len(ids), NEW j \in 1 .. Len(ids), i <= j
      PROVE  LocationsIn(d, StatementReads(d, d.root[ids[i]])) \cap Footprint(d, d.root[ids[j]]) = {}
  BY <1>4, <1>5, <1>6
<1> QED BY <1>2, <1>6 DEF Forward, ids

=============================================================================
