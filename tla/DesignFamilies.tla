--------------------------- MODULE DesignFamilies ---------------------------
(***************************************************************************)
(* Small designs for TLC: a builder from nested statements, and families   *)
(* of clocked processes and combinational logic over a few variables.      *)
(***************************************************************************)
EXTENDS Sequential, Functions

NB(t, e) == Assign("Nonblocking", t, e)
BL(t, e) == Assign("Blocking", t, e)
CO(t, e) == Assign("Continuous", t, e)
Always(trees) == Block(trees)

One  == Constant(<<1>>)
Zero == Constant(<<0>>)

Placed(done, code) == [code |-> code, ids |-> Append(done.ids, Len(code))]
PlacedIf(condition, yes, no) == Append(no.code, If(condition, yes.ids, no.ids))

RECURSIVE Add(_, _)
AddAll(trees, code) ==
  FoldLeft(LAMBDA acc, t : Placed(acc, Add(t, acc.code)), [code |-> code, ids |-> <<>>], trees)
AddElse(tree, yes) == PlacedIf(tree.condition, yes, AddAll(tree.else, yes.code))
AddBlock(inner) == Append(inner.code, Block(inner.ids))
Add(tree, code) ==
  CASE tree.kind = "Block" -> AddBlock(AddAll(tree.body, code))
    [] tree.kind = "If" -> AddElse(tree, AddAll(tree.then, code))
    [] OTHER -> Append(code, tree)

\* signals: variable -> [width, indices, direction].  The statements are in
\* code, the ones on top of it in tops: nInit, then nComb, then the clocked.
Arrange(signals, sampled, property, nInit, nComb, code, tops) ==
  [width     |-> [v \in DOMAIN signals |-> signals[v].width],
   indices   |-> [v \in DOMAIN signals |-> signals[v].indices],
   direction |-> [v \in DOMAIN signals |-> signals[v].direction],
   sampled   |-> sampled,
   property  |-> property,
   internal  |-> {},
   history   |-> {},
   statement |-> code,
   root      |-> [m \in DOMAIN code |-> tops[Min({k \in DOMAIN tops : m <= tops[k]})]],
   static    |-> {},
   initial       |-> SubSeq(tops, 1, nInit),
   combinational |-> SubSeq(tops, nInit + 1, nInit + nComb),
   sequential    |-> SubSeq(tops, nInit + nComb + 1, Len(tops))]

Build(signals, sampled, property, initial, combinational, sequential) ==
  LET built == AddAll(initial \o combinational \o sequential, <<>>)
  IN  Arrange(signals, sampled, property, Len(initial), Len(combinational),
              built.code, built.ids)

Wire(w)    == [width |-> w, indices |-> <<>>, direction |-> "None"]
InPort(w)  == [width |-> w, indices |-> <<>>, direction |-> "Input"]
OutPort(w) == [width |-> w, indices |-> <<>>, direction |-> "Output"]
Memory(ixs, ew) == [width |-> Len(ixs) * ew, indices |-> ixs, direction |-> "None"]

NoSamples == <<>>
NoProperties == <<>>

UpTo(S, n) == UNION {[1 .. k -> S] : k \in 1 .. n}

-----------------------------------------------------------------------------
(* Two clocked processes of one or two statements each, over an input, a   *)
(* blocking temporary t, an output q, a two-bit vector v and a wire w.     *)

RaceSignals ==
  [in |-> InPort(1), t |-> Wire(1), q |-> OutPort(1), v |-> Wire(2), w |-> Wire(1)]

V(e) == Part(Whole("v"), e, 1)

LeftStatements ==
  {BL(Whole("t"), Ref("in")), NB(Whole("q"), Ref("t")), NB(V(Zero), Not("q")),
   NB(V(Ref("in")), Ref("w")), NB(V(Ref("v")), Ref("in")), BL(Whole("q"), Xor("q", "in")),
   If(Ref("in"), <<BL(Whole("t"), Not("t"))>>, <<NB(Whole("q"), Ref("w"))>>)}

RightStatements ==
  {NB(Whole("q"), Ref("t")), BL(Whole("q"), Not("q")), NB(V(One), Ref("q")),
   BL(V(One), Slice("v", 0, 1)),
   If(SliceAt("v", "q", 1), <<NB(V(One), Ref("w"))>>, <<>>)}

RaceDesign(left, right) ==
  Build(RaceSignals, NoSamples, NoProperties, <<>>,
        <<CO(Whole("w"), Xor("q", "in"))>>, <<Always(left), Always(right)>>)

RaceDesigns ==
  {RaceDesign(l, r) : l \in UpTo(LeftStatements, 2), r \in UpTo(RightStatements, 2)}

-----------------------------------------------------------------------------
(* Assertions over sampled values: a counter written with blocking         *)
(* assignments, its sampled value and past value, and a property over them *)
(* evaluated by a process before or after the counting one.                *)

SampleSignals ==
  [in |-> InPort(1), c |-> OutPort(1), w |-> Wire(1), s |-> Wire(1), ns |-> Wire(1),
   past |-> Wire(1), p |-> Wire(1)]

Counting  == Always(<<BL(Whole("c"), Xor("c", "in"))>>)
Asserting == {Always(<<BL(Whole("p"), Xor("ns", "past")), NB(Whole("past"), Ref("s"))>>),
              Always(<<NB(Whole("past"), Ref("ns")), BL(Whole("p"), And("past", "s"))>>),
              Always(<<If(Ref("s"), <<BL(Whole("p"), Ref("past"))>>, <<>>), NB(Whole("past"), Ref("s"))>>)}

SampleDesign(value, clocked) ==
  Build(SampleSignals, [s |-> value, ns |-> Not("s")], [p |-> "Assertion"],
        <<BL(Whole("c"), One)>>, <<CO(Whole("w"), Not("c"))>>, clocked)

SampleDesigns ==
  {SampleDesign(e, <<Counting, a>>) : e \in {Ref("c"), Ref("w"), Xor("c", "in")}, a \in Asserting}
    \cup {SampleDesign(e, <<a, Counting>>) : e \in {Ref("c"), Ref("w")}, a \in Asserting}

-----------------------------------------------------------------------------
(* A memory of two two-bit words written by lane: one process per bit, at  *)
(* a constant or an input-driven address, beside a process that reads it.  *)

LaneSignals ==
  [in |-> InPort(1), m |-> Memory(<<1, 0>>, 2), q |-> OutPort(1)]

M(i, o) == Part(Element("m", i), o, 1)

LaneProcess(offsets) ==
  {NB(M(i, o), e) : i \in {Ref("in"), Zero, One}, o \in offsets, e \in {Ref("q"), Ref("in")}}

LaneDesigns ==
  {Build(LaneSignals, NoSamples, NoProperties, <<BL(Element("m", One), Constant(<<1, 0>>))>>, <<>>,
         <<Always(<<a>>), Always(<<If(Ref("q"), <<b>>, <<>>)>>),
           Always(<<NB(Whole("q"), SliceAt("m", "in", 1))>>)>>) :
     a \in LaneProcess({Zero, Ref("q")}), b \in LaneProcess({One})}

\* A memory with one word: an index of 0 is undeclared, and the process
\* panics before or after another one has written.
GapSignals == [in |-> InPort(1), m |-> Memory(<<1>>, 2), q |-> OutPort(1), w |-> Wire(1)]

GapDesigns ==
  {Build(GapSignals, NoSamples, NoProperties, <<>>, <<CO(Whole("w"), Not("q"))>>, clocked) :
     clocked \in
       {<<Always(<<NB(Whole("q"), Not("in"))>>), Always(<<BL(M(Ref("in"), One), Ref("in"))>>)>>,
        <<Always(<<NB(M(Ref("in"), Zero), Ref("q"))>>), Always(<<BL(Whole("q"), Not("q"))>>)>>}}

-----------------------------------------------------------------------------
(* Designs for the question what state there is: clocked temporaries that  *)
(* are read before or after they are assigned, and combinational logic     *)
(* with a temporary of its own, or that holds a value: a latch or a cycle. *)

StateSignals ==
  [in |-> InPort(1), t |-> Wire(1), q |-> OutPort(1), u |-> Wire(1), w |-> Wire(1)]

Temporaries ==
  {<<BL(Whole("t"), Ref("in")), NB(Whole("q"), Ref("t"))>>,
   <<NB(Whole("q"), Ref("t")), BL(Whole("t"), Ref("in"))>>,
   <<If(Ref("in"), <<BL(Whole("t"), Not("q"))>>, <<>>), NB(Whole("q"), Ref("t"))>>,
   <<If(Ref("in"), <<BL(Whole("t"), Not("q"))>>, <<BL(Whole("t"), Ref("w"))>>),
     NB(Whole("q"), Ref("t"))>>,
   <<BL(Whole("t"), Xor("in", "q")), BL(Whole("q"), Ref("w"))>>,
   <<NB(Whole("q"), Mux("in", "w", "q"))>>}

Wires ==
  {<<CO(Whole("w"), Xor("q", "in"))>>,
   <<CO(Whole("w"), And("u", "q")), CO(Whole("u"), Ref("t"))>>,
   <<Always(<<BL(Whole("u"), Not("in")), BL(Whole("w"), Xor("u", "q"))>>)>>}

Latches ==
  {<<CO(Whole("w"), Ref("u")), Always(<<If(Ref("in"), <<BL(Whole("u"), Ref("t"))>>, <<>>)>>)>>,
   <<CO(Whole("w"), Ref("u")), CO(Whole("u"), Mux("in", "q", "w"))>>}

StateDesign(clocked, wires) ==
  Build(StateSignals, NoSamples, NoProperties, <<>>, wires, <<Always(clocked)>>)

StateDesigns  == {StateDesign(c, w) : c \in Temporaries, w \in Wires \cup Latches}
LatchDesigns  == {StateDesign(c, w) : c \in Temporaries, w \in Latches}

-----------------------------------------------------------------------------
(* Combinational logic in the wrong order, in a cycle, or through a vector *)
(* the statements read and write in part.                                  *)

LoopSignals ==
  [in |-> InPort(1), a |-> Wire(1), b |-> Wire(1), x |-> Wire(3), q |-> OutPort(1)]

X(i) == Part(Whole("x"), Constant(i), 1)
Pos(i) == <<<<0>>, <<1>>, <<0, 1>>>>[i + 1]

LoopStatements ==
  {CO(Whole("a"), Ref("b")), CO(Whole("a"), Not("b")), CO(Whole("b"), And("a", "q")),
   CO(Whole("b"), Xor("in", "q")), CO(X(Pos(0)), Ref("in")), CO(X(Pos(1)), Slice("x", 0, 1)),
   Always(<<BL(Whole("a"), Not("q")), BL(Whole("b"), Ref("a"))>>),
   Always(<<If(Ref("in"), <<BL(Whole("b"), Ref("a"))>>, <<BL(Whole("b"), Ref("b"))>>)>>)}

LoopDesign(comb) ==
  Build(LoopSignals, NoSamples, NoProperties, <<>>, comb, <<Always(<<NB(Whole("q"), Mux("in", "b", "a"))>>)>>)

LoopDesigns ==
  {LoopDesign(c) : c \in {s \in UpTo(LoopStatements, 3) : IsInjective(s)}}

\* assign y[i] = y[i - 1] from the top of six bits down, in a design of three
\* variables and a clock.
ChainSignals == [in |-> InPort(1), y |-> Wire(6), q |-> OutPort(1)]
Y(i) == Part(Whole("y"), Constant(<<i % 2, (i \div 2) % 2, i \div 4>>), 1)

ChainDesigns ==
  {Build(ChainSignals, NoSamples, NoProperties, <<>>,
         [k \in 1 .. 5 |-> CO(Y(6 - k), Slice("y", 5 - k, 1))] \o <<CO(Y(0), Ref("in"))>>,
         <<Always(<<NB(Whole("q"), Slice("y", 5, 1))>>)>>)}

-----------------------------------------------------------------------------
(* Designs for both back ends: whole variables, a reset, an undriven       *)
(* variable, wires out of order, and a property set by combinational or by *)
(* clocked code over sampled and past values.  Some of them the converter  *)
(* refuses, some have latches.                                             *)

FormalSignals ==
  [in |-> InPort(1), rst |-> InPort(1), q |-> OutPort(1), t |-> Wire(1), x |-> Wire(1),
   w |-> OutPort(1), u |-> Wire(1), p |-> Wire(1), s |-> Wire(1), ns |-> Wire(1), past |-> Wire(1)]

FormalClocked ==
  {If(Ref("rst"), <<NB(Whole("q"), One)>>, <<NB(Whole("q"), Xor("w", "q"))>>),
   If(Ref("rst"), <<NB(Whole("q"), Zero), BL(Whole("t"), Zero)>>,
                  <<BL(Whole("t"), And("w", "in")), NB(Whole("q"), Ref("t"))>>),
   If(Ref("rst"), <<NB(Whole("q"), One)>>,
                  <<If(Ref("in"), <<BL(Whole("t"), Ref("x"))>>, <<>>), NB(Whole("q"), Ref("t"))>>),
   If(Ref("rst"), <<BL(Whole("q"), Zero)>>,
                  <<If(Ref("w"), <<BL(Whole("q"), Not("q"))>>, <<BL(Whole("q"), Mux("in", "u", "x"))>>)>>),
   If(Ref("rst"), <<NB(Whole("q"), Xor("w", "q"))>>, <<NB(Whole("q"), Zero)>>)}

FormalWires ==
  {<<Always(<<BL(Whole("w"), Xor("x", "in"))>>), Always(<<BL(Whole("x"), Not("q"))>>)>>,
   <<Always(<<BL(Whole("x"), Ref("q"))>>),
     If(Ref("in"), <<BL(Whole("w"), Ref("x"))>>, <<BL(Whole("w"), Ref("u"))>>)>>,
   <<CO(Whole("x"), And("q", "t")), CO(Whole("w"), Ref("x"))>>,
   <<Always(<<BL(Whole("x"), Ref("q"))>>), If(Ref("in"), <<BL(Whole("w"), Ref("x"))>>, <<>>)>>,
   <<CO(Whole("w"), Ref("x")), CO(Whole("x"), And("w", "q"))>>}

\* [logic, clocked]: what sets the property, combinational or clocked.
FormalProperties ==
  {[logic |-> <<>>, clocked |-> <<BL(Whole("p"), Xor("ns", "past")), NB(Whole("past"), Ref("s"))>>],
   [logic |-> <<>>, clocked |-> <<If(Ref("s"), <<BL(Whole("p"), Ref("past"))>>,
                                               <<BL(Whole("p"), Not("past"))>>),
                                  NB(Whole("past"), Ref("ns"))>>],
   [logic |-> <<>>, clocked |-> <<If(Ref("s"), <<BL(Whole("p"), Ref("past"))>>, <<>>),
                                  NB(Whole("past"), Ref("s"))>>],
   [logic |-> <<CO(Whole("p"), Xor("q", "past"))>>, clocked |-> <<NB(Whole("past"), Ref("s"))>>]}

FormalDesign(clocked, wires, properties, kind, sample) ==
  LET d == Build(FormalSignals, [s |-> sample, ns |-> Not("s")], [p |-> kind],
                 <<Block(<<BL(Whole("past"), Zero)>>)>>, properties.logic \o wires,
                 <<Always(<<clocked>>), Always(properties.clocked)>>)
  IN  [d EXCEPT !.static = ToIds(d.initial), !.history = {"past"},
                !.internal = {"p", "s", "ns", "past"}]

FormalDesigns ==
  {FormalDesign(c, w, p, a[1], a[2]) :
     c \in FormalClocked, w \in FormalWires, p \in FormalProperties,
     a \in {<<"Assertion", Ref("q")>>, <<"Cover", Ref("q")>>, <<"Assertion", Ref("w")>>}}

=============================================================================
