---------------------------- MODULE BitsRuntime ----------------------------
(***************************************************************************)
(* simulator-rust-runtime: the two-state bit vectors of a generated model. *)
(* A vector is [width, bits], where bits is the number its storage holds.  *)
(* Storage is the smallest primitive the width fits in and beyond those an *)
(* integer of just that many bits; it may hold more bits than the vector   *)
(* has, and those must stay zero.                                          *)
(***************************************************************************)
EXTENDS Integers, FiniteSets, FiniteSetsExt

CONSTANTS
  PrimitiveWidths,   \* bits of the primitive storage types: 1, 8, 16, ... 128 in Rust
  UsizeBits          \* bits of usize: 64 in Rust

ASSUME WidthsAssumption ==
  PrimitiveWidths \subseteq Nat \ {0} /\ IsFiniteSet(PrimitiveWidths) /\ UsizeBits \in Nat \ {0}

StorageType(width) ==
  LET fitting == {c \in PrimitiveWidths : width <= c}
  IN  IF fitting # {} THEN Min(fitting) ELSE width

Vector(width, n) == [width |-> width, bits |-> n]
Zero(width) == Vector(width, 0)

Digit(n, i) == (n \div 2 ^ i) % 2
BitSet(v, i) == i < v.width /\ Digit(v.bits, i) = 1
Ones(v) == {i \in 0 .. v.width - 1 : BitSet(v, i)}

\* Bits::from_fn: the bits of the set are one.
FromFn(width, ones) ==
  Vector(width, MapThenSumSet(LAMBDA i : 2 ^ i, ones \cap 0 .. width - 1))

\* from_raw, from_u128: storage truncates, then the high bits are cleared.
FromInteger(width, n) == Vector(width, (n % 2 ^ StorageType(width)) % 2 ^ width)
FromBool(b) == FromInteger(1, IF b THEN 1 ELSE 0)

Positive(v) == Ones(v) # {}                 \* truthy
SignBit(v) == BitSet(v, IF v.width = 0 THEN 0 ELSE v.width - 1)

\* Bits::to_usize panics when a bit above usize is set.
ExceedsUsize(v) == \E i \in Ones(v) : i >= UsizeBits

Resize(v, width, signed) ==
  FromFn(width, Ones(v) \cup (IF signed /\ SignBit(v) THEN v.width .. width - 1 ELSE {}))

BitNot(v) == FromFn(v.width, (0 .. v.width - 1) \ Ones(v))
ReduceAnd(v) == FromBool(Ones(v) = 0 .. v.width - 1)
ReduceOr(v)  == FromBool(Positive(v))
ReduceXor(v) == FromBool(Cardinality(Ones(v)) % 2 = 1)

BitwiseAnd(l, r, width) == FromFn(width, Ones(l) \cap Ones(r))
BitwiseOr(l, r, width)  == FromFn(width, Ones(l) \cup Ones(r))
BitwiseXor(l, r, width) == FromFn(width, (Ones(l) \cup Ones(r)) \ (Ones(l) \cap Ones(r)))

\* Storage::arithmetic: wrapping in the storage type, then masked.
StoredUnmasked(v, n) == Vector(v.width, n % 2 ^ StorageType(v.width))   \* mutant: no mask
Stored(v, n) == Vector(v.width, (n % 2 ^ StorageType(v.width)) % 2 ^ v.width)
AddBits(l, r) == Stored(l, l.bits + r.bits)
SubBits(l, r) == Stored(l, l.bits - r.bits)
MulBits(l, r) == Stored(l, l.bits * r.bits)
DivUnsigned(l, r) ==
  Stored(l, IF r.bits = 0 THEN 2 ^ StorageType(l.width) - 1 ELSE l.bits \div r.bits)

NegateBits(v) == SubBits(Zero(v.width), v)
Magnitude(v) == IF SignBit(v) THEN NegateBits(v) ELSE v

DivSigned(l, r) ==
  IF l.width = 0 THEN l
  ELSE IF SignBit(l) # SignBit(r) THEN NegateBits(DivUnsigned(Magnitude(l), Magnitude(r)))
  ELSE DivUnsigned(Magnitude(l), Magnitude(r))

\* cmp_unsigned and cmp_signed look for the highest bit that differs:
\* -1, 0, 1 for Less, Equal, Greater.
ComparedFromTop(l, r, width) ==
  LET differ == {i \in 0 .. width - 1 : BitSet(l, i) # BitSet(r, i)}
  IN  IF differ = {} THEN 0 ELSE IF BitSet(l, Max(differ)) THEN 1 ELSE -1
Wider(l, r) == Max({l.width, r.width})
CmpUnsigned(l, r) == ComparedFromTop(l, r, Wider(l, r))
CmpSigned(l, r) ==
  CASE SignBit(l) /\ ~ SignBit(r) -> -1
    [] ~ SignBit(l) /\ SignBit(r) -> 1
    [] OTHER -> ComparedFromTop(Resize(l, Wider(l, r), TRUE),
                                Resize(r, Wider(l, r), TRUE), Wider(l, r))

\* Bits::shift; the caller has checked ExceedsUsize(amount).
Shifted(value, distance, width, right, fill) ==
  IF distance >= width THEN FromFn(width, IF fill THEN 0 .. width - 1 ELSE {})
  ELSE IF right
    THEN FromFn(width, {i \in 0 .. width - 1 :
                          IF i + distance < width THEN BitSet(value, i + distance) ELSE fill})
    ELSE FromFn(width, {i \in 0 .. width - 1 : i >= distance /\ BitSet(value, i - distance)})
Shift(v, amount, width, right, arithmetic) ==
  Shifted(Resize(v, width, FALSE), amount.bits, width, right,
          arithmetic /\ BitSet(v, IF width = 0 THEN 0 ELSE width - 1))

Concat(l, r, width) ==
  FromFn(width, {i \in 0 .. width - 1 :
                   IF i < r.width THEN BitSet(r, i) ELSE BitSet(l, i - r.width)})
Replicate(v, count, width) ==
  FromFn(width, {i \in 0 .. width - 1 :
                   i < v.width * count /\ v.width # 0 /\ BitSet(v, i % v.width)})

Select(v, offset, width) == FromFn(width, {i \in 0 .. width - 1 : BitSet(v, offset + i)})

\* Bits::assign_select skips an assignment that would end past the vector.
AssignSelect(v, offset, width, value) ==
  IF offset + width > v.width THEN v
  ELSE FromFn(v.width, {i \in 0 .. v.width - 1 :
                          IF i >= offset /\ i < offset + width THEN BitSet(value, i - offset)
                                                                ELSE BitSet(v, i)})

\* array_offset for a declared range [left:right]; it panics outside of it.
InRange(index, left, right) ==
  IF left <= right THEN index >= left /\ index <= right ELSE index <= left /\ index >= right
ArrayOffsetFromRight(index, left, right, elementWidth) ==   \* mutant: right bound first
  (IF left <= right THEN right - index ELSE index - right) * elementWidth
ArrayOffset(index, left, right, elementWidth) ==
  (IF left <= right THEN index - left ELSE left - index) * elementWidth

-----------------------------------------------------------------------------
\* What storage may hold: the unused high bits are cleared.
IsVector(v) == v.width \in Nat /\ v.bits \in 0 .. 2 ^ v.width - 1
Vectors(widths) == UNION {{Vector(w, n) : n \in 0 .. 2 ^ w - 1} : w \in widths}

=============================================================================
