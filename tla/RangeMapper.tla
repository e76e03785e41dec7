---------------------------- MODULE RangeMapper ----------------------------
(***************************************************************************)
(* The two range mappers of leaper/src/leaper.cc.  A key is a sequence of  *)
(* characters; `base` and `width` stand for 10 digits and 16 places of the *)
(* decimal mapper, for 256 bytes and 8 of the prefix mapper.  Digits are   *)
(* 0 .. base - 1, and base is the character after the last digit.          *)
(*                                                                         *)
(* Block bounds reach the mapper as LevelDB's index stores them, shortened *)
(* by the two comparator functions at the end.                             *)
(***************************************************************************)
EXTENDS Integers, FiniteSetsExt, SequencesExt

RangeSize(c) == IF c.range_size = 0 THEN 1 ELSE c.range_size

Value(base, digits) == FoldLeft(LAMBDA v, d : v * base + d, 0, digits)

(* The characters up to the first that is no digit. *)
Digits(base, key) ==
    LET stops == {i \in DOMAIN key : key[i] >= base}
    IN  IF stops = {} THEN key
        ELSE SubSeq(key, 1, Min(stops) - 1)

(* A slip: the shortened key is read as the number it spells. *)
PaddedNot(c, digits) == Value(c.base, digits)

(* A key shorter than the width is filled up with the smallest digit. *)
Padded(c, digits) ==
    Value(c.base, digits) * c.base ^ (IF Len(digits) < c.width THEN c.width - Len(digits) ELSE 0)

DecimalMap(c, key) == Padded(c, Digits(c.base, key)) \div RangeSize(c)

(* Only the first `width` bytes count. *)
PrefixMap(c, key) ==
    Padded(c, SubSeq(key, 1, IF Len(key) < c.width THEN Len(key) ELSE c.width)) \div RangeSize(c)

Map(c, key) == IF c.decimal THEN DecimalMap(c, key) ELSE PrefixMap(c, key)

(* Every place of a number, most significant first; the benchmark's keys   *)
(* are written like this.                                                  *)
EncodeKey(c, index) == [i \in 1 .. c.width |-> (index \div c.base ^ (c.width - i)) % c.base]

RangeStartKey(c, range) == EncodeKey(c, range * RangeSize(c))

-----------------------------------------------------------------------------
(* LevelDB's InternalKeyComparator: the index entry of a block is a        *)
(* separator between its last key and the next block's first, that of the  *)
(* last block of a file a successor of its last key, if that is shorter.   *)
Differs(a, b) == {i \in DOMAIN a \cap DOMAIN b : a[i] # b[i]}

FindShortestSeparator(a, b) ==
    LET i == Min(Differs(a, b))
    IN  IF Differs(a, b) # {} /\ a[i] + 1 < b[i] /\ i < Len(a)
        THEN Append(SubSeq(a, 1, i - 1), a[i] + 1) ELSE a

(* For a key whose first character has a successor. *)
FindShortSuccessor(a) == IF Len(a) > 1 THEN <<a[1] + 1>> ELSE a

-----------------------------------------------------------------------------
(* Reference definitions. *)
Below(a, b) ==
    \/ Len(a) < Len(b) /\ SubSeq(b, 1, Len(a)) = a
    \/ \E i \in DOMAIN a : i \in DOMAIN b /\ a[i] < b[i] /\ SubSeq(a, 1, i - 1) = SubSeq(b, 1, i - 1)

(* Fixed-width digits, or bytes of any length about the width. *)
KeysOf(c) ==
    UNION {[1 .. l -> 0 .. c.base - 1] : l \in IF c.decimal THEN {c.width} ELSE 1 .. c.width + 1}

(* The order of the keys is that of their ranges, also through the         *)
(* shortened bounds of the index, unless a key begins with the last digit  *)
(* and has no digit to be succeeded by.                                    *)
OrderKept(c, a) ==
    /\ \A b \in KeysOf(c) : Below(a, b) =>
         LET s == FindShortestSeparator(a, b) IN Map(c, a) <= Map(c, s) /\ Map(c, s) <= Map(c, b)
    /\ a[1] < c.base - 1 => Map(c, a) <= Map(c, FindShortSuccessor(a))

(* A range starts with its start key: the key is in the range, and every   *)
(* full-width key of the range is that key or comes after it.              *)
StartsExactly(c, a) ==
    LET start == RangeStartKey(c, Map(c, a))
    IN  Map(c, start) = Map(c, a) /\ (Len(a) >= c.width => start = a \/ Below(start, a))

(* The keys written for successive numbers ascend, and the range of a key  *)
(* is its number divided by the range size.                                *)
EncodesExactly(c, i) ==
    /\ Map(c, EncodeKey(c, i)) = i \div RangeSize(c)
    /\ i + 1 < c.base ^ c.width => Below(EncodeKey(c, i), EncodeKey(c, i + 1))
=============================================================================
