----------------------------- MODULE ArithUint ------------------------------
(***************************************************************************)
(* The unsigned integers of arith_uint256.hpp and arith_uint256.cpp: an    *)
(* array of limbs, the least significant first, and the loops over it.     *)
(* The code has 8 limbs of 32 bits and bytes of 8 bits.                    *)
(***************************************************************************)
EXTENDS Integers

CONSTANTS LimbBits, \* bits of a limb
          Limbs,    \* WIDTH
          ByteBits  \* bits of the digit that compact numbers count in

ASSUME WidthAssumption == /\ LimbBits \in Nat \ {0}
                          /\ Limbs \in Nat \ {0, 1}
                          /\ ByteBits \in Nat \ {0}

Word == 2 ^ LimbBits
Bits == LimbBits * Limbs
Index == 0 .. Limbs - 1
base_uint == [Index -> 0 .. Word - 1]

\* The number that limbs stand for, and its limbs: what the loops are checked
\* against.
ValueOf(a) == LET sum[i \in 0 .. Limbs] == IF i = 0 THEN 0 ELSE sum[i - 1] + a[i - 1] * Word ^ (i - 1)
              IN  sum[Limbs]
LimbsOf(n) == [i \in Index |-> (n \div Word ^ i) % Word]

-----------------------------------------------------------------------------
(* Plausible slips in the loops, for checking the properties.              *)

AddWithoutCarry(a, b) == [i \in Index |-> (a[i] + b[i]) % Word]

-----------------------------------------------------------------------------
(* base_uint.                                                              *)

Zero == [i \in Index |-> 0]

\* From a number of two limbs.
FromQword(n) == [i \in Index |-> IF i < 2 THEN (n \div Word ^ i) % Word ELSE 0]
LowQword(a) == a[0] + a[1] * Word

IsZero(a) == \A i \in Index : a[i] = 0
Not(a) == [i \in Index |-> Word - 1 - a[i]]

\* The loop stops at the first limb that does not wrap.
Increment(a) ==
    [i \in Index |-> IF \A j \in 0 .. i - 1 : a[j] = Word - 1 THEN (a[i] + 1) % Word ELSE a[i]]
Decrement(a) ==
    [i \in Index |-> IF \A j \in 0 .. i - 1 : a[j] = 0 THEN (a[i] + Word - 1) % Word ELSE a[i]]
Negate(a) == Increment(Not(a))

Add(a, b) ==
    LET carry[i \in Index] ==
            IF i = 0 THEN 0 ELSE (carry[i - 1] + a[i - 1] + b[i - 1]) \div Word
    IN  [i \in Index |-> (carry[i] + a[i] + b[i]) % Word]

Subtract(a, b) == Add(a, Negate(b))

ShiftLeft(a, shift) ==
    LET k == shift \div LimbBits
        s == shift % LimbBits
        high(i) == IF i - k \in Index THEN (a[i - k] * 2 ^ s) % Word ELSE 0
        low(i) == IF s # 0 /\ i - k - 1 \in Index THEN a[i - k - 1] \div 2 ^ (LimbBits - s) ELSE 0
    IN  [i \in Index |-> high(i) + low(i)]

ShiftRight(a, shift) ==
    LET k == shift \div LimbBits
        s == shift % LimbBits
        low(i) == IF i + k \in Index THEN a[i + k] \div 2 ^ s ELSE 0
        high(i) == IF s # 0 /\ i + k + 1 \in Index THEN (a[i + k + 1] * 2 ^ (LimbBits - s)) % Word ELSE 0
    IN  [i \in Index |-> low(i) + high(i)]

MultiplyWord(a, w) ==
    LET carry[i \in Index] ==
            IF i = 0 THEN 0 ELSE (carry[i - 1] + w * a[i - 1]) \div Word
    IN  [i \in Index |-> (carry[i] + w * a[i]) % Word]

\* Limb j of the left number times the right one, added from limb j upwards.
AddRow(sum, j, a, b) ==
    LET carry[i \in 0 .. Limbs - j] ==
            IF i = 0 THEN 0 ELSE (carry[i - 1] + sum[i - 1 + j] + a[j] * b[i - 1]) \div Word
    IN  [i \in Index |-> IF i < j THEN sum[i] ELSE (carry[i - j] + sum[i] + a[j] * b[i - j]) % Word]

Multiply(a, b) ==
    LET rows[j \in 0 .. Limbs] == IF j = 0 THEN Zero ELSE AddRow(rows[j - 1], j - 1, a, b)
    IN  rows[Limbs]

Compare(a, b) ==
    IF a = b THEN 0
    ELSE LET i == CHOOSE j \in Index : a[j] # b[j] /\ \A l \in j + 1 .. Limbs - 1 : a[l] = b[l]
         IN  IF a[i] < b[i] THEN -1 ELSE 1

\* Comparison with a number of two limbs.
Equals(a, n) == /\ \A i \in 2 .. Limbs - 1 : a[i] = 0
                /\ a[1] = n \div Word
                /\ a[0] = n % Word

\* The position of the highest bit set plus one.
BitLength(a) ==
    IF IsZero(a) THEN 0
    ELSE LET i == CHOOSE j \in Index : a[j] # 0 /\ \A l \in j + 1 .. Limbs - 1 : a[l] = 0
             n == CHOOSE m \in 0 .. LimbBits - 1 : a[i] \div 2 ^ m = 1
         IN  LimbBits * i + n + 1

\* Long division: the divisor is aligned with the number and shifted back one
\* bit at a time.  Division by zero throws.
DivisionByZero(b) == BitLength(b) = 0

Divide(a, b) ==
    LET align == BitLength(a) - BitLength(b)
        \* The state before the step for each shift, from align downwards.
        step[shift \in -1 .. align] ==
            IF shift = align THEN [num |-> a, div |-> ShiftLeft(b, align), quotient |-> Zero]
            ELSE LET s == step[shift + 1]
                     fits == Compare(s.num, s.div) >= 0
                     bit == shift + 1
                 IN  [num |-> IF fits THEN Subtract(s.num, s.div) ELSE s.num,
                      div |-> ShiftRight(s.div, 1),
                      quotient |-> IF fits
                          THEN [s.quotient EXCEPT ![bit \div LimbBits] = @ + 2 ^ (bit % LimbBits)]
                          ELSE s.quotient]
    IN  IF align < 0 THEN Zero ELSE step[-1].quotient

-----------------------------------------------------------------------------
(* The compact numbers of block headers: an exponent in bytes, a sign bit  *)
(* and a mantissa of three bytes less that bit.                            *)

Bytes == Bits \div ByteBits
MantissaBits == 3 * ByteBits - 1
Compact == [exponent : 0 .. Bytes + 4, sign : BOOLEAN, word : 0 .. 2 ^ MantissaBits - 1]

ShiftedWord(c) == IF c.exponent <= 3 THEN c.word \div 2 ^ (ByteBits * (3 - c.exponent)) ELSE c.word

IsNegative(c) == ShiftedWord(c) # 0 /\ c.sign

Overflows(c) ==
    /\ ShiftedWord(c) # 0
    /\ \/ c.exponent > Bytes + 2
       \/ c.exponent > Bytes + 1 /\ ShiftedWord(c) > 2 ^ ByteBits - 1
       \/ c.exponent > Bytes /\ ShiftedWord(c) > 2 ^ (2 * ByteBits) - 1

SetCompact(c) ==
    IF c.exponent <= 3 THEN FromQword(ShiftedWord(c))
    ELSE ShiftLeft(FromQword(c.word), ByteBits * (c.exponent - 3))

\* A mantissa that would set the sign bit gives up its last byte.
GetCompact(a, negative) ==
    LET size == (BitLength(a) + ByteBits - 1) \div ByteBits
        word == IF size <= 3 THEN LowQword(a) * 2 ^ (ByteBits * (3 - size))
                ELSE LowQword(ShiftRight(a, ByteBits * (size - 3)))
        wide == word >= 2 ^ MantissaBits
        mantissa == IF wide THEN word \div 2 ^ ByteBits ELSE word
    IN  [exponent |-> IF wide THEN size + 1 ELSE size,
         sign |-> negative /\ mantissa # 0,
         word |-> mantissa]
=============================================================================
