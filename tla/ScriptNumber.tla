---------------------------- MODULE ScriptNumber ----------------------------
(***************************************************************************)
(* The numbers and strings of scripts, as Script.cpp writes and reads      *)
(* them.  A number is a little-endian sequence of bytes whose top bit is   *)
(* the sign; a string is pushed by an opcode that holds its length, or by  *)
(* a PUSHDATA opcode followed by the length.                               *)
(*                                                                         *)
(* In the code a number is an int64_t.  The definitions below are those of *)
(* the integers: they agree with the code as long as a number has at most  *)
(* eight bytes, and TLC evaluates them up to four.                         *)
(***************************************************************************)
EXTENDS Integers, Sequences, SequencesExt

Byte == 0 .. 255
SignBit == 128

\* The opcodes that some function handles; all others are reserved.
OP == [PUSHDATA1 |-> 76, PUSHDATA2 |-> 77, PUSHDATA4 |-> 78,
       NEGATE1 |-> 79, ONE |-> 81, SIXTEEN |-> 96, NOP |-> 97, RETURN |-> 106,
       DROP2 |-> 109, DUP2 |-> 110, DUP3 |-> 111, DEPTH |-> 116,
       DROP |-> 117, DUP |-> 118, SIZE |-> 130, EQUAL |-> 135,
       EQUALVERIFY |-> 136, ADD1 |-> 139, NOTEQUAL0 |-> 146, ADD |-> 147,
       NUMEQUALVERIFY |-> 157, MAX |-> 164, WITHIN |-> 165,
       RIPEMD160 |-> 166, HASH160 |-> 169, HASH256 |-> 170, CHECKSIG |-> 172,
       CHECKSIGVERIFY |-> 173, CHECKMULTISIG |-> 174,
       CHECKMULTISIGVERIFY |-> 175]

Magnitude(v) == IF v < 0 THEN -v ELSE v

\* The little-endian digits of a natural number; zero has none.
Digits(n) ==
    LET d[k \in Nat] == IF k = 0 THEN << >> ELSE << k % 256 >> \o d[k \div 256]
    IN  d[n]

\* The little-endian digits in a given number of bytes.
FixedDigits(n, size) == [i \in 1 .. size |-> (n \div 256 ^ (i - 1)) % 256]

\* The number that little-endian digits stand for.
Value(s) ==
    LET v[k \in 0 .. Len(s)] == IF k = 0 THEN 0 ELSE s[Len(s) + 1 - k] + 256 * v[k - 1]
    IN  v[Len(s)]

-----------------------------------------------------------------------------
(* A plausible slip in the code below, for checking the properties.        *)

DecodeUnsigned(s) == Value(s)

-----------------------------------------------------------------------------
(* ScriptUtils.                                                            *)

\* The sign takes the top bit of the last byte, or a byte of its own when the
\* magnitude needs that bit.
encodeScriptNumber(v) ==
    LET s == Digits(Magnitude(v))
    IN  IF v = 0 THEN << >>
        ELSE IF Last(s) >= SignBit
             THEN Append(s, IF v < 0 THEN SignBit ELSE 0)
             ELSE [s EXCEPT ![Len(s)] = IF v < 0 THEN @ + SignBit ELSE @]

decodeScriptNumber(s) ==
    IF s # << >> /\ Last(s) >= SignBit
    THEN -Value([s EXCEPT ![Len(s)] = @ - SignBit])
    ELSE Value(s)

\* ScriptVM::getBoolValue: the first byte that is not zero makes the value
\* true, unless it is the last one and only the sign.
BoolOf(s) ==
    LET used == {i \in DOMAIN s : s[i] # 0}
    IN  used # {} /\ ~ (used = {Len(s)} /\ Last(s) = SignBit)

-----------------------------------------------------------------------------
(* ScriptBuilder and the writers.                                          *)

PushHeader(size) ==
    IF size < OP.PUSHDATA1 THEN << size >>
    ELSE IF size <= 255 THEN << OP.PUSHDATA1, size >>
    ELSE IF size <= 65535 THEN << OP.PUSHDATA2 >> \o FixedDigits(size, 2)
    ELSE << OP.PUSHDATA4 >> \o FixedDigits(size, 4)

WrittenString(s) == PushHeader(Len(s)) \o s

WrittenNumber(v) == WrittenString(encodeScriptNumber(v))

WrittenInteger(v) ==
    IF v = -1 \/ v \in 1 .. 16 THEN << v + OP.ONE - 1 >>
    ELSE IF v = 0 THEN << 0 >>
    ELSE WrittenNumber(v)
=============================================================================
