---------------------------- MODULE ScriptMachine ---------------------------
(***************************************************************************)
(* The stack machine that decides whether an input may spend an output     *)
(* (ScriptVM.cpp, ScriptFunctions.cpp) and the part of Validator.cpp that  *)
(* runs it: the script of the input, then the script of the output on the  *)
(* same stack, then a look at the top of the stack.                        *)
(*                                                                         *)
(* A script is the sequence of bytes the code reads.  What the elliptic    *)
(* curve and the hash functions compute is left to two operators.  A failed*)
(* assertion ends the program: `failed' then says which one.               *)
(***************************************************************************)
EXTENDS ScriptNumber

CONSTANTS
    Scripts,            \* the pairs of scripts to run, [input, output]
    PublicKeys,         \* the strings PublicKey::assign accepts
    Signs(_, _, _),     \* whether a signature is one of a key over a code
    Digest(_, _),       \* what a hash opcode computes from a string
    MaxKeys             \* MAX_PUBKEYS_PER_MULTISIG

ASSUME MaxKeysAssumption == MaxKeys \in Nat

VARIABLES
    scripts,    \* the two scripts
    phase,      \* which of them is being evaluated, or the verdict
    pos,        \* the next byte to read
    stack,      \* Stack::vars, the top last
    errcode,    \* Env::errcode
    failed      \* the assertion that ended the program

vars == << scripts, phase, pos, stack, errcode, failed >>

VerifyErrors == {"EQUALVERIFY", "NUMEQUALVERIFY", "CHECKSIGVERIFY", "CHECKMULTISIGVERIFY"}
Errors == {"OK", "UNKNOWN_ERROR", "OP_RETURN", "INVALID_PARAM"} \cup VerifyErrors
Assertions == {"ScriptVM::eval", "VM_CHECK", "script_reserved", "script_checkSig",
               "SignatureChecker::check", "undefined arithmetic"}

Init == /\ scripts \in Scripts
        /\ phase = "input"
        /\ pos = 1
        /\ stack = << >>
        /\ errcode = "OK"
        /\ failed = "nothing"

code == IF phase = "input" THEN scripts.input ELSE scripts.output
Running == phase \in {"input", "output"} /\ failed = "nothing"

vTrue == << OP.ONE >>
vFalse == << >>
Bool(b) == IF b THEN vTrue ELSE vFalse

\* The value n places below the top, counted from 1.
Top(n) == stack[Len(stack) + 1 - n]
Number(n) == decodeScriptNumber(Top(n))
Below(n) == SubSeq(stack, 1, Len(stack) - n)

-----------------------------------------------------------------------------
(* The parts handlers are made of.                                         *)

\* The loop of eval hands the next byte to the function of one of these opcodes.
Reads(opcodes) == /\ Running
                  /\ errcode = "OK"
                  /\ pos <= Len(code)
                  /\ code[pos] \in opcodes

\* The handler reads no more of the code.
Next1 == pos' = pos + 1 /\ UNCHANGED << scripts, phase >>

\* VM_CHECK sets an error and asserts.
InvalidParam == /\ failed' = "VM_CHECK"
                /\ errcode' = "INVALID_PARAM"
                /\ UNCHANGED stack

Abort(assertion) == failed' = assertion /\ UNCHANGED << stack, errcode >>

\* Replaces the n topmost values.
Replace(n, values) == stack' = Below(n) \o values /\ UNCHANGED << errcode, failed >>

\* For checking the properties: a VERIFY opcode also takes a false value away.
VerifiedAlways(n, value, err) ==
    IF err = "OK" THEN Replace(n, << value >>)
    ELSE /\ stack' = Below(n)
         /\ errcode' = IF BoolOf(value) THEN "OK" ELSE err
         /\ UNCHANGED failed

\* Replaces them by one value, which a VERIFY opcode then takes away; a false
\* one it leaves there, with an error.
Verified(n, value, err) ==
    IF err = "OK" THEN Replace(n, << value >>)
    ELSE /\ stack' = IF BoolOf(value) THEN Below(n) ELSE Append(Below(n), value)
         /\ errcode' = IF BoolOf(value) THEN "OK" ELSE err
         /\ UNCHANGED failed

\* The error of an opcode, if it is a VERIFY opcode.
VerifyError(opcode, err) == IF code[pos] = opcode THEN err ELSE "OK"

-----------------------------------------------------------------------------
(* Pushing data (script_push0, script_pushdata).                           *)

\* The opcode's own length or, after a PUSHDATA opcode, that many bytes of it.
Prefix == CASE code[pos] = OP.PUSHDATA1 -> 1
            [] code[pos] = OP.PUSHDATA2 -> 2
            [] code[pos] = OP.PUSHDATA4 -> 4
            [] OTHER -> 0
DataSize == IF Prefix = 0 THEN code[pos]
            ELSE Value(SubSeq(code, pos + 1, pos + Prefix))
DataStart == pos + 1 + Prefix

\* For checking the properties: a string that ends with the code is cut off.
CompleteEarly == /\ pos + Prefix <= Len(code)
                 /\ DataStart + DataSize - 1 < Len(code)

Complete == /\ pos + Prefix <= Len(code)
            /\ DataStart + DataSize - 1 <= Len(code)

PushOpcodes == 0 .. OP.PUSHDATA4

PushData ==
    /\ Reads(PushOpcodes)
    /\ Complete
    /\ stack' = Append(stack, SubSeq(code, DataStart, DataStart + DataSize - 1))
    /\ pos' = DataStart + DataSize
    /\ UNCHANGED << scripts, phase, errcode, failed >>

\* A string longer than the rest of the code.  Only an opcode that holds the
\* length reports it; in either case the stream has nothing more to read.
PushTruncated ==
    /\ Reads(PushOpcodes)
    /\ ~Complete
    /\ pos' = Len(code) + 1
    /\ errcode' = IF code[pos] < OP.PUSHDATA1 THEN "UNKNOWN_ERROR" ELSE errcode
    /\ UNCHANGED << scripts, phase, stack, failed >>

IntegerOpcodes == {OP.NEGATE1} \cup OP.ONE .. OP.SIXTEEN

PushInteger ==
    /\ Reads(IntegerOpcodes)
    /\ Replace(0, << encodeScriptNumber(code[pos] - OP.ONE + 1) >>)
    /\ Next1

-----------------------------------------------------------------------------
(* The stack, equality and hashes.                                         *)

Equal ==
    /\ Reads({OP.EQUAL, OP.EQUALVERIFY})
    /\ IF Len(stack) < 2 THEN InvalidParam
       ELSE Verified(2, Bool(Top(1) = Top(2)), VerifyError(OP.EQUALVERIFY, "EQUALVERIFY"))
    /\ Next1

DupOpcodes == {OP.DUP, OP.DUP2, OP.DUP3}
DupCount == CASE code[pos] = OP.DUP -> 1 [] code[pos] = OP.DUP2 -> 2 [] OTHER -> 3

\* Each copy is read from under the copies made before it, so that the copies
\* are in reverse order.
Dup ==
    /\ Reads(DupOpcodes)
    /\ IF Len(stack) < DupCount THEN InvalidParam
       ELSE Replace(0, [i \in 1 .. DupCount |-> Top(i)])
    /\ Next1

DropCount == IF code[pos] = OP.DROP THEN 1 ELSE 2

Drop ==
    /\ Reads({OP.DROP, OP.DROP2})
    /\ IF Len(stack) < DropCount THEN InvalidParam ELSE Replace(DropCount, << >>)
    /\ Next1

Depth ==
    /\ Reads({OP.DEPTH})
    /\ Replace(0, << encodeScriptNumber(Len(stack)) >>)
    /\ Next1

Size ==
    /\ Reads({OP.SIZE})
    /\ IF stack = << >> THEN InvalidParam
       ELSE Replace(0, << encodeScriptNumber(Len(Top(1))) >>)
    /\ Next1

Hash ==
    /\ Reads(OP.RIPEMD160 .. OP.HASH256)
    /\ IF stack = << >> THEN InvalidParam
       ELSE Replace(1, << Digest(code[pos], Top(1)) >>)
    /\ Next1

-----------------------------------------------------------------------------
(* Arithmetic.  C++ divides towards zero; a shift by a count that the width *)
(* of the number does not allow, and a division by zero, are undefined.    *)

Width == 64

Quotient(x, y) ==
    LET q == Magnitude(x) \div Magnitude(y) IN IF (x < 0) # (y < 0) THEN -q ELSE q
Truth(b) == IF b THEN 1 ELSE 0

PowerOf2[n \in Nat] == IF n = 0 THEN 1 ELSE 2 * PowerOf2[n - 1]

UnaryFunction(index, x) ==
    CASE index = 0 -> x + 1
      [] index = 1 -> x - 1
      [] index = 2 -> x * 2
      [] index = 3 -> x \div 2
      [] index = 4 -> -x
      [] index = 5 -> Magnitude(x)
      [] index = 6 -> Truth(x = 0)
      [] index = 7 -> Truth(x # 0)

Defined(index, y) == /\ index \in {3, 4} => y # 0
                     /\ index \in {5, 6} => y \in 0 .. Width - 1

BinaryFunction(index, x, y) ==
    CASE index = 0 -> x + y
      [] index = 1 -> x - y
      [] index = 2 -> x * y
      [] index = 3 -> Quotient(x, y)
      [] index = 4 -> x - y * Quotient(x, y)
      [] index = 5 -> x * PowerOf2[y]
      [] index = 6 -> x \div PowerOf2[y]
      [] index = 7 -> Truth(x # 0 /\ y # 0)
      [] index = 8 -> Truth(x # 0 \/ y # 0)
      [] index \in {9, 10} -> Truth(x = y)
      [] index = 11 -> Truth(x # y)
      [] index = 12 -> Truth(x < y)
      [] index = 13 -> Truth(x > y)
      [] index = 14 -> Truth(x <= y)
      [] index = 15 -> Truth(x >= y)
      [] index = 16 -> IF x < y THEN x ELSE y
      [] index = 17 -> IF x > y THEN x ELSE y

NumericUnary ==
    /\ Reads(OP.ADD1 .. OP.NOTEQUAL0)
    /\ IF stack = << >> THEN InvalidParam
       ELSE Replace(1, << encodeScriptNumber(UnaryFunction(code[pos] - OP.ADD1, Number(1))) >>)
    /\ Next1

NumericBinary ==
    /\ Reads(OP.ADD .. OP.MAX)
    /\ LET index == code[pos] - OP.ADD
       IN  IF Len(stack) < 2 THEN InvalidParam
           ELSE IF ~Defined(index, Number(1)) THEN Abort("undefined arithmetic")
           ELSE Verified(2, encodeScriptNumber(BinaryFunction(index, Number(2), Number(1))),
                         VerifyError(OP.NUMEQUALVERIFY, "NUMEQUALVERIFY"))
    /\ Next1

Within ==
    /\ Reads({OP.WITHIN})
    /\ IF Len(stack) < 3 THEN InvalidParam
       ELSE Replace(3, << Bool(Number(2) <= Number(3) /\ Number(3) < Number(1)) >>)
    /\ Next1

-----------------------------------------------------------------------------
(* Signatures.                                                             *)

\* TransactionSignatureChecker::check asserts the form of both strings before
\* it verifies one with the other over the code being evaluated.
WellFormed(sig, key) == /\ sig # << >>
                        /\ key \in PublicKeys
                        /\ Last(sig) \in {0, 1}

CheckSig ==
    /\ Reads({OP.CHECKSIG, OP.CHECKSIGVERIFY})
    /\ IF Len(stack) < 2 THEN InvalidParam
       ELSE IF ~WellFormed(Top(2), Top(1)) THEN Abort("SignatureChecker::check")
       ELSE IF ~Signs(Top(2), Top(1), code) THEN Abort("script_checkSig")
       ELSE Verified(2, vTrue, VerifyError(OP.CHECKSIGVERIFY, "CHECKSIGVERIFY"))
    /\ Next1

\* For checking the properties: every signature starts with the first key.
TryAllKeys(keys, state, sig) ==
    IF \E k \in DOMAIN keys : WellFormed(sig, keys[k]) /\ Signs(sig, keys[k], code)
    THEN [state EXCEPT !.passed = @ + 1] ELSE state

\* checkMultiSig gives each signature the next keys until one of them fits.
TryKeys(keys, state, sig) ==
    LET stops == {k \in state.used + 1 .. Len(keys) :
                     WellFormed(sig, keys[k]) => Signs(sig, keys[k], code)}
        first == CHOOSE k \in stops : \A other \in stops : k <= other
    IN  IF state.malformed \/ stops = {} THEN [state EXCEPT !.used = Len(keys)]
        ELSE IF ~WellFormed(sig, keys[first]) THEN [state EXCEPT !.malformed = TRUE]
        ELSE [state EXCEPT !.used = first, !.passed = @ + 1]

checkMultiSig(keys, signatures) ==
    LET after[n \in 0 .. Len(signatures)] ==
            IF n = 0 THEN [used |-> 0, passed |-> 0, malformed |-> FALSE]
            ELSE TryKeys(keys, after[n - 1], signatures[n])
    IN  after[Len(signatures)]

\* ScriptVM::getValues asks for one value more than it reads.
HasValues(depth, count) == depth + count <= Len(stack)
Values(depth, count) == [i \in 1 .. count |-> Top(depth + i - 1)]

KeyCount == Number(1)
SigCount == Number(2 + KeyCount)

MultiSigParams ==
    /\ Len(stack) >= 1
    /\ KeyCount \in 0 .. MaxKeys - 1
    /\ Len(stack) >= 2 + KeyCount
    /\ SigCount \in 0 .. KeyCount
    /\ HasValues(2, KeyCount)
    /\ HasValues(3 + KeyCount, SigCount)

\* The values, the two counts and, when there is one more value, that one too.
MultiSigPops ==
    LET used == 2 + KeyCount + SigCount
    IN  IF Len(stack) > used THEN used + 1 ELSE used

CheckMultiSig ==
    /\ Reads({OP.CHECKMULTISIG, OP.CHECKMULTISIGVERIFY})
    /\ IF ~MultiSigParams THEN InvalidParam
       ELSE LET found == checkMultiSig(Values(2, KeyCount), Values(3 + KeyCount, SigCount))
            IN  IF found.malformed THEN Abort("SignatureChecker::check")
                ELSE Verified(MultiSigPops, Bool(found.passed >= SigCount),
                              VerifyError(OP.CHECKMULTISIGVERIFY, "CHECKMULTISIGVERIFY"))
    /\ Next1

-----------------------------------------------------------------------------
(* The rest of the table, and the ends of the scripts.                     *)

Noop == Reads({OP.NOP}) /\ Next1 /\ UNCHANGED << stack, errcode, failed >>

Return == /\ Reads({OP.RETURN})
          /\ errcode' = "OP_RETURN"
          /\ Next1
          /\ UNCHANGED << stack, failed >>

Handled == PushOpcodes \cup IntegerOpcodes \cup DupOpcodes
           \cup {OP.NOP, OP.RETURN, OP.DROP, OP.DROP2, OP.DEPTH, OP.SIZE, OP.EQUAL,
                 OP.EQUALVERIFY, OP.WITHIN, OP.CHECKSIG, OP.CHECKSIGVERIFY,
                 OP.CHECKMULTISIG, OP.CHECKMULTISIGVERIFY}
           \cup OP.ADD1 .. OP.NOTEQUAL0 \cup OP.ADD .. OP.MAX
           \cup OP.RIPEMD160 .. OP.HASH256

\* Among these are VERIFY, IF, SWAP and the bit operations.
Reserved == Reads(Byte \ Handled) /\ Abort("script_reserved") /\ Next1

\* The loop of eval ends on an error or at the end of the code.
Ended == Running /\ (errcode # "OK" \/ pos > Len(code))

EmptyCode == /\ Running
             /\ code = << >>
             /\ Abort("ScriptVM::eval")
             /\ UNCHANGED << scripts, phase, pos >>

\* The error of the input script stays: the output script is then not evaluated.
StartOutput == /\ Ended
               /\ phase = "input"
               /\ code # << >>
               /\ phase' = "output"
               /\ pos' = 1
               /\ UNCHANGED << scripts, stack, errcode, failed >>

\* The verdict of verifyTransactionInput.
Judge == /\ Ended
         /\ phase = "output"
         /\ code # << >>
         /\ phase' = IF stack # << >> /\ BoolOf(Top(1)) THEN "accepted" ELSE "rejected"
         /\ UNCHANGED << scripts, pos, stack, errcode, failed >>

Next == \/ PushData \/ PushTruncated \/ PushInteger
        \/ Equal \/ Dup \/ Drop \/ Depth \/ Size \/ Hash
        \/ NumericUnary \/ NumericBinary \/ Within
        \/ CheckSig \/ CheckMultiSig
        \/ Noop \/ Return \/ Reserved
        \/ EmptyCode \/ StartOutput \/ Judge

Spec == Init /\ [][Next]_vars

=============================================================================
