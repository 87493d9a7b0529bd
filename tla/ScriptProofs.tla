----------------------------- MODULE ScriptProofs ----------------------------
(***************************************************************************)
(* What holds of the stack machine for any scripts, signatures and hash    *)
(* functions.                                                              *)
(***************************************************************************)
EXTENDS ScriptTemplates, AlgorithmProofs

\* Whatever is pushed, the stack is a sequence.
StackIsSeq == stack \in Seq({stack[i] : i \in DOMAIN stack})

\* A VERIFY opcode that fails leaves a false value on top, and nothing runs after
\* it that would change the stack.
FalseOnTop == errcode \in VerifyErrors => stack # << >> /\ ~BoolOf(Top(1))

VerifyInv == StackIsSeq /\ FalseOnTop /\ FailedVerifyRejects
-----------------------------------------------------------------------------
(* The parts handlers are made of. *)

LEMMA SeqOfItsValues ==
    ASSUME NEW S, NEW s \in Seq(S)
    PROVE  s \in Seq({s[i] : i \in DOMAIN s})
<1>1. Len(s) \in Nat /\ DOMAIN s = 1..Len(s) /\ s = [i \in 1..Len(s) |-> s[i]]
  BY LenProperties
<1> DEFINE T == {s[i] : i \in DOMAIN s}
<1>2. \A i \in 1..Len(s) : s[i] \in T
  BY <1>1
<1> HIDE DEF T
<1>3. [i \in 1..Len(s) |-> s[i]] \in Seq(T)
  BY <1>1, <1>2
<1>4. QED
  BY <1>1, <1>3 DEF T

\* The values below the n topmost.
LEMMA BelowIsSeq ==
    ASSUME NEW S, stack \in Seq(S), NEW n \in 0..Len(stack)
    PROVE  Below(n) \in Seq(S) /\ Len(Below(n)) = Len(stack) - n
<1>1. Len(stack) \in Nat
  BY LenProperties
<1>2. Len(stack) - n \in 0..Len(stack)
  BY <1>1
<1>3. QED
  BY <1>1, <1>2, SubSeqProperties DEF Below

LEMMA ReplaceKeeps ==
    ASSUME StackIsSeq, NEW n \in 0..Len(stack), NEW V, NEW values \in Seq(V),
           Replace(n, values)
    PROVE  StackIsSeq' /\ UNCHANGED << errcode, failed >>
<1> DEFINE S == {stack[i] : i \in DOMAIN stack} \cup V
<1>1. stack' = Below(n) \o values /\ UNCHANGED << errcode, failed >>
  BY DEF Replace
<1>2. stack \in Seq(S) /\ values \in Seq(S)
  <2>1. {stack[i] : i \in DOMAIN stack} \subseteq S /\ V \subseteq S
    OBVIOUS
  <2> HIDE DEF S
  <2>2. QED
    BY <2>1, SeqMonotonic DEF StackIsSeq
<1> HIDE DEF S
<1>3. Below(n) \in Seq(S)
  BY <1>2, BelowIsSeq
<1>4. stack' \in Seq(S)
  BY <1>1, <1>2, <1>3, ConcatProperties
<1>5. stack' \in Seq({stack'[i] : i \in DOMAIN stack'})
  BY <1>4, SeqOfItsValues
<1>6. QED
  BY <1>1, <1>5 DEF StackIsSeq

LEMMA VerifiedKeeps ==
    ASSUME StackIsSeq, errcode = "OK", NEW n \in 0..Len(stack), NEW value,
           NEW err \in VerifyErrors \cup {"OK"}, Verified(n, value, err)
    PROVE  StackIsSeq' /\ FalseOnTop'
<1>0. "OK" \notin VerifyErrors
  BY DEF VerifyErrors
<1> DEFINE S == {stack[i] : i \in DOMAIN stack} \cup {value}
<1>1. stack \in Seq(S) /\ value \in S
  <2>1. {stack[i] : i \in DOMAIN stack} \subseteq S /\ value \in S
    OBVIOUS
  <2> HIDE DEF S
  <2>2. QED
    BY <2>1, SeqMonotonic DEF StackIsSeq
<1> HIDE DEF S
<1>2. Below(n) \in Seq(S)
  BY <1>1, BelowIsSeq
<1>3. CASE err = "OK"
  <2>1. << value >> \in Seq({value}) /\ Replace(n, << value >>)
    BY <1>3 DEF Verified
  <2>2. StackIsSeq' /\ errcode' = errcode
    BY <2>1, ReplaceKeeps
  <2>3. QED
    BY <1>0, <2>2 DEF FalseOnTop
<1>4. CASE err # "OK" /\ BoolOf(value)
  <2>1. stack' = Below(n) /\ errcode' = "OK"
    BY <1>4 DEF Verified
  <2>2. StackIsSeq'
    BY <1>2, <2>1, SeqOfItsValues DEF StackIsSeq
  <2>3. QED
    BY <1>0, <2>1, <2>2 DEF FalseOnTop
<1>5. CASE err # "OK" /\ ~BoolOf(value)
  <2>1. stack' = Append(Below(n), value)
    BY <1>5 DEF Verified
  <2>2. /\ stack' \in Seq(S) /\ Len(stack') = Len(Below(n)) + 1 /\ Len(Below(n)) \in Nat
        /\ stack'[Len(stack')] = value
    BY <1>1, <1>2, <2>1, AppendProperties, LenProperties
  <2>3. stack' \in Seq({stack'[i] : i \in DOMAIN stack'})
    BY <2>2, SeqOfItsValues
  <2>4. StackIsSeq'
    BY <2>3 DEF StackIsSeq
  <2>5. stack' # << >>
    BY <2>2, EmptySeq
  <2>6. Len(stack') + 1 - 1 = Len(stack')
    BY <2>2
  <2>7. Top(1)' = value
    BY <2>2, <2>6 DEF Top
  <2>8. QED
    BY <1>5, <2>4, <2>5, <2>7 DEF FalseOnTop, BoolOf
<1>6. QED
  BY <1>3, <1>4, <1>5

LEMMA StoppedKeeps ==
    ASSUME StackIsSeq, errcode = "OK",
           InvalidParam \/ \E a \in Assertions : Abort(a)
    PROVE  StackIsSeq' /\ FalseOnTop'
<1>1. UNCHANGED stack /\ errcode' \in {"INVALID_PARAM", "OK"}
  BY DEF InvalidParam, Abort
<1>2. errcode' \notin VerifyErrors
  BY <1>1 DEF VerifyErrors
<1>3. QED
  BY <1>1, <1>2 DEF StackIsSeq, FalseOnTop

-----------------------------------------------------------------------------
(* The opcodes. *)

\* A handler runs with no error set, and only in the two evaluating phases.
LEMMA ReadsOk ==
    ASSUME NEW opcodes, Reads(opcodes)
    PROVE  errcode = "OK" /\ phase \in {"input", "output"}
  BY DEF Reads, Running

\* A handler that stops the program, replaces the top of the stack or, as a VERIFY
\* opcode, judges one value.
LEMMA HandlerKeeps ==
    ASSUME VerifyInv, errcode = "OK", phase # "accepted",
           NEW n, NEW V, NEW values \in Seq(V), NEW value, NEW err \in VerifyErrors \cup {"OK"},
           \/ InvalidParam
           \/ \E a \in Assertions : Abort(a)
           \/ n \in 0..Len(stack) /\ Replace(n, values)
           \/ n \in 0..Len(stack) /\ Verified(n, value, err),
           phase' = phase
    PROVE  VerifyInv'
<1>0. "OK" \notin VerifyErrors
  BY DEF VerifyErrors
<1>1. FailedVerifyRejects'
  BY DEF FailedVerifyRejects
<1>2. CASE InvalidParam \/ \E a \in Assertions : Abort(a)
  BY <1>1, <1>2, StoppedKeeps DEF VerifyInv
<1>3. CASE n \in 0..Len(stack) /\ Replace(n, values)
  <2>1. StackIsSeq' /\ errcode' = errcode
    BY <1>3, ReplaceKeeps DEF VerifyInv
  <2>2. QED
    BY <1>0, <1>1, <2>1 DEF VerifyInv, FalseOnTop
<1>4. CASE n \in 0..Len(stack) /\ Verified(n, value, err)
  BY <1>1, <1>4, VerifiedKeeps DEF VerifyInv
<1>5. QED
  BY <1>2, <1>3, <1>4

LEMMA StackLength ==
    ASSUME StackIsSeq
    PROVE  Len(stack) \in Nat /\ (stack # << >> => Len(stack) >= 1)
  BY LenProperties, EmptySeq DEF StackIsSeq

\* One value as a sequence.
LEMMA OneValue ==
    ASSUME NEW value
    PROVE  << value >> \in Seq({value})
  OBVIOUS

LEMMA VerifyErrorKind ==
    ASSUME NEW opcode, NEW err \in VerifyErrors
    PROVE  VerifyError(opcode, err) \in VerifyErrors \cup {"OK"}
  BY DEF VerifyError

LEMMA PushDataKeeps ==
    ASSUME VerifyInv, PushData
    PROVE  VerifyInv'
<1>1. errcode = "OK" /\ phase \in {"input", "output"} /\ UNCHANGED << phase, errcode >>
  BY ReadsOk DEF PushData
<1> DEFINE v == SubSeq(code, DataStart, DataStart + DataSize - 1)
           S == {stack[i] : i \in DOMAIN stack} \cup {v}
<1>2. stack' = Append(stack, v)
  BY DEF PushData
<1>3. stack \in Seq(S) /\ v \in S
  <2>1. {stack[i] : i \in DOMAIN stack} \subseteq S /\ v \in S
    OBVIOUS
  <2> HIDE DEF S
  <2>2. QED
    BY <2>1, SeqMonotonic DEF VerifyInv, StackIsSeq
<1> HIDE DEF v, S
<1>4. stack' \in Seq(S)
  BY <1>2, <1>3, AppendProperties
<1>5. stack' \in Seq({stack'[i] : i \in DOMAIN stack'})
  BY <1>4, SeqOfItsValues
<1>6. QED
  BY <1>1, <1>5 DEF VerifyInv, StackIsSeq, FalseOnTop, FailedVerifyRejects, VerifyErrors

\* What leaves the stack as it is, and sets no error of a VERIFY opcode.
LEMMA SameStackKeeps ==
    ASSUME VerifyInv, UNCHANGED stack,
           phase' # "accepted" \/ errcode' \notin VerifyErrors,
           errcode' \in VerifyErrors => errcode' = errcode
    PROVE  VerifyInv'
<1>1. StackIsSeq'
  BY DEF VerifyInv, StackIsSeq
<1>2. FalseOnTop'
  BY DEF VerifyInv, FalseOnTop, Top
<1>3. QED
  BY <1>1, <1>2 DEF VerifyInv, FailedVerifyRejects

LEMMA RunningKeeps ==
    ASSUME VerifyInv,
           PushTruncated \/ Noop \/ Return \/ Reserved \/ EmptyCode \/ StartOutput
    PROVE  VerifyInv'
<1>1. UNCHANGED stack /\ phase' # "accepted"
  BY DEF PushTruncated, Noop, Return, Reserved, EmptyCode, StartOutput, Reads, Running,
         Next1, Abort
<1>2. errcode' \in VerifyErrors => errcode' = errcode
  BY DEF PushTruncated, Noop, Return, Reserved, EmptyCode, StartOutput, Abort, VerifyErrors
<1>3. QED
  BY <1>1, <1>2, SameStackKeeps

\* The verdict looks at the top of the stack, where a failed VERIFY opcode has
\* left its false value.
LEMMA JudgeKeeps ==
    ASSUME VerifyInv, Judge
    PROVE  VerifyInv'
<1>1. UNCHANGED << stack, errcode >>
  BY DEF Judge
<1>2. phase' = "accepted" => stack # << >> /\ BoolOf(Top(1))
  BY DEF Judge
<1>3. phase' = "accepted" => errcode \notin VerifyErrors
  BY <1>2 DEF VerifyInv, FalseOnTop
<1>4. QED
  BY <1>1, <1>3, SameStackKeeps

\* The opcodes that replace values or stop the program.
LEMMA ReplacingKeeps ==
    ASSUME VerifyInv,
           PushInteger \/ Dup \/ Drop \/ Depth \/ Size \/ Hash \/ NumericUnary \/ Within
    PROVE  VerifyInv'
<1>1. Len(stack) \in Nat /\ (stack # << >> => Len(stack) >= 1)
  BY StackLength DEF VerifyInv
<1>2. errcode = "OK" /\ phase # "accepted" /\ phase' = phase
  BY ReadsOk DEF PushInteger, Dup, Drop, Depth, Size, Hash, NumericUnary, Within, Next1
<1>3. ASSUME NEW n \in 0..Len(stack), NEW value, Replace(n, << value >>)
      PROVE  VerifyInv'
  BY <1>2, <1>3, OneValue, HandlerKeeps
<1>4. ASSUME InvalidParam
      PROVE  VerifyInv'
  <2>1. << >> \in Seq({}) /\ "OK" \in VerifyErrors \cup {"OK"}
    BY EmptySeq
  <2>2. QED
    BY <1>2, <1>4, <2>1, HandlerKeeps
<1>5. 0 \in 0..Len(stack)
  BY <1>1
<1>6. CASE PushInteger
  BY <1>3, <1>5, <1>6 DEF PushInteger
<1>7. CASE Dup
  <2>1. DupCount \in Nat
    BY DEF DupCount
  <2>2. [i \in 1..DupCount |-> Top(i)] \in Seq({Top(i) : i \in 1..DupCount})
    <3> DEFINE T == {Top(i) : i \in 1..DupCount}
    <3>1. \A i \in 1..DupCount : Top(i) \in T
      OBVIOUS
    <3> HIDE DEF T
    <3>2. [i \in 1..DupCount |-> Top(i)] \in Seq(T)
      BY <2>1, <3>1
    <3>3. QED
      BY <3>2 DEF T
  <2>3. CASE InvalidParam
    BY <1>4, <2>3
  <2>4. CASE Replace(0, [i \in 1..DupCount |-> Top(i)])
    BY <1>2, <1>5, <2>2, <2>4, HandlerKeeps
  <2>5. QED
    BY <1>7, <2>3, <2>4 DEF Dup
<1>8. CASE Drop
  <2>1. << >> \in Seq({}) /\ "OK" \in VerifyErrors \cup {"OK"}
    BY EmptySeq
  <2>2. CASE InvalidParam
    BY <1>4, <2>2
  <2>3. CASE ~(Len(stack) < DropCount) /\ Replace(DropCount, << >>)
    <3>1. DropCount \in 0..Len(stack)
      BY <1>1, <2>3 DEF DropCount
    <3>2. QED
      BY <1>2, <2>1, <2>3, <3>1, HandlerKeeps
  <2>4. QED
    BY <1>8, <2>2, <2>3 DEF Drop
<1>9. CASE Depth
  BY <1>3, <1>5, <1>9 DEF Depth
<1>10. CASE Size
  BY <1>3, <1>4, <1>5, <1>10 DEF Size
<1>11. CASE Hash
  <2>1. stack # << >> => 1 \in 0..Len(stack)
    BY <1>1
  <2>2. QED
    BY <1>3, <1>4, <2>1, <1>11 DEF Hash
<1>12. CASE NumericUnary
  <2>1. stack # << >> => 1 \in 0..Len(stack)
    BY <1>1
  <2>2. QED
    BY <1>3, <1>4, <2>1, <1>12 DEF NumericUnary
<1>13. CASE Within
  <2>1. ~(Len(stack) < 3) => 3 \in 0..Len(stack)
    BY <1>1
  <2>2. QED
    BY <1>3, <1>4, <2>1, <1>13 DEF Within
<1>14. QED
  BY <1>6, <1>7, <1>8, <1>9, <1>10, <1>11, <1>12, <1>13

\* A multisig opcode takes no more values than there are.
LEMMA PopsWithin ==
    ASSUME StackIsSeq, MultiSigParams, MaxKeys \in Nat
    PROVE  MultiSigPops \in 0..Len(stack)
<1>1. Len(stack) \in Nat
  BY StackLength
<1>2. KeyCount \in 0..(MaxKeys - 1) /\ SigCount \in 0..KeyCount
      /\ (3 + KeyCount) + SigCount <= Len(stack)
  BY DEF MultiSigParams, HasValues
<1>3. \A len, k, s \in Nat :
         3 + k + s <= len =>
             (IF len > 2 + k + s THEN 2 + k + s + 1 ELSE 2 + k + s) \in 0..len
  OBVIOUS
<1>4. KeyCount \in Nat /\ SigCount \in Nat
  BY <1>2
<1>5. QED
  BY <1>1, <1>2, <1>3, <1>4 DEF MultiSigPops

\* The opcodes with a VERIFY variant.
LEMMA JudgingKeeps ==
    ASSUME VerifyInv, Equal \/ NumericBinary \/ CheckSig \/ CheckMultiSig
    PROVE  VerifyInv'
<1>1. Len(stack) \in Nat /\ (~(Len(stack) < 2) => 2 \in 0..Len(stack))
  BY StackLength DEF VerifyInv
<1>2. errcode = "OK" /\ phase # "accepted" /\ phase' = phase
  BY ReadsOk DEF Equal, NumericBinary, CheckSig, CheckMultiSig, Next1
<1>3. << >> \in Seq({}) /\ "OK" \in VerifyErrors \cup {"OK"}
  BY EmptySeq
<1>4. ASSUME NEW n \in 0..Len(stack), NEW value, NEW opcode, NEW err \in VerifyErrors,
             Verified(n, value, VerifyError(opcode, err))
      PROVE  VerifyInv'
  BY <1>2, <1>3, <1>4, VerifyErrorKind, HandlerKeeps
<1>5. ASSUME InvalidParam \/ \E a \in Assertions : Abort(a)
      PROVE  VerifyInv'
  BY <1>2, <1>3, <1>5, HandlerKeeps
<1>6. CASE Equal
  <2>1. "EQUALVERIFY" \in VerifyErrors
    BY DEF VerifyErrors
  <2>2. CASE InvalidParam
    BY <1>5, <2>2
  <2>3. CASE ~(Len(stack) < 2)
             /\ Verified(2, Bool(Top(1) = Top(2)),
                         VerifyError(OP.EQUALVERIFY, "EQUALVERIFY"))
    BY <1>1, <1>4, <2>1, <2>3
  <2>4. QED
    BY <1>6, <2>2, <2>3 DEF Equal
<1>7. CASE NumericBinary
  <2>1. "NUMEQUALVERIFY" \in VerifyErrors /\ "undefined arithmetic" \in Assertions
    BY DEF VerifyErrors, Assertions
  <2>2. CASE InvalidParam \/ Abort("undefined arithmetic")
    BY <1>5, <2>1, <2>2
  <2>3. CASE \E value :
                ~(Len(stack) < 2)
                /\ Verified(2, value, VerifyError(OP.NUMEQUALVERIFY, "NUMEQUALVERIFY"))
    BY <1>1, <1>4, <2>1, <2>3
  <2>4. QED
    BY <1>7, <2>2, <2>3 DEF NumericBinary
<1>8. CASE CheckSig
  <2>1. /\ "CHECKSIGVERIFY" \in VerifyErrors
        /\ {"SignatureChecker::check", "script_checkSig"} \subseteq Assertions
    BY DEF VerifyErrors, Assertions
  <2>2. CASE InvalidParam \/ Abort("SignatureChecker::check") \/ Abort("script_checkSig")
    BY <1>5, <2>1, <2>2
  <2>3. CASE ~(Len(stack) < 2)
             /\ Verified(2, vTrue, VerifyError(OP.CHECKSIGVERIFY, "CHECKSIGVERIFY"))
    BY <1>1, <1>4, <2>1, <2>3
  <2>4. QED
    BY <1>8, <2>2, <2>3 DEF CheckSig
<1>9. CASE CheckMultiSig
  <2>1. "CHECKMULTISIGVERIFY" \in VerifyErrors /\ "SignatureChecker::check" \in Assertions
    BY DEF VerifyErrors, Assertions
  <2>2. CASE InvalidParam \/ Abort("SignatureChecker::check")
    BY <1>5, <2>1, <2>2
  <2>3. CASE MultiSigParams
             /\ \E value : Verified(MultiSigPops, value,
                                    VerifyError(OP.CHECKMULTISIGVERIFY, "CHECKMULTISIGVERIFY"))
    <3>1. MultiSigPops \in 0..Len(stack)
      BY <2>3, MaxKeysAssumption, PopsWithin DEF VerifyInv
    <3>2. QED
      BY <1>4, <2>1, <2>3, <3>1
  <2>4. QED
    BY <1>9, <2>2, <2>3 DEF CheckMultiSig
<1>10. QED
  BY <1>6, <1>7, <1>8, <1>9
-----------------------------------------------------------------------------
LEMMA VerifyInit ==
    ASSUME Init
    PROVE  VerifyInv
  BY EmptySeq DEF Init, VerifyInv, StackIsSeq, FalseOnTop, FailedVerifyRejects, VerifyErrors

LEMMA VerifyNext ==
    ASSUME VerifyInv, [Next]_vars
    PROVE  VerifyInv'
<1>1. CASE PushData
  BY <1>1, PushDataKeeps
<1>2. CASE PushInteger \/ Dup \/ Drop \/ Depth \/ Size \/ Hash \/ NumericUnary \/ Within
  BY <1>2, ReplacingKeeps
<1>3. CASE Equal \/ NumericBinary \/ CheckSig \/ CheckMultiSig
  BY <1>3, JudgingKeeps
<1>4. CASE PushTruncated \/ Noop \/ Return \/ Reserved \/ EmptyCode \/ StartOutput
  BY <1>4, RunningKeeps
<1>5. CASE Judge
  BY <1>5, JudgeKeeps
<1>6. CASE UNCHANGED vars
  BY <1>6 DEF vars, VerifyInv, StackIsSeq, FalseOnTop, Top, FailedVerifyRejects
<1>7. QED
  BY <1>1, <1>2, <1>3, <1>4, <1>5, <1>6 DEF Next

\* A comparison of a VERIFY opcode that failed, in either script, is not forgotten:
\* the input is not accepted, although the verdict looks at the top of the stack and
\* not at the error (ScriptVM::verify leaves the false value there, and the loop of
\* eval runs nothing more).
THEOREM FailedVerifyIsRejected == Spec => []FailedVerifyRejects
<1>1. Init => VerifyInv
  BY VerifyInit
<1>2. VerifyInv /\ [Next]_vars => VerifyInv'
  BY VerifyNext
<1>3. VerifyInv => FailedVerifyRejects
  BY DEF VerifyInv
<1>4. QED
  BY <1>1, <1>2, <1>3, PTL DEF Spec

-----------------------------------------------------------------------------
(* The machine stays within its data.                                      *)

\* Scripts are sequences of bytes, and so is what the hash functions compute.
ScriptsAreBytes == \A p \in Scripts : p.input \in Seq(Byte) /\ p.output \in Seq(Byte)
DigestsAreBytes == \A opcode \in Nat, s \in Seq(Byte) : Digest(opcode, s) \in Seq(Byte)

Strings == Seq(Byte)

BytesInv == /\ scripts \in Scripts
            /\ phase \in {"input", "output", "accepted", "rejected"}
            /\ pos \in 1 .. Len(code) + 1
            /\ stack \in Seq(Strings)
            /\ errcode \in Errors
            /\ failed \in Assertions \cup {"nothing"}

\* What an opcode leaves.
Typed == /\ stack' \in Seq(Strings)
         /\ errcode' \in Errors
         /\ failed' \in Assertions \cup {"nothing"}

LEMMA CodeIsBytes ==
    ASSUME ScriptsAreBytes, scripts \in Scripts
    PROVE  code \in Seq(Byte) /\ Len(code) \in Nat
<1>1. code \in Seq(Byte)
  BY DEF ScriptsAreBytes, code
<1>2. QED
  BY <1>1, LenProperties

LEMMA TopIsString ==
    ASSUME stack \in Seq(Strings), NEW n \in 1 .. Len(stack)
    PROVE  Top(n) \in Seq(Byte) /\ Number(n) \in Int
<1>1. Len(stack) \in Nat
  BY LenProperties
<1>2. Len(stack) + 1 - n \in 1 .. Len(stack)
  BY <1>1
<1>3. stack[Len(stack) + 1 - n] \in Strings
  BY <1>2, ElementOfSeq
<1>4. Top(n) \in Seq(Byte)
  BY <1>3 DEF Top, Strings
<1>5. QED
  BY <1>4, DecodedIsInt DEF Number

LEMMA ReplaceTyped ==
    ASSUME BytesInv, NEW n \in 0 .. Len(stack), NEW values \in Seq(Strings), Replace(n, values)
    PROVE  Typed
<1>1. Below(n) \in Seq(Strings)
  BY BelowIsSeq DEF BytesInv
<1>2. Below(n) \o values \in Seq(Strings)
  BY <1>1, ConcatProperties
<1>3. QED
  BY <1>2 DEF Replace, BytesInv, Typed

LEMMA OneString ==
    ASSUME NEW s \in Seq(Byte)
    PROVE  << s >> \in Seq(Strings)
  BY DEF Strings

LEMMA VerifiedTyped ==
    ASSUME BytesInv, NEW n \in 0 .. Len(stack), NEW value \in Seq(Byte),
           NEW err \in VerifyErrors \cup {"OK"}, Verified(n, value, err)
    PROVE  Typed
<1>1. Below(n) \in Seq(Strings) /\ << value >> \in Seq(Strings) /\ value \in Strings
  BY BelowIsSeq, OneString DEF BytesInv, Strings
<1>2. Append(Below(n), value) \in Seq(Strings)
  BY <1>1, AppendProperties
<1>3. CASE err = "OK"
  BY <1>1, <1>3, ReplaceTyped DEF Verified
<1>4. CASE err # "OK"
  <2>1. stack' \in Seq(Strings) /\ errcode' \in {"OK", err} /\ failed' = failed
    BY <1>1, <1>2, <1>4 DEF Verified
  <2>2. QED
    BY <2>1 DEF BytesInv, Typed, Errors
<1>5. QED
  BY <1>3, <1>4

LEMMA StoppedTyped ==
    ASSUME BytesInv, InvalidParam \/ \E a \in Assertions : Abort(a)
    PROVE  Typed
<1>1. "VM_CHECK" \in Assertions /\ "INVALID_PARAM" \in Errors
  BY DEF Assertions, Errors
<1>2. QED
  BY <1>1 DEF InvalidParam, Abort, BytesInv, Typed

\* An opcode of one byte.
LEMMA OpcodeTyped ==
    ASSUME ScriptsAreBytes, BytesInv, NEW opcodes, Reads(opcodes), Next1, Typed
    PROVE  BytesInv'
<1>1. code' = code
  BY DEF Next1, code
<1>2. Len(code) \in Nat
  BY CodeIsBytes DEF BytesInv
<1>3. pos' \in 1 .. Len(code') + 1
  <2>1. pos \in 1 .. Len(code) + 1 /\ pos <= Len(code) /\ pos' = pos + 1
    BY DEF Reads, BytesInv, Next1
  <2>2. QED
    BY <1>1, <1>2, <2>1
<1>4. QED
  BY <1>3 DEF Next1, Typed, BytesInv

LEMMA OpcodeIsByte ==
    ASSUME ScriptsAreBytes, BytesInv, NEW opcodes, Reads(opcodes)
    PROVE  code[pos] \in Byte /\ code[pos] \in Nat /\ code[pos] \in opcodes
<1>1. code \in Seq(Byte) /\ Len(code) \in Nat
  BY CodeIsBytes DEF BytesInv
<1>2. pos \in 1 .. Len(code)
  BY <1>1 DEF BytesInv, Reads
<1>3. code[pos] \in Byte
  BY <1>1, <1>2, ElementOfSeq
<1>4. QED
  BY <1>3, ByteValues DEF Reads

-----------------------------------------------------------------------------
(* Pushing data.                                                           *)

LEMMA PrefixIsLengthBytes == Prefix = LengthBytes(code[pos])
  BY DEF Prefix, LengthBytes

LEMMA PrefixIsNat == Prefix \in Nat
  BY DEF Prefix

LEMMA DataSizeIsNat ==
    ASSUME ScriptsAreBytes, BytesInv, Reads(PushOpcodes), Complete
    PROVE  DataSize \in Nat
<1>1. code \in Seq(Byte) /\ Len(code) \in Nat /\ code[pos] \in Nat /\ pos \in Nat
  BY CodeIsBytes, OpcodeIsByte DEF BytesInv
<1>2. CASE Prefix = 0
  BY <1>1, <1>2 DEF DataSize
<1>3. CASE Prefix # 0
  <2>1. \A i \in pos + 1 .. pos + Prefix : i \in 1 .. Len(code)
    BY <1>1, PrefixIsNat DEF Complete
  <2>2. \A i \in pos + 1 .. pos + Prefix : code[i] \in Byte
    BY <1>1, <2>1, ElementOfSeq
  <2>3. pos + 1 \in Int /\ pos + Prefix \in Int
    BY <1>1, PrefixIsNat
  <2>4. SubSeq(code, pos + 1, pos + Prefix) \in Seq(Byte)
    BY <2>2, <2>3, SubSeqProperties
  <2>5. QED
    BY <1>3, <2>4, ValueIsNat DEF DataSize
<1>4. QED
  BY <1>2, <1>3

LEMMA PushDataTyped ==
    ASSUME ScriptsAreBytes, BytesInv, PushData
    PROVE  BytesInv'
<1> DEFINE last == DataStart + DataSize - 1
<1>1. code \in Seq(Byte) /\ Len(code) \in Nat /\ pos \in Nat \ {0}
  BY CodeIsBytes DEF BytesInv
<1>2. DataSize \in Nat /\ DataStart \in Nat \ {0} /\ last <= Len(code) /\ last \in Int
  <2>1. DataSize \in Nat
    BY DataSizeIsNat DEF PushData
  <2>2. DataStart \in Nat \ {0}
    BY <1>1, PrefixIsNat DEF DataStart
  <2>3. QED
    BY <2>1, <2>2 DEF PushData, Complete
<1>3. \A i \in DataStart .. last : i \in 1 .. Len(code)
  BY <1>1, <1>2
<1>4. SubSeq(code, DataStart, last) \in Strings
  <2>1. \A i \in DataStart .. last : code[i] \in Byte
    BY <1>1, <1>3, ElementOfSeq
  <2>2. QED
    BY <1>2, <2>1, SubSeqProperties DEF Strings
<1>5. stack' \in Seq(Strings)
  BY <1>4, AppendProperties DEF PushData, BytesInv
<1>6. code' = code /\ pos' = DataStart + DataSize
  BY DEF PushData, code
<1>7. pos' \in 1 .. Len(code') + 1
  BY <1>1, <1>2, <1>6
<1>8. QED
  BY <1>5, <1>7 DEF PushData, BytesInv

-----------------------------------------------------------------------------
(* Arithmetic.                                                             *)

LEMMA PowerIsPositive ==
    \A y \in Nat : PowerOf2[y] \in Nat \ {0}
<1> DEFINE X == Nat \ {0}
           D == [p \in Nat \X [Nat -> X] |-> IF p[1] = 0 THEN 1 ELSE 2 * p[2][p[1] - 1]]
<1>1. \A k \in Nat, g \in [Nat -> X] :
         D[<< k, g >>] = IF k = 0 THEN 1 ELSE 2 * g[k - 1]
  OBVIOUS
<1>2. \A k \in Nat, g \in [Nat -> X] :
         (IF k = 0 THEN 1 ELSE 2 * g[k - 1]) \in X
  OBVIOUS
<1>3. D \in [Nat \X [Nat -> X] -> X]
  <2>1. \A p \in Nat \X [Nat -> X] :
           (IF p[1] = 0 THEN 1 ELSE 2 * p[2][p[1] - 1]) \in X
    <3> TAKE p \in Nat \X [Nat -> X]
    <3>1. p[1] \in Nat /\ p[2] \in [Nat -> X]
      OBVIOUS
    <3> HIDE DEF X
    <3>2. QED
      BY <1>2, <3>1
  <2> HIDE DEF X
  <2>2. QED
    BY <2>1
<1>4. 1 \in X
  OBVIOUS
<1> HIDE DEF X, D
<1>5. ASSUME NEW k \in Nat, NEW g \in [Nat -> X], NEW h \in [Nat -> X],
             \A t \in Nat : t < k => g[t] = h[t]
      PROVE  D[<< k, g >>] = D[<< k, h >>]
  <2>1. CASE k = 0
    <3>1. D[<< k, g >>] = 1
      BY <1>1, <2>1
    <3>2. D[<< k, h >>] = 1
      BY <1>1, <2>1
    <3>3. QED
      BY <3>1, <3>2
  <2>2. CASE k # 0
    <3>1. D[<< k, g >>] = 2 * g[k - 1]
      BY <1>1, <2>2
    <3>2. D[<< k, h >>] = 2 * h[k - 1]
      BY <1>1, <2>2
    <3>3. g[k - 1] = h[k - 1]
      BY <1>5, <2>2
    <3>4. QED
      BY <3>1, <3>2, <3>3
  <2>3. QED
    BY <2>1, <2>2
<1>6. HasSolution(Nat, X, D)
  BY <1>3, <1>4, <1>5, NatRecursionExists
<1>7. PICK f \in [Nat -> X] : \A k \in Nat : f[k] = D[<< k, f >>]
  BY <1>6 DEF HasSolution
<1>8. f = [k \in Nat |-> IF k = 0 THEN 1 ELSE 2 * f[k - 1]]
  <2>1. ASSUME NEW k \in Nat
        PROVE  f[k] = IF k = 0 THEN 1 ELSE 2 * f[k - 1]
    <3>1. D[<< k, f >>] = IF k = 0 THEN 1 ELSE 2 * f[k - 1]
      BY <1>1, <1>7
    <3>2. QED
      BY <1>7, <3>1
  <2>2. QED
    BY <1>7, <2>1
<1> DEFINE w == PowerOf2
<1>9. w = [k \in Nat |-> IF k = 0 THEN 1 ELSE 2 * w[k - 1]]
  BY <1>8, ZenonT(30) DEF PowerOf2
<1> HIDE DEF w
<1> DEFINE T == {k \in Nat : w[k] \in Nat \ {0}}
<1>10. 0 \in T
  <2>1. w[0] = 1
    BY <1>9
  <2>2. QED
    BY <2>1
<1>11. ASSUME NEW k \in Nat, k \in T
       PROVE  k + 1 \in T
  <2>1. w[k + 1] = 2 * w[k]
    BY <1>9
  <2>2. QED
    BY <1>11, <2>1
<1> HIDE DEF T
<1>12. Nat \subseteq T
  BY <1>10, <1>11, Induction
<1>13. \A k \in Nat : w[k] \in Nat \ {0}
  BY <1>12 DEF T
<1>14. QED
  BY <1>13 DEF w

LEMMA MagnitudeIsNat ==
    ASSUME NEW x \in Int
    PROVE  Magnitude(x) \in Nat /\ (x # 0 => Magnitude(x) # 0)
  BY DEF Magnitude

LEMMA QuotientIsInt ==
    ASSUME NEW x \in Int, NEW y \in Int, y # 0
    PROVE  Quotient(x, y) \in Int
<1> DEFINE a == Magnitude(x)
           b == Magnitude(y)
<1>1. a \in Nat /\ b \in Nat \ {0}
  BY MagnitudeIsNat
<1> HIDE DEF a, b
<1>2. a \div b \in Int
  BY <1>1
<1>3. Quotient(x, y) = IF (x < 0) # (y < 0) THEN -(a \div b) ELSE a \div b
  BY DEF Quotient, a, b
<1>4. QED
  BY <1>2, <1>3

LEMMA TruthIsInt ==
    ASSUME NEW b
    PROVE  Truth(b) \in Int
  BY DEF Truth

LEMMA UnaryIsInt ==
    ASSUME NEW index \in 0 .. 7, NEW x \in Int
    PROVE  UnaryFunction(index, x) \in Int
<1>1. Magnitude(x) \in Int
  BY MagnitudeIsNat
<1>2. x + 1 \in Int /\ x - 1 \in Int /\ x * 2 \in Int /\ x \div 2 \in Int /\ -x \in Int
  OBVIOUS
<1>3. Truth(x = 0) \in Int /\ Truth(x # 0) \in Int
  BY DEF Truth
<1>4. QED
  BY <1>1, <1>2, <1>3 DEF UnaryFunction

LEMMA BinaryIsInt ==
    ASSUME NEW index \in 0 .. 17, NEW x \in Int, NEW y \in Int, Defined(index, y)
    PROVE  BinaryFunction(index, x, y) \in Int
<1>1. x + y \in Int /\ x - y \in Int /\ x * y \in Int
  OBVIOUS
<1>2. index \in {3, 4} => Quotient(x, y) \in Int /\ x - y * Quotient(x, y) \in Int
  <2>1. SUFFICES ASSUME index \in {3, 4}
                 PROVE  Quotient(x, y) \in Int /\ x - y * Quotient(x, y) \in Int
    OBVIOUS
  <2>2. Quotient(x, y) \in Int
    BY <2>1, QuotientIsInt DEF Defined
  <2>3. QED
    BY <2>2
<1>3. index \in {5, 6} => x * PowerOf2[y] \in Int /\ x \div PowerOf2[y] \in Int
  <2>1. SUFFICES ASSUME index \in {5, 6}
                 PROVE  x * PowerOf2[y] \in Int /\ x \div PowerOf2[y] \in Int
    OBVIOUS
  <2>2. PowerOf2[y] \in Nat \ {0}
    BY <2>1, PowerIsPositive DEF Defined, Width
  <2>3. QED
    BY <2>2
<1>4. CASE index \in 0 .. 6
  BY <1>1, <1>2, <1>3, <1>4 DEF BinaryFunction
<1>5. CASE index \in 7 .. 15
  <2>1. /\ Truth(x # 0 /\ y # 0) \in Int /\ Truth(x # 0 \/ y # 0) \in Int
        /\ Truth(x = y) \in Int /\ Truth(x # y) \in Int /\ Truth(x < y) \in Int
        /\ Truth(x > y) \in Int /\ Truth(x <= y) \in Int /\ Truth(x >= y) \in Int
    BY DEF Truth
  <2>2. QED
    BY <1>5, <2>1 DEF BinaryFunction
<1>6. CASE index \in 16 .. 17
  BY <1>6 DEF BinaryFunction
<1>7. QED
  BY <1>4, <1>5, <1>6

-----------------------------------------------------------------------------
(* The opcodes that replace values, and those with a VERIFY variant.       *)

LEMMA BoolIsString ==
    ASSUME NEW b
    PROVE  Bool(b) \in Seq(Byte)
<1>1. vFalse \in Seq(Byte)
  BY EmptySeq DEF vFalse
<1>2. OP.ONE \in Byte
  BY DEF OP, Byte
<1>3. vTrue \in Seq(Byte)
  BY <1>2, OneByte DEF vTrue
<1>4. QED
  BY <1>1, <1>3 DEF Bool

LEMMA NumericOpcodes ==
    /\ \A b \in Nat : b \in OP.ADD1 .. OP.NOTEQUAL0 => b - OP.ADD1 \in 0 .. 7
    /\ \A b \in Nat : b \in OP.ADD .. OP.MAX => b - OP.ADD \in 0 .. 17
<1>1. OP.ADD1 = 139 /\ OP.NOTEQUAL0 = 146 /\ OP.ADD = 147 /\ OP.MAX = 164
  BY DEF OP
<1>2. QED
  BY <1>1

LEMMA ReplacingTyped ==
    ASSUME ScriptsAreBytes, DigestsAreBytes, BytesInv,
           PushInteger \/ Dup \/ Drop \/ Depth \/ Size \/ Hash \/ NumericUnary \/ Within
    PROVE  BytesInv'
<1>1. Len(stack) \in Nat /\ (stack # << >> => Len(stack) >= 1) /\ stack \in Seq(Strings)
  BY LenProperties, EmptySeq DEF BytesInv
<1>2. ASSUME NEW opcodes, Reads(opcodes), Next1, InvalidParam
      PROVE  BytesInv'
  BY <1>2, StoppedTyped, OpcodeTyped
<1>3. ASSUME NEW opcodes, Reads(opcodes), Next1, NEW n \in 0 .. Len(stack),
             NEW value \in Seq(Byte), Replace(n, << value >>)
      PROVE  BytesInv'
  <2>1. << value >> \in Seq(Strings)
    BY OneString
  <2>2. Typed
    BY <1>3, <2>1, ReplaceTyped
  <2>3. QED
    BY <1>3, <2>2, OpcodeTyped
<1>4. 0 \in 0 .. Len(stack)
  BY <1>1
<1>5. CASE PushInteger
  <2>1. code[pos] \in Int /\ OP.ONE \in Int
    <3>1. code[pos] \in Nat
      BY <1>5, OpcodeIsByte DEF PushInteger
    <3>2. QED
      BY <3>1 DEF OP
  <2>2. code[pos] - OP.ONE + 1 \in Int
    BY <2>1
  <2>3. encodeScriptNumber(code[pos] - OP.ONE + 1) \in Seq(Byte)
    BY <2>2, EncodedIsBytes
  <2>4. QED
    BY <1>3, <1>4, <1>5, <2>3 DEF PushInteger
<1>6. CASE Dup
  <2>1. DupCount \in Nat
    BY DEF DupCount
  <2>2. CASE InvalidParam
    BY <1>2, <1>6, <2>2 DEF Dup
  <2>3. CASE ~ (Len(stack) < DupCount) /\ Replace(0, [i \in 1 .. DupCount |-> Top(i)])
    <3>1. \A i \in 1 .. DupCount : Top(i) \in Strings
      <4> TAKE i \in 1 .. DupCount
      <4>1. i \in 1 .. Len(stack)
        BY <1>1, <2>1, <2>3
      <4>2. QED
        BY <1>1, <4>1, TopIsString DEF Strings
    <3>2. [i \in 1 .. DupCount |-> Top(i)] \in Seq(Strings)
      BY <2>1, <3>1
    <3>3. Typed
      BY <1>4, <2>3, <3>2, ReplaceTyped
    <3>4. QED
      BY <1>6, <3>3, OpcodeTyped DEF Dup
  <2>4. QED
    BY <1>6, <2>2, <2>3 DEF Dup
<1>7. CASE Drop
  <2>1. DropCount \in Nat
    BY DEF DropCount
  <2>2. CASE InvalidParam
    BY <1>2, <1>7, <2>2 DEF Drop
  <2>3. CASE ~ (Len(stack) < DropCount) /\ Replace(DropCount, << >>)
    <3>1. DropCount \in 0 .. Len(stack) /\ << >> \in Seq(Strings)
      BY <1>1, <2>1, <2>3, EmptySeq
    <3>2. Typed
      BY <2>3, <3>1, ReplaceTyped
    <3>3. QED
      BY <1>7, <3>2, OpcodeTyped DEF Drop
  <2>4. QED
    BY <1>7, <2>2, <2>3 DEF Drop
<1>8. CASE Depth
  <2>1. encodeScriptNumber(Len(stack)) \in Seq(Byte)
    BY <1>1, EncodedIsBytes
  <2>2. QED
    BY <1>3, <1>4, <1>8, <2>1 DEF Depth
<1>9. CASE Size
  <2>1. CASE stack = << >>
    BY <1>2, <1>9, <2>1 DEF Size
  <2>2. CASE stack # << >>
    <3>1. Top(1) \in Seq(Byte)
      BY <1>1, <2>2, TopIsString
    <3>2. Len(Top(1)) \in Int
      BY <3>1, LenProperties
    <3>3. encodeScriptNumber(Len(Top(1))) \in Seq(Byte)
      BY <3>2, EncodedIsBytes
    <3>4. QED
      BY <1>3, <1>4, <1>9, <2>2, <3>3 DEF Size
  <2>3. QED
    BY <2>1, <2>2
<1>10. CASE Hash
  <2>1. CASE stack = << >>
    BY <1>2, <1>10, <2>1 DEF Hash
  <2>2. CASE stack # << >>
    <3>1. Top(1) \in Seq(Byte) /\ 1 \in 0 .. Len(stack)
      BY <1>1, <2>2, TopIsString
    <3>2. code[pos] \in Nat
      BY <1>10, OpcodeIsByte DEF Hash
    <3>3. Digest(code[pos], Top(1)) \in Seq(Byte)
      BY <3>1, <3>2 DEF DigestsAreBytes
    <3>4. QED
      BY <1>3, <1>10, <2>2, <3>1, <3>3 DEF Hash
  <2>3. QED
    BY <2>1, <2>2
<1>11. CASE NumericUnary
  <2>1. CASE stack = << >>
    BY <1>2, <1>11, <2>1 DEF NumericUnary
  <2>2. CASE stack # << >>
    <3>1. Number(1) \in Int /\ 1 \in 0 .. Len(stack)
      BY <1>1, <2>2, TopIsString
    <3>2. code[pos] \in Nat /\ code[pos] \in OP.ADD1 .. OP.NOTEQUAL0
      BY <1>11, OpcodeIsByte DEF NumericUnary
    <3>3. code[pos] - OP.ADD1 \in 0 .. 7
      BY <3>2, NumericOpcodes
    <3>4. encodeScriptNumber(UnaryFunction(code[pos] - OP.ADD1, Number(1))) \in Seq(Byte)
      BY <3>1, <3>3, UnaryIsInt, EncodedIsBytes
    <3>5. QED
      BY <1>3, <1>11, <2>2, <3>1, <3>4 DEF NumericUnary
  <2>3. QED
    BY <2>1, <2>2
<1>12. CASE Within
  <2>1. CASE Len(stack) < 3
    BY <1>2, <1>12, <2>1 DEF Within
  <2>2. CASE ~ (Len(stack) < 3)
    <3>1. 3 \in 0 .. Len(stack)
      BY <1>1, <2>2
    <3>2. QED
      BY <1>3, <1>12, <2>2, <3>1, BoolIsString DEF Within
  <2>3. QED
    BY <2>1, <2>2
<1>13. QED
  BY <1>5, <1>6, <1>7, <1>8, <1>9, <1>10, <1>11, <1>12

LEMMA JudgingTyped ==
    ASSUME ScriptsAreBytes, BytesInv, Equal \/ NumericBinary \/ CheckSig \/ CheckMultiSig
    PROVE  BytesInv'
<1>1. Len(stack) \in Nat /\ stack \in Seq(Strings)
  BY LenProperties DEF BytesInv
<1>2. ASSUME NEW opcodes, Reads(opcodes), Next1, InvalidParam \/ \E a \in Assertions : Abort(a)
      PROVE  BytesInv'
  <2>1. Typed
    BY <1>2, StoppedTyped
  <2>2. QED
    BY <1>2, <2>1, OpcodeTyped
<1>3. ASSUME NEW opcodes, Reads(opcodes), Next1, NEW n \in 0 .. Len(stack),
             NEW value \in Seq(Byte), NEW opcode, NEW err \in VerifyErrors,
             Verified(n, value, VerifyError(opcode, err))
      PROVE  BytesInv'
  <2>1. VerifyError(opcode, err) \in VerifyErrors \cup {"OK"}
    BY VerifyErrorKind
  <2>2. Typed
    BY <1>3, <2>1, VerifiedTyped
  <2>3. QED
    BY <1>3, <2>2, OpcodeTyped
<1>4. ~ (Len(stack) < 2) => 2 \in 0 .. Len(stack) /\ 1 \in 1 .. Len(stack) /\ 2 \in 1 .. Len(stack)
  BY <1>1
<1>5. /\ {"EQUALVERIFY", "NUMEQUALVERIFY", "CHECKSIGVERIFY", "CHECKMULTISIGVERIFY"}
             \subseteq VerifyErrors
      /\ {"undefined arithmetic", "SignatureChecker::check", "script_checkSig"}
             \subseteq Assertions
  BY DEF VerifyErrors, Assertions
<1>6. CASE Equal
  <2>1. CASE InvalidParam
    BY <1>2, <1>6, <2>1 DEF Equal
  <2>2. CASE ~ (Len(stack) < 2)
             /\ Verified(2, Bool(Top(1) = Top(2)), VerifyError(OP.EQUALVERIFY, "EQUALVERIFY"))
    <3>1. Bool(Top(1) = Top(2)) \in Seq(Byte)
      BY BoolIsString
    <3>2. "EQUALVERIFY" \in VerifyErrors
      BY <1>5
    <3>3. QED
      BY <1>3, <1>4, <1>6, <2>2, <3>1, <3>2 DEF Equal
  <2>3. QED
    BY <1>6, <2>1, <2>2 DEF Equal
<1>7. CASE NumericBinary
  <2> DEFINE index == code[pos] - OP.ADD
  <2>1. CASE InvalidParam \/ Abort("undefined arithmetic")
    <3>1. InvalidParam \/ \E a \in Assertions : Abort(a)
      BY <1>5, <2>1
    <3>2. QED
      BY <1>2, <1>7, <3>1 DEF NumericBinary
  <2>2. CASE /\ ~ (Len(stack) < 2) /\ Defined(index, Number(1))
             /\ Verified(2, encodeScriptNumber(BinaryFunction(index, Number(2), Number(1))),
                         VerifyError(OP.NUMEQUALVERIFY, "NUMEQUALVERIFY"))
    <3>1. Number(1) \in Int /\ Number(2) \in Int
      BY <1>1, <1>4, <2>2, TopIsString
    <3>2. code[pos] \in Nat /\ code[pos] \in OP.ADD .. OP.MAX
      BY <1>7, OpcodeIsByte DEF NumericBinary
    <3>3. index \in 0 .. 17
      BY <3>2, NumericOpcodes
    <3> HIDE DEF index
    <3>4. BinaryFunction(index, Number(2), Number(1)) \in Int
      BY <2>2, <3>1, <3>3, BinaryIsInt
    <3>5. encodeScriptNumber(BinaryFunction(index, Number(2), Number(1))) \in Seq(Byte)
      BY <3>4, EncodedIsBytes
    <3>6. "NUMEQUALVERIFY" \in VerifyErrors /\ Reads(OP.ADD .. OP.MAX) /\ Next1
      BY <1>5, <1>7 DEF NumericBinary
    <3>7. QED
      BY <1>3, <1>4, <2>2, <3>5, <3>6
  <2>3. QED
    BY <1>7, <2>1, <2>2 DEF NumericBinary
<1>8. CASE CheckSig
  <2>1. CASE InvalidParam \/ Abort("SignatureChecker::check") \/ Abort("script_checkSig")
    <3>1. InvalidParam \/ \E a \in Assertions : Abort(a)
      BY <1>5, <2>1
    <3>2. QED
      BY <1>2, <1>8, <3>1 DEF CheckSig
  <2>2. CASE ~ (Len(stack) < 2)
             /\ Verified(2, vTrue, VerifyError(OP.CHECKSIGVERIFY, "CHECKSIGVERIFY"))
    <3>1. vTrue \in Seq(Byte)
      <4>1. Bool(TRUE) = vTrue
        BY DEF Bool
      <4>2. QED
        BY <4>1, BoolIsString
    <3>2. "CHECKSIGVERIFY" \in VerifyErrors
      BY <1>5
    <3>3. QED
      BY <1>3, <1>4, <1>8, <2>2, <3>1, <3>2 DEF CheckSig
  <2>3. QED
    BY <1>8, <2>1, <2>2 DEF CheckSig
<1>9. CASE CheckMultiSig
  <2>1. CASE InvalidParam \/ Abort("SignatureChecker::check")
    <3>1. InvalidParam \/ \E a \in Assertions : Abort(a)
      BY <1>5, <2>1
    <3>2. QED
      BY <1>2, <1>9, <3>1 DEF CheckMultiSig
  <2>2. CASE MultiSigParams
             /\ \E b : Verified(MultiSigPops, Bool(b),
                                VerifyError(OP.CHECKMULTISIGVERIFY, "CHECKMULTISIGVERIFY"))
    <3>1. StackIsSeq
      BY <1>1, SeqOfItsValues DEF StackIsSeq
    <3>2. MultiSigPops \in 0 .. Len(stack)
      BY <2>2, <3>1, MaxKeysAssumption, PopsWithin
    <3>3. "CHECKMULTISIGVERIFY" \in VerifyErrors
      BY <1>5
    <3>4. PICK b : Verified(MultiSigPops, Bool(b),
                            VerifyError(OP.CHECKMULTISIGVERIFY, "CHECKMULTISIGVERIFY"))
      BY <2>2
    <3>5. QED
      BY <1>3, <1>9, <3>2, <3>3, <3>4, BoolIsString DEF CheckMultiSig
  <2>3. QED
    BY <1>9, <2>1, <2>2 DEF CheckMultiSig
<1>10. QED
  BY <1>6, <1>7, <1>8, <1>9

LEMMA RunningTyped ==
    ASSUME ScriptsAreBytes, BytesInv,
           PushTruncated \/ Noop \/ Return \/ Reserved \/ EmptyCode \/ StartOutput \/ Judge
    PROVE  BytesInv'
<1>1. Len(code) \in Nat
  BY CodeIsBytes DEF BytesInv
<1>2. CASE PushTruncated
  <2>1. code' = code /\ pos' = Len(code) + 1 /\ errcode' \in Errors
    BY <1>2 DEF PushTruncated, code, BytesInv, Errors
  <2>2. pos' \in 1 .. Len(code') + 1
    BY <1>1, <2>1
  <2>3. QED
    BY <1>2, <2>1, <2>2 DEF PushTruncated, BytesInv
<1>3. CASE Noop
  <2>1. Typed
    BY <1>3 DEF Noop, Typed, BytesInv
  <2>2. QED
    BY <1>3, <2>1, OpcodeTyped DEF Noop
<1>4. CASE Return
  <2>1. Typed
    BY <1>4 DEF Return, Typed, BytesInv, Errors
  <2>2. QED
    BY <1>4, <2>1, OpcodeTyped DEF Return
<1>5. CASE Reserved
  <2>1. Typed
    BY <1>5 DEF Reserved, Abort, Typed, BytesInv, Assertions
  <2>2. QED
    BY <1>5, <2>1, OpcodeTyped DEF Reserved
<1>6. CASE EmptyCode
  <2>1. code' = code
    BY <1>6 DEF EmptyCode, code
  <2>2. QED
    BY <1>6, <2>1 DEF EmptyCode, Abort, BytesInv, Assertions
<1>7. CASE StartOutput
  <2>1. scripts' = scripts /\ pos' = 1 /\ code' = scripts.output
    BY <1>7 DEF StartOutput, code
  <2>2. Len(scripts.output) \in Nat
    BY LenProperties DEF BytesInv, ScriptsAreBytes
  <2>3. pos' \in 1 .. Len(code') + 1
    BY <2>1, <2>2
  <2>4. QED
    BY <1>7, <2>3 DEF StartOutput, BytesInv
<1>8. CASE Judge
  <2>1. code' = code /\ phase' \in {"accepted", "rejected"}
    BY <1>8 DEF Judge, code
  <2>2. QED
    BY <1>8, <2>1 DEF Judge, BytesInv
<1>9. QED
  BY <1>2, <1>3, <1>4, <1>5, <1>6, <1>7, <1>8

LEMMA BytesInit ==
    ASSUME ScriptsAreBytes, Init
    PROVE  BytesInv
<1>1. Len(code) \in Nat
  BY CodeIsBytes DEF Init
<1>2. pos \in 1 .. Len(code) + 1
  BY <1>1 DEF Init
<1>3. QED
  BY <1>2, EmptySeq DEF Init, BytesInv, Errors

LEMMA BytesNext ==
    ASSUME ScriptsAreBytes, DigestsAreBytes, BytesInv, [Next]_vars
    PROVE  BytesInv'
<1>1. CASE PushData
  BY <1>1, PushDataTyped
<1>2. CASE PushInteger \/ Dup \/ Drop \/ Depth \/ Size \/ Hash \/ NumericUnary \/ Within
  BY <1>2, ReplacingTyped
<1>3. CASE Equal \/ NumericBinary \/ CheckSig \/ CheckMultiSig
  BY <1>3, JudgingTyped
<1>4. CASE PushTruncated \/ Noop \/ Return \/ Reserved \/ EmptyCode \/ StartOutput \/ Judge
  BY <1>4, RunningTyped
<1>5. CASE UNCHANGED vars
  BY <1>5 DEF vars, BytesInv, code
<1>6. QED
  BY <1>1, <1>2, <1>3, <1>4, <1>5 DEF Next

\* Whatever bytes the scripts hold and whatever the hash functions compute: every
\* value on the stack is a sequence of bytes, reading never leaves the script, and
\* only the listed errors and assertions end it (the handlers of
\* ScriptFunctions.cpp, encodeScriptNumber).
THEOREM TypeCorrect ==
    ASSUME ScriptsAreBytes, DigestsAreBytes
    PROVE  Spec => []TypeOK
<1>1. Init => BytesInv
  BY BytesInit
<1>2. BytesInv /\ [Next]_vars => BytesInv'
  BY BytesNext
<1>3. BytesInv => TypeOK
  <2> SUFFICES ASSUME BytesInv
               PROVE  TypeOK
    OBVIOUS
  <2>1. ASSUME NEW i \in DOMAIN stack, NEW j \in DOMAIN stack[i]
        PROVE  stack[i][j] \in Byte
    <3>1. stack[i] \in Seq(Byte)
      BY ElementOfSeq, LenProperties DEF BytesInv, Strings
    <3>2. QED
      BY <3>1, ElementOfSeq, LenProperties
  <2>2. QED
    BY <2>1 DEF BytesInv, TypeOK
<1>4. QED
  BY <1>1, <1>2, <1>3, PTL DEF Spec

-----------------------------------------------------------------------------
(* Reading what the writers have written.                                  *)

\* The bytes w are in the code at a position.
Holds(p, w) == /\ p + Len(w) - 1 <= Len(code)
               /\ \A i \in 1 .. Len(w) : code[p + i - 1] = w[i]

\* Strings of a length that fits the longest push opcode.
Pushable == {s \in Seq(Byte) : Len(s) < 256 ^ 4}

LEMMA WrittenIsBytes ==
    ASSUME NEW s \in Pushable
    PROVE  /\ WrittenString(s) \in Seq(Byte) /\ PushHeader(Len(s)) \in Seq(Byte)
           /\ Len(WrittenString(s)) = Len(PushHeader(Len(s))) + Len(s)
           /\ Len(PushHeader(Len(s))) \in Nat \ {0} /\ Len(s) \in Nat /\ s \in Seq(Byte)
           /\ \A i \in 1 .. Len(PushHeader(Len(s))) :
                 WrittenString(s)[i] = PushHeader(Len(s))[i]
           /\ \A i \in 1 .. Len(s) :
                 WrittenString(s)[Len(PushHeader(Len(s))) + i] = s[i]
<1> DEFINE h == PushHeader(Len(s))
<1>1. s \in Seq(Byte) /\ Len(s) \in Nat /\ Len(s) < 256 ^ 4
  BY LenProperties DEF Pushable
<1>2. h \in Seq(Byte) /\ Len(h) = LengthBytes(h[1]) + 1 /\ LengthBytes(h[1]) \in Nat
  BY <1>1, HeaderNamesLength
<1> HIDE DEF h
<1>3. /\ h \o s \in Seq(Byte) /\ Len(h \o s) = Len(h) + Len(s)
      /\ \A i \in 1 .. Len(h) + Len(s) :
            (h \o s)[i] = IF i <= Len(h) THEN h[i] ELSE s[i - Len(h)]
  BY <1>1, <1>2, ConcatProperties
<1>4. Len(h) \in Nat \ {0}
  BY <1>2
<1>5. \A i \in 1 .. Len(h) : (h \o s)[i] = h[i]
  BY <1>1, <1>3, <1>4
<1>6. \A i \in 1 .. Len(s) : (h \o s)[Len(h) + i] = s[i]
  <2> TAKE i \in 1 .. Len(s)
  <2>1. Len(h) + i \in 1 .. Len(h) + Len(s) /\ ~ (Len(h) + i <= Len(h)) /\ Len(h) + i - Len(h) = i
    BY <1>1, <1>4
  <2>2. QED
    BY <1>3, <2>1
<1>7. WrittenString(s) = h \o s
  BY DEF WrittenString, h
<1>8. QED
  BY <1>1, <1>2, <1>3, <1>4, <1>5, <1>6, <1>7 DEF h

\* A part of the code that holds some bytes.
LEMMA SubSeqIs ==
    ASSUME code \in Seq(Byte), NEW w \in Seq(Byte), NEW p \in Nat \ {0},
           NEW last \in Int, last = p + Len(w) - 1, last <= Len(code),
           \A i \in 1 .. Len(w) : code[p + i - 1] = w[i]
    PROVE  SubSeq(code, p, last) = w
<1>1. Len(code) \in Nat /\ Len(w) \in Nat
  BY LenProperties
<1>2. \A i \in p .. last : i \in 1 .. Len(code)
  BY <1>1
<1>3. \A i \in p .. last : code[i] \in Byte
  BY <1>2, ElementOfSeq
<1> DEFINE t == SubSeq(code, p, last)
<1>4. /\ t \in Seq(Byte) /\ Len(t) = (IF p <= last THEN last - p + 1 ELSE 0)
      /\ \A i \in 1 .. last - p + 1 : t[i] = code[p + i - 1]
  BY <1>3, SubSeqProperties
<1> HIDE DEF t
<1>5. Len(t) = Len(w) /\ last - p + 1 = Len(w)
  BY <1>1, <1>4
<1>6. \A i \in 1 .. Len(t) : t[i] = w[i]
  BY <1>4, <1>5
<1>7. t = w
  BY <1>4, <1>5, <1>6, SeqEqual
<1>8. QED
  BY <1>7 DEF t

LEMMA StringRead ==
    ASSUME code \in Seq(Byte), pos \in Nat \ {0}, NEW s \in Pushable,
           Holds(pos, WrittenString(s))
    PROVE  /\ pos <= Len(code) /\ code[pos] \in PushOpcodes
           /\ Complete
           /\ DataStart + DataSize = pos + Len(WrittenString(s))
           /\ SubSeq(code, DataStart, DataStart + DataSize - 1) = s
<1> DEFINE h == PushHeader(Len(s))
           w == WrittenString(s)
<1>1. /\ w \in Seq(Byte) /\ h \in Seq(Byte) /\ Len(w) = Len(h) + Len(s)
      /\ Len(h) \in Nat \ {0} /\ Len(s) \in Nat /\ s \in Seq(Byte)
      /\ \A i \in 1 .. Len(h) : w[i] = h[i]
      /\ \A i \in 1 .. Len(s) : w[Len(h) + i] = s[i]
  BY WrittenIsBytes
<1>2. /\ h[1] \in 0 .. OP.PUSHDATA4
      /\ Len(h) = LengthBytes(h[1]) + 1 /\ LengthBytes(h[1]) \in Nat
      /\ LengthBytes(h[1]) = 0 => h[1] = Len(s)
      /\ LengthBytes(h[1]) # 0 => Value(SubSeq(h, 2, Len(h))) = Len(s)
  BY <1>1, HeaderNamesLength DEF Pushable
<1>3. /\ pos + Len(w) - 1 <= Len(code) /\ Len(code) \in Nat
      /\ \A i \in 1 .. Len(w) : code[pos + i - 1] = w[i]
  BY LenProperties DEF Holds
<1> HIDE DEF h, w
<1>4. \A i \in 1 .. Len(h) : code[pos + i - 1] = h[i]
  <2> TAKE i \in 1 .. Len(h)
  <2>1. i \in 1 .. Len(w)
    BY <1>1
  <2>2. QED
    BY <1>1, <1>3, <2>1
<1>5. code[pos] = h[1]
  <2>1. 1 \in 1 .. Len(h) /\ pos + 1 - 1 = pos
    BY <1>1
  <2>2. QED
    BY <1>4, <2>1
<1>6. pos <= Len(code) /\ code[pos] \in PushOpcodes
  BY <1>1, <1>2, <1>3, <1>5 DEF PushOpcodes
<1>7. Prefix = LengthBytes(h[1]) /\ Len(h) = Prefix + 1 /\ Prefix \in Nat
  BY <1>2, <1>5, PrefixIsLengthBytes
<1>8. DataSize = Len(s)
  <2>1. CASE Prefix = 0
    BY <1>2, <1>5, <1>7, <2>1 DEF DataSize
  <2>2. CASE Prefix # 0
    <3> DEFINE d == SubSeq(h, 2, Len(h))
    <3>1. \A i \in 2 .. Len(h) : h[i] \in Byte
      BY <1>1, ElementOfSeq
    <3>2. 2 \in Int /\ Len(h) \in Int /\ Len(h) - 2 + 1 = Prefix /\ 2 <= Len(h)
      BY <1>1, <1>7, <2>2
    <3>3. /\ d \in Seq(Byte) /\ Len(d) = Prefix
          /\ \A i \in 1 .. Prefix : d[i] = h[2 + i - 1]
      BY <3>1, <3>2, SubSeqProperties
    <3> HIDE DEF d
    <3>4. \A i \in 1 .. Len(d) : code[(pos + 1) + i - 1] = d[i]
      <4> TAKE i \in 1 .. Len(d)
      <4>1. i + 1 \in 1 .. Len(h) /\ pos + (i + 1) - 1 = (pos + 1) + i - 1 /\ 2 + i - 1 = i + 1
        BY <1>7, <3>3
      <4>2. code[pos + (i + 1) - 1] = h[i + 1]
        BY <1>4, <4>1
      <4>3. d[i] = h[2 + i - 1]
        BY <3>3
      <4>4. QED
        BY <4>1, <4>2, <4>3
    <3>5. /\ pos + 1 \in Nat \ {0} /\ pos + Prefix \in Int
          /\ pos + Prefix = (pos + 1) + Len(d) - 1 /\ pos + Prefix <= Len(code)
      <4>1. Len(d) = Prefix
        BY <3>3
      <4>2. /\ Prefix \in Nat /\ Len(h) = Prefix + 1 /\ Len(s) \in Nat /\ Len(code) \in Nat
            /\ pos + (Len(h) + Len(s)) - 1 <= Len(code)
        BY <1>1, <1>3, <1>7
      <4>3. QED
        BY <4>1, <4>2
    <3>6. SubSeq(code, pos + 1, pos + Prefix) = d
      BY <3>3, <3>4, <3>5, SubSeqIs
    <3>7. Value(d) = Len(s)
      BY <1>2, <1>7, <2>2 DEF d
    <3>8. QED
      BY <2>2, <3>6, <3>7 DEF DataSize
  <2>3. QED
    BY <2>1, <2>2
<1>9. /\ DataStart = pos + Len(h) /\ DataStart + DataSize = pos + Len(w)
      /\ DataStart \in Nat \ {0} /\ DataStart + DataSize - 1 <= Len(code)
      /\ pos + Prefix <= Len(code)
  <2>1. /\ Prefix \in Nat /\ Len(h) = Prefix + 1 /\ Len(s) \in Nat /\ Len(code) \in Nat
        /\ pos + Len(w) - 1 <= Len(code) /\ Len(w) = Len(h) + Len(s)
    BY <1>1, <1>3, <1>7
  <2>2. DataStart = pos + 1 + Prefix
    BY DEF DataStart
  <2>3. DataSize = Len(s)
    BY <1>8
  <2>4. QED
    BY <2>1, <2>2, <2>3
<1>10. \A i \in 1 .. Len(s) : code[DataStart + i - 1] = s[i]
  <2> TAKE i \in 1 .. Len(s)
  <2>1. Len(h) + i \in 1 .. Len(w) /\ pos + (Len(h) + i) - 1 = DataStart + i - 1
    BY <1>1, <1>9
  <2>2. code[pos + (Len(h) + i) - 1] = w[Len(h) + i]
    BY <1>3, <2>1
  <2>3. QED
    BY <1>1, <2>1, <2>2
<1>11. SubSeq(code, DataStart, DataStart + DataSize - 1) = s
  <2>1. DataStart + DataSize - 1 \in Int /\ DataStart + DataSize - 1 = DataStart + Len(s) - 1
    BY <1>1, <1>8, <1>9
  <2>2. QED
    BY <1>1, <1>9, <1>10, <2>1, SubSeqIs
<1>12. QED
  BY <1>6, <1>9, <1>11 DEF Complete, w

-----------------------------------------------------------------------------
(* Which handler runs.                                                     *)

\* The machine is between two instructions of a script.
Reading(p) == /\ Running /\ errcode = "OK" /\ pos = p
              /\ p \in Nat \ {0} /\ p <= Len(code)
              /\ code \in Seq(Byte)

LEMMA OpcodeValues ==
    /\ OP.PUSHDATA4 = 78 /\ OP.NEGATE1 = 79 /\ OP.ONE = 81 /\ OP.SIXTEEN = 96
    /\ OP.NOP = 97 /\ OP.RETURN = 106 /\ OP.DROP2 = 109 /\ OP.DUP2 = 110 /\ OP.DUP3 = 111
    /\ OP.DEPTH = 116 /\ OP.DROP = 117 /\ OP.DUP = 118 /\ OP.SIZE = 130 /\ OP.EQUAL = 135
    /\ OP.EQUALVERIFY = 136 /\ OP.ADD1 = 139 /\ OP.NOTEQUAL0 = 146 /\ OP.ADD = 147
    /\ OP.MAX = 164 /\ OP.WITHIN = 165 /\ OP.RIPEMD160 = 166 /\ OP.HASH160 = 169
    /\ OP.HASH256 = 170 /\ OP.CHECKSIG = 172 /\ OP.CHECKSIGVERIFY = 173
    /\ OP.CHECKMULTISIG = 174 /\ OP.CHECKMULTISIGVERIFY = 175
    /\ OP.NUMEQUALVERIFY = 157
  BY DEF OP

LEMMA HandlerOf ==
    ASSUME NEW p, Reading(p), Next
    PROVE  \/ (PushData \/ PushTruncated) /\ code[pos] \in 0 .. 78
           \/ PushInteger /\ code[pos] \in {79} \cup 81 .. 96
           \/ Noop /\ code[pos] = 97
           \/ Return /\ code[pos] = 106
           \/ Drop /\ code[pos] \in {109, 117}
           \/ Dup /\ code[pos] \in {110, 111, 118}
           \/ Depth /\ code[pos] = 116
           \/ Size /\ code[pos] = 130
           \/ Equal /\ code[pos] \in {135, 136}
           \/ NumericUnary /\ code[pos] \in 139 .. 146
           \/ NumericBinary /\ code[pos] \in 147 .. 164
           \/ Within /\ code[pos] = 165
           \/ Hash /\ code[pos] \in 166 .. 170
           \/ CheckSig /\ code[pos] \in {172, 173}
           \/ CheckMultiSig /\ code[pos] \in {174, 175}
           \/ Reserved /\ code[pos] \notin Handled
<1>1. ~ EmptyCode /\ ~ Ended
  <2>1. Len(code) \in Nat /\ Len(code) # 0
    BY LenProperties DEF Reading
  <2>2. code # << >>
    BY <2>1, EmptySeq
  <2>3. QED
    BY <2>1, <2>2 DEF EmptyCode, Ended, Reading
<1>2. ~ StartOutput /\ ~ Judge
  BY <1>1 DEF StartOutput, Judge
<1>3. CASE PushData \/ PushTruncated
  BY <1>3, OpcodeValues DEF PushData, PushTruncated, Reads, PushOpcodes
<1>4. CASE PushInteger
  BY <1>4, OpcodeValues DEF PushInteger, Reads, IntegerOpcodes
<1>5. CASE Noop \/ Return \/ Drop
  <2>1. CASE Noop
    BY <2>1, OpcodeValues DEF Noop, Reads
  <2>2. CASE Return
    BY <2>2, OpcodeValues DEF Return, Reads
  <2>3. CASE Drop
    BY <2>3, OpcodeValues, SMTT(40) DEF Drop, Reads
  <2>4. QED
    BY <1>5, <2>1, <2>2, <2>3
<1>6. CASE Dup
  <2>1. code[pos] \in DupOpcodes
    BY <1>6 DEF Dup, Reads
  <2>2. code[pos] \in {110, 111, 118}
    BY <2>1, OpcodeValues DEF DupOpcodes
  <2>3. QED
    BY <1>6, <2>2
<1>7. CASE Depth \/ Size \/ Equal
  BY <1>7, OpcodeValues DEF Depth, Size, Equal, Reads
<1>8. CASE NumericUnary
  BY <1>8, OpcodeValues DEF NumericUnary, Reads
<1>9. CASE NumericBinary
  BY <1>9, OpcodeValues DEF NumericBinary, Reads
<1>10. CASE Within
  BY <1>10, OpcodeValues DEF Within, Reads
<1>11. CASE Hash
  BY <1>11, OpcodeValues DEF Hash, Reads
<1>12. CASE CheckSig
  BY <1>12, OpcodeValues DEF CheckSig, Reads
<1>13. CASE CheckMultiSig
  BY <1>13, OpcodeValues DEF CheckMultiSig, Reads
<1>14. CASE Reserved
  BY <1>14 DEF Reserved, Reads
<1>15. QED
  BY <1>1, <1>2, <1>3, <1>4, <1>5, <1>6, <1>7, <1>8, <1>9, <1>10, <1>11, <1>12, <1>13, <1>14
     DEF Next

LEMMA OnlyHandler ==
    ASSUME NEW p, Reading(p), Next
    PROVE  /\ code[p] \in 0 .. 78 => PushData \/ PushTruncated
           /\ code[p] \in {79} \cup 81 .. 96 => PushInteger
           /\ code[p] = 97 => Noop
           /\ code[p] = 118 => Dup
           /\ code[p] = 136 => Equal
           /\ code[p] \in 147 .. 164 => NumericBinary
           /\ code[p] = 169 => Hash
           /\ code[p] = 172 => CheckSig
           /\ code[p] = 174 => CheckMultiSig
<1>1. pos = p /\ p \in 1 .. Len(code) /\ code \in Seq(Byte)
  BY LenProperties DEF Reading
<1>2. code[p] \in 0 .. 255
  BY <1>1, ElementOfSeq DEF Byte
<1>3. \A b \in 0 .. 78 \cup {79} \cup 81 .. 96 \cup {97, 118, 136, 172, 174} : b \in Handled
  BY OpcodeValues DEF Handled, PushOpcodes, IntegerOpcodes, DupOpcodes
<1>4. 147 .. 164 \subseteq Handled /\ 169 \in Handled
  BY OpcodeValues DEF Handled
<1> DEFINE c == code[p]
<1>5. /\ c \in Int
      /\ \/ (PushData \/ PushTruncated) /\ c \in 0 .. 78
         \/ PushInteger /\ c \in {79} \cup 81 .. 96
         \/ Noop /\ c = 97
         \/ Return /\ c = 106
         \/ Drop /\ c \in {109, 117}
         \/ Dup /\ c \in {110, 111, 118}
         \/ Depth /\ c = 116
         \/ Size /\ c = 130
         \/ Equal /\ c \in {135, 136}
         \/ NumericUnary /\ c \in 139 .. 146
         \/ NumericBinary /\ c \in 147 .. 164
         \/ Within /\ c = 165
         \/ Hash /\ c \in 166 .. 170
         \/ CheckSig /\ c \in {172, 173}
         \/ CheckMultiSig /\ c \in {174, 175}
         \/ Reserved /\ c \notin Handled
  <2>1. c = code[pos] /\ c \in Int
    <3>1. c = code[pos]
      BY <1>1
    <3>2. c \in 0 .. 255
      BY <1>2
    <3> HIDE DEF c
    <3>3. QED
      BY <3>1, <3>2
  <2> HIDE DEF c
  <2>2. QED
    BY <2>1, HandlerOf
<1> HIDE DEF c
<1>6. /\ c \in 0 .. 78 => PushData \/ PushTruncated
      /\ c \in {79} \cup 81 .. 96 => PushInteger
      /\ c = 97 => Noop
      /\ c = 118 => Dup
      /\ c = 136 => Equal
      /\ c \in 147 .. 164 => NumericBinary
      /\ c = 169 => Hash
      /\ c = 172 => CheckSig
      /\ c = 174 => CheckMultiSig
  BY <1>3, <1>4, <1>5
<1>7. QED
  BY <1>6 DEF c

\* A machine that has stopped stays as it is.
LEMMA Stopped ==
    ASSUME ~Running, [Next]_vars
    PROVE  UNCHANGED vars
  BY DEF Next, Reads, PushData, PushTruncated, PushInteger, Equal, Dup, Drop, Depth, Size,
         Hash, NumericUnary, NumericBinary, Within, CheckSig, CheckMultiSig, Noop, Return,
         Reserved, EmptyCode, StartOutput, Judge, Ended

\* At the end of a script that has something in it, and after an error.
LEMMA ScriptEnds ==
    ASSUME Running, code \in Seq(Byte), code # << >>,
           errcode # "OK" \/ pos = Len(code) + 1, Next
    PROVE  \/ phase = "input" /\ StartOutput
           \/ phase = "output" /\ Judge
<1>1. ASSUME NEW opcodes, Reads(opcodes)
      PROVE  FALSE
  <2>1. errcode = "OK" /\ pos <= Len(code) /\ pos = Len(code) + 1
    BY <1>1 DEF Reads
  <2>2. Len(code) \in Nat
    BY LenProperties
  <2>3. QED
    BY <2>1, <2>2
<1>2. QED
  BY <1>1
     DEF Next, PushData, PushTruncated, PushInteger, Equal, Dup, Drop, Depth, Size,
         Hash, NumericUnary, NumericBinary, Within, CheckSig, CheckMultiSig, Noop, Return,
         Reserved, EmptyCode, StartOutput, Judge, Ended, Running

-----------------------------------------------------------------------------
(* What the code holds, and the values on top.                             *)

LEMMA WholeHeld ==
    ASSUME code \in Seq(Byte)
    PROVE  Holds(1, code)
<1>1. Len(code) \in Nat
  BY LenProperties
<1>2. 1 + Len(code) - 1 = Len(code) /\ \A i \in 1 .. Len(code) : 1 + i - 1 = i
  BY <1>1
<1>3. QED
  BY <1>1, <1>2 DEF Holds

LEMMA PartsHeld ==
    ASSUME NEW p \in Nat \ {0}, NEW a \in Seq(Byte), NEW b \in Seq(Byte), Holds(p, a \o b),
           code \in Seq(Byte)
    PROVE  /\ Holds(p, a) /\ Holds(p + Len(a), b) /\ p + Len(a) \in Nat \ {0}
           /\ Len(a \o b) = Len(a) + Len(b)
<1>1. Len(code) \in Nat /\ Len(a) \in Nat /\ Len(b) \in Nat
  BY LenProperties
<1> DEFINE c == a \o b
<1>2. /\ Len(c) = Len(a) + Len(b)
      /\ \A i \in 1 .. Len(a) + Len(b) : c[i] = IF i <= Len(a) THEN a[i] ELSE b[i - Len(a)]
  BY ConcatProperties
<1>3. p + Len(c) - 1 <= Len(code) /\ \A i \in 1 .. Len(c) : code[p + i - 1] = c[i]
  BY DEF Holds
<1> HIDE DEF c
<1>4. \A i \in 1 .. Len(a) : code[p + i - 1] = a[i]
  <2>1. \A i \in 1 .. Len(a) : i \in 1 .. Len(c) /\ i \in 1 .. Len(a) + Len(b) /\ i <= Len(a)
    BY <1>1, <1>2
  <2>2. QED
    BY <1>2, <1>3, <2>1
<1>5. ASSUME NEW i \in 1 .. Len(b)
      PROVE  code[(p + Len(a)) + i - 1] = b[i]
  <2>1. /\ Len(a) + i \in 1 .. Len(c) /\ ~ (Len(a) + i <= Len(a)) /\ Len(a) + i - Len(a) = i
        /\ p + (Len(a) + i) - 1 = (p + Len(a)) + i - 1
    BY <1>1, <1>2
  <2>2. code[p + (Len(a) + i) - 1] = c[Len(a) + i]
    BY <1>3, <2>1
  <2>3. c[Len(a) + i] = b[i]
    BY <1>2, <2>1
  <2>4. QED
    BY <2>1, <2>2, <2>3
<1>6. p + Len(a) - 1 <= Len(code) /\ (p + Len(a)) + Len(b) - 1 <= Len(code)
  BY <1>1, <1>2, <1>3
<1> DEFINE q == p + Len(a)
<1>7. q \in Nat \ {0} /\ q + Len(b) - 1 <= Len(code) /\ \A i \in 1 .. Len(b) : code[q + i - 1] = b[i]
  <2>1. q \in Nat \ {0}
    BY <1>1
  <2>2. QED
    BY <1>5, <1>6, <2>1
<1>8. Holds(p, a)
  BY <1>4, <1>6 DEF Holds
<1>9. Holds(q, b)
  <2> HIDE DEF q
  <2>1. QED
    BY <1>7 DEF Holds
<1>10. QED
  BY <1>2, <1>7, <1>8, <1>9 DEF c

LEMMA OneByteHeld ==
    ASSUME NEW p \in Nat \ {0}, NEW b \in Byte, Holds(p, << b >>)
    PROVE  p <= Len(code) /\ code[p] = b
<1>1. Len(<< b >>) = 1 /\ << b >>[1] = b
  OBVIOUS
<1> DEFINE w == << b >>
<1>2. p + Len(w) - 1 <= Len(code) /\ \A i \in 1 .. Len(w) : code[p + i - 1] = w[i]
  BY DEF Holds
<1>3. Len(w) = 1 /\ w[1] = b
  BY <1>1
<1> HIDE DEF w
<1>4. p + 1 - 1 = p
  OBVIOUS
<1>5. QED
  BY <1>2, <1>3, <1>4

LEMMA TwoBytesHeld ==
    ASSUME NEW p \in Nat \ {0}, NEW b \in Byte, NEW c \in Byte, Holds(p, << b, c >>)
    PROVE  p + 1 <= Len(code) /\ code[p] = b /\ code[p + 1] = c
<1> DEFINE w == << b, c >>
<1>1. Len(w) = 2 /\ w[1] = b /\ w[2] = c
  OBVIOUS
<1>2. p + Len(w) - 1 <= Len(code) /\ \A i \in 1 .. Len(w) : code[p + i - 1] = w[i]
  BY DEF Holds
<1> HIDE DEF w
<1>3. p + 1 - 1 = p /\ p + 2 - 1 = p + 1 /\ 1 \in 1 .. Len(w) /\ 2 \in 1 .. Len(w)
  BY <1>1
<1>4. code[p + 1 - 1] = w[1] /\ code[p + 2 - 1] = w[2] /\ p + 2 - 1 <= Len(code)
  BY <1>1, <1>2, <1>3
<1>5. QED
  BY <1>1, <1>3, <1>4

LEMMA TopOne ==
    ASSUME NEW t \in Seq(Strings), NEW x \in Strings, stack = Append(t, x)
    PROVE  /\ Len(t) \in Nat /\ Len(stack) = Len(t) + 1 /\ stack # << >>
           /\ Top(1) = x /\ Below(1) = t
<1>1. /\ Len(t) \in Nat /\ Append(t, x) \in Seq(Strings) /\ Len(Append(t, x)) = Len(t) + 1
      /\ Append(t, x)[Len(t) + 1] = x
  BY LenProperties, AppendProperties
<1>2. Len(stack) = Len(t) + 1 /\ stack[Len(t) + 1] = x
  BY <1>1
<1>3. Top(1) = x
  <2>1. Len(stack) + 1 - 1 = Len(t) + 1
    BY <1>1, <1>2
  <2>2. QED
    BY <1>2, <2>1 DEF Top
<1>4. Below(1) = t
  <2>1. Len(stack) - 1 = Len(t)
    BY <1>1, <1>2
  <2>2. SubSeq(Append(t, x), 1, Len(t)) = t
    OBVIOUS
  <2>3. QED
    BY <2>1, <2>2 DEF Below
<1>5. stack # << >>
  BY <1>1, <1>2, EmptySeq
<1>6. QED
  BY <1>1, <1>2, <1>3, <1>4, <1>5

LEMMA TopTwo ==
    ASSUME NEW t \in Seq(Strings), NEW x \in Strings, NEW y \in Strings,
           stack = Append(Append(t, x), y)
    PROVE  /\ Len(t) \in Nat /\ Len(stack) = Len(t) + 2 /\ Top(1) = y /\ Top(2) = x
           /\ Below(1) = Append(t, x) /\ Below(2) = t
<1> DEFINE u == Append(t, x)
<1>1. /\ Len(t) \in Nat /\ u \in Seq(Strings) /\ Len(u) = Len(t) + 1
      /\ u[Len(t) + 1] = x
  BY LenProperties, AppendProperties
<1>2. SubSeq(Append(u, y), 1, Len(t)) = t
  OBVIOUS
<1> HIDE DEF u
<1>3. stack = Append(u, y)
  BY DEF u
<1>4. Len(u) \in Nat /\ Len(stack) = Len(u) + 1 /\ Top(1) = y /\ Below(1) = u
  BY <1>1, <1>3, TopOne
<1>5. Append(u, y)[Len(t) + 1] = u[Len(t) + 1]
  BY <1>1, AppendProperties
<1>6. Top(2) = x
  <2>1. Len(stack) + 1 - 2 = Len(t) + 1
    BY <1>1, <1>4
  <2>2. QED
    BY <1>1, <1>3, <1>5, <2>1 DEF Top
<1>7. Below(2) = t
  <2>1. Len(stack) - 2 = Len(t)
    BY <1>1, <1>4
  <2>2. QED
    BY <1>2, <1>3, <2>1 DEF Below
<1>8. QED
  BY <1>1, <1>4, <1>6, <1>7 DEF u

-----------------------------------------------------------------------------
(* What one instruction does.                                              *)

\* The n bytes of an instruction push a value.
Pushed(s, n) == /\ stack' = Append(stack, s) /\ pos' = pos + n
                /\ UNCHANGED << scripts, phase, errcode, failed >>

LEMMA StringStep ==
    ASSUME NEW p, Reading(p), NEW s \in Pushable, Holds(p, WrittenString(s)), Next
    PROVE  Pushed(s, Len(WrittenString(s)))
<1>1. code \in Seq(Byte) /\ pos \in Nat \ {0} /\ pos = p
  BY DEF Reading
<1>2. Holds(pos, WrittenString(s))
  BY <1>1
<1>3. /\ code[pos] \in PushOpcodes /\ Complete
      /\ DataStart + DataSize = pos + Len(WrittenString(s))
      /\ SubSeq(code, DataStart, DataStart + DataSize - 1) = s
  BY <1>1, <1>2, StringRead
<1>4. PushData \/ PushTruncated
  <2>1. code[p] \in 0 .. 78
    BY <1>1, <1>3, OpcodeValues DEF PushOpcodes
  <2>2. QED
    BY <2>1, OnlyHandler
<1>5. PushData
  BY <1>3, <1>4 DEF PushTruncated
<1>6. QED
  BY <1>3, <1>5 DEF PushData, Pushed

LEMMA NothingBelow ==
    ASSUME stack \in Seq(Strings)
    PROVE  Below(0) = stack
<1>1. Len(stack) - 0 = Len(stack)
  BY LenProperties
<1>2. SubSeq(stack, 1, Len(stack)) = stack
  BY SubSeqFull
<1>3. QED
  BY <1>1, <1>2 DEF Below

LEMMA ReplacedByOne ==
    ASSUME stack \in Seq(Strings), NEW n, Below(n) \in Seq(Strings), NEW x \in Strings,
           Replace(n, << x >>)
    PROVE  stack' = Append(Below(n), x) /\ UNCHANGED << errcode, failed >>
<1> DEFINE t == Below(n)
<1>1. stack' = t \o << x >> /\ UNCHANGED << errcode, failed >>
  BY DEF Replace
<1>2. t \in Seq(Strings)
  OBVIOUS
<1> HIDE DEF t
<1>3. t \o << x >> = Append(t, x)
  BY <1>2
<1>4. QED
  BY <1>1, <1>3 DEF t

\* The three ways an integer is written push the same bytes.
LEMMA WrittenIntegerCases ==
    ASSUME NEW v \in Int
    PROVE  \/ v \in {-1} \cup 1 .. 16 /\ WrittenInteger(v) = << v + 80 >> /\ v + 80 \in Byte
           \/ WrittenInteger(v) = WrittenString(encodeScriptNumber(v))
<1>1. CASE v = -1 \/ v \in 1 .. 16
  <2>1. v + 80 \in Byte /\ v + 81 - 1 = v + 80
    BY <1>1 DEF Byte
  <2>2. QED
    BY <1>1, <2>1, OpcodeValues DEF WrittenInteger
<1>2. CASE ~ (v = -1 \/ v \in 1 .. 16) /\ v = 0
  <2>1. encodeScriptNumber(v) = << >>
    BY <1>2 DEF encodeScriptNumber
  <2>2. PushHeader(0) = << 0 >>
    BY PushOpcodeValues DEF PushHeader
  <2>3. WrittenString(<< >>) = << 0 >>
    <3>1. Len(<< >>) = 0 /\ << 0 >> \o << >> = << 0 >>
      OBVIOUS
    <3>2. QED
      BY <2>2, <3>1 DEF WrittenString
  <2>4. QED
    BY <1>2, <2>1, <2>3 DEF WrittenInteger
<1>3. CASE ~ (v = -1 \/ v \in 1 .. 16) /\ v # 0
  BY <1>3 DEF WrittenInteger, WrittenNumber
<1>4. QED
  BY <1>1, <1>2, <1>3

LEMMA WrittenIntegerIsBytes ==
    ASSUME NEW v \in Int, encodeScriptNumber(v) \in Pushable
    PROVE  WrittenInteger(v) \in Seq(Byte) /\ Len(WrittenInteger(v)) \in Nat \ {0}
<1>1. CASE WrittenInteger(v) = << v + 80 >> /\ v + 80 \in Byte
  BY <1>1
<1>2. CASE WrittenInteger(v) = WrittenString(encodeScriptNumber(v))
  BY <1>2, WrittenIsBytes
<1>3. QED
  BY <1>1, <1>2, WrittenIntegerCases

LEMMA IntegerStep ==
    ASSUME NEW p, Reading(p), stack \in Seq(Strings), NEW v \in Int,
           encodeScriptNumber(v) \in Pushable, Holds(p, WrittenInteger(v)), Next
    PROVE  Pushed(encodeScriptNumber(v), Len(WrittenInteger(v)))
<1>1. code \in Seq(Byte) /\ p \in Nat \ {0} /\ pos = p
  BY DEF Reading
<1>2. CASE v \in {-1} \cup 1 .. 16 /\ WrittenInteger(v) = << v + 80 >> /\ v + 80 \in Byte
  <2> DEFINE b == v + 80
  <2>1. b \in {79} \cup 81 .. 96 /\ b - 81 + 1 = v
    BY <1>2
  <2>2. b \in Byte /\ WrittenInteger(v) = << b >>
    BY <1>2
  <2> HIDE DEF b
  <2>3. code[p] = b
    BY <1>1, <2>2, OneByteHeld
  <2>4. PushInteger
    BY <2>1, <2>3, OnlyHandler
  <2>5. Replace(0, << encodeScriptNumber(v) >>) /\ pos' = pos + 1
        /\ UNCHANGED << scripts, phase >>
    BY <1>1, <2>1, <2>3, <2>4, OpcodeValues DEF PushInteger, Next1
  <2>6. encodeScriptNumber(v) \in Strings
    BY EncodedIsBytes DEF Strings
  <2>7. stack' = Append(stack, encodeScriptNumber(v)) /\ UNCHANGED << errcode, failed >>
    BY <2>5, <2>6, NothingBelow, ReplacedByOne
  <2>8. Len(WrittenInteger(v)) = 1
    BY <2>2
  <2>9. QED
    BY <2>5, <2>7, <2>8 DEF Pushed
<1>3. CASE WrittenInteger(v) = WrittenString(encodeScriptNumber(v))
  BY <1>3, StringStep
<1>4. QED
  BY <1>2, <1>3, WrittenIntegerCases

\* An instruction of one byte goes on to the next byte.
LEMMA DupStep ==
    ASSUME NEW p, Reading(p), code[p] = 118, NEW t \in Seq(Strings), NEW x \in Strings,
           stack = Append(t, x), Next
    PROVE  Pushed(x, 1)
<1>1. Dup /\ pos = p
  BY OnlyHandler DEF Reading
<1>2. stack \in Seq(Strings) /\ Len(stack) = Len(t) + 1 /\ Len(t) \in Nat /\ Top(1) = x
  BY TopOne, AppendProperties
<1>3. DupCount = 1
  <2>1. code[pos] = OP.DUP /\ code[pos] # OP.DUP2 /\ code[pos] # OP.DUP3
    BY <1>1, OpcodeValues, SMTT(40)
  <2>2. QED
    BY <2>1 DEF DupCount
<1>4. Replace(0, [i \in 1 .. 1 |-> Top(i)])
  BY <1>1, <1>2, <1>3 DEF Dup
<1>5. [i \in 1 .. 1 |-> Top(i)] = << x >>
  <2> DEFINE u == [i \in 1 .. 1 |-> Top(i)]
  <2>1. u \in Seq({x}) /\ Len(u) = 1 /\ u[1] = x
    BY <1>2
  <2> HIDE DEF u
  <2>2. u = << x >>
    BY <2>1
  <2>3. QED
    BY <2>2 DEF u
<1>6. stack' = Append(stack, x) /\ UNCHANGED << errcode, failed >>
  <2>1. Below(0) = stack /\ Below(0) \in Seq(Strings)
    BY <1>2, NothingBelow
  <2>2. Replace(0, << x >>)
    BY <1>4, <1>5
  <2>3. QED
    BY <2>1, <2>2, ReplacedByOne
<1>7. QED
  BY <1>1, <1>6 DEF Dup, Next1, Pushed

LEMMA HashStep ==
    ASSUME DigestsAreBytes, NEW p, Reading(p), code[p] = 169, NEW t \in Seq(Strings),
           NEW x \in Strings, stack = Append(t, x), Next
    PROVE  /\ stack' = Append(t, Digest(OP.HASH160, x)) /\ pos' = p + 1
           /\ Digest(OP.HASH160, x) \in Strings
           /\ UNCHANGED << scripts, phase, errcode, failed >>
<1>1. Hash /\ pos = p
  BY OnlyHandler DEF Reading
<1>2. /\ stack \in Seq(Strings) /\ stack # << >> /\ Top(1) = x /\ Below(1) = t
  BY TopOne, AppendProperties
<1>3. code[pos] = OP.HASH160 /\ OP.HASH160 \in Nat
  BY <1>1, OpcodeValues
<1>4. Digest(OP.HASH160, x) \in Strings
  BY <1>3 DEF DigestsAreBytes, Strings
<1>5. Replace(1, << Digest(OP.HASH160, x) >>)
  BY <1>1, <1>2, <1>3 DEF Hash
<1>6. stack' = Append(t, Digest(OP.HASH160, x)) /\ UNCHANGED << errcode, failed >>
  BY <1>2, <1>4, <1>5, ReplacedByOne
<1>7. QED
  BY <1>1, <1>4, <1>6 DEF Hash, Next1

LEMMA BoolValues == BoolOf(vTrue) /\ ~BoolOf(vFalse)
<1>1. BoolOf(vTrue)
  <2>1. vTrue[1] = 81 /\ DOMAIN vTrue = {1} /\ Len(vTrue) = 1
    BY OpcodeValues DEF vTrue
  <2>2. Last(vTrue) = 81
    BY <2>1 DEF Last
  <2>3. QED
    BY <2>1, <2>2 DEF BoolOf, SignBit
<1>2. DOMAIN vFalse = {}
  BY DEF vFalse
<1>3. QED
  BY <1>1, <1>2 DEF BoolOf

LEMMA EqualVerifyStep ==
    ASSUME NEW p, Reading(p), code[p] = 136, NEW t \in Seq(Strings), NEW x \in Strings,
           NEW y \in Strings, stack = Append(Append(t, x), y), Next
    PROVE  /\ pos' = p + 1 /\ UNCHANGED << scripts, phase, failed >>
           /\ x = y => stack' = t /\ errcode' = "OK"
           /\ x # y => stack' = Append(t, vFalse) /\ errcode' = "EQUALVERIFY"
<1>1. Equal /\ pos = p
  BY OnlyHandler DEF Reading
<1>2. /\ Len(t) \in Nat /\ Len(stack) = Len(t) + 2 /\ Top(1) = y /\ Top(2) = x
      /\ Below(2) = t
  BY TopTwo
<1>3. ~ (Len(stack) < 2)
  BY <1>2
<1>4. VerifyError(OP.EQUALVERIFY, "EQUALVERIFY") = "EQUALVERIFY"
  BY <1>1, OpcodeValues DEF VerifyError
<1>5. Verified(2, Bool(y = x), "EQUALVERIFY")
  BY <1>1, <1>2, <1>3, <1>4 DEF Equal
<1>6. /\ stack' = IF BoolOf(Bool(y = x)) THEN t ELSE Append(t, Bool(y = x))
      /\ errcode' = (IF BoolOf(Bool(y = x)) THEN "OK" ELSE "EQUALVERIFY")
      /\ UNCHANGED failed
  BY <1>2, <1>5 DEF Verified
<1>7. BoolOf(Bool(y = x)) <=> x = y
  BY BoolValues DEF Bool
<1>8. x # y => Bool(y = x) = vFalse
  BY DEF Bool
<1>9. QED
  BY <1>1, <1>6, <1>7, <1>8 DEF Equal, Next1

LEMMA CheckSigStep ==
    ASSUME NEW p, Reading(p), code[p] = 172, NEW t \in Seq(Strings), NEW x \in Strings,
           NEW y \in Strings, stack = Append(Append(t, x), y), Next
    PROVE  /\ pos' = p + 1 /\ UNCHANGED << scripts, phase, errcode >>
           /\ WellFormed(x, y) /\ Signs(x, y, code) =>
                 stack' = Append(t, vTrue) /\ UNCHANGED failed
           /\ ~ (WellFormed(x, y) /\ Signs(x, y, code)) => failed' # "nothing"
<1>1. CheckSig /\ pos = p
  BY OnlyHandler DEF Reading
<1>2. /\ Len(t) \in Nat /\ Len(stack) = Len(t) + 2 /\ Top(1) = y /\ Top(2) = x
      /\ Below(2) = t /\ stack \in Seq(Strings)
  <2>1. Append(t, x) \in Seq(Strings)
    BY AppendProperties
  <2>2. QED
    BY <2>1, TopTwo, AppendProperties
<1>3. ~ (Len(stack) < 2)
  BY <1>2
<1>4. VerifyError(OP.CHECKSIGVERIFY, "CHECKSIGVERIFY") = "OK"
  BY <1>1, OpcodeValues, SMTT(40) DEF VerifyError
<1>5. vTrue \in Strings
  BY BoolIsString DEF Bool, Strings
<1>6. ~ WellFormed(x, y) => Abort("SignatureChecker::check")
  BY <1>1, <1>2, <1>3 DEF CheckSig
<1>7. WellFormed(x, y) /\ ~ Signs(x, y, code) => Abort("script_checkSig")
  BY <1>1, <1>2, <1>3 DEF CheckSig
<1>8. WellFormed(x, y) /\ Signs(x, y, code) => Verified(2, vTrue, "OK")
  BY <1>1, <1>2, <1>3, <1>4 DEF CheckSig
<1>9. WellFormed(x, y) /\ Signs(x, y, code) => Replace(2, << vTrue >>)
  BY <1>8 DEF Verified
<1>10. WellFormed(x, y) /\ Signs(x, y, code) =>
          stack' = Append(t, vTrue) /\ UNCHANGED << errcode, failed >>
  BY <1>2, <1>5, <1>9, ReplacedByOne
<1>11. ~ (WellFormed(x, y) /\ Signs(x, y, code)) => failed' # "nothing" /\ UNCHANGED errcode
  BY <1>6, <1>7 DEF Abort
<1>12. pos' = p + 1 /\ UNCHANGED << scripts, phase >>
  BY <1>1 DEF CheckSig, Next1
<1>13. QED
  BY <1>10, <1>11, <1>12

-----------------------------------------------------------------------------
(* Two values pushed by the input script.                                  *)

\* Between two instructions, without an error.
At(ph, p, values) == /\ phase = ph /\ pos = p /\ stack = values
                     /\ errcode = "OK" /\ failed = "nothing"

\* Integers that a push opcode can push.
Represented == {v \in Int : encodeScriptNumber(v) \in Pushable}

\* The bytes w push the value s.
Pushes(w, s) == \/ s \in Pushable /\ w = WrittenString(s)
                \/ \E v \in Represented : w = WrittenInteger(v) /\ s = encodeScriptNumber(v)

LEMMA PushesBytes ==
    ASSUME NEW w, NEW s, Pushes(w, s)
    PROVE  w \in Seq(Byte) /\ Len(w) \in Nat \ {0} /\ s \in Strings
  BY WrittenIsBytes, WrittenIntegerIsBytes DEF Pushes, Represented, Pushable, Strings

LEMMA PushStep ==
    ASSUME NEW p, Reading(p), stack \in Seq(Strings), NEW w, NEW s, Pushes(w, s),
           Holds(p, w), Next
    PROVE  Pushed(s, Len(w))
  BY StringStep, IntegerStep DEF Pushes, Represented

LEMMA WholePushed ==
    ASSUME NEW w, NEW s, Pushes(w, s), code = w
    PROVE  /\ code \in Seq(Byte) /\ code # << >> /\ Len(code) \in Nat \ {0} /\ Holds(1, w)
<1>1. code \in Seq(Byte) /\ Len(code) \in Nat \ {0}
  BY PushesBytes
<1>2. code # << >>
  BY <1>1, EmptySeq
<1>3. QED
  BY <1>1, <1>2, WholeHeld

Both(x, y) == Append(Append(<< >>, x), y)

\* The input script is a and then b, which push x and y.
PairReads(a, b, x, y) ==
    \/ At("input", 1, << >>)
    \/ At("input", 1 + Len(a), Append(<< >>, x))
    \/ At("input", 1 + Len(a) + Len(b), Both(x, y))

LEMMA BothIsSeq ==
    ASSUME NEW x \in Strings, NEW y \in Strings
    PROVE  /\ << >> \in Seq(Strings) /\ Append(<< >>, x) \in Seq(Strings)
           /\ Both(x, y) \in Seq(Strings) /\ Both(x, y) = Append(Append(<< >>, x), y)
<1>1. << >> \in Seq(Strings)
  BY EmptySeq
<1>2. Append(<< >>, x) \in Seq(Strings)
  BY <1>1, AppendProperties
<1>3. QED
  BY <1>1, <1>2, AppendProperties DEF Both

LEMMA PairInput ==
    ASSUME NEW a, NEW b, NEW x, NEW y, Pushes(a, x), Pushes(b, y), code = a \o b
    PROVE  /\ code \in Seq(Byte) /\ code # << >>
           /\ Len(code) + 1 = 1 + Len(a) + Len(b)
           /\ Holds(1, a) /\ Holds(1 + Len(a), b)
           /\ 1 + Len(a) \in Nat \ {0} /\ 1 <= Len(code) /\ 1 + Len(a) <= Len(code)
<1>1. a \in Seq(Byte) /\ Len(a) \in Nat \ {0} /\ b \in Seq(Byte) /\ Len(b) \in Nat \ {0}
  BY PushesBytes
<1>2. code \in Seq(Byte) /\ Len(code) = Len(a) + Len(b)
  BY <1>1, ConcatProperties
<1>3. Holds(1, a \o b)
  BY <1>2, WholeHeld
<1>4. Holds(1, a) /\ Holds(1 + Len(a), b)
  BY <1>1, <1>2, <1>3, PartsHeld
<1>5. code # << >>
  BY <1>1, <1>2, EmptySeq
<1>6. QED
  BY <1>1, <1>2, <1>4, <1>5

LEMMA PairStep ==
    ASSUME NEW a, NEW b, NEW x, NEW y, Pushes(a, x), Pushes(b, y), scripts.input = a \o b,
           PairReads(a, b, x, y), Next
    PROVE  /\ PairReads(a, b, x, y)' \/ At("output", 1, Both(x, y))'
           /\ scripts' = scripts
<1>1. x \in Strings /\ y \in Strings /\ << >> \in Seq(Strings)
      /\ Append(<< >>, x) \in Seq(Strings)
  BY PushesBytes, BothIsSeq
<1>2. phase = "input" => code = a \o b
  BY DEF code
<1> DEFINE p == 1 + Len(a)
<1> USE DEF At
<1>3. CASE At("input", 1, << >>)
  <2>1. Reading(1) /\ Holds(1, a)
    BY <1>2, <1>3, PairInput DEF Reading, Running
  <2>2. Pushed(x, Len(a))
    BY <1>1, <1>3, <2>1, PushStep
  <2>3. At("input", p, Append(<< >>, x))' /\ scripts' = scripts
    BY <1>3, <2>2 DEF Pushed
  <2>4. QED
    BY <2>3 DEF PairReads
<1>4. CASE At("input", p, Append(<< >>, x))
  <2>1. Reading(p) /\ Holds(p, b)
    BY <1>2, <1>4, PairInput DEF Reading, Running
  <2>2. stack \in Seq(Strings)
    BY <1>1, <1>4
  <2> HIDE DEF p
  <2>3. Pushed(y, Len(b))
    BY <2>1, <2>2, PushStep
  <2>4. At("input", 1 + Len(a) + Len(b), Both(x, y))' /\ scripts' = scripts
    BY <1>4, <2>3 DEF Pushed, Both, p
  <2>5. QED
    BY <2>4 DEF PairReads
<1>5. CASE At("input", 1 + Len(a) + Len(b), Both(x, y))
  <2>1. /\ Running /\ code \in Seq(Byte) /\ code # << >> /\ pos = Len(code) + 1
    BY <1>2, <1>5, PairInput DEF Running
  <2>2. StartOutput
    BY <1>5, <2>1, ScriptEnds
  <2>3. At("output", 1, Both(x, y))' /\ scripts' = scripts
    BY <1>5, <2>2 DEF StartOutput
  <2>4. QED
    BY <2>3
<1>6. QED
  BY <1>3, <1>4, <1>5 DEF PairReads

-----------------------------------------------------------------------------
(* Paying to the hash of a key.                                            *)

\* The pairs of scripts of this kind are those that KeyHash writes.
KeyHashesAreWritten ==
    \A p \in Scripts : (p.kind = "key hash") =>
        \E sig, key, hash \in Pushable : p = KeyHash(sig, key, hash)

\* What stands in the way of accepting: the key is another one, or the signature.
Same(key, hash) == Digest(OP.HASH160, key) = hash
Signed(sig, key, hash) == WellFormed(sig, key) /\ Signs(sig, key, PayToKeyHash(hash))

AfterHash(hash) == 3 + Len(WrittenString(hash))

KeyHashReads(sig, key, hash) ==
    \/ PairReads(WrittenString(sig), WrittenString(key), sig, key)
    \/ At("output", 1, Both(sig, key))
    \/ At("output", 2, Append(Both(sig, key), key))
    \/ At("output", 3, Append(Both(sig, key), Digest(OP.HASH160, key)))
    \/ At("output", AfterHash(hash),
          Append(Append(Both(sig, key), Digest(OP.HASH160, key)), hash))

KeyHashDecides(sig, key, hash) ==
    \/ Same(key, hash) /\ At("output", AfterHash(hash) + 1, Both(sig, key))
    \/ /\ ~Same(key, hash) /\ phase = "output"
       /\ stack = Append(Both(sig, key), vFalse) /\ errcode = "EQUALVERIFY" /\ failed = "nothing"
    \/ /\ Same(key, hash) /\ Signed(sig, key, hash)
       /\ At("output", AfterHash(hash) + 2, Append(<< >>, vTrue))
    \/ /\ Same(key, hash) /\ ~Signed(sig, key, hash) /\ phase = "output" /\ failed # "nothing"
    \/ Same(key, hash) /\ Signed(sig, key, hash) /\ phase = "accepted" /\ failed = "nothing"
    \/ ~Same(key, hash) /\ phase = "rejected" /\ failed = "nothing"

KeyHashStage(sig, key, hash) == KeyHashReads(sig, key, hash) \/ KeyHashDecides(sig, key, hash)

KeyHashInv ==
    /\ scripts \in Scripts
    /\ (scripts.kind = "key hash") =>
          \E sig, key, hash \in Pushable :
              scripts = KeyHash(sig, key, hash) /\ KeyHashStage(sig, key, hash)

LEMMA KeyHashOutput ==
    ASSUME NEW sig \in Pushable, NEW key \in Pushable, NEW hash \in Pushable,
           scripts = KeyHash(sig, key, hash), phase = "output"
    PROVE  /\ code \in Seq(Byte) /\ code # << >> /\ code = PayToKeyHash(hash)
           /\ Len(code) = AfterHash(hash) + 1 /\ AfterHash(hash) \in Nat /\ AfterHash(hash) >= 4
           /\ code[1] = 118 /\ code[2] = 169
           /\ Holds(3, WrittenString(hash))
           /\ code[AfterHash(hash)] = 136 /\ code[AfterHash(hash) + 1] = 172
<1> DEFINE a == << OP.DUP, OP.HASH160 >>
           b == WrittenString(hash)
           c == << OP.EQUALVERIFY, OP.CHECKSIG >>
<1>1. b \in Seq(Byte) /\ Len(b) \in Nat \ {0}
  BY WrittenIsBytes
<1>2. 118 \in Byte /\ 169 \in Byte /\ 136 \in Byte /\ 172 \in Byte
  BY DEF Byte
<1>3. a = << 118, 169 >> /\ c = << 136, 172 >>
  BY OpcodeValues
<1>4. code = (a \o b) \o c
  BY DEF code, KeyHash, PayToKeyHash
<1> HIDE DEF a, b, c
<1>5. a \in Seq(Byte) /\ Len(a) = 2 /\ c \in Seq(Byte) /\ Len(c) = 2
  BY <1>2, <1>3
<1>6. a \o b \in Seq(Byte) /\ Len(a \o b) = 2 + Len(b)
  <2>1. a \in Seq(Byte) /\ b \in Seq(Byte)
    BY <1>1, <1>5
  <2>2. a \o b \in Seq(Byte) /\ Len(a \o b) = Len(a) + Len(b)
    BY <2>1, ConcatProperties
  <2>3. QED
    BY <1>5, <2>2
<1> DEFINE ab == a \o b
<1>7. ab \in Seq(Byte) /\ Len(ab) = 2 + Len(b)
  BY <1>6
<1>8. code = ab \o c
  BY <1>4
<1> HIDE DEF ab
<1>9. code \in Seq(Byte) /\ Len(code) = Len(ab) + Len(c)
  BY <1>5, <1>7, <1>8, ConcatProperties
<1>10. Holds(1, ab \o c)
  BY <1>8, <1>9, WholeHeld
<1>11. Holds(1, ab) /\ Holds(1 + Len(ab), c)
  BY <1>5, <1>7, <1>9, <1>10, PartsHeld
<1>12. Holds(1, a \o b)
  BY <1>11 DEF ab
<1>13. Holds(1, a) /\ Holds(1 + Len(a), b)
  <2>1. a \in Seq(Byte) /\ b \in Seq(Byte) /\ code \in Seq(Byte) /\ 1 \in Nat \ {0}
    BY <1>1, <1>5, <1>9
  <2>2. QED
    BY <1>12, <2>1, PartsHeld
<1>14. code[1] = 118 /\ code[2] = 169
  BY <1>2, <1>3, <1>13, TwoBytesHeld
<1>15. AfterHash(hash) = 3 + Len(b)
  BY DEF AfterHash, b
<1> DEFINE q == 1 + Len(ab)
<1>16. q \in Nat \ {0} /\ Holds(q, c) /\ q = AfterHash(hash)
  BY <1>1, <1>7, <1>11, <1>15
<1> HIDE DEF q
<1>17. code[q] = 136 /\ code[q + 1] = 172
  BY <1>2, <1>3, <1>16, TwoBytesHeld
<1>18. Holds(3, b)
  BY <1>5, <1>13
<1>19. code = PayToKeyHash(hash)
  BY DEF code, KeyHash
<1>20. code # << >>
  BY <1>1, <1>5, <1>7, <1>9, EmptySeq
<1>21. /\ Len(code) = AfterHash(hash) + 1 /\ AfterHash(hash) \in Nat /\ AfterHash(hash) >= 4
  BY <1>1, <1>5, <1>7, <1>9, <1>15
<1>22. QED
  BY <1>9, <1>14, <1>16, <1>17, <1>18, <1>19, <1>20, <1>21 DEF b

LEMMA KeyHashReading ==
    ASSUME DigestsAreBytes, NEW sig \in Pushable, NEW key \in Pushable, NEW hash \in Pushable,
           scripts = KeyHash(sig, key, hash), KeyHashReads(sig, key, hash), Next
    PROVE  KeyHashStage(sig, key, hash)' /\ scripts' = scripts
<1> DEFINE one == Append(<< >>, sig)
           both == Both(sig, key)
           d == Digest(OP.HASH160, key)
<1>1. sig \in Strings /\ key \in Strings /\ hash \in Strings /\ << >> \in Seq(Strings)
  BY EmptySeq DEF Pushable, Strings
<1>2. one \in Seq(Strings) /\ both \in Seq(Strings) /\ both = Append(one, key)
  BY <1>1, AppendProperties DEF Both
<1>3. d \in Strings
  BY <1>1, OpcodeValues DEF DigestsAreBytes, Strings
<1> USE DEF At
<1>4. CASE PairReads(WrittenString(sig), WrittenString(key), sig, key)
  <2>1. /\ scripts.input = WrittenString(sig) \o WrittenString(key)
        /\ Pushes(WrittenString(sig), sig) /\ Pushes(WrittenString(key), key)
    BY DEF KeyHash, Pushes
  <2> DEFINE a == WrittenString(sig)
             b == WrittenString(key)
  <2>2. /\ scripts.input = a \o b /\ Pushes(a, sig) /\ Pushes(b, key)
        /\ PairReads(a, b, sig, key)
    BY <1>4, <2>1
  <2> HIDE DEF a, b
  <2>3. /\ PairReads(a, b, sig, key)' \/ At("output", 1, Both(sig, key))'
        /\ scripts' = scripts
    BY <2>2, PairStep
  <2>4. a' = a /\ b' = b
    BY DEF a, b, WrittenString, PushHeader
  <2>5. QED
    BY <2>3, <2>4 DEF KeyHashStage, KeyHashReads, a, b
<1>5. CASE At("output", 1, both)
  <2>1. Reading(1) /\ code[1] = 118
    BY <1>5, KeyHashOutput DEF Reading, Running
  <2>2. stack = Append(one, key)
    BY <1>2, <1>5
  <2>3. Pushed(key, 1)
    BY <1>1, <1>2, <2>1, <2>2, DupStep
  <2>4. At("output", 2, Append(both, key))' /\ scripts' = scripts
    BY <1>5, <2>3 DEF Pushed
  <2>5. QED
    BY <2>4 DEF KeyHashStage, KeyHashReads
<1>6. CASE At("output", 2, Append(both, key))
  <2>1. Reading(2) /\ code[2] = 169
    BY <1>6, KeyHashOutput DEF Reading, Running
  <2>2. stack = Append(both, key) /\ both \in Seq(Strings)
    BY <1>2, <1>6
  <2> HIDE DEF both
  <2>3. /\ stack' = Append(both, d) /\ pos' = 2 + 1
        /\ UNCHANGED << scripts, phase, errcode, failed >>
    BY <1>1, <2>1, <2>2, HashStep
  <2>4. At("output", 3, Append(both, d))' /\ scripts' = scripts
    BY <1>6, <2>3 DEF both
  <2>5. QED
    BY <2>4 DEF KeyHashStage, KeyHashReads, both
<1>7. CASE At("output", 3, Append(both, d))
  <2>1. Reading(3) /\ Holds(3, WrittenString(hash))
    BY <1>7, KeyHashOutput DEF Reading, Running
  <2>2. Pushed(hash, Len(WrittenString(hash)))
    BY <2>1, StringStep
  <2>3. At("output", AfterHash(hash), Append(Append(both, d), hash))' /\ scripts' = scripts
    BY <1>7, <2>2 DEF Pushed, AfterHash
  <2>4. QED
    BY <2>3 DEF KeyHashStage, KeyHashReads
<1>8. CASE At("output", AfterHash(hash), Append(Append(both, d), hash))
  <2>1. Reading(AfterHash(hash)) /\ code[AfterHash(hash)] = 136
    BY <1>8, KeyHashOutput DEF Reading, Running
  <2>2. /\ pos' = AfterHash(hash) + 1 /\ UNCHANGED << scripts, phase, failed >>
        /\ d = hash => stack' = both /\ errcode' = "OK"
        /\ d # hash => stack' = Append(both, vFalse) /\ errcode' = "EQUALVERIFY"
    <3> DEFINE p == AfterHash(hash)
    <3>1. stack = Append(Append(both, d), hash) /\ both \in Seq(Strings) /\ d \in Strings
      BY <1>2, <1>3, <1>8
    <3>2. Reading(p) /\ code[p] = 136
      BY <2>1
    <3> HIDE DEF both, d, p
    <3>3. /\ pos' = p + 1 /\ UNCHANGED << scripts, phase, failed >>
          /\ d = hash => stack' = both /\ errcode' = "OK"
          /\ d # hash => stack' = Append(both, vFalse) /\ errcode' = "EQUALVERIFY"
      BY <1>1, <3>1, <3>2, EqualVerifyStep
    <3>4. QED
      BY <3>3 DEF p
  <2>3. CASE d = hash
    <3>1. At("output", AfterHash(hash) + 1, both)' /\ scripts' = scripts
      BY <1>8, <2>2, <2>3
    <3>2. Same(key, hash)
      BY <2>3 DEF Same
    <3>3. QED
      BY <3>1, <3>2 DEF KeyHashStage, KeyHashDecides, Same
  <2>4. CASE d # hash
    <3>1. /\ phase' = "output" /\ stack' = Append(both, vFalse) /\ errcode' = "EQUALVERIFY"
          /\ failed' = "nothing" /\ scripts' = scripts
      BY <1>8, <2>2, <2>4
    <3>2. ~Same(key, hash)
      BY <2>4 DEF Same
    <3>3. QED
      BY <3>1, <3>2 DEF KeyHashStage, KeyHashDecides, Same, vFalse
  <2>5. QED
    BY <2>3, <2>4
<1>9. QED
  BY <1>4, <1>5, <1>6, <1>7, <1>8 DEF KeyHashReads

LEMMA KeyHashDeciding ==
    ASSUME NEW sig \in Pushable, NEW key \in Pushable, NEW hash \in Pushable,
           scripts = KeyHash(sig, key, hash), KeyHashDecides(sig, key, hash), Next
    PROVE  KeyHashDecides(sig, key, hash)' /\ scripts' = scripts
<1> DEFINE both == Both(sig, key)
<1>1. sig \in Strings /\ key \in Strings /\ << >> \in Seq(Strings)
      /\ vTrue \in Strings /\ vFalse \in Strings
  <2>1. vTrue = Bool(TRUE) /\ vFalse = Bool(FALSE)
    BY DEF Bool
  <2>2. QED
    BY <2>1, EmptySeq, BoolIsString DEF Pushable, Strings
<1>2. both \in Seq(Strings) /\ both = Append(Append(<< >>, sig), key)
  BY <1>1, AppendProperties DEF Both
<1> HIDE DEF both
<1> USE DEF At
<1>3. CASE Same(key, hash) /\ At("output", AfterHash(hash) + 1, Both(sig, key))
  <2> DEFINE p == AfterHash(hash) + 1
  <2>1. Reading(p) /\ code[p] = 172 /\ code = PayToKeyHash(hash)
    BY <1>3, KeyHashOutput DEF Reading, Running
  <2>2. p + 1 = AfterHash(hash) + 2 /\ pos = p
    BY <1>3, KeyHashOutput
  <2>3. stack = Append(Append(<< >>, sig), key)
    BY <1>3 DEF Both
  <2> HIDE DEF p
  <2>4. /\ pos' = p + 1 /\ UNCHANGED << scripts, phase, errcode >>
        /\ WellFormed(sig, key) /\ Signs(sig, key, code) =>
              stack' = Append(<< >>, vTrue) /\ UNCHANGED failed
        /\ ~ (WellFormed(sig, key) /\ Signs(sig, key, code)) => failed' # "nothing"
    BY <1>1, <2>1, <2>3, CheckSigStep
  <2>5. CASE Signed(sig, key, hash)
    <3>1. At("output", AfterHash(hash) + 2, Append(<< >>, vTrue))' /\ scripts' = scripts
      BY <1>3, <2>1, <2>2, <2>4, <2>5 DEF Signed
    <3>2. QED
      BY <1>3, <2>5, <3>1 DEF KeyHashDecides, Same, Signed, WellFormed
  <2>6. CASE ~Signed(sig, key, hash)
    <3>1. phase' = "output" /\ failed' # "nothing" /\ scripts' = scripts
      BY <1>3, <2>1, <2>2, <2>4, <2>6 DEF Signed
    <3>2. QED
      BY <1>3, <2>6, <3>1 DEF KeyHashDecides, Same, Signed, WellFormed
  <2>7. QED
    BY <2>5, <2>6
<1>4. CASE /\ ~Same(key, hash) /\ phase = "output"
           /\ stack = Append(Both(sig, key), vFalse) /\ errcode = "EQUALVERIFY"
           /\ failed = "nothing"
  <2>1. Running /\ code \in Seq(Byte) /\ code # << >>
    BY <1>4, KeyHashOutput DEF Running
  <2>2. Judge
    BY <1>4, <2>1, ScriptEnds
  <2>3. stack # << >> /\ Top(1) = vFalse
    BY <1>1, <1>2, <1>4, TopOne DEF both
  <2>4. phase' = "rejected" /\ failed' = "nothing" /\ scripts' = scripts
    BY <1>4, <2>2, <2>3, BoolValues DEF Judge
  <2>5. QED
    BY <1>4, <2>4 DEF KeyHashDecides, Same
<1>5. CASE /\ Same(key, hash) /\ Signed(sig, key, hash)
           /\ At("output", AfterHash(hash) + 2, Append(<< >>, vTrue))
  <2>1. Running /\ code \in Seq(Byte) /\ code # << >> /\ pos = Len(code) + 1
    BY <1>5, KeyHashOutput DEF Running
  <2>2. Judge
    BY <1>5, <2>1, ScriptEnds
  <2>3. stack # << >> /\ Top(1) = vTrue
    BY <1>1, <1>5, TopOne
  <2>4. phase' = "accepted" /\ failed' = "nothing" /\ scripts' = scripts
    BY <1>5, <2>2, <2>3, BoolValues DEF Judge
  <2>5. QED
    BY <1>5, <2>4 DEF KeyHashDecides, Same, Signed, WellFormed
<1>6. CASE ~Running
  <2>1. UNCHANGED vars
    BY <1>6, Stopped
  <2>2. QED
    BY <2>1 DEF vars, KeyHashDecides, Same, Signed, WellFormed
<1>7. QED
  BY <1>3, <1>4, <1>5, <1>6 DEF KeyHashDecides, Running

\* No step changes which scripts are run.
LEMMA ScriptsStay ==
    ASSUME [Next]_vars
    PROVE  scripts' = scripts
  BY DEF Next, PushData, PushTruncated, PushInteger, Equal, Dup, Drop, Depth, Size,
         Hash, NumericUnary, NumericBinary, Within, CheckSig, CheckMultiSig, Noop, Return,
         Reserved, EmptyCode, StartOutput, Judge, Next1, vars

LEMMA KeyHashNext ==
    ASSUME DigestsAreBytes, KeyHashInv, [Next]_vars
    PROVE  KeyHashInv'
<1>1. CASE UNCHANGED vars
  <2>1. UNCHANGED << scripts, phase, pos, stack, errcode, failed >>
    BY <1>1 DEF vars
  <2>2. \A sig, key, hash : KeyHashStage(sig, key, hash) => KeyHashStage(sig, key, hash)'
    BY <2>1 DEF KeyHashStage, KeyHashReads, PairReads, KeyHashDecides, At, Same, Signed, WellFormed
  <2>3. QED
    BY <2>1, <2>2 DEF KeyHashInv
<1>2. CASE Next /\ scripts.kind = "key hash"
  <2>1. PICK sig \in Pushable, key \in Pushable, hash \in Pushable :
            scripts = KeyHash(sig, key, hash) /\ KeyHashStage(sig, key, hash)
    BY <1>2 DEF KeyHashInv
  <2>2. KeyHashStage(sig, key, hash)' /\ scripts' = scripts
    BY <1>2, <2>1, KeyHashReading, KeyHashDeciding DEF KeyHashStage
  <2>3. QED
    BY <2>1, <2>2 DEF KeyHashInv
<1>3. CASE Next /\ scripts.kind # "key hash"
  <2>1. scripts' = scripts
    BY <1>3, ScriptsStay
  <2>2. QED
    BY <1>3, <2>1 DEF KeyHashInv
<1>4. QED
  BY <1>1, <1>2, <1>3

\* An output that pays to the hash of a key, whatever the strings and however
\* long they are: the machine accepts exactly the inputs that give that key and
\* one of its signatures, rejects another key and ends in an assertion on another
\* signature (WrittenString; ScriptVM::eval, script_pushdata, script_dup,
\* script_hash, script_equal, script_checkSig; verifyTransactionInput).
THEOREM KeyHashIsMeant ==
    ASSUME KeyHashesAreWritten, DigestsAreBytes
    PROVE  Spec => []KeyHashMeans
<1>1. Init => KeyHashInv
  BY DEF Init, KeyHashInv, KeyHashesAreWritten, KeyHashStage, KeyHashReads, PairReads, At
<1>2. KeyHashInv /\ [Next]_vars => KeyHashInv'
  BY KeyHashNext
<1>3. KeyHashInv => KeyHashMeans
  <2> SUFFICES ASSUME KeyHashInv, scripts.kind = "key hash"
               PROVE  KeyHashMeans
    BY DEF KeyHashMeans
  <2>1. PICK sig \in Pushable, key \in Pushable, hash \in Pushable :
            scripts = KeyHash(sig, key, hash) /\ KeyHashStage(sig, key, hash)
    BY DEF KeyHashInv
  <2>2. /\ scripts.sig = sig /\ scripts.key = key /\ scripts.hash = hash
        /\ scripts.output = PayToKeyHash(hash)
    BY <2>1 DEF KeyHash
  <2>3. /\ phase = "accepted" => Same(key, hash) /\ Signed(sig, key, hash)
        /\ phase = "rejected" => ~Same(key, hash)
        /\ failed # "nothing" => Same(key, hash) /\ ~Signed(sig, key, hash)
    BY <2>1 DEF KeyHashStage, KeyHashReads, PairReads, KeyHashDecides, At
  <2>4. QED
    BY <2>2, <2>3 DEF KeyHashMeans, Same, Signed
<1>4. QED
  BY <1>1, <1>2, <1>3, PTL DEF Spec

-----------------------------------------------------------------------------
(* Numbers and texts.                                                      *)

\* The pairs of scripts of these kinds are those that their operators write, from
\* integers and lengths that a push opcode can push.
NumbersAreWritten ==
    \A p \in Scripts :
        /\ (p.kind = "number") => \E v \in Represented : p = PushNumber(v)
        /\ (p.kind = "text") => \E n \in Nat : n < 256 ^ 4 /\ p = PushText(n)
        /\ (p.kind = "less") => \E x, y \in Represented : p = Less(x, y)
        /\ (p.kind = "difference") => \E x, y, z \in Represented : p = Difference(x, y, z)

Judged == phase \in {"accepted", "rejected"}

\* The input script is w, which pushes s; the output script does nothing.
PushStage(w, s) ==
    \/ At("input", 1, << >>)
    \/ At("input", 1 + Len(w), Append(<< >>, s))
    \/ At("output", 1, Append(<< >>, s))
    \/ At("output", 2, Append(<< >>, s))
    \/ Judged

LEMMA NoopStep ==
    ASSUME NEW p, Reading(p), code[p] = 97, Next
    PROVE  pos' = p + 1 /\ UNCHANGED << scripts, phase, stack, errcode, failed >>
  BY OnlyHandler DEF Reading, Noop, Next1

\* A script of one byte.
LEMMA OneByteCode ==
    ASSUME NEW b \in Byte, code = << b >>
    PROVE  code \in Seq(Byte) /\ code # << >> /\ Len(code) = 1 /\ code[1] = b
<1>1. code \in Seq(Byte) /\ Len(code) = 1 /\ code[1] = b
  OBVIOUS
<1>2. QED
  BY <1>1, EmptySeq

LEMMA PushStageNext ==
    ASSUME NEW w, NEW s, Pushes(w, s), scripts.input = w, scripts.output = << OP.NOP >>,
           PushStage(w, s), Next
    PROVE  PushStage(w, s)' /\ scripts' = scripts
<1> DEFINE one == Append(<< >>, s)
           p == 1 + Len(w)
<1>1. /\ w \in Seq(Byte) /\ Len(w) \in Nat \ {0} /\ s \in Strings /\ << >> \in Seq(Strings)
  BY PushesBytes, EmptySeq
<1>2. phase = "input" => code = w
  BY DEF code
<1>3. phase = "output" => code \in Seq(Byte) /\ code # << >> /\ Len(code) = 1 /\ code[1] = 97
  <2>1. phase = "output" => code = << 97 >>
    BY OpcodeValues DEF code
  <2>2. 97 \in Byte
    BY DEF Byte
  <2>3. QED
    BY <2>1, <2>2, OneByteCode
<1> USE DEF At
<1>4. CASE At("input", 1, << >>)
  <2>1. Reading(1) /\ Holds(1, w)
    BY <1>1, <1>2, <1>4, WholePushed DEF Reading, Running
  <2>2. Pushed(s, Len(w))
    BY <1>1, <1>4, <2>1, PushStep
  <2>3. At("input", p, one)' /\ scripts' = scripts
    BY <1>4, <2>2 DEF Pushed
  <2>4. QED
    BY <2>3 DEF PushStage
<1>5. CASE At("input", p, one)
  <2>1. Running /\ code \in Seq(Byte) /\ code # << >> /\ pos = Len(code) + 1
    BY <1>1, <1>2, <1>5, WholePushed DEF Running
  <2>2. StartOutput
    BY <1>5, <2>1, ScriptEnds
  <2>3. At("output", 1, one)' /\ scripts' = scripts
    BY <1>5, <2>2 DEF StartOutput
  <2>4. QED
    BY <2>3 DEF PushStage
<1>6. CASE At("output", 1, one)
  <2>1. Reading(1) /\ code[1] = 97
    BY <1>3, <1>6 DEF Reading, Running
  <2>2. pos' = 1 + 1 /\ UNCHANGED << scripts, phase, stack, errcode, failed >>
    BY <2>1, NoopStep
  <2>3. At("output", 2, one)' /\ scripts' = scripts
    BY <1>6, <2>2
  <2>4. QED
    BY <2>3 DEF PushStage
<1>7. CASE At("output", 2, one)
  <2>1. phase = "output" /\ pos = 2 /\ Running
    BY <1>7 DEF Running
  <2>2. code \in Seq(Byte) /\ code # << >> /\ Len(code) = 1
    BY <1>3, <2>1
  <2>3. pos = Len(code) + 1
    BY <2>1, <2>2
  <2>4. Judge
    BY <2>1, <2>2, <2>3, ScriptEnds
  <2>5. QED
    BY <2>4 DEF Judge, PushStage, Judged
<1>8. CASE Judged
  <2>1. UNCHANGED vars
    BY <1>8, Stopped DEF Judged, Running
  <2>2. QED
    BY <1>8, <2>1 DEF vars, PushStage, Judged
<1>9. QED
  BY <1>4, <1>5, <1>6, <1>7, <1>8 DEF PushStage

\* What a binary operator computes from the numbers that x and y stand for.
BinaryResult(opcode, x, y) ==
    encodeScriptNumber(BinaryFunction(opcode - 147, decodeScriptNumber(x), decodeScriptNumber(y)))

LEMMA BinaryStep ==
    ASSUME NEW p, Reading(p), code[p] \in {148, 156, 159}, NEW t \in Seq(Strings),
           NEW x \in Strings, NEW y \in Strings, stack = Append(Append(t, x), y), Next
    PROVE  /\ stack' = Append(t, BinaryResult(code[p], x, y)) /\ pos' = p + 1
           /\ UNCHANGED << scripts, phase, errcode, failed >>
<1> DEFINE index == code[p] - 147
           dx == decodeScriptNumber(x)
           dy == decodeScriptNumber(y)
           v == BinaryFunction(index, dx, dy)
<1>1. NumericBinary /\ pos = p
  <2>1. code[p] \in 147 .. 164
    OBVIOUS
  <2>2. QED
    BY <2>1, OnlyHandler DEF Reading
<1>2. dx \in Int /\ dy \in Int
  BY DecodedIsInt DEF Strings
<1>3. index \in {1, 9, 12}
  OBVIOUS
<1>4. code[pos] - OP.ADD = index /\ code[pos] # OP.NUMEQUALVERIFY
  <2>1. code[pos] = code[p] /\ OP.ADD = 147 /\ OP.NUMEQUALVERIFY = 157
    BY <1>1, OpcodeValues
  <2>2. QED
    BY <2>1
<1>5. BinaryResult(code[p], x, y) = encodeScriptNumber(v)
  BY DEF BinaryResult
<1> HIDE DEF index, dx, dy
<1>6. v \in Int
  <2>1. index \in 0 .. 17 /\ Defined(index, dy)
    BY <1>3 DEF Defined
  <2>2. QED
    BY <1>2, <2>1, BinaryIsInt
<1>7. encodeScriptNumber(v) \in Strings
  BY <1>6, EncodedIsBytes DEF Strings
<1>8. /\ Len(t) \in Nat /\ Len(stack) = Len(t) + 2 /\ Top(1) = y /\ Top(2) = x
      /\ Below(2) = t
  BY TopTwo
<1>9. stack \in Seq(Strings)
  <2>1. Append(t, x) \in Seq(Strings)
    BY AppendProperties
  <2>2. QED
    BY <2>1, AppendProperties
<1>10. Number(1) = dy /\ Number(2) = dx
  BY <1>8 DEF Number, dx, dy
<1>11. ~ (Len(stack) < 2) /\ Defined(index, Number(1))
  BY <1>3, <1>8 DEF Defined
<1>12. VerifyError(OP.NUMEQUALVERIFY, "NUMEQUALVERIFY") = "OK"
  BY <1>4 DEF VerifyError
<1>13. Verified(2, encodeScriptNumber(v), "OK")
  BY <1>1, <1>4, <1>10, <1>11, <1>12 DEF NumericBinary
<1>14. stack' = Append(t, encodeScriptNumber(v)) /\ UNCHANGED << errcode, failed >>
  BY <1>7, <1>8, <1>9, <1>13, ReplacedByOne DEF Verified
<1>15. pos' = p + 1 /\ UNCHANGED << scripts, phase >>
  BY <1>1 DEF NumericBinary, Next1
<1>16. QED
  BY <1>5, <1>14, <1>15

LEMMA BinaryResults ==
    ASSUME NEW x \in Int, NEW y \in Int
    PROVE  LET ex == encodeScriptNumber(x)
               ey == encodeScriptNumber(y)
           IN  /\ BinaryResult(148, ex, ey) = encodeScriptNumber(x - y)
               /\ BinaryResult(156, ex, ey) = encodeScriptNumber(Truth(x = y))
               /\ BinaryResult(159, ex, ey) = encodeScriptNumber(Truth(x < y))
<1>1. decodeScriptNumber(encodeScriptNumber(x)) = x
  BY NumberReadsBack
<1>2. decodeScriptNumber(encodeScriptNumber(y)) = y
  BY NumberReadsBack
<1>3. 148 - 147 = 1 /\ 156 - 147 = 9 /\ 159 - 147 = 12
  OBVIOUS
<1>4. /\ BinaryFunction(1, x, y) = x - y
      /\ BinaryFunction(9, x, y) = Truth(x = y)
      /\ BinaryFunction(12, x, y) = Truth(x < y)
  BY DEF BinaryFunction
<1>5. QED
  BY <1>1, <1>2, <1>3, <1>4 DEF BinaryResult

LEMMA TruthValues ==
    ASSUME NEW b \in BOOLEAN
    PROVE  BoolOf(encodeScriptNumber(Truth(b))) <=> b
<1>1. CASE b
  <2> DEFINE e == encodeScriptNumber(1)
  <2>1. Digits(1) = << 1 >>
    <3>1. 1 % 256 = 1 /\ 1 \div 256 = 0 /\ 1 \in Nat
      OBVIOUS
    <3>2. Digits(1) = << 1 % 256 >> \o Digits(1 \div 256)
      BY <3>1, DigitsEquation
    <3>3. << 1 >> \o << >> = << 1 >>
      OBVIOUS
    <3>4. QED
      BY <3>1, <3>2, <3>3, DigitsEquation
  <2>2. Magnitude(1) = 1
    BY DEF Magnitude
  <2>3. e = [<< 1 >> EXCEPT ![1] = 1]
    <3>1. Len(<< 1 >>) = 1 /\ Last(<< 1 >>) = 1
      BY DEF Last
    <3>2. QED
      BY <2>1, <2>2, <3>1 DEF encodeScriptNumber, SignBit
  <2>4. DOMAIN e = {1} /\ e[1] = 1 /\ Len(e) = 1
    BY <2>3
  <2>5. e[1] # 0 /\ Last(e) # SignBit
    BY <2>4 DEF Last, SignBit
  <2>6. BoolOf(e)
    BY <2>4, <2>5 DEF BoolOf
  <2>7. QED
    BY <1>1, <2>6 DEF Truth
<1>2. CASE ~b
  <2>1. encodeScriptNumber(0) = vFalse
    BY DEF encodeScriptNumber, vFalse
  <2>2. QED
    BY <1>2, <2>1, BoolValues DEF Truth
<1>3. QED
  BY <1>1, <1>2

LEMMA JudgeStep ==
    ASSUME Running, phase = "output", code \in Seq(Byte), code # << >>, pos = Len(code) + 1,
           NEW b \in BOOLEAN, stack = Append(<< >>, encodeScriptNumber(Truth(b))), Next
    PROVE  scripts' = scripts /\ phase' = IF b THEN "accepted" ELSE "rejected"
<1>1. Judge
  BY ScriptEnds
<1>2. Truth(b) \in Int
  BY TruthIsInt
<1>3. encodeScriptNumber(Truth(b)) \in Strings /\ << >> \in Seq(Strings)
  BY <1>2, EncodedIsBytes, EmptySeq DEF Strings
<1>4. stack # << >> /\ Top(1) = encodeScriptNumber(Truth(b))
  BY <1>3, TopOne
<1>5. QED
  BY <1>1, <1>4, TruthValues DEF Judge

\* The input script pushes x and y.
NumbersRead(x, y) == PairReads(WrittenInteger(x), WrittenInteger(y),
                               encodeScriptNumber(x), encodeScriptNumber(y))
NumbersPushed(x, y) ==
    At("output", 1, Both(encodeScriptNumber(x), encodeScriptNumber(y)))

\* What the script decides about b.
Decided(b) == \/ phase = "accepted" /\ b
              \/ phase = "rejected" /\ ~b

LessStage(x, y) ==
    \/ NumbersRead(x, y) \/ NumbersPushed(x, y)
    \/ At("output", 2, Append(<< >>, encodeScriptNumber(Truth(x < y))))
    \/ Decided(x < y)

DifferenceStage(x, y, z) ==
    \/ NumbersRead(x, y) \/ NumbersPushed(x, y)
    \/ At("output", 2, Append(<< >>, encodeScriptNumber(x - y)))
    \/ At("output", 2 + Len(WrittenInteger(z)),
          Both(encodeScriptNumber(x - y), encodeScriptNumber(z)))
    \/ At("output", 3 + Len(WrittenInteger(z)),
          Append(<< >>, encodeScriptNumber(Truth(x - y = z))))
    \/ Decided(x - y = z)

NumbersInv ==
    /\ scripts \in Scripts
    /\ (scripts.kind = "number") =>
          \E v \in Represented :
              scripts = PushNumber(v) /\ PushStage(WrittenInteger(v), encodeScriptNumber(v))
    /\ (scripts.kind = "text") =>
          \E n \in Nat : /\ n < 256 ^ 4 /\ scripts = PushText(n)
                         /\ PushStage(WrittenString(Text(n)), Text(n))
    /\ (scripts.kind = "less") =>
          \E x, y \in Represented : scripts = Less(x, y) /\ LessStage(x, y)
    /\ (scripts.kind = "difference") =>
          \E x, y, z \in Represented :
              scripts = Difference(x, y, z) /\ DifferenceStage(x, y, z)

LEMMA IntegerPushes ==
    ASSUME NEW v \in Represented
    PROVE  Pushes(WrittenInteger(v), encodeScriptNumber(v)) /\ v \in Int
  BY DEF Pushes, Represented

LEMMA NumbersReading ==
    ASSUME NEW x \in Represented, NEW y \in Represented, NumbersRead(x, y), Next,
           scripts.input = WrittenInteger(x) \o WrittenInteger(y)
    PROVE  scripts' = scripts /\ (NumbersRead(x, y)' \/ NumbersPushed(x, y)')
<1> DEFINE a == WrittenInteger(x)
           b == WrittenInteger(y)
           s == encodeScriptNumber(x)
           t == encodeScriptNumber(y)
<1>1. Pushes(a, s) /\ Pushes(b, t) /\ scripts.input = a \o b
  BY IntegerPushes
<1>2. PairReads(a, b, s, t)
  BY DEF NumbersRead
<1>3. NumbersRead(x, y)' <=> PairReads(a, b, s, t)'
  BY DEF NumbersRead
<1>4. NumbersPushed(x, y)' <=> At("output", 1, Both(s, t))'
  BY DEF NumbersPushed
<1>5. (PairReads(a, b, s, t)' \/ At("output", 1, Both(s, t))') /\ scripts' = scripts
  <2> HIDE DEF a, b, s, t
  <2>1. /\ PairReads(a, b, s, t)' \/ At("output", 1, Both(s, t))'
        /\ scripts' = scripts
    BY <1>1, <1>2, PairStep
  <2>2. QED
    BY <2>1
<1>6. QED
  BY <1>3, <1>4, <1>5

LEMMA DecidedStays ==
    ASSUME NEW b \in BOOLEAN, Decided(b), Next
    PROVE  Decided(b)' /\ scripts' = scripts
<1>1. UNCHANGED vars
  BY Stopped DEF Decided, Running
<1>2. QED
  BY <1>1 DEF vars, Decided

LEMMA LessNext ==
    ASSUME NEW x \in Represented, NEW y \in Represented, scripts = Less(x, y),
           LessStage(x, y), Next
    PROVE  LessStage(x, y)' /\ scripts' = scripts
<1> DEFINE b == x < y
           e == encodeScriptNumber(Truth(b))
<1>1. x \in Int /\ y \in Int
  BY IntegerPushes
<1>2. b \in BOOLEAN
  BY <1>1
<1>3. phase = "output" => code \in Seq(Byte) /\ code # << >> /\ Len(code) = 1 /\ code[1] = 159
  <2>1. phase = "output" => code = << 159 >>
    BY DEF code, Less, LESSTHAN
  <2>2. 159 \in Byte
    BY DEF Byte
  <2>3. QED
    BY <2>1, <2>2, OneByteCode
<1>4. CASE NumbersRead(x, y)
  <2>1. scripts.input = WrittenInteger(x) \o WrittenInteger(y)
    BY DEF Less
  <2>2. QED
    BY <1>4, <2>1, NumbersReading DEF LessStage
<1>5. CASE NumbersPushed(x, y)
  <2> USE DEF At
  <2>1. Reading(1) /\ code[1] = 159
    BY <1>3, <1>5 DEF Reading, Running, NumbersPushed
  <2>2. stack = Append(Append(<< >>, encodeScriptNumber(x)), encodeScriptNumber(y))
    BY <1>5 DEF NumbersPushed, Both
  <2> DEFINE ex == encodeScriptNumber(x)
             ey == encodeScriptNumber(y)
  <2>3. ex \in Strings /\ ey \in Strings /\ << >> \in Seq(Strings)
    BY <1>1, EncodedIsBytes, EmptySeq DEF Strings
  <2>4. BinaryResult(159, ex, ey) = e
    BY <1>1, BinaryResults
  <2> HIDE DEF ex, ey, e
  <2>5. stack = Append(Append(<< >>, ex), ey)
    BY <2>2 DEF ex, ey
  <2>6. /\ stack' = Append(<< >>, BinaryResult(code[1], ex, ey)) /\ pos' = 1 + 1
        /\ UNCHANGED << scripts, phase, errcode, failed >>
    <3> DEFINE p == 1
    <3>1. Reading(p) /\ code[p] \in {148, 156, 159}
      BY <2>1
    <3> HIDE DEF p
    <3>2. /\ stack' = Append(<< >>, BinaryResult(code[p], ex, ey)) /\ pos' = p + 1
          /\ UNCHANGED << scripts, phase, errcode, failed >>
      BY <2>3, <2>5, <3>1, BinaryStep
    <3>3. QED
      BY <3>2 DEF p
  <2>7. At("output", 2, Append(<< >>, e))' /\ scripts' = scripts
    BY <1>5, <2>1, <2>4, <2>6 DEF NumbersPushed
  <2>8. QED
    BY <2>7 DEF LessStage, e
<1>6. CASE At("output", 2, Append(<< >>, e))
  <2>1. phase = "output" /\ pos = 2 /\ Running /\ stack = Append(<< >>, e)
    BY <1>6 DEF Running, At
  <2>2. code \in Seq(Byte) /\ code # << >> /\ Len(code) = 1
    BY <1>3, <2>1
  <2>3. pos = Len(code) + 1
    BY <2>1, <2>2
  <2> HIDE DEF b
  <2>4. scripts' = scripts /\ phase' = IF b THEN "accepted" ELSE "rejected"
    BY <1>2, <2>1, <2>2, <2>3, JudgeStep
  <2>5. Decided(b)'
    BY <1>2, <2>4 DEF Decided, b
  <2>6. QED
    BY <2>4, <2>5 DEF LessStage, b
<1>7. CASE Decided(b)
  <2>1. Decided(b)' /\ scripts' = scripts
    BY <1>2, <1>7, DecidedStays
  <2>2. QED
    BY <2>1 DEF LessStage
<1>8. QED
  BY <1>4, <1>5, <1>6, <1>7 DEF LessStage

\* The output script of a difference.
LEMMA DifferenceOutput ==
    ASSUME NEW x, NEW y, NEW z \in Represented, scripts = Difference(x, y, z),
           phase = "output"
    PROVE  LET q == 2 + Len(WrittenInteger(z))
           IN  /\ code \in Seq(Byte) /\ code # << >> /\ Len(code) = q /\ q \in Nat /\ q >= 3
               /\ code[1] = 148 /\ Holds(2, WrittenInteger(z)) /\ code[q] = 156
<1> DEFINE a == << SUB >>
           b == WrittenInteger(z)
           c == << NUMEQUAL >>
<1>1. b \in Seq(Byte) /\ Len(b) \in Nat \ {0}
  BY WrittenIntegerIsBytes DEF Represented
<1>2. 148 \in Byte /\ 156 \in Byte
  BY DEF Byte
<1>3. a = << 148 >> /\ c = << 156 >>
  BY OpcodeValues DEF SUB, NUMEQUAL
<1>4. code = (a \o b) \o c
  BY DEF code, Difference
<1> HIDE DEF a, b, c
<1>5. a \in Seq(Byte) /\ Len(a) = 1 /\ c \in Seq(Byte) /\ Len(c) = 1
  BY <1>2, <1>3
<1> DEFINE ab == a \o b
<1>6. ab \in Seq(Byte) /\ Len(ab) = 1 + Len(b)
  <2>1. a \in Seq(Byte) /\ b \in Seq(Byte)
    BY <1>1, <1>5
  <2>2. a \o b \in Seq(Byte) /\ Len(a \o b) = Len(a) + Len(b)
    BY <2>1, ConcatProperties
  <2>3. QED
    BY <1>5, <2>2
<1>7. code = ab \o c
  BY <1>4
<1> HIDE DEF ab
<1>8. code \in Seq(Byte) /\ Len(code) = Len(ab) + Len(c)
  BY <1>5, <1>6, <1>7, ConcatProperties
<1>9. Holds(1, ab \o c)
  BY <1>7, <1>8, WholeHeld
<1>10. Holds(1, ab) /\ Holds(1 + Len(ab), c)
  BY <1>5, <1>6, <1>8, <1>9, PartsHeld
<1>11. Holds(1, a \o b)
  BY <1>10 DEF ab
<1>12. Holds(1, a) /\ Holds(1 + Len(a), b)
  <2>1. a \in Seq(Byte) /\ b \in Seq(Byte) /\ code \in Seq(Byte) /\ 1 \in Nat \ {0}
    BY <1>1, <1>5, <1>8
  <2>2. QED
    BY <1>11, <2>1, PartsHeld
<1>13. code[1] = 148
  BY <1>2, <1>3, <1>12, OneByteHeld
<1> DEFINE q == 1 + Len(ab)
<1>14. q \in Nat \ {0} /\ Holds(q, c) /\ q = 2 + Len(b)
  BY <1>1, <1>6, <1>10
<1> HIDE DEF q
<1>15. code[q] = 156
  BY <1>2, <1>3, <1>14, OneByteHeld
<1>16. Holds(2, b)
  BY <1>5, <1>12
<1>17. code # << >>
  BY <1>1, <1>5, <1>6, <1>8, EmptySeq
<1>18. Len(code) = 2 + Len(b) /\ 2 + Len(b) \in Nat /\ 2 + Len(b) >= 3
  BY <1>1, <1>5, <1>6, <1>8
<1>19. QED
  BY <1>8, <1>13, <1>14, <1>15, <1>16, <1>17, <1>18 DEF b

LEMMA DifferenceNext ==
    ASSUME NEW x \in Represented, NEW y \in Represented, NEW z \in Represented,
           scripts = Difference(x, y, z), DifferenceStage(x, y, z), Next
    PROVE  DifferenceStage(x, y, z)' /\ scripts' = scripts
<1> DEFINE d == x - y
           b == x - y = z
           n == Len(WrittenInteger(z))
           ed == encodeScriptNumber(d)
           ez == encodeScriptNumber(z)
           e == encodeScriptNumber(Truth(b))
<1>1. x \in Int /\ y \in Int /\ z \in Int /\ d \in Int
  BY IntegerPushes
<1>2. b \in BOOLEAN
  OBVIOUS
<1>3. ed \in Strings /\ ez \in Strings /\ << >> \in Seq(Strings)
  BY <1>1, EncodedIsBytes, EmptySeq DEF Strings
<1>4. phase = "output" =>
         /\ code \in Seq(Byte) /\ code # << >> /\ Len(code) = 2 + n /\ 2 + n \in Nat
         /\ 2 + n >= 3 /\ code[1] = 148 /\ Holds(2, WrittenInteger(z)) /\ code[2 + n] = 156
  BY DifferenceOutput
<1>5. CASE NumbersRead(x, y)
  <2>1. scripts.input = WrittenInteger(x) \o WrittenInteger(y)
    BY DEF Difference
  <2>2. QED
    BY <1>5, <2>1, NumbersReading DEF DifferenceStage
<1>6. CASE NumbersPushed(x, y)
  <2> USE DEF At
  <2>1. Reading(1) /\ code[1] = 148
    BY <1>4, <1>6 DEF Reading, Running, NumbersPushed
  <2>2. stack = Append(Append(<< >>, encodeScriptNumber(x)), encodeScriptNumber(y))
    BY <1>6 DEF NumbersPushed, Both
  <2> DEFINE ex == encodeScriptNumber(x)
             ey == encodeScriptNumber(y)
  <2>3. ex \in Strings /\ ey \in Strings
    BY <1>1, EncodedIsBytes DEF Strings
  <2>4. BinaryResult(148, ex, ey) = ed
    BY <1>1, BinaryResults
  <2> HIDE DEF ex, ey, ed
  <2>5. stack = Append(Append(<< >>, ex), ey)
    BY <2>2 DEF ex, ey
  <2>6. /\ stack' = Append(<< >>, BinaryResult(code[1], ex, ey)) /\ pos' = 1 + 1
        /\ UNCHANGED << scripts, phase, errcode, failed >>
    <3> DEFINE p == 1
    <3>1. Reading(p) /\ code[p] \in {148, 156, 159}
      BY <2>1
    <3> HIDE DEF p
    <3>2. /\ stack' = Append(<< >>, BinaryResult(code[p], ex, ey)) /\ pos' = p + 1
          /\ UNCHANGED << scripts, phase, errcode, failed >>
      BY <1>3, <2>3, <2>5, <3>1, BinaryStep
    <3>3. QED
      BY <3>2 DEF p
  <2>7. At("output", 2, Append(<< >>, ed))' /\ scripts' = scripts
    BY <1>6, <2>1, <2>4, <2>6 DEF NumbersPushed
  <2>8. QED
    BY <2>7 DEF DifferenceStage, ed
<1>7. CASE At("output", 2, Append(<< >>, ed))
  <2> DEFINE w == WrittenInteger(z)
  <2>1. Reading(2) /\ Holds(2, w)
    BY <1>4, <1>7 DEF Reading, Running, At
  <2>2. stack \in Seq(Strings)
    BY <1>3, <1>7, AppendProperties DEF At
  <2>3. Pushes(w, ez)
    BY IntegerPushes
  <2> HIDE DEF w, ez
  <2>4. Pushed(ez, Len(w))
    BY <2>1, <2>2, <2>3, PushStep
  <2>5. At("output", 2 + n, Both(ed, ez))' /\ scripts' = scripts
    BY <1>7, <2>4 DEF Pushed, At, Both, w
  <2>6. QED
    BY <2>5 DEF DifferenceStage, ez
<1>8. CASE At("output", 2 + n, Both(ed, ez))
  <2> DEFINE p == 2 + n
  <2>1. Reading(p) /\ code[p] = 156
    BY <1>4, <1>8 DEF Reading, Running, At
  <2>2. stack = Append(Append(<< >>, encodeScriptNumber(d)), encodeScriptNumber(z))
    BY <1>8 DEF At, Both
  <2>3. BinaryResult(156, ed, ez) = e
    BY <1>1, BinaryResults
  <2>4. p + 1 = 3 + n
    BY <1>4, <1>8 DEF At
  <2> HIDE DEF p, d, ed, ez, e
  <2>5. stack = Append(Append(<< >>, ed), ez)
    BY <2>2 DEF ed, ez
  <2>6. /\ stack' = Append(<< >>, BinaryResult(code[p], ed, ez)) /\ pos' = p + 1
        /\ UNCHANGED << scripts, phase, errcode, failed >>
    BY <1>3, <2>1, <2>5, BinaryStep
  <2>7. At("output", 3 + n, Append(<< >>, e))' /\ scripts' = scripts
    BY <1>8, <2>1, <2>3, <2>4, <2>6 DEF At
  <2>8. QED
    BY <2>7 DEF DifferenceStage, e
<1>9. CASE At("output", 3 + n, Append(<< >>, e))
  <2>1. phase = "output" /\ pos = 3 + n /\ Running /\ stack = Append(<< >>, e)
    BY <1>9 DEF Running, At
  <2>2. code \in Seq(Byte) /\ code # << >> /\ Len(code) = 2 + n /\ 2 + n \in Nat
    BY <1>4, <2>1
  <2> HIDE DEF n
  <2>3. pos = Len(code) + 1
    <3>1. n \in Nat
      BY WrittenIntegerIsBytes DEF n, Represented
    <3>2. QED
      BY <2>1, <2>2, <3>1
  <2> HIDE DEF b
  <2>4. scripts' = scripts /\ phase' = IF b THEN "accepted" ELSE "rejected"
    BY <1>2, <2>1, <2>2, <2>3, JudgeStep
  <2>5. Decided(b)'
    BY <1>2, <2>4 DEF Decided, b
  <2>6. QED
    BY <2>4, <2>5 DEF DifferenceStage, b
<1>10. CASE Decided(b)
  <2>1. Decided(b)' /\ scripts' = scripts
    BY <1>2, <1>10, DecidedStays
  <2>2. QED
    BY <2>1 DEF DifferenceStage
<1>11. QED
  BY <1>5, <1>6, <1>7, <1>8, <1>9, <1>10 DEF DifferenceStage

LEMMA TextIsPushable ==
    ASSUME NEW n \in Nat, n < 256 ^ 4
    PROVE  Text(n) \in Pushable
<1> DEFINE t == [i \in 1 .. n |-> IF i = n THEN 7 ELSE 0]
<1>1. 7 \in Byte /\ 0 \in Byte
  BY DEF Byte
<1>2. t \in Seq(Byte) /\ Len(t) = n
  <2>1. \A i \in 1 .. n : (IF i = n THEN 7 ELSE 0) \in Byte
    BY <1>1
  <2>2. QED
    BY <2>1
<1>3. Text(n) = t
  BY DEF Text
<1>4. QED
  BY <1>2, <1>3 DEF Pushable

LEMMA NumbersInit ==
    ASSUME NumbersAreWritten, Init
    PROVE  NumbersInv
<1>1. At("input", 1, << >>) /\ scripts \in Scripts
  BY DEF Init, At
<1>2. \A w, s : PushStage(w, s)
  BY <1>1 DEF PushStage
<1>3. \A x, y : LessStage(x, y)
  BY <1>1 DEF LessStage, NumbersRead, PairReads
<1>4. \A x, y, z : DifferenceStage(x, y, z)
  BY <1>1 DEF DifferenceStage, NumbersRead, PairReads
<1>5. QED
  BY <1>1, <1>2, <1>3, <1>4 DEF NumbersInv, NumbersAreWritten

LEMMA NumbersNext ==
    ASSUME NumbersInv, [Next]_vars
    PROVE  NumbersInv'
<1>1. scripts' = scripts /\ scripts \in Scripts
  BY ScriptsStay DEF NumbersInv
<1>2. CASE UNCHANGED vars
  <2>1. UNCHANGED << scripts, phase, pos, stack, errcode, failed >>
    BY <1>2 DEF vars
  <2>2. \A w, s : PushStage(w, s) => PushStage(w, s)'
    BY <2>1 DEF PushStage, At, Judged
  <2>3. \A x, y : LessStage(x, y) => LessStage(x, y)'
    BY <2>1 DEF LessStage, NumbersRead, NumbersPushed, PairReads, At, Decided
  <2>4. \A x, y, z : DifferenceStage(x, y, z) => DifferenceStage(x, y, z)'
    BY <2>1 DEF DifferenceStage, NumbersRead, NumbersPushed, PairReads, At, Decided
  <2>5. QED
    BY <1>1, <2>2, <2>3, <2>4 DEF NumbersInv
<1>3. CASE Next
  <2>1. ASSUME scripts.kind = "number"
        PROVE  \E v \in Represented :
                  /\ scripts = PushNumber(v)
                  /\ PushStage(WrittenInteger(v), encodeScriptNumber(v))'
    <3>1. PICK v \in Represented :
              scripts = PushNumber(v) /\ PushStage(WrittenInteger(v), encodeScriptNumber(v))
      BY <2>1 DEF NumbersInv
    <3> DEFINE w == WrittenInteger(v)
               s == encodeScriptNumber(v)
    <3>2. Pushes(w, s) /\ scripts.input = w /\ scripts.output = << OP.NOP >>
      BY <3>1, IntegerPushes DEF PushNumber
    <3>3. PushStage(w, s)
      BY <3>1
    <3> HIDE DEF w, s
    <3>4. PushStage(w, s)'
      BY <1>3, <3>2, <3>3, PushStageNext
    <3>5. QED
      BY <3>1, <3>4 DEF w, s
  <2>2. ASSUME scripts.kind = "text"
        PROVE  \E n \in Nat : /\ n < 256 ^ 4 /\ scripts = PushText(n)
                              /\ PushStage(WrittenString(Text(n)), Text(n))'
    <3>1. PICK n \in Nat : /\ n < 256 ^ 4 /\ scripts = PushText(n)
                           /\ PushStage(WrittenString(Text(n)), Text(n))
      BY <2>2 DEF NumbersInv
    <3> DEFINE s == Text(n)
               w == WrittenString(s)
    <3>2. s \in Pushable
      BY <3>1, TextIsPushable
    <3>3. Pushes(w, s) /\ scripts.input = w /\ scripts.output = << OP.NOP >>
      BY <3>1, <3>2 DEF PushText, Pushes
    <3>4. PushStage(w, s)
      BY <3>1
    <3> HIDE DEF w, s
    <3>5. PushStage(w, s)'
      BY <1>3, <3>3, <3>4, PushStageNext
    <3>6. QED
      BY <3>1, <3>5 DEF w, s
  <2>3. ASSUME scripts.kind = "less"
        PROVE  \E x, y \in Represented : scripts = Less(x, y) /\ LessStage(x, y)'
    BY <1>3, <2>3, LessNext DEF NumbersInv
  <2>4. ASSUME scripts.kind = "difference"
        PROVE  \E x, y, z \in Represented :
                  scripts = Difference(x, y, z) /\ DifferenceStage(x, y, z)'
    BY <1>3, <2>4, DifferenceNext DEF NumbersInv
  <2>5. QED
    BY <1>1, <2>1, <2>2, <2>3, <2>4 DEF NumbersInv
<1>4. QED
  BY <1>2, <1>3

\* What the writers write, the machine reads as the same number or string, for
\* every integer and every string that a push opcode can push; and a subtraction
\* and the two comparisons decide as the integers do (ScriptBuilder::addInteger,
\* addPushData, encodeScriptNumber; script_pushdata, script_pushnumber,
\* decodeScriptNumber, numeric_binary_op, getBoolValue).
THEOREM NumbersDoSurvive ==
    ASSUME NumbersAreWritten
    PROVE  Spec => []NumbersSurvive
<1>1. Init => NumbersInv
  BY NumbersInit
<1>2. NumbersInv /\ [Next]_vars => NumbersInv'
  BY NumbersNext
<1>3. NumbersInv => NumbersSurvive
  <2> SUFFICES ASSUME NumbersInv
               PROVE  NumbersSurvive
    OBVIOUS
  <2>1. ASSUME phase = "output", pos = 1, NEW w, NEW s, Pushes(w, s), PushStage(w, s)
        PROVE  stack = << s >> /\ Len(stack) = 1 /\ Top(1) = s
    <3>1. w \in Seq(Byte) /\ Len(w) \in Nat \ {0} /\ s \in Strings /\ << >> \in Seq(Strings)
      BY <2>1, PushesBytes, EmptySeq
    <3>2. stack = Append(<< >>, s)
      BY <2>1 DEF PushStage, At, Judged
    <3>3. Append(<< >>, s) = << s >> /\ Len(<< s >>) = 1
      BY <3>1
    <3>4. Top(1) = s
      BY <3>1, <3>2, TopOne
    <3>5. QED
      BY <3>2, <3>3, <3>4
  <2>2. ASSUME phase = "output", pos = 1, scripts.kind = "number"
        PROVE  Len(stack) = 1 /\ Number(1) = scripts.value
    <3>1. PICK v \in Represented :
              scripts = PushNumber(v) /\ PushStage(WrittenInteger(v), encodeScriptNumber(v))
      BY <2>2 DEF NumbersInv
    <3>2. scripts.value = v /\ v \in Int
      BY <3>1, IntegerPushes DEF PushNumber
    <3>3. Len(stack) = 1 /\ Top(1) = encodeScriptNumber(v)
      BY <2>1, <2>2, <3>1, IntegerPushes
    <3>4. QED
      BY <3>2, <3>3, NumberReadsBack DEF Number
  <2>3. ASSUME phase = "output", pos = 1, scripts.kind = "text"
        PROVE  stack = << Text(scripts.length) >>
    <3>1. PICK n \in Nat : /\ n < 256 ^ 4 /\ scripts = PushText(n)
                           /\ PushStage(WrittenString(Text(n)), Text(n))
      BY <2>3 DEF NumbersInv
    <3>2. scripts.length = n
      BY <3>1 DEF PushText
    <3>3. Pushes(WrittenString(Text(n)), Text(n))
      BY <3>1, TextIsPushable DEF Pushes
    <3>4. QED
      BY <2>1, <2>3, <3>1, <3>2, <3>3
  <2>4. ASSUME phase \in {"accepted", "rejected"}, scripts.kind = "less"
        PROVE  phase = "accepted" <=> scripts.x < scripts.y
    <3>1. PICK x \in Represented, y \in Represented : scripts = Less(x, y) /\ LessStage(x, y)
      BY <2>4 DEF NumbersInv
    <3>2. Decided(x < y)
      BY <2>4, <3>1 DEF LessStage, NumbersRead, NumbersPushed, PairReads, At
    <3>3. scripts.x = x /\ scripts.y = y
      BY <3>1 DEF Less
    <3>4. QED
      BY <3>2, <3>3 DEF Decided
  <2>5. ASSUME phase \in {"accepted", "rejected"}, scripts.kind = "difference"
        PROVE  phase = "accepted" <=> scripts.x - scripts.y = scripts.z
    <3>1. PICK x \in Represented, y \in Represented, z \in Represented :
              scripts = Difference(x, y, z) /\ DifferenceStage(x, y, z)
      BY <2>5 DEF NumbersInv
    <3>2. Decided(x - y = z)
      BY <2>5, <3>1 DEF DifferenceStage, NumbersRead, NumbersPushed, PairReads, At
    <3>3. scripts.x = x /\ scripts.y = y /\ scripts.z = z
      BY <3>1 DEF Difference
    <3>4. QED
      BY <3>2, <3>3 DEF Decided
  <2>6. QED
    BY <2>2, <2>3, <2>4, <2>5 DEF NumbersSurvive
<1>4. QED
  BY <1>1, <1>2, <1>3, PTL DEF Spec

-----------------------------------------------------------------------------
(* Many values pushed one after the other.                                 *)

\* A recursion over a sequence stays among the values its steps yield.
LEMMA TypedRun ==
    ASSUME NEW n \in Nat, NEW X, NEW x0 \in X, NEW step \in [(1 .. n) \X X -> X],
           NEW v, v = [k \in 0 .. n |-> v[k]], v[0] = x0,
           \A k \in 1 .. n : v[k - 1] \in X => v[k] = step[<< k, v[k - 1] >>]
    PROVE  RunsThrough(v, n, X, x0, step)
<1> DEFINE T == {k \in Nat : k \in 0 .. n => v[k] \in X}
<1>1. 0 \in T
  OBVIOUS
<1>2. ASSUME NEW k \in Nat, k \in T
      PROVE  k + 1 \in T
  <2>1. SUFFICES ASSUME k + 1 \in 0 .. n
                 PROVE  v[k + 1] \in X
    OBVIOUS
  <2>2. k \in 0 .. n /\ k + 1 \in 1 .. n /\ (k + 1) - 1 = k
    BY <2>1
  <2>3. v[k] \in X
    BY <1>2, <2>2
  <2>4. v[k + 1] = step[<< k + 1, v[k] >>]
    BY <2>2, <2>3
  <2>5. << k + 1, v[k] >> \in (1 .. n) \X X
    BY <2>2, <2>3
  <2>6. QED
    BY <2>4, <2>5
<1> HIDE DEF T
<1>3. Nat \subseteq T
  BY <1>1, <1>2, Induction
<1>4. \A k \in 0 .. n : v[k] \in X
  BY <1>3, SMTT(40) DEF T
<1>5. v \in [0 .. n -> X]
  BY <1>4
<1>6. \A k \in 1 .. n : v[k] = step[<< k, v[k - 1] >>]
  <2> TAKE k \in 1 .. n
  <2>1. k - 1 \in 0 .. n
    OBVIOUS
  <2>2. QED
    BY <1>4, <2>1
<1>7. QED
  BY <1>5, <1>6 DEF RunsThrough

\* The recursion of Concat: what the first strings make.
FirstOf(strings) ==
    CHOOSE g : g = [n \in 0 .. Len(strings) |->
                       IF n = 0 THEN << >> ELSE g[n - 1] \o strings[n]]

Joins(f, strings) ==
    /\ f \in [0 .. Len(strings) -> Strings]
    /\ f[0] = << >>
    /\ \A k \in 1 .. Len(strings) : f[k] = f[k - 1] \o strings[k]

LEMMA FirstJoins ==
    ASSUME NEW strings \in Seq(Strings)
    PROVE  /\ Joins(FirstOf(strings), strings)
           /\ Concat(strings) = FirstOf(strings)[Len(strings)]
<1> DEFINE n == Len(strings)
           X == Strings
           step == [p \in (1 .. n) \X X |-> p[2] \o strings[p[1]]]
           v == FirstOf(strings)
<1>1. n \in Nat /\ \A k \in 1 .. n : strings[k] \in X
  BY LenProperties, ElementOfSeq
<1>2. << >> \in X
  BY EmptySeq DEF Strings
<1>3. \A k \in 1 .. n, x \in X : step[<< k, x >>] = x \o strings[k]
  OBVIOUS
<1>4. step \in [(1 .. n) \X X -> X]
  <2>1. \A x, y \in X : x \o y \in X
    BY ConcatProperties DEF Strings
  <2>2. \A p \in (1 .. n) \X X : p[2] \o strings[p[1]] \in X
    <3> TAKE p \in (1 .. n) \X X
    <3>1. p[1] \in 1 .. n /\ p[2] \in X
      OBVIOUS
    <3>2. QED
      BY <1>1, <2>1, <3>1
  <2>3. QED
    BY <2>2
<1>5. Concat(strings) = v[n]
  BY DEF Concat, FirstOf
<1> HIDE DEF step, X
<1>6. HasRun(n, X, << >>, step)
  <2> DEFINE x0 == << >>
  <2>1. x0 \in X
    BY <1>2
  <2> HIDE DEF n, x0
  <2>2. HasRun(n, X, x0, step)
    BY <1>1, <1>4, <2>1, RunExists
  <2>3. QED
    BY <2>2 DEF x0
<1>7. PICK f : RunsThrough(f, n, X, << >>, step)
  BY <1>6 DEF HasRun
<1>8. f = [k \in 0 .. n |-> IF k = 0 THEN << >> ELSE f[k - 1] \o strings[k]]
  <2>1. f \in [0 .. n -> X] /\ f[0] = << >>
    BY <1>7 DEF RunsThrough
  <2>2. ASSUME NEW k \in 0 .. n
        PROVE  f[k] = IF k = 0 THEN << >> ELSE f[k - 1] \o strings[k]
    <3>1. CASE k = 0
      BY <2>1, <3>1
    <3>2. CASE k # 0
      <4>1. k \in 1 .. n /\ k - 1 \in 0 .. n
        BY <1>1, <3>2
      <4>2. f[k] = step[<< k, f[k - 1] >>] /\ f[k - 1] \in X
        BY <1>7, <2>1, <4>1 DEF RunsThrough
      <4>3. QED
        BY <1>3, <3>2, <4>1, <4>2
    <3>3. QED
      BY <3>1, <3>2
  <2>3. QED
    BY <2>1, <2>2
<1>9. v = [k \in 0 .. n |-> IF k = 0 THEN << >> ELSE v[k - 1] \o strings[k]]
  BY <1>8, ZenonT(30) DEF FirstOf
<1> HIDE DEF v
<1>10. v[0] = << >> /\ \A k \in 1 .. n : v[k] = v[k - 1] \o strings[k]
  <2>1. \A k \in 0 .. n : v[k] = IF k = 0 THEN << >> ELSE v[k - 1] \o strings[k]
    BY <1>9
  <2>2. 0 \in 0 .. n /\ \A k \in 1 .. n : k \in 0 .. n /\ k # 0
    BY <1>1
  <2>3. QED
    BY <2>1, <2>2
<1>11. v = [k \in 0 .. n |-> v[k]]
  BY <1>9
<1>12. RunsThrough(v, n, X, << >>, step)
  <2> DEFINE x0 == << >>
  <2>1. x0 \in X /\ v[0] = x0
    BY <1>2, <1>10
  <2>2. \A k \in 1 .. n : v[k - 1] \in X => v[k] = step[<< k, v[k - 1] >>]
    BY <1>3, <1>10
  <2> HIDE DEF n, x0
  <2>3. RunsThrough(v, n, X, x0, step)
    BY <1>1, <1>4, <1>11, <2>1, <2>2, TypedRun
  <2>4. QED
    BY <2>3 DEF x0
<1>13. v \in [0 .. n -> X]
  BY <1>12 DEF RunsThrough
<1>14. QED
  BY <1>5, <1>10, <1>13 DEF Joins, X, v

\* Where a string is in the code.
HeldAt(p, f, strings, k) ==
    /\ Holds(p + Len(f[k - 1]), strings[k]) /\ p + Len(f[k - 1]) \in Nat \ {0}
    /\ Len(f[k]) = Len(f[k - 1]) + Len(strings[k])

LEMMA JoinedHeld ==
    ASSUME code \in Seq(Byte), NEW p \in Nat \ {0}, NEW strings \in Seq(Strings),
           NEW f, Joins(f, strings), Holds(p, f[Len(strings)]), NEW k \in 1 .. Len(strings)
    PROVE  HeldAt(p, f, strings, k)
<1> DEFINE n == Len(strings)
<1>1. n \in Nat /\ \A i \in 1 .. n : strings[i] \in Seq(Byte)
  BY LenProperties, ElementOfSeq DEF Strings
<1>2. \A i \in 0 .. n : f[i] \in Seq(Byte)
  BY DEF Joins, Strings
<1>3. \A i \in 1 .. n : f[i] = f[i - 1] \o strings[i] /\ i - 1 \in 0 .. n
  <2>1. \A i \in 1 .. n : f[i] = f[i - 1] \o strings[i]
    BY DEF Joins
  <2>2. \A i \in 1 .. n : i - 1 \in 0 .. n
    BY <1>1
  <2>3. QED
    BY <2>1, <2>2
<1>4. ASSUME NEW i \in 1 .. n, Holds(p, f[i])
      PROVE  /\ Holds(p, f[i - 1]) /\ Holds(p + Len(f[i - 1]), strings[i])
             /\ p + Len(f[i - 1]) \in Nat \ {0} /\ Len(f[i]) = Len(f[i - 1]) + Len(strings[i])
  <2> DEFINE a == f[i - 1]
             b == strings[i]
  <2>1. a \in Seq(Byte) /\ b \in Seq(Byte) /\ f[i] = a \o b
    BY <1>1, <1>2, <1>3
  <2> HIDE DEF a, b
  <2>2. /\ Holds(p, a) /\ Holds(p + Len(a), b)
        /\ p + Len(a) \in Nat \ {0} /\ Len(a \o b) = Len(a) + Len(b)
    BY <1>4, <2>1, PartsHeld
  <2>3. QED
    BY <2>1, <2>2 DEF a, b
<1> DEFINE T == {j \in Nat : j <= n => Holds(p, f[n - j])}
<1>5. 0 \in T
  <2>1. n - 0 = n
    BY <1>1
  <2>2. QED
    BY <2>1
<1>6. ASSUME NEW j \in Nat, j \in T
      PROVE  j + 1 \in T
  <2>1. SUFFICES ASSUME j + 1 <= n
                 PROVE  Holds(p, f[n - (j + 1)])
    OBVIOUS
  <2>2. n - j \in 1 .. n /\ n - (j + 1) = (n - j) - 1 /\ j <= n
    BY <1>1, <2>1
  <2>3. Holds(p, f[n - j])
    BY <1>6, <2>2
  <2>4. QED
    BY <1>4, <2>2, <2>3
<1> HIDE DEF T
<1>7. Nat \subseteq T
  BY <1>5, <1>6, Induction
<1>8. Holds(p, f[k])
  <2>1. n - k \in Nat /\ n - k <= n /\ n - (n - k) = k
    BY <1>1
  <2>2. n - k \in T
    BY <1>7, <2>1
  <2>3. Holds(p, f[n - (n - k)])
    BY <2>1, <2>2 DEF T
  <2>4. QED
    BY <2>1, <2>3
<1>9. QED
  BY <1>4, <1>8 DEF HeldAt

\* The bytes that push each of the strings.
Written(strings) == [i \in DOMAIN strings |-> WrittenString(strings[i])]

\* k of the strings, written from position p on, have been pushed onto the base.
PushedSome(ph, p, base, strings, k) ==
    At(ph, p + Len(FirstOf(Written(strings))[k]), base \o SubSeq(strings, 1, k))

LEMMA WrittenAre ==
    ASSUME NEW strings \in Seq(Pushable)
    PROVE  /\ Len(strings) \in Nat /\ strings \in Seq(Strings)
           /\ \A i \in 1 .. Len(strings) : strings[i] \in Pushable
           /\ Written(strings) \in Seq(Strings) /\ Len(Written(strings)) = Len(strings)
           /\ \A i \in 1 .. Len(strings) : Written(strings)[i] = WrittenString(strings[i])
           /\ WrittenStrings(strings) = Concat(Written(strings))
<1> DEFINE n == Len(strings)
           w == Written(strings)
<1>1. n \in Nat /\ DOMAIN strings = 1 .. n /\ \A i \in 1 .. n : strings[i] \in Pushable
  BY LenProperties, ElementOfSeq
<1>2. \A i \in 1 .. n : WrittenString(strings[i]) \in Strings
  BY <1>1, WrittenIsBytes DEF Strings
<1>3. w = [i \in 1 .. n |-> WrittenString(strings[i])]
  BY <1>1 DEF Written
<1> HIDE DEF w
<1>4. w \in Seq(Strings) /\ Len(w) = n /\ \A i \in 1 .. n : w[i] = WrittenString(strings[i])
  BY <1>1, <1>2, <1>3
<1>5. strings \in Seq(Strings)
  <2>1. Pushable \subseteq Strings
    BY DEF Pushable, Strings
  <2>2. QED
    BY <2>1, SeqMonotonic
<1>6. WrittenStrings(strings) = Concat(w)
  BY DEF WrittenStrings, Written, w
<1>7. QED
  BY <1>1, <1>4, <1>5, <1>6 DEF w

LEMMA WrittenStringsAre ==
    ASSUME NEW strings \in Seq(Pushable)
    PROVE  LET f == FirstOf(Written(strings))
           IN  /\ Joins(f, Written(strings)) /\ f[0] = << >>
               /\ WrittenStrings(strings) = f[Len(strings)]
               /\ WrittenStrings(strings) \in Seq(Byte)
<1> DEFINE f == FirstOf(Written(strings))
           w == Written(strings)
<1>1. w \in Seq(Strings) /\ Len(w) = Len(strings) /\ Len(strings) \in Nat
      /\ WrittenStrings(strings) = Concat(w)
  BY WrittenAre
<1> HIDE DEF w
<1>2. Joins(FirstOf(w), w) /\ Concat(w) = FirstOf(w)[Len(w)]
  BY <1>1, FirstJoins
<1>3. FirstOf(w)[Len(w)] \in Strings /\ FirstOf(w)[0] = << >>
  BY <1>1, <1>2 DEF Joins
<1>4. QED
  BY <1>1, <1>2, <1>3 DEF w, Strings

LEMMA OneMore ==
    ASSUME NEW base \in Seq(Strings), NEW strings \in Seq(Strings), NEW k \in Nat,
           k < Len(strings)
    PROVE  /\ base \o SubSeq(strings, 1, k) \in Seq(Strings)
           /\ Append(base \o SubSeq(strings, 1, k), strings[k + 1])
              = base \o SubSeq(strings, 1, k + 1)
<1> DEFINE a == SubSeq(strings, 1, k)
           x == strings[k + 1]
<1>1. Len(strings) \in Nat /\ k + 1 \in 1 .. Len(strings) /\ k + 1 \in 1 .. Len(strings)
  BY LenProperties
<1>2. x \in Strings
  BY <1>1, ElementOfSeq
<1>3. a \in Seq(Strings)
  <2>1. \A i \in 1 .. k : strings[i] \in Strings
    BY <1>1, ElementOfSeq
  <2>2. QED
    BY <2>1, SubSeqProperties
<1>4. SubSeq(strings, 1, k + 1) = a \o << x >>
  <2>1. 1 \in 1 .. Len(strings) /\ k + 1 \in 1 .. Len(strings) /\ (k + 1) - 1 = k
    BY <1>1
  <2>2. SubSeq(strings, 1, k + 1) = SubSeq(strings, 1, (k + 1) - 1) \o << strings[k + 1] >>
    BY <2>1, SubSeqRecursiveSecond
  <2>3. QED
    BY <2>1, <2>2
<1> HIDE DEF a, x
<1>5. base \o a \in Seq(Strings) /\ << x >> \in Seq(Strings)
  BY <1>2, <1>3, ConcatProperties
<1>6. Append(base \o a, x) = (base \o a) \o << x >>
  <2> DEFINE c == base \o a
  <2>1. c \in Seq(Strings)
    BY <1>5
  <2> HIDE DEF c
  <2>2. Append(c, x) = c \o << x >>
    BY <1>2, <2>1
  <2>3. QED
    BY <2>2 DEF c
<1>7. (base \o a) \o << x >> = base \o (a \o << x >>)
  BY <1>3, <1>5, ConcatAssociative
<1>8. QED
  BY <1>4, <1>5, <1>6, <1>7 DEF a, x

LEMMA SomeStep ==
    ASSUME NEW ph, ph \in {"input", "output"}, NEW p \in Nat \ {0}, NEW base \in Seq(Strings),
           NEW strings \in Seq(Pushable), NEW k \in Nat, k < Len(strings),
           code \in Seq(Byte), Holds(p, WrittenStrings(strings)),
           PushedSome(ph, p, base, strings, k), Next
    PROVE  PushedSome(ph, p, base, strings, k + 1)' /\ scripts' = scripts
<1> DEFINE f == FirstOf(Written(strings))
           w == Written(strings)
           s == strings[k + 1]
           q == p + Len(f[k])
<1>1. /\ Len(strings) \in Nat /\ strings \in Seq(Strings)
      /\ w \in Seq(Strings) /\ Len(w) = Len(strings)
  BY WrittenAre
<1>2. k + 1 \in 1 .. Len(strings) /\ (k + 1) - 1 = k
  BY <1>1
<1>3. s \in Pushable /\ w[k + 1] = WrittenString(s)
  BY <1>2, WrittenAre
<1>4. Joins(f, w) /\ Holds(p, f[Len(w)])
  BY <1>1, WrittenStringsAre
<1> DEFINE i == k + 1
<1>5. /\ Holds(p + Len(f[i - 1]), w[i]) /\ p + Len(f[i - 1]) \in Nat \ {0}
      /\ Len(f[i]) = Len(f[i - 1]) + Len(w[i])
  <2>1. i \in 1 .. Len(w)
    BY <1>1, <1>2
  <2>2. w \in Seq(Strings) /\ Joins(f, w) /\ Holds(p, f[Len(w)])
    BY <1>1, <1>4
  <2> HIDE DEF f, w, i
  <2>3. HeldAt(p, f, w, i)
    BY <2>1, <2>2, JoinedHeld
  <2>4. QED
    BY <2>3 DEF HeldAt
<1>6. Holds(q, WrittenString(s)) /\ q \in Nat \ {0} /\ Len(f[i]) = Len(f[k]) + Len(WrittenString(s))
  BY <1>2, <1>3, <1>5
<1>7. /\ stack = base \o SubSeq(strings, 1, k) /\ pos = q /\ phase = ph
      /\ errcode = "OK" /\ failed = "nothing"
  BY DEF PushedSome, At
<1>8. Reading(q)
  <2>1. q <= Len(code)
    <3>1. Len(WrittenString(s)) \in Nat \ {0}
      <4>1. /\ Len(WrittenString(s)) = Len(PushHeader(Len(s))) + Len(s)
            /\ Len(PushHeader(Len(s))) \in Nat \ {0} /\ Len(s) \in Nat
        BY <1>3, WrittenIsBytes
      <4> HIDE DEF s
      <4>2. QED
        BY <4>1
    <3>2. q + Len(WrittenString(s)) - 1 <= Len(code) /\ Len(code) \in Nat
      BY <1>6, LenProperties DEF Holds
    <3> HIDE DEF q, s
    <3>3. QED
      BY <1>6, <3>1, <3>2
  <2> HIDE DEF q
  <2>2. QED
    BY <1>6, <1>7, <2>1 DEF Reading, Running
<1>9. Pushed(s, Len(WrittenString(s)))
  <2> HIDE DEF q, s
  <2>1. QED
    BY <1>3, <1>6, <1>8, StringStep
<1>10. stack' = base \o SubSeq(strings, 1, k + 1)
  <2>1. stack' = Append(base \o SubSeq(strings, 1, k), s)
    BY <1>7, <1>9 DEF Pushed
  <2>2. QED
    BY <1>1, <2>1, OneMore
<1>11. pos' = p + Len(f[k + 1])
  <2>1. pos' = q + Len(WrittenString(s))
    BY <1>7, <1>9 DEF Pushed
  <2>2. p + Len(f[k]) = q /\ q \in Nat /\ Len(f[k + 1]) = Len(f[k]) + Len(WrittenString(s))
    BY <1>6
  <2>3. Len(f[k]) \in Nat
    <3>1. k \in 0 .. Len(w)
      BY <1>1
    <3>2. f[k] \in Seq(Byte)
      BY <1>4, <3>1 DEF Joins, Strings
    <3>3. QED
      BY <3>2, LenProperties
  <2>4. Len(WrittenString(s)) \in Nat
    BY <1>3, WrittenIsBytes, LenProperties
  <2> DEFINE a == Len(f[k])
             b == Len(WrittenString(s))
             c == Len(f[k + 1])
  <2>5. pos' = q + b /\ p + a = q /\ c = a + b /\ a \in Nat /\ b \in Nat /\ p \in Nat
    BY <2>1, <2>2, <2>3, <2>4
  <2> HIDE DEF q, a, b, c
  <2>6. pos' = p + c
    BY <2>5
  <2>7. QED
    BY <2>6 DEF c
<1>12. UNCHANGED << scripts, phase, errcode, failed >>
  BY <1>9 DEF Pushed
<1>13. QED
  BY <1>7, <1>10, <1>11, <1>12 DEF PushedSome, At

-----------------------------------------------------------------------------
(* The single pass of checkMultiSig.                                       *)

Counts == [used : Nat, passed : Nat, malformed : {FALSE}]
NoneTried == [used |-> 0, passed |-> 0, malformed |-> FALSE]

\* The recursion of checkMultiSig.
Tried(keys, signatures) ==
    CHOOSE g : g = [n \in 0 .. Len(signatures) |->
                       IF n = 0 THEN NoneTried
                       ELSE TryKeys(keys, g[n - 1], signatures[n])]

AllWellFormed(keys, signatures) ==
    \A i \in 1 .. Len(signatures), k \in 1 .. Len(keys) : WellFormed(signatures[i], keys[k])

\* The keys after the used ones that a signature is of.
Fitting(keys, used, sig) == {k \in used + 1 .. Len(keys) : Signs(sig, keys[k], code)}

\* What the keys left to a signature do to the counts.
Tries(keys, sig, old, new) ==
    /\ new \in Counts
    /\ Fitting(keys, old.used, sig) = {} => new.used = Len(keys) /\ new.passed = old.passed
    /\ Fitting(keys, old.used, sig) # {} =>
          /\ new.passed = old.passed + 1
          /\ new.used \in Fitting(keys, old.used, sig)
          /\ \A k \in Fitting(keys, old.used, sig) : new.used <= k

LEMMA TryKeysTries ==
    ASSUME NEW keys, Len(keys) \in Nat, NEW sig, NEW state \in Counts,
           \A k \in 1 .. Len(keys) : WellFormed(sig, keys[k])
    PROVE  Tries(keys, sig, state, TryKeys(keys, state, sig))
<1> DEFINE stops == {k \in state.used + 1 .. Len(keys) :
                        WellFormed(sig, keys[k]) => Signs(sig, keys[k], code)}
           first == CHOOSE k \in stops : \A other \in stops : k <= other
           fits == Fitting(keys, state.used, sig)
           t == TryKeys(keys, state, sig)
<1>1. state.used \in Nat /\ state.passed \in Nat /\ state.malformed = FALSE
      /\ state = [used |-> state.used, passed |-> state.passed, malformed |-> state.malformed]
  BY DEF Counts
<1>2. \A k \in state.used + 1 .. Len(keys) : k \in 1 .. Len(keys)
  BY <1>1
<1>3. stops = fits
  BY <1>2 DEF Fitting
<1>4. stops \subseteq Nat /\ stops \subseteq 1 .. Len(keys)
  BY <1>1
<1>5. t = IF state.malformed \/ stops = {} THEN [state EXCEPT !.used = Len(keys)]
          ELSE IF ~WellFormed(sig, keys[first]) THEN [state EXCEPT !.malformed = TRUE]
          ELSE [state EXCEPT !.used = first, !.passed = @ + 1]
  BY DEF TryKeys
<1>6. stops # {} => first \in stops /\ \A other \in stops : first <= other
  <2> SUFFICES ASSUME stops # {}
               PROVE  first \in stops /\ \A other \in stops : first <= other
    OBVIOUS
  <2> HIDE DEF stops
  <2>1. \E k \in stops : \A other \in stops : k <= other
    BY <1>4, Smallest
  <2>2. QED
    BY <2>1, Zenon
<1> HIDE DEF stops, first, t, fits
<1>7. CASE stops = {}
  <2>1. t = [state EXCEPT !.used = Len(keys)]
    BY <1>5, <1>7
  <2>2. t.used = Len(keys) /\ t.passed = state.passed /\ t \in Counts
    BY <1>1, <2>1 DEF Counts
  <2>3. QED
    BY <1>3, <1>7, <2>2 DEF Tries, t, fits
<1>8. CASE stops # {}
  <2>1. WellFormed(sig, keys[first])
    BY <1>4, <1>6, <1>8
  <2>2. t = [state EXCEPT !.used = first, !.passed = @ + 1]
    BY <1>1, <1>5, <1>8, <2>1
  <2>3. first \in Nat
    BY <1>4, <1>6, <1>8
  <2>4. t.used = first /\ t.passed = state.passed + 1 /\ t \in Counts
    <3> DEFINE p == state.passed + 1
    <3>1. p \in Nat /\ t = [state EXCEPT !.used = first, !.passed = p]
      BY <1>1, <2>2
    <3> HIDE DEF p
    <3>2. t.used = first /\ t.passed = p /\ t \in Counts
      BY <1>1, <2>3, <3>1 DEF Counts
    <3>3. QED
      BY <3>2 DEF p
  <2>5. QED
    BY <1>3, <1>6, <1>8, <2>4 DEF Tries, t, fits
<1>9. QED
  BY <1>7, <1>8

LEMMA TriedRuns ==
    ASSUME NEW keys, Len(keys) \in Nat, NEW signatures, Len(signatures) \in Nat,
           AllWellFormed(keys, signatures)
    PROVE  LET after == Tried(keys, signatures)
           IN  /\ after \in [0 .. Len(signatures) -> Counts]
               /\ after[0] = NoneTried
               /\ \A n \in 1 .. Len(signatures) :
                     Tries(keys, signatures[n], after[n - 1], after[n])
               /\ checkMultiSig(keys, signatures) = after[Len(signatures)]
<1> DEFINE m == Len(signatures)
           X == Counts
           step == [p \in (1 .. m) \X X |-> TryKeys(keys, p[2], signatures[p[1]])]
           v == Tried(keys, signatures)
<1>1. \A n \in 1 .. m, x \in X : Tries(keys, signatures[n], x, TryKeys(keys, x, signatures[n]))
  BY TryKeysTries DEF AllWellFormed
<1>2. \A n \in 1 .. m, x \in X : TryKeys(keys, x, signatures[n]) \in X
  BY <1>1 DEF Tries
<1>3. \A n \in 1 .. m, x \in X : step[<< n, x >>] = TryKeys(keys, x, signatures[n])
  OBVIOUS
<1>4. step \in [(1 .. m) \X X -> X]
  <2>1. \A p \in (1 .. m) \X X : TryKeys(keys, p[2], signatures[p[1]]) \in X
    <3> TAKE p \in (1 .. m) \X X
    <3>1. p[1] \in 1 .. m /\ p[2] \in X
      OBVIOUS
    <3>2. QED
      BY <1>2, <3>1
  <2>2. QED
    BY <2>1
<1>5. NoneTried \in X
  BY DEF NoneTried, Counts
<1>6. checkMultiSig(keys, signatures) = v[m]
  BY DEF checkMultiSig, Tried, NoneTried
<1> HIDE DEF step, X
<1>7. HasRun(m, X, NoneTried, step)
  <2> DEFINE x0 == NoneTried
  <2>1. x0 \in X /\ m \in Nat
    BY <1>5
  <2> HIDE DEF m, x0
  <2>2. HasRun(m, X, x0, step)
    BY <1>4, <2>1, RunExists
  <2>3. QED
    BY <2>2 DEF x0
<1>8. PICK f : RunsThrough(f, m, X, NoneTried, step)
  BY <1>7 DEF HasRun
<1>9. f = [n \in 0 .. m |-> IF n = 0 THEN NoneTried ELSE TryKeys(keys, f[n - 1], signatures[n])]
  <2>1. f \in [0 .. m -> X] /\ f[0] = NoneTried
    BY <1>8 DEF RunsThrough
  <2>2. ASSUME NEW n \in 0 .. m
        PROVE  f[n] = IF n = 0 THEN NoneTried ELSE TryKeys(keys, f[n - 1], signatures[n])
    <3>1. CASE n = 0
      BY <2>1, <3>1
    <3>2. CASE n # 0
      <4>1. n \in 1 .. m /\ n - 1 \in 0 .. m
        BY <3>2
      <4>2. f[n] = step[<< n, f[n - 1] >>] /\ f[n - 1] \in X
        BY <1>8, <2>1, <4>1 DEF RunsThrough
      <4>3. QED
        BY <1>3, <3>2, <4>1, <4>2
    <3>3. QED
      BY <3>1, <3>2
  <2>3. QED
    BY <2>1, <2>2
<1>10. v = [n \in 0 .. m |-> IF n = 0 THEN NoneTried ELSE TryKeys(keys, v[n - 1], signatures[n])]
  BY <1>9, ZenonT(30) DEF Tried
<1> HIDE DEF v
<1>11. /\ v[0] = NoneTried
       /\ \A n \in 1 .. m : v[n] = TryKeys(keys, v[n - 1], signatures[n])
  <2>1. \A n \in 0 .. m :
           v[n] = IF n = 0 THEN NoneTried ELSE TryKeys(keys, v[n - 1], signatures[n])
    BY <1>10
  <2>2. 0 \in 0 .. m /\ \A n \in 1 .. m : n \in 0 .. m /\ n # 0
    OBVIOUS
  <2>3. QED
    BY <2>1, <2>2
<1>12. v = [n \in 0 .. m |-> v[n]]
  BY <1>10
<1>13. RunsThrough(v, m, X, NoneTried, step)
  <2> DEFINE x0 == NoneTried
  <2>1. x0 \in X /\ v[0] = x0 /\ m \in Nat
    BY <1>5, <1>11
  <2>2. \A n \in 1 .. m : v[n - 1] \in X => v[n] = step[<< n, v[n - 1] >>]
    BY <1>3, <1>11
  <2> HIDE DEF m, x0
  <2>3. RunsThrough(v, m, X, x0, step)
    BY <1>4, <1>12, <2>1, <2>2, TypedRun
  <2>4. QED
    BY <2>3 DEF x0
<1>14. v \in [0 .. m -> X]
  BY <1>13 DEF RunsThrough
<1>15. \A n \in 1 .. m : Tries(keys, signatures[n], v[n - 1], v[n])
  <2> TAKE n \in 1 .. m
  <2>1. n - 1 \in 0 .. m
    OBVIOUS
  <2>2. v[n - 1] \in X
    BY <1>14, <2>1
  <2>3. QED
    BY <1>1, <1>11, <2>2
<1>16. QED
  BY <1>6, <1>11, <1>14, <1>15 DEF X, v

\* An assignment of keys to the signatures, as the model's Assigned has it.
Matches(f, signatures, keys) ==
    /\ f \in [1 .. Len(signatures) -> 1 .. Len(keys)]
    /\ \A i, j \in 1 .. Len(signatures) : i < j => f[i] < f[j]
    /\ \A i \in 1 .. Len(signatures) : Signs(signatures[i], keys[f[i]], code)

CanMatch(signatures, keys) == \E f : Matches(f, signatures, keys)

\* The pass gives up no key that some assignment needs.
LEMMA PassIsGreedy ==
    ASSUME NEW keys, Len(keys) \in Nat, NEW signatures, Len(signatures) \in Nat,
           NEW after \in [0 .. Len(signatures) -> Counts], after[0] = NoneTried,
           \A n \in 1 .. Len(signatures) : Tries(keys, signatures[n], after[n - 1], after[n]),
           NEW f, Matches(f, signatures, keys)
    PROVE  after[Len(signatures)].passed = Len(signatures)
<1> DEFINE m == Len(signatures)
           T == {n \in Nat : n <= m => /\ after[n].passed = n
                                       /\ n = 0 => after[n].used = 0
                                       /\ n # 0 => after[n].used <= f[n]}
<1>1. 0 \in T
  BY DEF NoneTried
<1>2. ASSUME NEW n \in Nat, n \in T
      PROVE  n + 1 \in T
  <2> DEFINE i == n + 1
  <2>1. SUFFICES ASSUME i <= m
                 PROVE  after[i].passed = i /\ after[i].used <= f[i]
    OBVIOUS
  <2>2. i \in 1 .. m /\ i - 1 = n /\ n \in 0 .. m /\ n <= m
    BY <2>1
  <2>3. /\ after[n].passed = n
        /\ n = 0 => after[n].used = 0
        /\ n # 0 => after[n].used <= f[n]
    BY <1>2, <2>2
  <2>4. f[i] \in 1 .. Len(keys) /\ Signs(signatures[i], keys[f[i]], code)
    BY <2>2 DEF Matches
  <2>5. after[n].used + 1 <= f[i] /\ after[n].used \in Nat
    <3>1. after[n].used \in Nat
      BY <2>2 DEF Counts
    <3>2. CASE n = 0
      BY <2>3, <2>4, <3>2
    <3>3. CASE n # 0
      <4>1. n \in 1 .. m /\ n < i
        BY <2>2, <3>3
      <4>2. f[n] < f[i] /\ f[n] \in 1 .. Len(keys)
        BY <2>2, <4>1 DEF Matches
      <4>3. QED
        BY <2>3, <2>4, <3>1, <3>3, <4>2
    <3>4. QED
      BY <3>1, <3>2, <3>3
  <2>6. f[i] \in Fitting(keys, after[n].used, signatures[i])
    BY <2>4, <2>5 DEF Fitting
  <2>7. Tries(keys, signatures[i], after[n], after[i])
    BY <2>2
  <2> HIDE DEF i
  <2>8. after[i].passed = after[n].passed + 1 /\ after[i].used <= f[i]
    BY <2>6, <2>7 DEF Tries
  <2>9. QED
    BY <2>3, <2>8 DEF i
<1> HIDE DEF T
<1>3. Nat \subseteq T
  BY <1>1, <1>2, Induction
<1>4. QED
  BY <1>3 DEF T

\* A signature that passes has a key of its own, after those of the others.
LEMMA PassedMatch ==
    ASSUME NEW keys, Len(keys) \in Nat, NEW signatures, Len(signatures) \in Nat,
           NEW after \in [0 .. Len(signatures) -> Counts], after[0] = NoneTried,
           \A n \in 1 .. Len(signatures) : Tries(keys, signatures[n], after[n - 1], after[n])
    PROVE  /\ after[Len(signatures)].passed <= Len(signatures)
           /\ after[Len(signatures)].passed = Len(signatures) => CanMatch(signatures, keys)
<1> DEFINE m == Len(signatures)
           Good(n) == \A i \in 1 .. n :
                         /\ after[i].used \in 1 .. Len(keys)
                         /\ Signs(signatures[i], keys[after[i].used], code)
                         /\ after[i].used <= after[n].used
                         /\ \A j \in 1 .. n : i < j => after[i].used < after[j].used
           T == {n \in Nat : n <= m => /\ after[n].passed <= n
                                       /\ after[n].passed = n => Good(n)}
<1>1. 0 \in T
  BY DEF NoneTried
<1>2. ASSUME NEW n \in Nat, n \in T
      PROVE  n + 1 \in T
  <2> DEFINE k == n + 1
  <2>1. SUFFICES ASSUME k <= m
                 PROVE  /\ after[k].passed <= k
                        /\ after[k].passed = k => Good(k)
    OBVIOUS
  <2>2. k \in 1 .. m /\ k - 1 = n /\ n \in 0 .. m /\ n <= m
    BY <2>1
  <2>3. after[n].passed <= n /\ (after[n].passed = n => Good(n))
    BY <1>2, <2>2
  <2>4. Tries(keys, signatures[k], after[n], after[k])
    BY <2>2
  <2>5. after[n].passed \in Nat /\ after[n].used \in Nat /\ after[k].passed \in Nat
        /\ after[k].used \in Nat
    <3>1. after[n] \in Counts /\ after[k] \in Counts
      BY <2>2
    <3>2. QED
      BY <3>1 DEF Counts
  <2> DEFINE fits == Fitting(keys, after[n].used, signatures[k])
  <2>6. CASE fits = {}
    <3>1. after[k].passed = after[n].passed
      BY <2>4, <2>6 DEF Tries
    <3>2. QED
      BY <2>3, <2>5, <3>1
  <2>7. CASE fits # {}
    <3>1. after[k].passed = after[n].passed + 1 /\ after[k].used \in fits
      BY <2>4, <2>7 DEF Tries
    <3>2. /\ after[k].used \in 1 .. Len(keys) /\ after[n].used < after[k].used
          /\ Signs(signatures[k], keys[after[k].used], code)
      BY <2>5, <3>1 DEF Fitting
    <3>3. ASSUME after[k].passed = k
          PROVE  Good(k)
      <4>1. Good(n)
        BY <2>3, <2>5, <3>1, <3>3
      <4>2. \A i \in 1 .. n : /\ after[i].used \in 1 .. Len(keys)
                              /\ after[i].used < after[k].used
        <5> TAKE i \in 1 .. n
        <5>1. after[i].used \in 1 .. Len(keys) /\ after[i].used <= after[n].used
          BY <4>1
        <5>2. QED
          BY <2>5, <3>2, <5>1, SMTT(40)
      <4>3. \A i \in 1 .. k : i \in 1 .. n \/ i = k
        OBVIOUS
      <4>4. ASSUME NEW i \in 1 .. k
            PROVE  /\ after[i].used \in 1 .. Len(keys)
                   /\ Signs(signatures[i], keys[after[i].used], code)
                   /\ after[i].used <= after[k].used
        <5>1. CASE i = k
          BY <2>5, <3>2, <5>1
        <5>2. CASE i \in 1 .. n
          BY <2>5, <4>1, <4>2, <5>2
        <5>3. QED
          BY <4>3, <5>1, <5>2
      <4>5. ASSUME NEW i \in 1 .. k, NEW j \in 1 .. k, i < j
            PROVE  after[i].used < after[j].used
        <5>1. i \in 1 .. n
          BY <4>5
        <5>2. CASE j = k
          BY <4>2, <5>1, <5>2
        <5>3. CASE j \in 1 .. n
          BY <4>1, <4>5, <5>1, <5>3
        <5>4. QED
          BY <4>3, <5>2, <5>3
      <4>6. QED
        BY <4>4, <4>5
    <3>4. QED
      BY <2>3, <2>5, <3>1, <3>3
  <2>8. QED
    BY <2>6, <2>7
<1> HIDE DEF T
<1>3. Nat \subseteq T
  BY <1>1, <1>2, Induction
<1>4. after[m].passed <= m /\ (after[m].passed = m => Good(m))
  BY <1>3 DEF T
<1>5. ASSUME Good(m)
      PROVE  CanMatch(signatures, keys)
  <2> DEFINE f == [i \in 1 .. m |-> after[i].used]
  <2>1. f \in [1 .. m -> 1 .. Len(keys)]
    BY <1>5
  <2>2. \A i, j \in 1 .. m : i < j => f[i] < f[j]
    BY <1>5
  <2>3. \A i \in 1 .. m : Signs(signatures[i], keys[f[i]], code)
    BY <1>5
  <2>4. Matches(f, signatures, keys)
    BY <2>1, <2>2, <2>3 DEF Matches
  <2> HIDE DEF f
  <2>5. QED
    BY <2>4 DEF CanMatch
<1>6. QED
  BY <1>4, <1>5

\* The values of checkMultiSig come off the stack in reverse order.
Reverses(a, b) == /\ Len(a) \in Nat /\ Len(b) = Len(a)
                  /\ \A i \in 1 .. Len(a) : b[i] = a[Len(a) + 1 - i]

LEMMA MatchReversed ==
    ASSUME NEW a, NEW b, NEW keys, NEW yeks, Reverses(a, b), Reverses(keys, yeks),
           CanMatch(a, keys)
    PROVE  CanMatch(b, yeks)
<1> DEFINE m == Len(a)
           n == Len(keys)
<1>1. PICK f : Matches(f, a, keys)
  BY DEF CanMatch
<1>2. /\ m \in Nat /\ n \in Nat /\ Len(b) = m /\ Len(yeks) = n
      /\ \A i \in 1 .. m : b[i] = a[m + 1 - i]
      /\ \A k \in 1 .. n : yeks[k] = keys[n + 1 - k]
  BY DEF Reverses
<1>3. /\ f \in [1 .. m -> 1 .. n]
      /\ \A i, j \in 1 .. m : i < j => f[i] < f[j]
      /\ \A i \in 1 .. m : Signs(a[i], keys[f[i]], code)
  BY <1>1 DEF Matches
<1> HIDE DEF m, n
<1> DEFINE g == [i \in 1 .. m |-> n + 1 - f[m + 1 - i]]
<1>4. \A i \in 1 .. m : m + 1 - i \in 1 .. m
  BY <1>2
<1>5. \A i \in 1 .. m : f[m + 1 - i] \in 1 .. n
  BY <1>3, <1>4
<1>6. \A i \in 1 .. m : g[i] = n + 1 - f[m + 1 - i] /\ g[i] \in 1 .. n
  BY <1>2, <1>5
<1>7. g \in [1 .. m -> 1 .. n]
  BY <1>6
<1> HIDE DEF g
<1>8. ASSUME NEW i \in 1 .. m, NEW j \in 1 .. m, i < j
      PROVE  g[i] < g[j]
  <2>1. m + 1 - j \in 1 .. m /\ m + 1 - i \in 1 .. m /\ m + 1 - j < m + 1 - i
    BY <1>2, <1>8
  <2>2. f[m + 1 - j] < f[m + 1 - i]
    BY <1>3, <2>1
  <2>3. f[m + 1 - j] \in 1 .. n /\ f[m + 1 - i] \in 1 .. n
    BY <1>5
  <2>4. g[i] = n + 1 - f[m + 1 - i] /\ g[j] = n + 1 - f[m + 1 - j]
    BY <1>6
  <2>5. QED
    BY <1>2, <2>2, <2>3, <2>4
<1>9. ASSUME NEW i \in 1 .. m
      PROVE  Signs(b[i], yeks[g[i]], code)
  <2> DEFINE k == f[m + 1 - i]
  <2>1. k \in 1 .. n /\ g[i] = n + 1 - k /\ g[i] \in 1 .. n
    BY <1>5, <1>6
  <2>2. Signs(a[m + 1 - i], keys[k], code)
    BY <1>3, <1>4
  <2> HIDE DEF k
  <2>3. n + 1 - g[i] = k
    BY <1>2, <2>1
  <2>4. yeks[g[i]] = keys[k] /\ b[i] = a[m + 1 - i]
    BY <1>2, <2>1, <2>3
  <2>5. QED
    BY <2>2, <2>4
<1>10. Matches(g, b, yeks)
  BY <1>2, <1>7, <1>8, <1>9 DEF Matches
<1>11. QED
  BY <1>10 DEF CanMatch

LEMMA ReversesBack ==
    ASSUME NEW a, NEW b, Reverses(a, b)
    PROVE  Reverses(b, a)
<1> DEFINE m == Len(a)
<1>1. m \in Nat /\ Len(b) = m /\ \A i \in 1 .. m : b[i] = a[m + 1 - i]
  BY DEF Reverses
<1> HIDE DEF m
<1>2. ASSUME NEW i \in 1 .. m
      PROVE  a[i] = b[m + 1 - i]
  <2>1. m + 1 - i \in 1 .. m /\ m + 1 - (m + 1 - i) = i
    BY <1>1
  <2>2. QED
    BY <1>1, <2>1
<1>3. QED
  BY <1>1, <1>2 DEF Reverses, m

\* checkMultiSig decides whether every signature can have a key of its own.
LEMMA PassDecides ==
    ASSUME NEW keys, NEW yeks, NEW signatures, NEW s, Reverses(keys, yeks),
           Reverses(signatures, s), AllWellFormed(keys, signatures)
    PROVE  LET found == checkMultiSig(yeks, s)
           IN  /\ found.malformed = FALSE
               /\ found.passed >= Len(signatures) <=> CanMatch(signatures, keys)
<1> DEFINE found == checkMultiSig(yeks, s)
           m == Len(signatures)
           after == Tried(yeks, s)
<1>1. m \in Nat /\ Len(s) = m /\ Len(keys) \in Nat /\ Len(yeks) = Len(keys)
  BY DEF Reverses
<1>2. AllWellFormed(yeks, s)
  <2>1. ASSUME NEW i \in 1 .. m, NEW k \in 1 .. Len(keys)
        PROVE  WellFormed(s[i], yeks[k])
    <3>1. m + 1 - i \in 1 .. m /\ Len(keys) + 1 - k \in 1 .. Len(keys)
      BY <1>1
    <3>2. WellFormed(signatures[m + 1 - i], keys[Len(keys) + 1 - k])
      BY <3>1 DEF AllWellFormed
    <3>3. s[i] = signatures[m + 1 - i] /\ yeks[k] = keys[Len(keys) + 1 - k]
      BY DEF Reverses
    <3>4. QED
      BY <3>2, <3>3
  <2>2. QED
    BY <1>1, <2>1 DEF AllWellFormed
<1>3. /\ after \in [0 .. Len(s) -> Counts] /\ after[0] = NoneTried
      /\ \A n \in 1 .. Len(s) : Tries(yeks, s[n], after[n - 1], after[n])
      /\ found = after[Len(s)]
  BY <1>1, <1>2, TriedRuns
<1> HIDE DEF after, found
<1>4. found \in Counts
  <2>1. Len(s) \in 0 .. Len(s)
    BY <1>1
  <2>2. QED
    BY <1>3, <2>1
<1>5. found.passed \in Nat /\ found.malformed = FALSE
  BY <1>4 DEF Counts
<1>6. found.passed <= m /\ (found.passed = m => CanMatch(s, yeks))
  <2>1. Len(yeks) \in Nat /\ Len(s) \in Nat
    BY <1>1
  <2>2. /\ after[Len(s)].passed <= Len(s)
        /\ after[Len(s)].passed = Len(s) => CanMatch(s, yeks)
    BY <1>3, <2>1, PassedMatch
  <2>3. QED
    BY <1>1, <1>3, <2>2
<1>7. CanMatch(s, yeks) => found.passed = m
  <2> SUFFICES ASSUME CanMatch(s, yeks)
               PROVE  found.passed = m
    OBVIOUS
  <2>1. PICK f : Matches(f, s, yeks)
    BY DEF CanMatch
  <2>2. Len(yeks) \in Nat /\ Len(s) \in Nat
    BY <1>1
  <2>3. after[Len(s)].passed = Len(s)
    BY <1>3, <2>1, <2>2, PassIsGreedy
  <2>4. QED
    BY <1>1, <1>3, <2>3
<1>8. CanMatch(s, yeks) <=> CanMatch(signatures, keys)
  <2>1. CanMatch(signatures, keys) => CanMatch(s, yeks)
    BY MatchReversed
  <2>2. Reverses(s, signatures) /\ Reverses(yeks, keys)
    BY ReversesBack
  <2>3. CanMatch(s, yeks) => CanMatch(signatures, keys)
    BY <2>2, MatchReversed
  <2>4. QED
    BY <2>1, <2>3
<1>9. found.passed >= m <=> found.passed = m
  BY <1>1, <1>5, <1>6
<1>10. QED
  BY <1>5, <1>6, <1>7, <1>8, <1>9 DEF found

\* The stack that the scripts of a multisig leave for its last opcode.
OnMultiSigStack(b, m, n, signatures, keys, em, ek) ==
    /\ m \in Nat /\ n \in Nat /\ b \in Nat /\ stack \in Seq(Strings)
    /\ Len(stack) = b + m + n + 2
    /\ Top(1) = ek /\ Top(2 + n) = em
    /\ \A i \in 1 .. n : Top(2 + i - 1) = keys[n + 1 - i]
    /\ \A i \in 1 .. m : Top((3 + n) + i - 1) = signatures[m + 1 - i]

LEMMA MultiSigStack ==
    ASSUME NEW base \in Seq(Strings), NEW signatures \in Seq(Strings),
           NEW keys \in Seq(Strings), NEW em \in Strings, NEW ek \in Strings,
           stack = Append(Append(base \o signatures, em) \o keys, ek)
    PROVE  OnMultiSigStack(Len(base), Len(signatures), Len(keys), signatures, keys, em, ek)
<1> DEFINE m == Len(signatures)
           n == Len(keys)
           b == Len(base)
           one == base \o signatures
           two == Append(one, em)
           three == two \o keys
<1>1. m \in Nat /\ n \in Nat /\ b \in Nat
  BY LenProperties
<1>2. /\ one \in Seq(Strings) /\ Len(one) = b + m
      /\ \A i \in 1 .. b + m : one[i] = IF i <= b THEN base[i] ELSE signatures[i - b]
  BY ConcatProperties
<1> HIDE DEF one
<1>3. /\ two \in Seq(Strings) /\ Len(two) = b + m + 1
      /\ \A i \in 1 .. b + m : two[i] = one[i]
      /\ two[b + m + 1] = em
  <2>1. /\ two \in Seq(Strings) /\ Len(two) = Len(one) + 1
        /\ \A i \in 1 .. Len(one) : two[i] = one[i]
        /\ two[Len(one) + 1] = em
    BY <1>2, AppendProperties, ZenonT(60)
  <2> HIDE DEF two
  <2>2. QED
    BY <1>2, <2>1
<1> HIDE DEF two
<1>4. /\ three \in Seq(Strings) /\ Len(three) = b + m + 1 + n
      /\ \A i \in 1 .. b + m + 1 : three[i] = two[i]
      /\ \A i \in 1 .. n : three[b + m + 1 + i] = keys[i]
  <2>1. /\ three \in Seq(Strings) /\ Len(three) = Len(two) + Len(keys)
        /\ \A i \in 1 .. Len(two) + Len(keys) :
              three[i] = IF i <= Len(two) THEN two[i] ELSE keys[i - Len(two)]
    BY <1>3, ConcatProperties
  <2> HIDE DEF three
  <2>2. Len(three) = b + m + 1 + n
    BY <1>3, <2>1
  <2>3. \A i \in 1 .. b + m + 1 : three[i] = two[i]
    BY <1>1, <1>3, <2>1
  <2>4. ASSUME NEW i \in 1 .. n
        PROVE  three[b + m + 1 + i] = keys[i]
    <3>1. /\ b + m + 1 + i \in 1 .. Len(two) + Len(keys) /\ ~ (b + m + 1 + i <= Len(two))
          /\ b + m + 1 + i - Len(two) = i
      BY <1>1, <1>3
    <3>2. QED
      BY <2>1, <3>1
  <2>5. QED
    BY <2>1, <2>2, <2>3, <2>4
<1> HIDE DEF three
<1>5. /\ stack \in Seq(Strings) /\ Len(stack) = b + m + n + 2
      /\ \A i \in 1 .. b + m + 1 + n : stack[i] = three[i]
      /\ stack[b + m + n + 2] = ek
  <2>1. stack = Append(three, ek)
    BY DEF three, two, one
  <2>2. /\ stack \in Seq(Strings) /\ Len(stack) = Len(three) + 1
        /\ \A i \in 1 .. Len(three) : stack[i] = three[i]
        /\ stack[Len(three) + 1] = ek
    <3> DEFINE last == Append(three, ek)
    <3>1. three \in Seq(Strings)
      BY <1>4
    <3>2. /\ last \in Seq(Strings) /\ Len(last) = Len(three) + 1
          /\ \A i \in 1 .. Len(three) : last[i] = three[i]
          /\ last[Len(three) + 1] = ek
      BY <3>1, AppendProperties
    <3>3. stack = last
      BY <2>1
    <3> HIDE DEF last
    <3>4. QED
      BY <3>2, <3>3
  <2>3. Len(three) + 1 = b + m + n + 2
    BY <1>1, <1>4
  <2>4. QED
    BY <1>4, <2>2, <2>3
<1>6. \A k : Top(k) = stack[Len(stack) + 1 - k]
  BY DEF Top
<1>7. Top(1) = ek
  <2>1. Len(stack) + 1 - 1 = b + m + n + 2
    BY <1>1, <1>5
  <2>2. QED
    BY <1>5, <1>6, <2>1
<1>8. Top(2 + n) = em
  <2>1. Len(stack) + 1 - (2 + n) = b + m + 1 /\ b + m + 1 \in 1 .. b + m + 1 + n
        /\ b + m + 1 \in 1 .. b + m + 1
    BY <1>1, <1>5
  <2>2. QED
    BY <1>3, <1>4, <1>5, <1>6, <2>1
<1>9. ASSUME NEW i \in 1 .. n
      PROVE  Top(2 + i - 1) = keys[n + 1 - i]
  <2> DEFINE k == n + 1 - i
  <2>1. /\ Len(stack) + 1 - (2 + i - 1) = b + m + 1 + k /\ k \in 1 .. n
        /\ b + m + 1 + k \in 1 .. b + m + 1 + n
    BY <1>1, <1>5
  <2> HIDE DEF k
  <2>2. stack[b + m + 1 + k] = keys[k]
    BY <1>4, <1>5, <2>1
  <2>3. Top(2 + i - 1) = keys[k]
    BY <1>6, <2>1, <2>2
  <2>4. QED
    BY <2>3 DEF k
<1>10. ASSUME NEW i \in 1 .. m
       PROVE  Top((3 + n) + i - 1) = signatures[m + 1 - i]
  <2> DEFINE k == m + 1 - i
  <2>1. /\ Len(stack) + 1 - ((3 + n) + i - 1) = b + k /\ k \in 1 .. m
        /\ b + k \in 1 .. b + m + 1 + n /\ b + k \in 1 .. b + m + 1 /\ b + k \in 1 .. b + m
        /\ ~ (b + k <= b) /\ b + k - b = k
    BY <1>1, <1>5
  <2> HIDE DEF k
  <2>2. stack[b + k] = three[b + k] /\ three[b + k] = two[b + k] /\ two[b + k] = one[b + k]
    BY <1>3, <1>4, <1>5, <2>1
  <2>3. one[b + k] = signatures[k]
    BY <1>2, <2>1
  <2>4. Top((3 + n) + i - 1) = signatures[k]
    BY <1>6, <2>1, <2>2, <2>3
  <2>5. QED
    BY <2>4 DEF k
<1>11. QED
  BY <1>1, <1>5, <1>7, <1>8, <1>9, <1>10 DEF OnMultiSigStack

\* The last opcode of a multisig, over an input with the extra value or without.
MultiSigChecked(p, base, signatures, keys) ==
    /\ pos' = p + 1 /\ UNCHANGED << scripts, phase >>
    /\ Len(base) = 0 => failed' # "nothing"
    /\ Len(base) = 1 => /\ stack' = Append(<< >>, Bool(CanMatch(signatures, keys)))
                        /\ UNCHANGED << errcode, failed >>

LEMMA CheckMultiSigStep ==
    ASSUME NEW p, Reading(p), code[p] = 174, NEW base \in Seq(Strings), Len(base) \in {0, 1},
           NEW signatures \in Seq(Strings), NEW keys \in Seq(Strings),
           Len(signatures) <= Len(keys), Len(keys) < MaxKeys, AllWellFormed(keys, signatures),
           NEW em \in Strings, decodeScriptNumber(em) = Len(signatures),
           NEW ek \in Strings, decodeScriptNumber(ek) = Len(keys),
           stack = Append(Append(base \o signatures, em) \o keys, ek), Next
    PROVE  MultiSigChecked(p, base, signatures, keys)
<1>1. CheckMultiSig /\ pos = p
  BY OnlyHandler DEF Reading
<1>2. VerifyError(OP.CHECKMULTISIGVERIFY, "CHECKMULTISIGVERIFY") = "OK"
  <2>1. code[pos] = 174 /\ OP.CHECKMULTISIGVERIFY = 175
    BY <1>1, OpcodeValues
  <2>2. QED
    BY <2>1 DEF VerifyError
<1> DEFINE m == Len(signatures)
           n == Len(keys)
           b == Len(base)
           yeks == Values(2, n)
           s == Values(3 + n, m)
<1>3. /\ m \in Nat /\ n \in Nat /\ b \in Nat /\ stack \in Seq(Strings)
      /\ Len(stack) = b + m + n + 2
      /\ Top(1) = ek /\ Top(2 + n) = em
      /\ \A i \in 1 .. n : Top(2 + i - 1) = keys[n + 1 - i]
      /\ \A i \in 1 .. m : Top((3 + n) + i - 1) = signatures[m + 1 - i]
  <2>1. OnMultiSigStack(b, m, n, signatures, keys, em, ek)
    BY MultiSigStack, ZenonT(60)
  <2> HIDE DEF b, m, n
  <2>2. QED
    BY <2>1 DEF OnMultiSigStack
<1>4. m <= n /\ n < MaxKeys /\ b \in {0, 1} /\ MaxKeys \in Nat
  BY MaxKeysAssumption
<1>5. KeyCount = n /\ SigCount = m
  <2>1. KeyCount = n
    BY <1>3 DEF KeyCount, Number
  <2>2. Number(2 + n) = m
    BY <1>3 DEF Number
  <2>3. QED
    BY <2>1, <2>2 DEF SigCount
<1>6. Reverses(keys, yeks) /\ Reverses(signatures, s)
  <2>1. yeks = [i \in 1 .. n |-> Top(2 + i - 1)]
    BY DEF Values
  <2>2. s = [i \in 1 .. m |-> Top((3 + n) + i - 1)]
    BY DEF Values
  <2> HIDE DEF yeks, s
  <2>3. Len(yeks) = n /\ \A i \in 1 .. n : yeks[i] = keys[n + 1 - i]
    BY <1>3, <2>1
  <2>4. Len(s) = m /\ \A i \in 1 .. m : s[i] = signatures[m + 1 - i]
    BY <1>3, <2>2
  <2>5. QED
    BY <1>3, <2>3, <2>4 DEF Reverses
<1> DEFINE found == checkMultiSig(yeks, s)
<1>7. found.malformed = FALSE /\ (found.passed >= m <=> CanMatch(signatures, keys))
  <2> HIDE DEF yeks, s
  <2>1. QED
    BY <1>6, PassDecides
<1>8. MultiSigParams <=> b = 1
  <2>1. KeyCount \in 0 .. MaxKeys - 1 /\ SigCount \in 0 .. KeyCount
    BY <1>3, <1>4, <1>5
  <2>2. Len(stack) >= 1 /\ Len(stack) >= 2 + KeyCount /\ HasValues(2, KeyCount)
    BY <1>3, <1>5 DEF HasValues
  <2>3. HasValues(3 + KeyCount, SigCount) <=> b = 1
    <3>1. HasValues(3 + n, m) <=> (3 + n) + m <= Len(stack)
      BY DEF HasValues
    <3>2. Len(stack) = b + m + n + 2 /\ b \in {0, 1} /\ m \in Nat /\ n \in Nat
      BY <1>3, <1>4
    <3> HIDE DEF b, m, n
    <3>3. HasValues(3 + n, m) <=> b = 1
      BY <3>1, <3>2
    <3>4. QED
      BY <1>5, <3>3
  <2>4. QED
    BY <2>1, <2>2, <2>3 DEF MultiSigParams
<1>9. pos' = p + 1 /\ UNCHANGED << scripts, phase >>
  BY <1>1 DEF CheckMultiSig, Next1
<1>10. ASSUME b = 0
       PROVE  failed' # "nothing"
  <2>1. InvalidParam
    BY <1>1, <1>8, <1>10 DEF CheckMultiSig
  <2>2. QED
    BY <2>1 DEF InvalidParam
<1>11. ASSUME b = 1
       PROVE  /\ stack' = Append(<< >>, Bool(CanMatch(signatures, keys)))
              /\ UNCHANGED << errcode, failed >>
  <2> DEFINE x == Bool(CanMatch(signatures, keys))
  <2>1. MultiSigPops = Len(stack)
    <3>1. Len(stack) > 2 + n + m /\ Len(stack) = (2 + n + m) + 1
      BY <1>3, <1>11
    <3>2. QED
      BY <1>5, <3>1 DEF MultiSigPops
  <2>2. Bool(found.passed >= m) = x
    BY <1>7 DEF Bool
  <2>3. Verified(Len(stack), x, "OK")
    <3>1. /\ MultiSigParams
          /\ checkMultiSig(Values(2, KeyCount), Values(3 + KeyCount, SigCount)) = found
      BY <1>5, <1>8, <1>11
    <3>2. Verified(MultiSigPops, Bool(found.passed >= SigCount), "OK")
      BY <1>1, <1>7, <1>2, <3>1 DEF CheckMultiSig
    <3>3. QED
      BY <1>5, <2>1, <2>2, <3>2
  <2>4. Below(Len(stack)) = << >>
    <3>1. Len(stack) - Len(stack) = 0
      BY <1>3
    <3>2. SubSeq(stack, 1, 0) = << >>
      BY <1>3, SubSeqEmpty
    <3>3. QED
      BY <3>1, <3>2 DEF Below
  <2>5. x \in Strings /\ << >> \in Seq(Strings)
    BY BoolIsString, EmptySeq DEF Strings
  <2> HIDE DEF x
  <2>6. Replace(Len(stack), << x >>)
    BY <2>3 DEF Verified
  <2>7. stack' = Append(Below(Len(stack)), x) /\ UNCHANGED << errcode, failed >>
    <3> DEFINE l == Len(stack)
    <3>1. stack \in Seq(Strings) /\ Below(l) \in Seq(Strings) /\ Replace(l, << x >>)
      BY <1>3, <2>4, <2>5, <2>6
    <3> HIDE DEF l
    <3>2. stack' = Append(Below(l), x) /\ UNCHANGED << errcode, failed >>
      BY <2>5, <3>1, ReplacedByOne
    <3>3. QED
      BY <3>2 DEF l
  <2>8. QED
    BY <2>4, <2>7 DEF x
<1>12. QED
  BY <1>9, <1>10, <1>11 DEF MultiSigChecked


-----------------------------------------------------------------------------
(* Paying to some of several keys.                                         *)

\* The signatures and keys that a pair of scripts of this kind is written from:
\* fewer keys than the machine allows, and strings that it does not abort on.
MultiSigWritten(extra, signatures, keys) ==
    /\ extra \in BOOLEAN /\ signatures \in Seq(Pushable) /\ keys \in Seq(Pushable)
    /\ Len(signatures) <= Len(keys) /\ Len(keys) < MaxKeys
    /\ Len(signatures) \in Represented /\ Len(keys) \in Represented
    /\ AllWellFormed(keys, signatures)

MultiSigsAreWritten ==
    \A p \in Scripts : (p.kind = "multisig") =>
        \E extra, signatures, keys :
            MultiSigWritten(extra, signatures, keys) /\ p = MultiSig(extra, signatures, keys)

\* The signatures can have keys of their own, in order, over this output's script.
Meant(signatures, keys) ==
    \E f \in [1 .. Len(signatures) -> 1 .. Len(keys)] :
        /\ \A i, j \in 1 .. Len(signatures) : i < j => f[i] < f[j]
        /\ \A i \in 1 .. Len(signatures) :
              Signs(signatures[i], keys[f[i]], PayToMultiSig(Len(signatures), keys))

\* The value below the signatures, and the bytes that push it.
Base(extra) == IF extra THEN Append(<< >>, << >>) ELSE << >>
BaseBytes(extra) == IF extra THEN WrittenInteger(0) ELSE << >>

Counted(strings) == encodeScriptNumber(Len(strings))
CountBytes(strings) == WrittenInteger(Len(strings))

\* Where the signatures begin in the input script; the keys, their count and the
\* last opcode in the output script.
SignaturesAt(extra) == 1 + Len(BaseBytes(extra))
KeysAt(signatures) == 1 + Len(CountBytes(signatures))
CountAt(signatures, keys) == KeysAt(signatures) + Len(WrittenStrings(keys))
LastAt(signatures, keys) == CountAt(signatures, keys) + Len(CountBytes(keys))

\* The stack before the keys are pushed.
BelowKeys(extra, signatures) == Append(Base(extra) \o signatures, Counted(signatures))

MultiSigReads(extra, signatures, keys) ==
    \/ extra /\ At("input", 1, << >>)
    \/ \E k \in 0 .. Len(signatures) :
          PushedSome("input", SignaturesAt(extra), Base(extra), signatures, k)
    \/ At("output", 1, Base(extra) \o signatures)
    \/ \E k \in 0 .. Len(keys) :
          PushedSome("output", KeysAt(signatures), BelowKeys(extra, signatures), keys, k)
    \/ At("output", LastAt(signatures, keys),
          Append(BelowKeys(extra, signatures) \o keys, Counted(keys)))

MultiSigDecides(extra, signatures, keys) ==
    \/ /\ extra
       /\ At("output", LastAt(signatures, keys) + 1,
             Append(<< >>, Bool(Meant(signatures, keys))))
    \/ extra /\ failed = "nothing" /\ Decided(Meant(signatures, keys))
    \/ ~extra /\ failed # "nothing" /\ phase \in {"input", "output"}

MultiSigStage(extra, signatures, keys) ==
    MultiSigReads(extra, signatures, keys) \/ MultiSigDecides(extra, signatures, keys)

MultiSigInv ==
    /\ scripts \in Scripts
    /\ (scripts.kind = "multisig") =>
          \E extra, signatures, keys :
              /\ MultiSigWritten(extra, signatures, keys)
              /\ scripts = MultiSig(extra, signatures, keys)
              /\ MultiSigStage(extra, signatures, keys)

\* The counts, as the machine reads them.
LEMMA CountIsRead ==
    ASSUME NEW strings \in Seq(Pushable), Len(strings) \in Represented
    PROVE  /\ Counted(strings) \in Strings /\ Counted(strings) \in Pushable
           /\ decodeScriptNumber(Counted(strings)) = Len(strings)
           /\ CountBytes(strings) \in Seq(Byte) /\ Len(CountBytes(strings)) \in Nat \ {0}
<1> DEFINE v == Len(strings)
<1>1. v \in Int /\ encodeScriptNumber(v) \in Pushable
  BY DEF Represented
<1> HIDE DEF v
<1>2. decodeScriptNumber(encodeScriptNumber(v)) = v
  BY <1>1, NumberReadsBack
<1>3. WrittenInteger(v) \in Seq(Byte) /\ Len(WrittenInteger(v)) \in Nat \ {0}
  BY <1>1, WrittenIntegerIsBytes
<1>4. QED
  BY <1>1, <1>2, <1>3 DEF Counted, CountBytes, v, Pushable, Strings

LEMMA ZeroIsRead ==
    /\ encodeScriptNumber(0) = << >> /\ encodeScriptNumber(0) \in Pushable
    /\ WrittenInteger(0) \in Seq(Byte) /\ Len(WrittenInteger(0)) = 1
<1>1. encodeScriptNumber(0) = << >>
  BY DEF encodeScriptNumber
<1>2. << >> \in Seq(Byte) /\ Len(<< >>) = 0
  BY EmptySeq
<1>3. << >> \in Pushable
  BY <1>2 DEF Pushable
<1>4. WrittenInteger(0) = << 0 >> /\ 0 \in Byte
  BY DEF WrittenInteger, Byte
<1>5. << 0 >> \in Seq(Byte) /\ Len(<< 0 >>) = 1
  BY <1>4
<1>6. WrittenInteger(0) \in Seq(Byte) /\ Len(WrittenInteger(0)) = 1
  BY <1>4, <1>5
<1>7. QED
  BY <1>1, <1>3, <1>6

LEMMA BaseIsSeq ==
    ASSUME NEW extra \in BOOLEAN
    PROVE  /\ Base(extra) \in Seq(Strings) /\ Len(Base(extra)) = IF extra THEN 1 ELSE 0
           /\ BaseBytes(extra) \in Seq(Byte) /\ Len(BaseBytes(extra)) = IF extra THEN 1 ELSE 0
<1>1. << >> \in Seq(Byte) /\ << >> \in Seq(Strings) /\ << >> \in Strings /\ Len(<< >>) = 0
  BY EmptySeq DEF Strings
<1>2. Append(<< >>, << >>) \in Seq(Strings) /\ Len(Append(<< >>, << >>)) = 1
  BY <1>1, AppendProperties
<1>3. CASE extra
  BY <1>2, <1>3, ZeroIsRead DEF Base, BaseBytes
<1>4. CASE ~extra
  <2>1. Base(extra) = << >> /\ BaseBytes(extra) = << >>
    BY <1>4 DEF Base, BaseBytes
  <2>2. QED
    BY <1>1, <1>4, <2>1
<1>5. QED
  BY <1>3, <1>4

\* Nothing pushed yet, and all of the strings.
LEMMA NoneAndAll ==
    ASSUME NEW base \in Seq(Strings), NEW strings \in Seq(Pushable), NEW p \in Nat, NEW ph
    PROVE  LET f == FirstOf(Written(strings))
               n == Len(strings)
           IN  /\ p + Len(f[0]) = p /\ base \o SubSeq(strings, 1, 0) = base
               /\ Len(f[n]) = Len(WrittenStrings(strings))
               /\ base \o SubSeq(strings, 1, n) = base \o strings
<1>1. strings \in Seq(Strings) /\ Len(strings) \in Nat
  BY WrittenAre
<1>2. /\ FirstOf(Written(strings))[0] = << >>
      /\ WrittenStrings(strings) = FirstOf(Written(strings))[Len(strings)]
  BY WrittenStringsAre
<1>3. SubSeq(strings, 1, 0) = << >> /\ SubSeq(strings, 1, Len(strings)) = strings
  BY <1>1, SubSeqEmpty, SubSeqFull
<1>4. base \o << >> = base
  BY ConcatEmptySeq
<1>5. Len(<< >>) = 0 /\ p + 0 = p
  OBVIOUS
<1>6. QED
  BY <1>2, <1>3, <1>4, <1>5


LEMMA MultiSigInput ==
    ASSUME NEW extra, NEW signatures, NEW keys, MultiSigWritten(extra, signatures, keys),
           scripts = MultiSig(extra, signatures, keys), phase = "input"
    PROVE  /\ code \in Seq(Byte) /\ SignaturesAt(extra) \in Nat \ {0}
           /\ Holds(SignaturesAt(extra), WrittenStrings(signatures))
           /\ Len(code) + 1 = SignaturesAt(extra) + Len(WrittenStrings(signatures))
           /\ extra => /\ 1 <= Len(code) /\ code # << >> /\ Holds(1, WrittenInteger(0))
                       /\ SignaturesAt(extra) = 2
           /\ ~extra => SignaturesAt(extra) = 1
<1> DEFINE a == BaseBytes(extra)
           b == WrittenStrings(signatures)
<1>1. code = a \o b
  BY DEF code, MultiSig, BaseBytes
<1>2. extra \in BOOLEAN /\ signatures \in Seq(Pushable)
  BY DEF MultiSigWritten
<1>3. a \in Seq(Byte) /\ Len(a) = IF extra THEN 1 ELSE 0
  BY <1>2, BaseIsSeq
<1>4. b \in Seq(Byte) /\ Len(b) \in Nat
  BY <1>2, WrittenStringsAre, LenProperties
<1>5. SignaturesAt(extra) = 1 + Len(a)
  BY DEF SignaturesAt
<1>6. extra => a = WrittenInteger(0)
  BY DEF BaseBytes
<1> HIDE DEF a, b
<1>7. code \in Seq(Byte) /\ Len(code) = Len(a) + Len(b)
  BY <1>1, <1>3, <1>4, ConcatProperties
<1>8. Holds(1, a \o b)
  BY <1>1, <1>7, WholeHeld
<1>9. Holds(1, a) /\ Holds(1 + Len(a), b)
  <2>1. 1 \in Nat \ {0}
    OBVIOUS
  <2>2. QED
    BY <1>3, <1>4, <1>7, <1>8, <2>1, PartsHeld
<1>10. /\ 1 + Len(a) \in Nat \ {0} /\ Len(code) + 1 = (1 + Len(a)) + Len(b)
       /\ extra => 1 <= Len(code) /\ 1 + Len(a) = 2
       /\ ~extra => 1 + Len(a) = 1
  BY <1>2, <1>3, <1>4, <1>7
<1>11. extra => code # << >>
  BY <1>10, EmptySeq
<1>12. QED
  BY <1>5, <1>6, <1>7, <1>9, <1>10, <1>11 DEF b

\* The four parts of the output script.
OutputHeld(signatures, keys) ==
    /\ code \in Seq(Byte) /\ code # << >> /\ code = PayToMultiSig(Len(signatures), keys)
    /\ KeysAt(signatures) \in Nat \ {0} /\ CountAt(signatures, keys) \in Nat \ {0}
    /\ LastAt(signatures, keys) \in Nat \ {0}
    /\ Len(code) = LastAt(signatures, keys) /\ 1 <= Len(code)
    /\ KeysAt(signatures) <= Len(code) /\ CountAt(signatures, keys) <= Len(code)
    /\ Holds(1, CountBytes(signatures))
    /\ Holds(KeysAt(signatures), WrittenStrings(keys))
    /\ Holds(CountAt(signatures, keys), CountBytes(keys))
    /\ code[LastAt(signatures, keys)] = 174

LEMMA MultiSigOutput ==
    ASSUME NEW extra, NEW signatures, NEW keys, MultiSigWritten(extra, signatures, keys),
           scripts = MultiSig(extra, signatures, keys), phase = "output"
    PROVE  OutputHeld(signatures, keys)
<1> DEFINE a == CountBytes(signatures)
           b == WrittenStrings(keys)
           c == CountBytes(keys)
           d == << OP.CHECKMULTISIG >>
<1>1. code = PayToMultiSig(Len(signatures), keys)
  BY DEF code, MultiSig
<1>2. code = ((a \o b) \o c) \o d
  BY <1>1 DEF PayToMultiSig, CountBytes
<1>3. /\ signatures \in Seq(Pushable) /\ keys \in Seq(Pushable)
      /\ Len(signatures) \in Represented /\ Len(keys) \in Represented
  BY DEF MultiSigWritten
<1>4. /\ a \in Seq(Byte) /\ Len(a) \in Nat \ {0} /\ c \in Seq(Byte) /\ Len(c) \in Nat \ {0}
  BY <1>3, CountIsRead
<1>5. b \in Seq(Byte) /\ Len(b) \in Nat
  BY <1>3, WrittenStringsAre, LenProperties
<1>6. 174 \in Byte /\ d = << 174 >>
  BY OpcodeValues DEF Byte
<1>7. /\ KeysAt(signatures) = 1 + Len(a)
      /\ CountAt(signatures, keys) = KeysAt(signatures) + Len(b)
      /\ LastAt(signatures, keys) = CountAt(signatures, keys) + Len(c)
  BY DEF KeysAt, CountAt, LastAt
<1> HIDE DEF a, b, c, d
<1>8. d \in Seq(Byte) /\ Len(d) = 1
  BY <1>6
<1> DEFINE ab == a \o b
           abc == ab \o c
<1>9. ab \in Seq(Byte) /\ Len(ab) = Len(a) + Len(b)
  BY <1>4, <1>5, ConcatProperties
<1> HIDE DEF ab
<1>10. abc \in Seq(Byte) /\ Len(abc) = Len(ab) + Len(c)
  BY <1>4, <1>9, ConcatProperties
<1>11. code = abc \o d
  BY <1>2 DEF ab
<1> HIDE DEF abc
<1>12. code \in Seq(Byte) /\ Len(code) = Len(abc) + 1
  <2>1. abc \in Seq(Byte) /\ d \in Seq(Byte)
    BY <1>8, <1>10
  <2>2. abc \o d \in Seq(Byte) /\ Len(abc \o d) = Len(abc) + Len(d)
    BY <2>1, ConcatProperties
  <2>3. QED
    BY <1>8, <1>11, <2>2
<1>13. 1 \in Nat \ {0}
  OBVIOUS
<1>14. Holds(1, abc \o d)
  BY <1>11, <1>12, WholeHeld
<1>15. Holds(1, abc) /\ Holds(1 + Len(abc), d)
  BY <1>8, <1>10, <1>12, <1>13, <1>14, PartsHeld
<1>16. Holds(1, ab \o c)
  BY <1>15 DEF abc
<1>17. Holds(1, ab) /\ Holds(1 + Len(ab), c)
  BY <1>4, <1>9, <1>12, <1>13, <1>16, PartsHeld
<1>18. Holds(1, a \o b)
  BY <1>17 DEF ab
<1>19. Holds(1, a) /\ Holds(1 + Len(a), b)
  BY <1>4, <1>5, <1>12, <1>13, <1>18, PartsHeld
<1> DEFINE p == KeysAt(signatures)
           q == CountAt(signatures, keys)
           r == LastAt(signatures, keys)
<1>20. p = 1 + Len(a) /\ q = 1 + Len(ab) /\ r = 1 + Len(abc)
  BY <1>4, <1>5, <1>7, <1>9, <1>10
<1> HIDE DEF p, q, r
<1>21. /\ p \in Nat \ {0} /\ q \in Nat \ {0} /\ r \in Nat \ {0}
       /\ Len(code) = r /\ 1 <= Len(code) /\ p <= Len(code) /\ q <= Len(code)
  BY <1>4, <1>5, <1>9, <1>10, <1>12, <1>20
<1>22. code[r] = 174
  <2>1. Holds(r, << 174 >>)
    BY <1>6, <1>15, <1>20
  <2>2. QED
    BY <1>6, <1>21, <2>1, OneByteHeld
<1>23. Holds(p, b) /\ Holds(q, c)
  BY <1>17, <1>19, <1>20
<1>24. code # << >>
  BY <1>21, EmptySeq
<1>25. QED
  BY <1>1, <1>12, <1>19, <1>21, <1>22, <1>23, <1>24 DEF OutputHeld, a, b, c, p, q, r

\* A script with nothing in it.
LEMMA EmptyStep ==
    ASSUME Running, code = << >>, pos \in Nat \ {0}, Next
    PROVE  failed' # "nothing" /\ UNCHANGED << scripts, phase >>
<1>1. ASSUME NEW opcodes, Reads(opcodes)
      PROVE  FALSE
  <2>1. pos <= Len(code) /\ Len(code) = 0
    BY <1>1, EmptySeq DEF Reads
  <2>2. QED
    BY <2>1
<1>2. EmptyCode
  BY <1>1
     DEF Next, PushData, PushTruncated, PushInteger, Equal, Dup, Drop, Depth, Size,
         Hash, NumericUnary, NumericBinary, Within, CheckSig, CheckMultiSig, Noop, Return,
         Reserved, StartOutput, Judge
<1>3. QED
  BY <1>2 DEF EmptyCode, Abort

\* What the machine decides is what is meant.
LEMMA MeantIsMatched ==
    ASSUME NEW signatures, NEW keys, code = PayToMultiSig(Len(signatures), keys)
    PROVE  CanMatch(signatures, keys) <=> Meant(signatures, keys)
  BY DEF CanMatch, Matches, Meant

LEMMA MeantIsAssigned ==
    ASSUME NEW extra, NEW signatures, NEW keys, MultiSigWritten(extra, signatures, keys),
           scripts = MultiSig(extra, signatures, keys)
    PROVE  Assigned(signatures, keys) <=> Meant(signatures, keys)
<1>1. scripts.output = PayToMultiSig(Len(signatures), keys)
  BY DEF MultiSig
<1>2. DOMAIN signatures = 1 .. Len(signatures) /\ DOMAIN keys = 1 .. Len(keys)
  BY LenProperties DEF MultiSigWritten
<1>3. QED
  BY <1>1, <1>2 DEF Assigned, Meant


LEMMA MultiSigReading ==
    ASSUME NEW extra, NEW signatures, NEW keys, MultiSigWritten(extra, signatures, keys),
           scripts = MultiSig(extra, signatures, keys),
           MultiSigReads(extra, signatures, keys), Next
    PROVE  MultiSigStage(extra, signatures, keys)' /\ scripts' = scripts
<1> DEFINE m == Len(signatures)
           n == Len(keys)
           base == Base(extra)
           first == base \o signatures
           second == BelowKeys(extra, signatures)
           third == second \o keys
           p == SignaturesAt(extra)
           q == KeysAt(signatures)
           r == CountAt(signatures, keys)
           l == LastAt(signatures, keys)
           em == Counted(signatures)
           ek == Counted(keys)
<1>1. /\ extra \in BOOLEAN /\ signatures \in Seq(Pushable) /\ keys \in Seq(Pushable)
      /\ Len(signatures) \in Represented /\ Len(keys) \in Represented
      /\ Len(signatures) <= Len(keys) /\ Len(keys) < MaxKeys /\ AllWellFormed(keys, signatures)
  BY DEF MultiSigWritten
<1>2. /\ signatures \in Seq(Strings) /\ keys \in Seq(Strings) /\ m \in Nat /\ n \in Nat
  BY <1>1, WrittenAre
<1>3. /\ em \in Strings /\ decodeScriptNumber(em) = m
      /\ ek \in Strings /\ decodeScriptNumber(ek) = n
  BY <1>1, CountIsRead
<1>4. base \in Seq(Strings) /\ Len(base) = IF extra THEN 1 ELSE 0
  BY <1>1, BaseIsSeq
<1>5. first \in Seq(Strings)
  BY <1>2, <1>4, ConcatProperties
<1>6. second = Append(first, em)
  BY DEF BelowKeys
<1>7. second \in Seq(Strings)
  <2> HIDE DEF first, second, em
  <2>1. QED
    BY <1>3, <1>5, <1>6, AppendProperties
<1>8. third \in Seq(Strings)
  <2> HIDE DEF second
  <2>1. QED
    BY <1>2, <1>7, ConcatProperties
<1>9. phase = "output" => OutputHeld(signatures, keys)
  BY MultiSigOutput
<1>10. CASE extra /\ At("input", 1, << >>)
  <2>1. Reading(1) /\ Holds(1, WrittenInteger(0)) /\ p = 2
    BY <1>10, MultiSigInput DEF At, Reading, Running
  <2>2. stack \in Seq(Strings) /\ stack = << >>
    BY <1>10, EmptySeq DEF At
  <2>3. Pushed(encodeScriptNumber(0), Len(WrittenInteger(0)))
    <3> DEFINE one == 1
               zero == 0
    <3>1. Reading(one) /\ zero \in Int /\ encodeScriptNumber(zero) \in Pushable
          /\ Holds(one, WrittenInteger(zero))
      BY <2>1, ZeroIsRead
    <3> HIDE DEF one, zero
    <3>2. Pushed(encodeScriptNumber(zero), Len(WrittenInteger(zero)))
      BY <2>2, <3>1, IntegerStep
    <3>3. QED
      BY <3>2 DEF zero
  <2>4. Pushed(<< >>, 1)
    BY <2>3, ZeroIsRead
  <2>5. At("input", p, base)' /\ scripts' = scripts
    <3>1. stack' = Append(<< >>, << >>) /\ pos' = 1 + 1 /\ UNCHANGED << scripts, phase, errcode, failed >>
      BY <1>10, <2>4 DEF Pushed, At
    <3>2. base = Append(<< >>, << >>)
      BY <1>10 DEF Base
    <3> HIDE DEF p, base
    <3>3. QED
      BY <1>10, <2>1, <3>1, <3>2 DEF At
  <2>6. PushedSome("input", p, base, signatures, 0)'
    <3>1. p \in Nat
      BY <2>1
    <3>2. /\ p + Len(FirstOf(Written(signatures))[0]) = p
          /\ base \o SubSeq(signatures, 1, 0) = base
      <4> HIDE DEF p, base
      <4>1. QED
        BY <1>1, <1>4, <3>1, NoneAndAll
    <3> HIDE DEF p, base
    <3>3. QED
      BY <2>5, <3>2 DEF PushedSome
  <2>7. QED
    BY <1>2, <2>5, <2>6 DEF MultiSigStage, MultiSigReads
<1>11. ASSUME NEW k \in 0 .. m, PushedSome("input", p, base, signatures, k)
       PROVE  MultiSigStage(extra, signatures, keys)' /\ scripts' = scripts
  <2>1. phase = "input"
    BY <1>11 DEF PushedSome, At
  <2>2. /\ code \in Seq(Byte) /\ p \in Nat \ {0} /\ Holds(p, WrittenStrings(signatures))
        /\ Len(code) + 1 = p + Len(WrittenStrings(signatures))
        /\ extra => code # << >>
    BY <2>1, MultiSigInput
  <2>3. CASE k < m
    <3>1. PushedSome("input", p, base, signatures, k + 1)' /\ scripts' = scripts
      <4> DEFINE ph == "input"
      <4>1. /\ ph \in {"input", "output"} /\ p \in Nat \ {0} /\ base \in Seq(Strings)
            /\ signatures \in Seq(Pushable) /\ k \in Nat /\ k < Len(signatures)
            /\ code \in Seq(Byte) /\ Holds(p, WrittenStrings(signatures))
            /\ PushedSome(ph, p, base, signatures, k)
        BY <1>1, <1>4, <1>11, <2>2, <2>3
      <4> HIDE DEF ph, p, base
      <4>2. PushedSome(ph, p, base, signatures, k + 1)' /\ scripts' = scripts
        BY <4>1, SomeStep
      <4>3. QED
        BY <4>2 DEF ph
    <3>2. k + 1 \in 0 .. m
      BY <1>2, <2>3
    <3>3. QED
      BY <3>1, <3>2 DEF MultiSigStage, MultiSigReads
  <2>4. CASE ~ (k < m)
    <3>1. k = m
      BY <1>2, <2>4
    <3>2. /\ Len(FirstOf(Written(signatures))[m]) = Len(WrittenStrings(signatures))
          /\ base \o SubSeq(signatures, 1, m) = first
      <4> HIDE DEF base
      <4>1. QED
        BY <1>1, <1>4, NoneAndAll
    <3>3. /\ pos = Len(code) + 1 /\ stack = first /\ Running
          /\ errcode = "OK" /\ failed = "nothing"
      BY <1>11, <2>2, <3>1, <3>2 DEF PushedSome, At, Running
    <3>4. CASE code # << >>
      <4>1. StartOutput
        BY <2>1, <2>2, <3>3, <3>4, ScriptEnds
      <4>2. At("output", 1, first)' /\ scripts' = scripts
        BY <3>3, <4>1 DEF StartOutput, At
      <4>3. QED
        BY <4>2 DEF MultiSigStage, MultiSigReads
    <3>5. CASE code = << >>
      <4>1. ~extra /\ pos \in Nat \ {0}
        BY <2>2, <3>3, <3>5, LenProperties
      <4>2. failed' # "nothing" /\ UNCHANGED << scripts, phase >>
        BY <3>3, <3>5, <4>1, EmptyStep
      <4>3. QED
        BY <2>1, <4>1, <4>2 DEF MultiSigStage, MultiSigDecides
    <3>6. QED
      BY <3>4, <3>5
  <2>5. QED
    BY <2>3, <2>4
<1>12. CASE At("output", 1, first)
  <2>1. /\ phase = "output" /\ pos = 1 /\ stack = first /\ stack \in Seq(Strings)
        /\ errcode = "OK" /\ failed = "nothing"
    BY <1>5, <1>12 DEF At
  <2>2. Reading(1) /\ Holds(1, CountBytes(signatures)) /\ q \in Nat \ {0}
    BY <1>9, <2>1 DEF OutputHeld, Reading, Running
  <2>3. Pushed(em, Len(CountBytes(signatures)))
    <3> DEFINE one == 1
    <3>1. /\ Reading(one) /\ m \in Int /\ encodeScriptNumber(m) \in Pushable
          /\ Holds(one, WrittenInteger(m))
      BY <1>1, <2>2 DEF CountBytes, Represented
    <3> HIDE DEF one, m
    <3>2. Pushed(encodeScriptNumber(m), Len(WrittenInteger(m)))
      BY <2>1, <3>1, IntegerStep
    <3>3. QED
      BY <3>2 DEF m, Counted, CountBytes
  <2>4. At("output", q, second)' /\ scripts' = scripts
    <3>1. /\ stack' = Append(stack, em) /\ pos' = pos + Len(CountBytes(signatures))
          /\ UNCHANGED << scripts, phase, errcode, failed >>
      BY <2>3 DEF Pushed
    <3>2. q = 1 + Len(CountBytes(signatures))
      BY DEF KeysAt
    <3> HIDE DEF first, second, q, em
    <3>3. QED
      BY <1>6, <2>1, <3>1, <3>2 DEF At
  <2>5. PushedSome("output", q, second, keys, 0)'
    <3>1. /\ q + Len(FirstOf(Written(keys))[0]) = q
          /\ second \o SubSeq(keys, 1, 0) = second
      <4> HIDE DEF q, second
      <4>1. QED
        BY <1>1, <1>7, <2>2, NoneAndAll
    <3> HIDE DEF q, second
    <3>2. QED
      BY <2>4, <3>1 DEF PushedSome
  <2>6. QED
    BY <1>2, <2>4, <2>5 DEF MultiSigStage, MultiSigReads
<1>13. ASSUME NEW k \in 0 .. n, PushedSome("output", q, second, keys, k)
       PROVE  MultiSigStage(extra, signatures, keys)' /\ scripts' = scripts
  <2>1. phase = "output"
    BY <1>13 DEF PushedSome, At
  <2>2. /\ code \in Seq(Byte) /\ q \in Nat \ {0} /\ Holds(q, WrittenStrings(keys))
        /\ r \in Nat \ {0} /\ r <= Len(code) /\ Holds(r, CountBytes(keys))
    BY <1>9, <2>1 DEF OutputHeld
  <2>3. CASE k < n
    <3>1. PushedSome("output", q, second, keys, k + 1)' /\ scripts' = scripts
      <4> DEFINE ph == "output"
      <4>1. /\ ph \in {"input", "output"} /\ q \in Nat \ {0} /\ second \in Seq(Strings)
            /\ keys \in Seq(Pushable) /\ k \in Nat /\ k < Len(keys)
            /\ code \in Seq(Byte) /\ Holds(q, WrittenStrings(keys))
            /\ PushedSome(ph, q, second, keys, k)
        BY <1>1, <1>7, <1>13, <2>2, <2>3
      <4> HIDE DEF ph, q, second
      <4>2. PushedSome(ph, q, second, keys, k + 1)' /\ scripts' = scripts
        BY <4>1, SomeStep
      <4>3. QED
        BY <4>2 DEF ph
    <3>2. k + 1 \in 0 .. n
      BY <1>2, <2>3
    <3>3. QED
      BY <3>1, <3>2 DEF MultiSigStage, MultiSigReads
  <2>4. CASE ~ (k < n)
    <3>1. k = n
      BY <1>2, <2>4
    <3>2. /\ Len(FirstOf(Written(keys))[n]) = Len(WrittenStrings(keys))
          /\ second \o SubSeq(keys, 1, n) = third
      <4> HIDE DEF second
      <4>1. QED
        BY <1>1, <1>7, NoneAndAll
    <3>3. r = q + Len(WrittenStrings(keys))
      BY DEF CountAt
    <3>4. /\ pos = r /\ stack = third /\ Running /\ errcode = "OK" /\ failed = "nothing"
      <4> HIDE DEF q, r, second, third, n
      <4>1. QED
        BY <1>13, <3>1, <3>2, <3>3 DEF PushedSome, At, Running
    <3>5. Pushed(ek, Len(CountBytes(keys)))
      <4>1. /\ Reading(r) /\ n \in Int /\ encodeScriptNumber(n) \in Pushable
            /\ Holds(r, WrittenInteger(n)) /\ stack \in Seq(Strings)
        <5>1. Reading(r)
          <6> HIDE DEF r
          <6>1. QED
            BY <2>2, <3>4 DEF Reading
        <5>2. QED
          BY <1>1, <1>8, <2>2, <3>4, <5>1 DEF CountBytes, Represented
      <4> HIDE DEF r, n
      <4>2. Pushed(encodeScriptNumber(n), Len(WrittenInteger(n)))
        BY <4>1, IntegerStep
      <4>3. QED
        BY <4>2 DEF n, Counted, CountBytes
    <3>6. At("output", l, Append(third, ek))' /\ scripts' = scripts
      <4>1. l = r + Len(CountBytes(keys))
        BY DEF LastAt
      <4> HIDE DEF l, r, third, ek
      <4>2. QED
        BY <2>1, <3>4, <3>5, <4>1 DEF Pushed, At
    <3>7. QED
      BY <3>6 DEF MultiSigStage, MultiSigReads
  <2>5. QED
    BY <2>3, <2>4
<1>14. CASE At("output", l, Append(third, ek))
  <2>1. /\ phase = "output" /\ pos = l /\ stack = Append(third, ek)
        /\ errcode = "OK" /\ failed = "nothing"
    BY <1>14 DEF At
  <2>2. /\ Reading(l) /\ code[l] = 174 /\ code = PayToMultiSig(Len(signatures), keys)
    <3>1. /\ OutputHeld(signatures, keys) /\ Running
      BY <1>9, <2>1 DEF Running
    <3>2. l <= Len(code) /\ l \in Nat \ {0} /\ code \in Seq(Byte) /\ code[l] = 174
          /\ code = PayToMultiSig(Len(signatures), keys)
      BY <3>1 DEF OutputHeld
    <3> HIDE DEF l
    <3>3. QED
      BY <2>1, <3>1, <3>2 DEF Reading
  <2>3. CanMatch(signatures, keys) <=> Meant(signatures, keys)
    BY <2>2, MeantIsMatched
  <2>4. stack = Append(Append(base \o signatures, em) \o keys, ek)
    BY <1>6, <2>1
  <2>5. /\ pos' = l + 1 /\ UNCHANGED << scripts, phase >>
        /\ Len(base) = 0 => failed' # "nothing"
        /\ Len(base) = 1 => /\ stack' = Append(<< >>, Bool(CanMatch(signatures, keys)))
                            /\ UNCHANGED << errcode, failed >>
    <3>1. Len(base) \in {0, 1}
      BY <1>4
    <3> HIDE DEF base, em, ek, l, third, second, first
    <3>2. MultiSigChecked(l, base, signatures, keys)
      BY <1>1, <1>2, <1>3, <1>4, <2>2, <2>4, <3>1, CheckMultiSigStep
    <3>3. QED
      BY <3>2 DEF MultiSigChecked
  <2>6. CASE extra
    <3>1. Len(base) = 1 /\ Bool(CanMatch(signatures, keys)) = Bool(Meant(signatures, keys))
      BY <1>4, <2>3, <2>6 DEF Bool
    <3>2. At("output", l + 1, Append(<< >>, Bool(Meant(signatures, keys))))' /\ scripts' = scripts
      <4>1. /\ pos' = l + 1 /\ stack' = Append(<< >>, Bool(Meant(signatures, keys)))
            /\ phase' = "output" /\ errcode' = "OK" /\ failed' = "nothing" /\ scripts' = scripts
        BY <2>1, <2>5, <3>1
      <4> HIDE DEF l
      <4>2. QED
        BY <4>1 DEF At, Bool, Meant, vTrue, vFalse
    <3>3. QED
      BY <2>6, <3>2 DEF MultiSigStage, MultiSigDecides
  <2>7. CASE ~extra
    <3>1. Len(base) = 0
      BY <1>4, <2>7
    <3>2. QED
      BY <2>1, <2>5, <2>7, <3>1 DEF MultiSigStage, MultiSigDecides
  <2>8. QED
    BY <1>1, <2>6, <2>7
<1>15. QED
  BY <1>10, <1>11, <1>12, <1>13, <1>14 DEF MultiSigReads


LEMMA MultiSigDeciding ==
    ASSUME NEW extra, NEW signatures, NEW keys, MultiSigWritten(extra, signatures, keys),
           scripts = MultiSig(extra, signatures, keys),
           MultiSigDecides(extra, signatures, keys), Next
    PROVE  MultiSigDecides(extra, signatures, keys)' /\ scripts' = scripts
<1> DEFINE b == Meant(signatures, keys)
           x == Bool(b)
           l == LastAt(signatures, keys)
<1>1. x \in Strings /\ << >> \in Seq(Strings)
  BY BoolIsString, EmptySeq DEF Strings
<1>2. BoolOf(x) <=> b
  BY BoolValues DEF Bool
<1>3. CASE extra /\ At("output", l + 1, Append(<< >>, x))
  <2>1. phase = "output" /\ pos = l + 1 /\ stack = Append(<< >>, x) /\ Running
    BY <1>3 DEF At, Running
  <2>2. OutputHeld(signatures, keys)
    BY <2>1, MultiSigOutput
  <2>3. code \in Seq(Byte) /\ code # << >> /\ Len(code) = l
    BY <2>2 DEF OutputHeld
  <2>4. Judge
    BY <2>1, <2>3, ScriptEnds
  <2>5. stack # << >> /\ Top(1) = x
    <3> HIDE DEF x
    <3>1. QED
      BY <1>1, <2>1, TopOne
  <2>6. /\ phase' = (IF b THEN "accepted" ELSE "rejected")
        /\ failed' = "nothing" /\ scripts' = scripts
    <3> HIDE DEF x, b
    <3>1. QED
      BY <1>2, <1>3, <2>4, <2>5 DEF Judge, At
  <2>7. Decided(b)'
    BY <2>6 DEF Decided, Meant
  <2>8. QED
    BY <1>3, <2>6, <2>7 DEF MultiSigDecides
<1>4. CASE ~Running
  <2>1. UNCHANGED vars
    BY <1>4, Stopped
  <2>2. QED
    BY <2>1 DEF vars, MultiSigDecides, At, Decided
<1>5. QED
  BY <1>3, <1>4 DEF MultiSigDecides, Decided, Running

LEMMA MultiSigInit ==
    ASSUME MultiSigsAreWritten, Init
    PROVE  MultiSigInv
<1>1. scripts \in Scripts
  BY DEF Init
<1>2. ASSUME scripts.kind = "multisig"
      PROVE  \E extra, signatures, keys :
                /\ MultiSigWritten(extra, signatures, keys)
                /\ scripts = MultiSig(extra, signatures, keys)
                /\ MultiSigStage(extra, signatures, keys)
  <2>1. PICK extra, signatures, keys : MultiSigWritten(extra, signatures, keys)
                                       /\ scripts = MultiSig(extra, signatures, keys)
    BY <1>1, <1>2 DEF MultiSigsAreWritten
  <2>2. At("input", 1, << >>)
    BY DEF Init, At
  <2>3. extra \in BOOLEAN /\ signatures \in Seq(Pushable)
    BY <2>1 DEF MultiSigWritten
  <2>4. CASE extra
    BY <2>1, <2>2, <2>4 DEF MultiSigStage, MultiSigReads
  <2>5. CASE ~extra
    <3>1. SignaturesAt(extra) = 1 /\ Base(extra) = << >> /\ << >> \in Seq(Strings)
      <4>1. BaseBytes(extra) = << >> /\ Base(extra) = << >> /\ Len(<< >>) = 0
        BY <2>5 DEF Base, BaseBytes
      <4>2. QED
        BY <4>1, EmptySeq DEF SignaturesAt
    <3> DEFINE one == 1
               base == Base(extra)
    <3>2. one \in Nat /\ base \in Seq(Strings)
      BY <3>1
    <3>3. /\ one + Len(FirstOf(Written(signatures))[0]) = one
          /\ base \o SubSeq(signatures, 1, 0) = base
      <4> HIDE DEF one, base
      <4>1. QED
        BY <2>3, <3>2, NoneAndAll
    <3>4. PushedSome("input", SignaturesAt(extra), Base(extra), signatures, 0)
      BY <2>2, <3>1, <3>3 DEF PushedSome
    <3>5. Len(signatures) \in Nat
      BY <2>3, LenProperties
    <3>6. QED
      BY <2>1, <3>4, <3>5 DEF MultiSigStage, MultiSigReads
  <2>6. QED
    BY <2>3, <2>4, <2>5
<1>3. QED
  BY <1>1, <1>2 DEF MultiSigInv

LEMMA MultiSigNext ==
    ASSUME MultiSigInv, [Next]_vars
    PROVE  MultiSigInv'
<1>1. CASE UNCHANGED vars
  <2>1. UNCHANGED << scripts, phase, pos, stack, errcode, failed >>
    BY <1>1 DEF vars
  <2>2. \A ph, p, values : At(ph, p, values) => At(ph, p, values)'
    BY <2>1 DEF At
  <2>3. \A extra, signatures, keys :
            MultiSigReads(extra, signatures, keys) => MultiSigReads(extra, signatures, keys)'
    BY <2>2 DEF MultiSigReads, PushedSome
  <2>4. \A extra, signatures, keys :
            MultiSigDecides(extra, signatures, keys) => MultiSigDecides(extra, signatures, keys)'
    BY <2>1 DEF MultiSigDecides, At, Decided
  <2>5. QED
    BY <2>1, <2>3, <2>4 DEF MultiSigInv, MultiSigStage
<1>2. CASE Next /\ scripts.kind = "multisig"
  <2>1. PICK extra, signatures, keys :
            /\ MultiSigWritten(extra, signatures, keys)
            /\ scripts = MultiSig(extra, signatures, keys)
            /\ MultiSigStage(extra, signatures, keys)
    BY <1>2 DEF MultiSigInv
  <2>2. MultiSigStage(extra, signatures, keys)' /\ scripts' = scripts
    BY <1>2, <2>1, MultiSigReading, MultiSigDeciding DEF MultiSigStage
  <2>3. QED
    BY <2>1, <2>2 DEF MultiSigInv
<1>3. CASE Next /\ scripts.kind # "multisig"
  <2>1. scripts' = scripts
    BY <1>3, ScriptsStay
  <2>2. QED
    BY <1>3, <2>1 DEF MultiSigInv
<1>4. QED
  BY <1>1, <1>2, <1>3

\* An output that pays to some of several keys, whatever the keys, however many
\* of them and however many signatures: the machine accepts exactly the inputs
\* whose signatures can each be given a key of their own, in order, and that have
\* the extra value; an input without it ends in an assertion (script_checkMultiSig,
\* checkMultiSig, ScriptVM::getValues; verifyTransactionInput).
THEOREM MultiSigIsMeant ==
    ASSUME MultiSigsAreWritten
    PROVE  Spec => []MultiSigMeans
<1>1. Init => MultiSigInv
  BY MultiSigInit
<1>2. MultiSigInv /\ [Next]_vars => MultiSigInv'
  BY MultiSigNext
<1>3. MultiSigInv => MultiSigMeans
  <2> SUFFICES ASSUME MultiSigInv, scripts.kind = "multisig"
               PROVE  MultiSigMeans
    BY DEF MultiSigMeans
  <2>1. PICK extra, signatures, keys :
            /\ MultiSigWritten(extra, signatures, keys)
            /\ scripts = MultiSig(extra, signatures, keys)
            /\ MultiSigStage(extra, signatures, keys)
    BY DEF MultiSigInv
  <2>2. scripts.extra = extra /\ scripts.signatures = signatures /\ scripts.keys = keys
    BY <2>1 DEF MultiSig
  <2>3. Assigned(signatures, keys) <=> Meant(signatures, keys)
    BY <2>1, MeantIsAssigned
  <2>4. /\ phase = "accepted" => extra /\ Meant(signatures, keys)
        /\ phase = "rejected" => extra /\ ~Meant(signatures, keys)
        /\ failed # "nothing" => ~extra
    BY <2>1 DEF MultiSigStage, MultiSigReads, PushedSome, MultiSigDecides, At, Decided
  <2>5. QED
    BY <2>2, <2>3, <2>4 DEF MultiSigMeans
<1>4. QED
  BY <1>1, <1>2, <1>3, PTL DEF Spec
=============================================================================
