--------------------------- MODULE ScriptTemplates --------------------------
(***************************************************************************)
(* What the machine decides about the scripts that occur in blocks: the    *)
(* end-to-end properties of the writers, the handlers and the verdict.     *)
(***************************************************************************)
EXTENDS ScriptMachine

LESSTHAN == 159
SUB == OP.ADD + 1
NUMEQUAL == OP.NUMEQUALVERIFY - 1

Concat(strings) ==
    LET first[n \in 0 .. Len(strings)] ==
            IF n = 0 THEN << >> ELSE first[n - 1] \o strings[n]
    IN  first[Len(strings)]
WrittenStrings(strings) == Concat([i \in DOMAIN strings |-> WrittenString(strings[i])])

PayToKeyHash(hash) == << OP.DUP, OP.HASH160 >> \o WrittenString(hash)
                      \o << OP.EQUALVERIFY, OP.CHECKSIG >>

PayToMultiSig(m, keys) ==
    WrittenInteger(m) \o WrittenStrings(keys) \o WrittenInteger(Len(keys))
    \o << OP.CHECKMULTISIG >>

\* A string of zeros and then a byte that makes it true.
Text(length) == [i \in 1 .. length |-> IF i = length THEN 7 ELSE 0]

\* Pairs of scripts, with what they were written from.
KeyHash(sig, key, hash) ==
    [kind |-> "key hash", sig |-> sig, key |-> key, hash |-> hash,
     input |-> WrittenString(sig) \o WrittenString(key), output |-> PayToKeyHash(hash)]

MultiSig(extra, signatures, keys) ==
    [kind |-> "multisig", extra |-> extra, signatures |-> signatures, keys |-> keys,
     input |-> (IF extra THEN WrittenInteger(0) ELSE << >>) \o WrittenStrings(signatures),
     output |-> PayToMultiSig(Len(signatures), keys)]

PushNumber(v) == [kind |-> "number", value |-> v,
                  input |-> WrittenInteger(v), output |-> << OP.NOP >>]
PushText(n) == [kind |-> "text", length |-> n,
                input |-> WrittenString(Text(n)), output |-> << OP.NOP >>]

Less(x, y) == [kind |-> "less", x |-> x, y |-> y,
               input |-> WrittenInteger(x) \o WrittenInteger(y), output |-> << LESSTHAN >>]
Difference(x, y, z) ==
    [kind |-> "difference", x |-> x, y |-> y, z |-> z,
     input |-> WrittenInteger(x) \o WrittenInteger(y),
     output |-> << SUB >> \o WrittenInteger(z) \o << NUMEQUAL >>]

-----------------------------------------------------------------------------
\* The machine stays within its data, whatever the scripts are.
TypeOK == /\ phase \in {"input", "output", "accepted", "rejected"}
          /\ pos \in 1 .. Len(code) + 1
          /\ \A i \in DOMAIN stack : \A j \in DOMAIN stack[i] : stack[i][j] \in Byte
          /\ errcode \in Errors
          /\ failed \in Assertions \cup {"nothing"}

\* A comparison that a VERIFY opcode made and that failed is never forgotten:
\* the verdict only looks at the top of the stack, not at the error, and still
\* rejects the input (ScriptVM::verify leaves the false value there).
FailedVerifyRejects == phase = "accepted" => errcode \notin VerifyErrors

\* An output that pays to the hash of a key is spent by exactly the inputs that
\* give that key and one of its signatures over this output's script; a wrong
\* key is rejected, a wrong signature ends in an assertion (ScriptVM::eval,
\* script_hash, script_equal, script_checkSig).
KeyHashMeans ==
    (scripts.kind = "key hash") =>
        LET signed == /\ WellFormed(scripts.sig, scripts.key)
                      /\ Signs(scripts.sig, scripts.key, scripts.output)
            same == Digest(OP.HASH160, scripts.key) = scripts.hash
        IN  /\ phase = "accepted" => same /\ signed
            /\ phase = "rejected" => ~same
            /\ failed # "nothing" => same /\ ~signed

\* The signatures of a multisig input are all used, in the order of the keys
\* and each with a key of its own.
Assigned(signatures, keys) ==
    \E f \in [DOMAIN signatures -> DOMAIN keys] :
        /\ \A i, j \in DOMAIN signatures : i < j => f[i] < f[j]
        /\ \A i \in DOMAIN signatures : Signs(signatures[i], keys[f[i]], scripts.output)

\* The single pass of checkMultiSig finds such an assignment whenever there is
\* one, and accepts nothing else.  An input also needs one value more than its
\* signatures, which the pop at the end of script_checkMultiSig takes "if it is
\* there": getValues has refused any other input before.
MultiSigMeans ==
    (scripts.kind = "multisig") =>
        /\ phase = "accepted" => scripts.extra /\ Assigned(scripts.signatures, scripts.keys)
        /\ phase = "rejected" => scripts.extra /\ ~Assigned(scripts.signatures, scripts.keys)
        /\ failed # "nothing" => ~scripts.extra

\* What the writers write, the machine pushes and reads as the same number, at
\* every length of the push opcodes and at every size of a number; so that a
\* subtraction and a comparison decide as the integers do.
NumbersSurvive ==
    /\ (phase = "output" /\ pos = 1) =>
          /\ (scripts.kind = "number") => Len(stack) = 1 /\ Number(1) = scripts.value
          /\ (scripts.kind = "text") => stack = << Text(scripts.length) >>
    /\ (phase \in {"accepted", "rejected"}) =>
          /\ (scripts.kind = "less") => (phase = "accepted" <=> scripts.x < scripts.y)
          /\ (scripts.kind = "difference") =>
                 (phase = "accepted" <=> scripts.x - scripts.y = scripts.z)

\* A multisig of as many keys as the comment on MAX_PUBKEYS_PER_MULTISIG allows
\* is decided, not refused.
MaximumIsAllowed ==
    (scripts.kind = "multisig" /\ scripts.extra /\ Len(scripts.keys) = MaxKeys)
    => failed # "VM_CHECK"
=============================================================================
