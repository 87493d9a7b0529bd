------------------------------ MODULE MCScript ------------------------------
EXTENDS ScriptTemplates

\* Keys 1 and 2, the signatures of each, one of nobody, and strings that are no
\* key or carry no hash type.
SomeKeys == {<< 2, 1 >>, << 2, 2 >>}
NoKey == << 5 >>
SomeSignatures == {<< 1, 1 >>, << 2, 0 >>, << 9, 1 >>}
NoSignature == << 1, 6 >>
SignsByIndex(sig, key, over) == sig # << >> /\ sig[1] = key[2]
DigestOf(opcode, s) == << opcode >> \o s

AllKeys == SomeKeys \cup {NoKey}
AllSignatures == SomeSignatures \cup {NoSignature}

SomeKeyLists == UNION {[1 .. n -> SomeKeys] : n \in 1 .. 3}

SomeNumbers == {-32768, -256, -255, -128, -127, -1, 0, 1, 16, 17, 127, 128, 255, 32768}
SomeLengths == {1, 75, 76, 255, 256, 65535, 65536}

KeyHashScripts ==
    {KeyHash(sig, key, DigestOf(OP.HASH160, owner)) :
        sig \in AllSignatures, key \in AllKeys, owner \in AllKeys}

MultiSigScripts ==
    UNION {{MultiSig(extra, signatures, keys) :
        extra \in BOOLEAN,
        signatures \in UNION {[1 .. m -> SomeSignatures] : m \in 0 .. Len(keys)}} :
            keys \in SomeKeyLists}

WriterScripts == {PushNumber(v) : v \in SomeNumbers} \cup {PushText(n) : n \in SomeLengths}

ArithmeticScripts ==
    UNION {{Less(x, y)} \cup {Difference(x, y, z) : z \in {x - y, y - x, x - y + 1}} :
           x \in SomeNumbers, y \in SomeNumbers}

\* Every opcode on small stacks, with another one after it.
Followers == {OP.DROP, OP.DUP2, OP.EQUALVERIFY, OP.NUMEQUALVERIFY, OP.CHECKMULTISIGVERIFY,
              OP.RETURN, OP.PUSHDATA1, 3}
SmallScripts ==
    {[kind |-> "any",
      input |-> Concat([i \in DOMAIN values |-> WrittenInteger(values[i])]),
      output |-> << opcode, follower >>] :
        values \in UNION {[1 .. n -> {-2, 0, 1}] : n \in 0 .. 3},
        opcode \in (0 .. 4) \cup (OP.PUSHDATA1 .. 185), follower \in Followers}

TwentyKeys == {MultiSig(TRUE, << << 1, 1 >> >>, [i \in 1 .. 20 |-> << 2, 1 >>])}

SomeScripts == KeyHashScripts \cup MultiSigScripts \cup WriterScripts
               \cup ArithmeticScripts \cup SmallScripts
=============================================================================
