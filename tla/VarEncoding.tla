---------------------------- MODULE VarEncoding -----------------------------
(***************************************************************************)
(* The sizes, numbers and transactions of the wire and of the databases    *)
(* (util/serialization.hpp and .cpp, data/Transaction.cpp, data/Coin.cpp): *)
(* what is written, and what is read back from a stream.                   *)
(*                                                                         *)
(* A stream is a sequence of bytes; a reader returns what it read and the  *)
(* rest of the stream, or Bad.                                             *)
(***************************************************************************)
EXTENDS Integers, Sequences, SequencesExt

Bad == [good |-> FALSE]
Good(value, rest) == [good |-> TRUE, value |-> value, rest |-> rest]

\* What is read after a reader that went well: next of what it read and of the
\* rest.  A stream that has gone bad stays bad.
Then(read, next(_, _)) == IF read.good THEN next(read.value, read.rest) ELSE Bad

\* The low bytes of a number, the lowest first.
Fixed(n, size) ==
    LET quotient[k \in 0 .. size] == IF k = 0 THEN n ELSE quotient[k - 1] \div 256
    IN  [i \in 1 .. size |-> quotient[i - 1] % 256]

\* The number that bytes stand for, the lowest first.
Value(s) ==
    LET v[k \in 0 .. Len(s)] == IF k = 0 THEN 0 ELSE s[Len(s) + 1 - k] + 256 * v[k - 1]
    IN  v[Len(s)]

Drop(s, n) == SubSeq(s, n + 1, Len(s))

\* A number in a fixed number of bytes (the stream's own >>).
ReadFixed(s, size) ==
    IF Len(s) < size THEN Bad ELSE Good(Value(SubSeq(s, 1, size)), Drop(s, size))

-----------------------------------------------------------------------------
(* Plausible slips, for checking the properties.                           *)

writeIntegerUnbiased(n, width) ==
    LET groups[v \in Nat] ==
            IF v < 128 THEN << v >> ELSE Append(groups[v \div 128], v % 128)
    IN  [i \in DOMAIN groups[n] |-> IF i = Len(groups[n]) THEN groups[n][i] ELSE groups[n][i] + 128]

-----------------------------------------------------------------------------
(* Compact sizes and strings.                                              *)

writeCompactSize(n) ==
    IF n < 253 THEN << n >>
    ELSE IF n <= 65535 THEN << 253 >> \o Fixed(n, 2)
    ELSE IF n \div 65536 <= 65535 THEN << 254 >> \o Fixed(n, 4)
    ELSE << 255 >> \o Fixed(n, 8)

readCompactSize(s) ==
    IF s = << >> THEN Bad
    ELSE CASE s[1] = 253 -> ReadFixed(Tail(s), 2)
           [] s[1] = 254 -> ReadFixed(Tail(s), 4)
           [] s[1] = 255 -> ReadFixed(Tail(s), 8)
           [] OTHER -> Good(s[1], Tail(s))

writeString(s) == writeCompactSize(Len(s)) \o s

readString(s, maxSize) ==
    Then(readCompactSize(s), LAMBDA size, rest :
        IF size > maxSize \/ size > Len(rest) THEN Bad
        ELSE Good(SubSeq(rest, 1, size), Drop(rest, size)))

-----------------------------------------------------------------------------
(* Numbers of a given width in groups of seven bits, the highest first.    *)
(* Every group but the last counts one more than its bits say, so that no  *)
(* number has two encodings.                                               *)

Largest(width) ==
    LET power[k \in 0 .. width] == IF k = 0 THEN 1 ELSE 2 * power[k - 1]
    IN  power[width] - 1

\* The size of the buffer writeInteger fills from its end.
BufferSize(width) == (width + 6) \div 7

writeInteger(n, width) ==
    LET groups[v \in Nat] ==
            IF v < 128 THEN << v >> ELSE Append(groups[v \div 128 - 1], v % 128)
    IN  [i \in DOMAIN groups[n] |-> IF i = Len(groups[n]) THEN groups[n][i] ELSE groups[n][i] + 128]

\* The loop: n is what the groups before position at of the stream came to.
readInteger(s, width) ==
    LET max == Largest(width)
        from[r \in [at : 1 .. Len(s) + 1, n : Nat]] ==
            IF r.n > max \div 128 \/ r.at > Len(s) THEN Bad
            ELSE LET next == r.n * 128 + (s[r.at] % 128)
                 IN  IF s[r.at] < 128 THEN Good(next, Drop(s, r.at))
                     ELSE IF next = max THEN Bad
                     ELSE from[[at |-> r.at + 1, n |-> next + 1]]
    IN  from[[at |-> 1, n |-> 0]]

-----------------------------------------------------------------------------
(* Vectors, and the transactions made of them.                             *)

\* A vector of items that have been written.
writeVector(items) == writeCompactSize(Len(items)) \o FlattenSeq(items)

CONSTANTS MaxItems,     \* the limit on inputs and on outputs
          MaxScript     \* the limit on the length of a script

\* An item is a number that identifies the outpoint and sequence of an input or
\* the amount of an output, and a script.
writeItem(item) == << item.id >> \o writeString(item.script)
readItem(s) ==
    IF s = << >> THEN Bad
    ELSE Then(readString(Tail(s), MaxScript), LAMBDA script, rest :
             Good([id |-> s[1], script |-> script], rest))

writeItems(items) == writeVector([i \in DOMAIN items |-> writeItem(items[i])])

\* Items read one after the other; the first bad one ends it.
ReadItems(s, count) ==
    LET items[k \in 0 .. count] ==
            IF k = 0 THEN Good(<< >>, s)
            ELSE Then(items[k - 1], LAMBDA before, rest :
                 Then(readItem(rest), LAMBDA item, more : Good(Append(before, item), more)))
    IN  items[count]

readVector(s) ==
    Then(readCompactSize(s), LAMBDA count, rest :
        IF count > MaxItems THEN Bad ELSE ReadItems(rest, count))

\* A witness is a vector of strings; one without strings is null.
hasWitness(tx) == \E i \in DOMAIN tx.witness : tx.witness[i] # << >>

\* SERIALIZE_TRANSACTION_NO_WITNESS (0x40000000) is a bit of the version's
\* highest byte, the one that stands for the version here.
isWitnessAllowed(version) == (version \div 64) % 2 = 0

needWitness(tx) == isWitnessAllowed(tx.version) /\ hasWitness(tx)

writeWitness(stack) == writeVector([i \in DOMAIN stack |-> writeString(stack[i])])

\* The flag 0x0100 of a transaction written with its witness is written low byte
\* first, and reads as an empty vector of inputs before the flag.
writeTransaction(tx) ==
    LET inputs == writeItems(tx.inputs)
        outputs == writeItems(tx.outputs)
        witnesses == FlattenSeq([i \in DOMAIN tx.witness |-> writeWitness(tx.witness[i])])
    IN  << tx.version >>
        \o (IF needWitness(tx) THEN << 0, 1 >> ELSE << >>)
        \o inputs \o outputs
        \o (IF needWitness(tx) THEN witnesses ELSE << >>)
        \o << tx.lockTime >>

\* The version of a Transaction that nothing has been read into.
NewVersion == 0

\* The reader skips the flag and reads the inputs that follow it, but its
\* needWitness stays false: the witnesses are not read.  Whether it looks for a
\* flag depends on held, the version of the transaction it reads into before.
readInputs(s, held) ==
    Then(readVector(s), LAMBDA inputs, rest :
        IF ~ isWitnessAllowed(held) \/ inputs # << >> THEN Good(inputs, rest)
        ELSE IF rest = << >> THEN Bad
        ELSE IF rest[1] = 0 THEN Good(<< >>, Tail(rest))
        ELSE readVector(Tail(rest)))

readTransaction(s, held) ==
    IF s = << >> THEN Bad
    ELSE Then(readInputs(Tail(s), held), LAMBDA inputs, afterInputs :
         Then(readVector(afterInputs), LAMBDA outputs, last :
            IF last = << >> THEN Bad
            ELSE Good([version |-> s[1], inputs |-> inputs, outputs |-> outputs,
                       witness |-> [i \in DOMAIN inputs |-> << >>], lockTime |-> last[1]],
                      Tail(last))))

\* A coin keeps its height and whether it is of a coinbase in one number.
writeCoinHeight(coin) == coin.height * 2 + (IF coin.isCoinBase THEN 1 ELSE 0)
readCoinHeight(n) == [height |-> n \div 2, isCoinBase |-> n % 2 = 1]
=============================================================================
