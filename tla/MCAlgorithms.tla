---------------------------- MODULE MCAlgorithms ----------------------------
EXTENDS AlgorithmRuns

\* Limbs at the boundaries of a word, and a word in between.
Operands == [Index -> {0, 1, 5, Word - 1}]
Divisors == [Index -> {0, 1, Word - 1}]

Arithmetic == [kind : {"arithmetic"}, a : Operands, b : Divisors]
Shifts == [kind : {"shift"}, a : Operands, shift : 0 .. Bits + 1]
Compacts == [kind : {"compact"}, compact : Compact]
Values == [kind : {"value"}, value : 0 .. Modulus - 1]

Leaves == {<< "a" >>, << "b" >>}
Lists(n) == UNION {[1 .. k -> Leaves] : k \in 0 .. n}

\* Longer lists of different leaves, and what becomes of them when their last k
\* leaves are repeated, once and twice: with 6, 10 or 12 of them and a power of
\* two the repetition ends at a higher level.
Letters == << "a", "b", "c", "d", "e", "f", "g", "h", "i", "j", "k", "l", "m" >>
Different(n) == [i \in 1 .. n |-> << Letters[i] >>]
Repeated(x, k) == x \o SubSeq(x, Len(x) - k + 1, Len(x))
Lengthened(x) ==
    UNION {{Repeated(x, k)} \cup {Repeated(Repeated(x, k), m) : m \in {1, 2, 4}} : k \in 0 .. Len(x)}

Merkle == {[kind |-> "lists", x |-> x, y |-> y] : x \in Lists(5), y \in Lists(5)}
          \cup UNION {{[kind |-> "lists", x |-> Different(n), y |-> y] : y \in Lengthened(Different(n))} :
                         n \in 5 .. 13}
Branches == UNION {{[kind |-> "branch", size |-> n, position |-> p] : p \in 0 .. n - 1} : n \in 1 .. 17}

Trees == [fork : {3, 40}, tip : {0, 30, 60}, skips : BOOLEAN]
Heights == {0, 1, 5, 11, 12, 13, 27, 41, 50, 64}
Blocks(tree) == {Walk!Block("best", h) : h \in Heights}
                \cup {Walk!Block("fork", h) : h \in {g \in Heights : g > tree.fork}}
Locators == UNION {{[kind |-> "locator", tree |-> t, block |-> b] : b \in Blocks(t)} : t \in Trees}
Commons == UNION {{[kind |-> "common", tree |-> t, x |-> x, y |-> y] : x \in Blocks(t), y \in Blocks(t)}
                  : t \in {[fork |-> 3, tip |-> 30, skips |-> TRUE], [fork |-> 40, tip |-> 60, skips |-> FALSE]}}

Sizes == {[kind |-> "size", size |-> n] :
              n \in (0 .. 300) \cup {65534, 65535, 65536, 16777216, 2147483647}}
Widths == 7 .. 10
Numbers == UNION {{[kind |-> "integer", width |-> w, n |-> n] : n \in 0 .. 2 ^ w - 1} : w \in Widths}
Streams == [kind : {"stream"}, width : Widths,
            bytes : UNION {[1 .. k -> {0, 1, 5, 6, 7, 126, 127, 128, 133, 134, 135, 254, 255}] : k \in 0 .. 3}]

SomeItems == [id : {7}, script : {<< >>, << 1 >>, << 0, 0 >>}]
SomeWitnesses == {<< >>, << << 3 >> >>}
SomeTransactions ==
    UNION {{[kind |-> "transaction",
             tx |-> [version |-> v, inputs |-> i, outputs |-> o, witness |-> w, lockTime |-> 0]] :
        v \in {1, 64, 129}, o \in UNION {[1 .. k -> SomeItems] : k \in 0 .. 3},
        w \in [DOMAIN i -> SomeWitnesses]} :
            i \in UNION {[1 .. k -> SomeItems] : k \in 1 .. 2}}

Coins == [kind : {"coin"}, coin : [height : {0, 1, 2, 227931, 2 ^ 30 - 1}, isCoinBase : BOOLEAN]]

SomeInputs == Arithmetic \cup Shifts \cup Compacts \cup Values \cup Merkle \cup Branches
              \cup Locators \cup Commons \cup Sizes \cup Numbers \cup Streams
              \cup SomeTransactions \cup Coins
=============================================================================
