---------------------------- MODULE AlgorithmRuns ---------------------------
(***************************************************************************)
(* The pure algorithms, each on any set of inputs: an initial state is an  *)
(* input, the one step runs the algorithm, and the invariants compare what *)
(* it returned with the definition of what it should.                      *)
(***************************************************************************)
EXTENDS Consensus, Sequences, FiniteSets

CONSTANTS Inputs,               \* the inputs, each a record that names its kind
          MaxItems, MaxScript   \* the limits of a transaction's reader

Tree == INSTANCE MerkleTree
Walk == INSTANCE BlockWalk
Var == INSTANCE VarEncoding

-----------------------------------------------------------------------------
(* Inputs. *)

Modulus == 2 ^ Bits
DistinctLeaves(n) == [i \in 1 .. n |-> << i >>]

BlockTrees == [fork : Nat, tip : Nat, skips : BOOLEAN]

\* A number of 64 bits, a byte, and a sequence whose size is a size_t.
Bits64(n) == n \in Nat /\ ((n \div 65536) \div 65536) \div 65536 <= 65535
Octets == 0 .. 255
Sized(S) == {s \in Seq(S) : Bits64(Len(s))}

Items == [id : Octets, script : Sized(Octets)]

\* A transaction with inputs; each input has a witness, null or not.
Transactions ==
    {tx \in [version : Octets, inputs : Sized(Items) \ {<< >>}, outputs : Sized(Items),
             witness : Seq(Sized(Sized(Octets))), lockTime : Octets] :
        Len(tx.witness) = Len(tx.inputs)}

IsInput(i) ==
    \/ i.kind = "arithmetic" /\ i.a \in base_uint /\ i.b \in base_uint
    \/ i.kind = "shift" /\ i.a \in base_uint /\ i.shift \in Nat
    \/ i.kind = "compact" /\ i.compact \in Compact
    \/ i.kind = "value" /\ i.value \in 0 .. Modulus - 1
    \/ i.kind = "lists" /\ Len(i.x) < 2 ^ Tree!Levels /\ Len(i.y) < 2 ^ Tree!Levels
    \/ i.kind = "branch" /\ i.size \in 1 .. 2 ^ Tree!Levels - 1 /\ i.position \in 0 .. i.size - 1
    \/ i.kind = "locator" /\ i.tree \in BlockTrees /\ i.block \in Walk!Blocks(i.tree)
    \/ /\ i.kind = "common" /\ i.tree \in BlockTrees
       /\ i.x \in Walk!Blocks(i.tree) /\ i.y \in Walk!Blocks(i.tree)
    \/ i.kind = "size" /\ Bits64(i.size)
    \/ i.kind = "integer" /\ i.width \in Nat \ {0} /\ i.n \in 0 .. Var!Largest(i.width)
    \/ i.kind = "stream" /\ i.width \in Nat \ (0 .. 6) /\ i.bytes \in Seq(Octets)
    \/ i.kind = "transaction" /\ i.tx \in Transactions
    \/ i.kind = "coin" /\ i.coin \in [height : Nat, isCoinBase : BOOLEAN]

\* The types that are read have seven bits or more.
ASSUME InputsAssumption == \A i \in Inputs : IsInput(i)
ASSUME LimitsAssumption == Bits64(MaxItems) /\ Bits64(MaxScript)

-----------------------------------------------------------------------------
VARIABLES input, done, output
runVars == << input, done, output >>

RunInit == input \in Inputs /\ done = FALSE /\ output = << >>

Run(kind, result) == /\ ~done
                     /\ input.kind = kind
                     /\ done' = TRUE
                     /\ output' = result
                     /\ UNCHANGED input

RunArithmetic ==
    Run("arithmetic",
        [sum |-> Add(input.a, input.b), difference |-> Subtract(input.a, input.b),
         product |-> Multiply(input.a, input.b), scaled |-> MultiplyWord(input.a, input.b[0]),
         quotient |-> IF DivisionByZero(input.b) THEN << >> ELSE Divide(input.a, input.b),
         order |-> Compare(input.a, input.b), equal |-> Equals(input.a, LowQword(input.b)),
         up |-> Increment(input.a), down |-> Decrement(input.a), length |-> BitLength(input.a)])
RunShift == Run("shift", [left |-> ShiftLeft(input.a, input.shift),
                          right |-> ShiftRight(input.a, input.shift)])
RunCompact == Run("compact", [target |-> SetCompact(input.compact),
                              proof |-> GetBlockProof(input.compact),
                              hashes |-> {h \in {0, 1, 2 ^ MantissaBits, Modulus - 1} :
                                              checkProofOfWork(input.compact, h)}])
RunValue == Run("value", GetCompact(LimbsOf(input.value), FALSE))
RunMerkle == Run("lists", [x |-> Tree!computeRoot(input.x), y |-> Tree!computeRoot(input.y)])
RunBranch == Run("branch", Tree!compute(DistinctLeaves(input.size), input.position))
RunLocator == Run("locator", Walk!getLocator(input.tree, input.block))
RunCommon == Run("common", Walk!findLastCommonAncestor(input.tree, input.x, input.y))
RunSize == Run("size", Var!writeCompactSize(input.size))
RunInteger == Run("integer", Var!writeInteger(input.n, input.width))
RunStream == Run("stream", Var!readInteger(input.bytes, input.width))
RunTransaction == Run("transaction", Var!writeTransaction(input.tx))
RunCoin == Run("coin", Var!writeCoinHeight(input.coin))

RunNext == \/ RunArithmetic \/ RunShift \/ RunCompact \/ RunValue \/ RunMerkle \/ RunBranch
           \/ RunLocator \/ RunCommon
           \/ RunSize \/ RunInteger \/ RunStream \/ RunTransaction \/ RunCoin

RunSpec == RunInit /\ [][RunNext]_runVars

Done(kind) == done /\ input.kind = kind

-----------------------------------------------------------------------------
(* The parts of the properties, one for each kind of input.                *)

OperatorsAreModular ==
    Done("arithmetic") =>
    LET a == ValueOf(input.a)  b == ValueOf(input.b)  w == input.b[0]
    IN  /\ output.sum = LimbsOf((a + b) % Modulus)
        /\ output.difference = LimbsOf((a - b) % Modulus)
        /\ output.product = LimbsOf((a * b) % Modulus)
        /\ output.scaled = LimbsOf((a * w) % Modulus)
        /\ output.quotient = IF b = 0 THEN << >> ELSE LimbsOf(a \div b)
        /\ output.order = IF a < b THEN -1 ELSE IF a > b THEN 1 ELSE 0
        /\ output.equal <=> a = b % Word ^ 2
        /\ output.up = LimbsOf((a + 1) % Modulus)
        /\ output.down = LimbsOf((a - 1) % Modulus)
        /\ a > 0 => 2 ^ (output.length - 1) <= a /\ a < 2 ^ output.length

ShiftsKeepBits ==
    Done("shift") =>
    LET a == ValueOf(input.a)
    IN  /\ output.left = LimbsOf((a * 2 ^ input.shift) % Modulus)
        /\ output.right = LimbsOf(a \div 2 ^ input.shift)

WorkIsExact ==
    Done("compact") =>
    LET c == input.compact
        target == decodeCompactUInt256(c)
        shown == IF c.exponent <= 3 THEN ShiftedWord(c)
                 ELSE c.word * 2 ^ (ByteBits * (c.exponent - 3))
    IN  /\ output.target = LimbsOf(target)
        /\ Decodes(c) <=> shown \in 1 .. Modulus - 1 /\ ~c.sign
        /\ Decodes(c) => target = shown
        /\ output.proof = LimbsOf(IF Decodes(c) THEN Modulus \div (target + 1) ELSE 0)
        /\ output.hashes # {} => Decodes(c) /\ 0 \in output.hashes

CompactKeepsHighBytes ==
    Done("value") =>
    LET read == ValueOf(SetCompact(output))
    IN  /\ ~output.sign /\ output.word < 2 ^ MantissaBits
        /\ ~Overflows(output)
        /\ read <= input.value
        /\ input.value - read < 2 ^ (ByteBits * (IF output.exponent > 3 THEN output.exponent - 3 ELSE 0))

RootsAreFlagged ==
    Done("lists") =>
    /\ output.x.h = Tree!Root(input.x)
    /\ (input.x # input.y /\ output.x.h = output.y.h) => output.x.mutated \/ output.y.mutated
    /\ (Cardinality({input.x[i] : i \in DOMAIN input.x}) = Len(input.x)) => ~output.x.mutated

BranchLeadsToRoot ==
    Done("branch") =>
        Tree!RootOfBranch(<< input.position + 1 >>, input.position, output.branch) = output.h

LocatorMeetsAnyBranch ==
    Done("locator") => Walk!IsLocator(input.tree, input.block, output)

CommonAncestorIsLast ==
    Done("common") => Walk!IsLastCommonAncestor(input.tree, input.x, input.y, output)

SizesReadBack ==
    Done("size") =>
    /\ Var!readCompactSize(output \o << 1, 2 >>) = Var!Good(input.size, << 1, 2 >>)
    /\ \A k \in 0 .. Len(output) - 1 : ~Var!readCompactSize(SubSeq(output, 1, k)).good

NumbersHaveOneEncoding ==
    /\ Done("integer") =>
           /\ Len(output) <= Var!BufferSize(input.width)
           /\ Var!readInteger(output \o << 9 >>, input.width) = Var!Good(input.n, << 9 >>)
    /\ (Done("stream") /\ output.good) =>
           /\ output.value <= Var!Largest(input.width)
           /\ Var!writeInteger(output.value, input.width) \o output.rest = input.bytes

InLimits(items) == /\ Len(items) <= MaxItems
                   /\ \A i \in DOMAIN items : Len(items[i].script) <= MaxScript

WithoutWitness(tx) == [tx EXCEPT !.witness = [i \in DOMAIN tx.inputs |-> << >>]]

TransactionsReadBack ==
    Done("transaction") =>
    LET tx == input.tx
        Read(s) == Var!readTransaction(s, Var!NewVersion)
        read == Read(output)
    IN  /\ ~Var!needWitness(tx) =>
               /\ read = IF InLimits(tx.inputs) /\ InLimits(tx.outputs)
                         THEN Var!Good(WithoutWitness(tx), << >>) ELSE Var!Bad
               /\ \A k \in 0 .. Len(output) - 1 : ~Read(SubSeq(output, 1, k)).good
        /\ read.good => read.value.inputs = tx.inputs /\ read.value.outputs = tx.outputs

CoinsReadBack == Done("coin") => Var!readCoinHeight(output) = input.coin

-----------------------------------------------------------------------------
\* The operators of arith_uint256 compute modulo 2^Bits, whatever carries and
\* borrows the limbs pass on, and its long division and comparisons are the
\* integers' (operator+= to operator/=, <<=, >>=, compare, equals, bits).
ArithmeticIsModular == OperatorsAreModular /\ ShiftsKeepBits

\* The two decoders of a header's bits agree, and those bits are refused that
\* stand for zero, a negative number or one that does not fit; a target is then
\* exact and its work is 2^Bits / (target + 1), never zero (Consensus.cpp).
\* get_compact keeps the highest bytes of a number and never sets the sign bit:
\* set_compact reads what it writes as the number with its low bytes cleared.
CompactNumbersAreExact == WorkIsExact /\ CompactKeepsHighBytes

\* The calculator agrees with the definition level by level, of two lists with
\* one root at least one is flagged (the duplicated tail of a list), and the
\* branch of a position leads from its leaf to the root, also where the tree
\* has no right neighbour (MerkleTree::compute).
EqualRootsAreFlagged == RootsAreFlagged /\ BranchLeadsToRoot

\* A locator holds ancestors of its block from the block down to the genesis
\* block, also off the best chain; a node that shares all but the k newest of
\* them finds one at most 2k blocks below.  The last common ancestor is common
\* and no higher block is, with and without skip pointers (getLocator,
\* findLastCommonAncestor, getAncestor).
WalksFindAncestors == LocatorMeetsAnyBranch /\ CommonAncestorIsLast

\* A size is read back whatever follows it, and from no part of its bytes.  A
\* number of any width fits the buffer, is read back, and has one encoding.  A
\* transaction without a witness is read back exactly, but not from a part of
\* its bytes or past the limits; the flag of a witness costs no input or output.
\* A saved coin keeps its height and its origin (VarEncoding, Transaction.cpp,
\* Coin.cpp).
EncodingsReadBack ==
    /\ SizesReadBack /\ NumbersHaveOneEncoding
    /\ TransactionsReadBack /\ CoinsReadBack
=============================================================================
