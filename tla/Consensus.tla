----------------------------- MODULE Consensus ------------------------------
(***************************************************************************)
(* Targets and the work of a block (storage/Consensus.cpp, and             *)
(* checkProofOfWork of storage/Validator.cpp).                             *)
(*                                                                         *)
(* The compact number of a header is decoded twice: into a uint256 for     *)
(* the check of the hash and into an arith_uint256 for the work.           *)
(***************************************************************************)
EXTENDS ArithUint

\* decodeCompactUInt256, on the numbers themselves: a uint256 shifts like an
\* integer of Bits bits.
decodeCompactUInt256(c) ==
    IF c.exponent <= 3 THEN ShiftedWord(c)
    ELSE (c.word * 2 ^ (ByteBits * (c.exponent - 3))) % 2 ^ Bits

Decodes(c) == ~IsNegative(c) /\ ~Overflows(c) /\ decodeCompactUInt256(c) # 0

checkProofOfWork(c, hash) == Decodes(c) /\ hash <= decodeCompactUInt256(c)

\* For checking the properties: the quotient is not rounded up.
GetBlockProofDown(c) ==
    LET target == SetCompact(c)
    IN  IF IsNegative(c) \/ Overflows(c) \/ Equals(target, 0) THEN Zero
        ELSE Divide(Not(target), Add(target, FromQword(1)))

\* 2^Bits does not fit a number, so that the quotient is computed from its
\* complement.
GetBlockProof(c) ==
    LET target == SetCompact(c)
    IN  IF IsNegative(c) \/ Overflows(c) \/ Equals(target, 0) THEN Zero
        ELSE Add(Divide(Not(target), Add(target, FromQword(1))), FromQword(1))
=============================================================================
