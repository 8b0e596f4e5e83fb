-------------------------------- MODULE Hash --------------------------------
(***************************************************************************)
(* The hash with which the RMAT generator scrambles vertex numbers of up   *)
(* to 31 bits (hash_nbits over hash16), with its arithmetic of 16 bits.    *)
(* Numbers of 32 bits and more, for which hash_nbits takes hash32, are     *)
(* past TLC's integers and not modelled.                                   *)
(***************************************************************************)
EXTENDS Integers, Sequences, Bitwise, Folds, SequencesExt

U16(a) == a % 65536

hash16(a) ==
  LET a1 == U16(a + 23830 + a * 64)                  \* 0x5d16, << 6
      a2 == (a1 ^^ 49724) ^^ (a1 \div 512)           \* 0xc23c, >> 9
      a3 == U16(a2 + 26545 + a2 * 32)                \* 0x67b1, << 5
      a4 == U16(a3 + 25708) ^^ U16(a3 * 128)         \* 0x646c, << 7
      a5 == U16(a4 + 18117 + a4 * 8)                 \* 0x46c5, << 3
  IN (a5 ^^ 20233) ^^ (a5 \div 256)                  \* 0x4f09, >> 8

\* Mutant: the old bits are not cleared.
NotCleared(x, i) ==
  LET to_hash == (x \div 2^i) % 65536 IN x | (hash16(to_hash) * 2^i)

\* The 16 bits from bit i on are replaced by their hash.
shifted_n_hash16(x, i) ==
  LET to_hash == (x \div 2^i) % 65536 IN (x - to_hash * 2^i) + hash16(to_hash) * 2^i

\* The assert of hash_nbits: "Hashing less than 16bits is not supported".
Supported(bits) == bits > 16

\* The places of the loop that goes up; the second loop goes back down.  A build without
\* asserts also gets here with 16 bits, and with fewer, where both loops are empty.
Places(bits) == [k \in 1..(bits - 16 + 1) |-> k - 1]

hash_nbits(x, bits) ==
  FoldLeft(shifted_n_hash16, x, IF bits < 16 THEN <<>> ELSE Places(bits) \o Reverse(Places(bits)))
=============================================================================
