----------------------------- MODULE HashCheck ------------------------------
(* Hash on sample inputs, against a definition of what undoes it. *)
EXTENDS Hash

CONSTANT Scales     \* the numbers of bits, of those that the hash supports

VARIABLES input, n

Samples == {x * 131 : x \in 0..500} \cup {x * 2147483 : x \in 1..499}
             \cup {(2^b) - d : b \in 1..30, d \in {0, 1}}

Init == n \in {s \in Scales : Supported(s)} /\ input \in {x \in Samples : x < 2^n}

-----------------------------------------------------------------------------
(* What undoes hash16: 4033, -31775 and -29127 are inverses of 65, 33 and 9 modulo 2^16 *)

Undo4(x) ==
  LET once(a) == U16((x ^^ U16(a * 128)) + 65536 - 25708) IN once(once(once(0)))

Undo16(h) ==
  LET a5 == LET y == h ^^ 20233 IN y ^^ (y \div 256)
      a4 == U16(U16(a5 + 65536 - 18117) * (-29127))
      a3 == Undo4(a4)
      a2 == U16(U16(a3 + 65536 - 26545) * (-31775))
      a1 == LET y == a2 ^^ 49724 IN y ^^ (y \div 512)
  IN U16(U16(a1 + 65536 - 23830) * 4033)

UndoAt(x, i) ==
  LET hashed == (x \div 2^i) % 65536 IN (x - hashed * 2^i) + Undo16(hashed) * 2^i

\* A scrambled number is one of as many bits, so that no edge has a vertex past
\* max_vertex_id.
StaysInRange == hash_nbits(input, n) \in 0..(2^n - 1)

\* Scrambling can be undone: different vertices stay different.
CanBeUndone ==
  LET up == [k \in 1..(n - 15) |-> k - 1]
  IN FoldLeft(UndoAt, hash_nbits(input, n), up \o Reverse(up)) = input
=============================================================================
