-------------------------------- MODULE Words --------------------------------
(* Signed machine words of Bits bits (64 on the target).  Arithmetic wraps; *)
(* a division rounds towards zero, and what idiv cannot answer is a trap.   *)
EXTENDS Integers

CONSTANT Bits
ASSUME BitsAssumption == Bits \in Nat \ {0, 1}

MinWord == -(2 ^ (Bits - 1))
MaxWord == 2 ^ (Bits - 1) - 1
Word == MinWord..MaxWord
Wrap(n) == ((n - MinWord) % (2 ^ Bits)) + MinWord

Abs(n) == IF n < 0 THEN -n ELSE n
Quotient(a, b) == LET q == Abs(a) \div Abs(b) IN IF (a < 0) = (b < 0) THEN q ELSE -q
Remainder(a, b) == a - b * Quotient(a, b)
DivisionTraps(a, b) == b = 0 \/ (a = MinWord /\ b = -1)

(* What a process can return of a word: its low bits. *)
Low(n) == n % (2 ^ (Bits \div 2))
Bit(condition) == IF condition THEN 1 ELSE 0
=============================================================================
