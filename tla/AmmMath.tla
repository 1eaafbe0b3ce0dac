------------------------------- MODULE AmmMath -------------------------------
(***************************************************************************)
(* The integer arithmetic of the AMM (src/actions/amm_common.go) and the  *)
(* checked uint64 operations it relies on (hypersdk smath), on words of   *)
(* WordBits bits.  uint64 is the case WordBits = 64; a smaller width keeps *)
(* every boundary of the code (a wrap, a checked overflow, the largest    *)
(* word) within TLC's reach, since none of them depends on the width.     *)
(***************************************************************************)
EXTENDS Naturals

CONSTANT WordBits

ASSUME WordBits \in Nat \ {0}

Word == 2^WordBits
MaxWord == Word - 1

\* smath.Add and smath.Mul succeed when the exact result fits in a word;
\* otherwise they return an overflow error.
AddFits(a, b) == a + b <= MaxWord
MulFits(a, b) == a * b <= MaxWord
\* smath.Sub succeeds when it does not underflow.
SubFits(a, b) == b <= a

\* mulDiv: a * b / den in big integers, an error when den = 0 or the
\* quotient does not fit in a word.
MulDivFits(a, b, den) == den # 0 /\ (a * b) \div den <= MaxWord
MulDiv(a, b, den) == (a * b) \div den

MinU64(a, b) == IF a < b THEN a ELSE b

(***************************************************************************)
(* intSqrt: Newton iteration in uint64.  (x + 1) and (x + n / x) wrap      *)
(* modulo 2^WordBits, and a division by x = 0 is a run-time panic.  The    *)
(* result is a record: panic, or the root the loop returns.               *)
(***************************************************************************)
\* A faulty variant of the Newton update that rounds the average up.
RECURSIVE SqrtLoopRoundUp(_, _, _)
SqrtLoopRoundUp(n, x, y) ==
    IF ~(y < x) THEN [panic |-> FALSE, root |-> x]
    ELSE IF y = 0 THEN [panic |-> TRUE, root |-> 0]
    ELSE SqrtLoopRoundUp(n, y, ((y + n \div y + 1) % Word) \div 2)

RECURSIVE SqrtLoop(_, _, _)
SqrtLoop(n, x, y) ==
    IF ~(y < x) THEN [panic |-> FALSE, root |-> x]
    ELSE IF y = 0 THEN [panic |-> TRUE, root |-> 0]   \* x = y = 0; n / x panics
    ELSE SqrtLoop(n, y, ((y + n \div y) % Word) \div 2)

\* A faulty variant that starts the iteration at n / 2 instead of
\* (n + 1) / 2.
IntSqrtHalfStart(n) ==
    IF n = 0 THEN [panic |-> FALSE, root |-> 0]
    ELSE SqrtLoop(n, n, n \div 2)

IntSqrt(n) ==
    IF n = 0 THEN [panic |-> FALSE, root |-> 0]
    ELSE SqrtLoop(n, n, ((n + 1) % Word) \div 2)

\* The reference: the largest r with r * r <= n.
FloorSqrt(n) == CHOOSE r \in 0..n : r * r <= n /\ (r + 1) * (r + 1) > n
=============================================================================
