------------------------------ MODULE Machine ------------------------------
(***************************************************************************)
(* The arithmetic of the console's CPU as far as the loader uses it:       *)
(* unsigned words that wrap, their signed reading, and the two masks the   *)
(* loader aligns addresses with.                                           *)
(***************************************************************************)
EXTENDS Integers

CONSTANT Word   \* the number of values of a machine word (2^32 on the console)

ASSUME WordAssumption == Word \in Nat /\ Word > 65536

Words == 0 .. (Word - 1)

(***************************************************************************)
(* The code adds and subtracts two words at a time, so one correction is   *)
(* all a wrapped result ever needs.                                        *)
(***************************************************************************)
Wrap(x) == IF x < 0 THEN x + Word ELSE IF x < Word THEN x ELSE x - Word

Add(x, y) == Wrap(x + y)
Sub(x, y) == Wrap(x - y)

\* static_cast<int32_t>(x)
Signed(x) == IF 2 * x < Word THEN x ELSE x - Word

\* x & 0xFFFFFF00 and x & 0xFFFF0000
PageFloor(x)  == x - (x % 256)
BlockFloor(x) == x - (x % 65536)

\* The ranges [a, a + m) and [b, b + n) share a byte.
Overlap(a, m, b, n) == a < b + n /\ b < a + m

\* The range [a, a + m) lies inside [lo, hi).
Inside(a, m, lo, hi) == lo <= a /\ a + m <= hi
=============================================================================
