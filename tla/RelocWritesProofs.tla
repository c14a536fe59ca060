-------------------------- MODULE RelocWritesProofs --------------------------
(***************************************************************************)
(* Proofs about RelocWrites, for words and half words of any size, the     *)
(* console's included, and any values and targets: the halves of an        *)
(* address come back whole, and a branch goes where it should.  The bits   *)
(* of a displacement are summed up by a recursive function, about which    *)
(* one shows that there is one, and then argues by the least number for    *)
(* which a fact fails.                                                     *)
(***************************************************************************)
EXTENDS RelocWrites, WellFoundedInduction, TLAPS

\* What has been stored are the halves of Source.
HalvesInv ==
    /\ TypeOK
    /\ \A k \in DOMAIN halves : halves[k] = HalfOf(k, Source)
-----------------------------------------------------------------------------
\* What a quotient and a remainder are.
LEMMA DivMod ==
    ASSUME NEW x \in Nat, NEW d \in Nat \ {0}
    PROVE  /\ x \div d \in Nat /\ x % d \in 0 .. d - 1
           /\ x = (x \div d) * d + (x % d)
  OBVIOUS

\* They are the only ones.
LEMMA DivUnique ==
    ASSUME NEW d \in Nat \ {0}, NEW q \in Nat, NEW r \in 0 .. d - 1, NEW x \in Nat,
           x = q * d + r
    PROVE  x \div d = q /\ x % d = r
  BY DivMod

\* A whole of which the high part is less than d is less than d * d.
LEMMA Square ==
    ASSUME NEW d \in Nat \ {0}, NEW q \in Int, NEW r \in 0 .. d - 1, q <= d - 1
    PROVE  q * d + r < d * d
<1>1. q * d <= (d - 1) * d
  OBVIOUS
<1>2. (d - 1) * d = d * d - d
  OBVIOUS
<1> QED
  BY <1>1, <1>2

\* The two halves of a word are halves.
LEMMA HighHalf ==
    ASSUME NEW d \in Nat \ {0}, NEW x \in Nat, x < d * d
    PROVE  x \div d \in 0 .. d - 1
<1> DEFINE q == x \div d
           r == x % d
<1>1. q \in Nat /\ r \in 0 .. d - 1 /\ x = q * d + r
  BY DivMod
<1> HIDE DEF q, r
<1>2. CASE q >= d
  <2>1. q * d >= d * d
    BY <1>1, <1>2
  <2> QED
    BY <1>1, <2>1
<1>3. q <= d - 1
  BY <1>1, <1>2
<1> QED
  BY <1>1, <1>3 DEF q

\* A word comes back when another turn of the address space is taken off.
LEMMA Turn ==
    ASSUME NEW w \in Nat \ {0}, NEW x \in 0 .. w - 1
    PROVE  x % w = x /\ (x + w) % w = x
<1>1. x = 0 * w + x /\ x + w = 1 * w + x
  OBVIOUS
<1> QED
  BY <1>1, DivUnique

\* The sizes.
LEMMA Sizes ==
    /\ Half \in Nat \ {0} /\ Half \div 2 \in Nat /\ Half = 2 * (Half \div 2)
    /\ Word \in Nat \ {0} /\ Word = Half * Half /\ Half < Word
<1>1. Half \in Nat \ {0} /\ Half % 2 = 0 /\ Word = Half * Half /\ Word \in Nat /\ Word > 65536
  BY RelocAssumption, WordAssumption DEF RelocAssumption, WordAssumption
<1>2. Half = (Half \div 2) * 2 + (Half % 2) /\ Half \div 2 \in Nat
  BY <1>1, DivMod
<1>3. Half # 1
  BY <1>1
<1>4. Half < Half * Half
  BY <1>1, <1>3
<1> QED
  BY <1>1, <1>2, <1>4

\* lis/ori: the plain high half and the low one.
LEMMA PlainRejoins ==
    ASSUME NEW x \in Words
    PROVE  Joined(HalfOf("HI", x), HalfOf("LO", x)) = x
<1>1. x \in Nat /\ x < Word /\ Half \in Nat \ {0} /\ Word \in Nat \ {0}
  BY Sizes DEF Words
<1>2. x = (x \div Half) * Half + (x % Half)
  BY <1>1, DivMod
<1>3. (x + Word) % Word = x
  BY <1>1, Turn
<1> QED
  BY <1>2, <1>3 DEF Joined, HalfOf

\* lis/addi: the high half takes the carry that sign-extending the low one
\* would lose, at the end of the address space as well.
LEMMA AdjustedRejoins ==
    ASSUME NEW x \in Words
    PROVE  /\ HalfOf("HA", x) \in 0 .. Half - 1
           /\ Joined(HalfOf("HA", x), SignedHalf(HalfOf("LO", x))) = x
<1> DEFINE h == Half \div 2
           q == x \div Half
           r == x % Half
           y == Add(x, h)
<1>1. /\ x \in Nat /\ x < Word /\ Half \in Nat \ {0} /\ Word \in Nat \ {0}
      /\ h \in Nat /\ Half = 2 * h /\ Word = Half * Half
  BY Sizes DEF Words
<1>2. q \in 0 .. Half - 1 /\ r \in 0 .. Half - 1 /\ x = q * Half + r
  BY <1>1, DivMod, HighHalf
<1>3. HalfOf("HA", x) = y \div Half /\ HalfOf("LO", x) = r
  BY DEF HalfOf
<1>4. (x + Word) % Word = x /\ x % Word = x
  BY <1>1, Turn
<1>5. y = IF x + h < Word THEN x + h ELSE x + h - Word
  BY <1>1 DEF Add, Wrap
<1> HIDE DEF h, q, r, y
<1>6. CASE r < h
  <2>1. SignedHalf(r) = r
    BY <1>1, <1>2, <1>6 DEF SignedHalf
  <2>2. x + h = q * Half + (r + h) /\ r + h \in 0 .. Half - 1
    BY <1>1, <1>2, <1>6
  <2>3. x + h < Word
    BY <1>1, <1>2, <2>2, Square
  <2>4. y \div Half = q
    BY <1>1, <1>2, <1>5, <2>2, <2>3, DivUnique
  <2> QED
    BY <1>2, <1>3, <1>4, <2>1, <2>4 DEF Joined
<1>7. CASE ~ (r < h) /\ q + 1 < Half
  <2>1. SignedHalf(r) = r - Half
    BY <1>1, <1>2, <1>7 DEF SignedHalf
  <2>2. /\ x + h = (q + 1) * Half + (r - h) /\ r - h \in 0 .. Half - 1
        /\ (q + 1) * Half + (r - Half) = x
    BY <1>1, <1>2, <1>7
  <2>3. x + h < Word
    BY <1>1, <1>2, <1>7, <2>2, Square
  <2>4. y \div Half = q + 1
    <3>1. /\ y \in Nat /\ q + 1 \in Nat
          /\ y = (q + 1) * Half + (r - h)
      BY <1>1, <1>2, <1>5, <2>2, <2>3
    <3> QED
      BY <1>1, <2>2, <3>1, DivUnique
  <2>5. q + 1 \in 0 .. Half - 1
    BY <1>1, <1>2, <1>7
  <2>6. Joined(q + 1, r - Half) = x
    BY <1>4, <2>2 DEF Joined
  <2> QED
    BY <1>3, <2>1, <2>4, <2>5, <2>6
<1>8. CASE ~ (r < h) /\ q + 1 = Half
  <2>1. SignedHalf(r) = r - Half
    BY <1>1, <1>2, <1>8 DEF SignedHalf
  <2>2. q * Half = Word - Half
    BY <1>1, <1>2, <1>8
  <2>3. x + h = Word + (r - h) /\ r - h \in 0 .. Half - 1 /\ x = Word + (r - Half)
    BY <1>1, <1>2, <1>8, <2>2
  <2>4. y = 0 * Half + (r - h)
    BY <1>1, <1>2, <1>5, <2>3
  <2>5. y \div Half = 0
    BY <1>1, <2>3, <2>4, DivUnique
  <2>6. 0 * Half + (r - Half) + Word = x
    BY <1>1, <1>2, <2>3
  <2> QED
    BY <1>1, <1>3, <1>4, <2>1, <2>5, <2>6 DEF Joined
<1> QED
  BY <1>1, <1>2, <1>6, <1>7, <1>8

\* A distance is a word, and leads back to the address.
LEMMA DistanceLeadsBack ==
    ASSUME NEW v \in Words, NEW a \in Words
    PROVE  Sub(v, a) \in Words /\ Add(a, Sub(v, a)) = v
<1>1. Word \in Nat \ {0}
  BY Sizes
<1> QED
  BY <1>1 DEF Words, Sub, Add, Wrap

\* Every half word is one.
LEMMA HalvesAreHalves ==
    ASSUME NEW x \in Words, NEW kind \in {"LO", "HI", "HA"}
    PROVE  HalfOf(kind, x) \in 0 .. Half - 1
<1>1. x \in Nat /\ x < Half * Half /\ Half \in Nat \ {0}
  BY Sizes DEF Words
<1>2. x % Half \in 0 .. Half - 1 /\ x \div Half \in 0 .. Half - 1
  BY <1>1, DivMod, HighHalf
<1> QED
  BY <1>2, AdjustedRejoins DEF HalfOf

\* What is split is a word.
LEMMA SourceIsWord == TypeOK => value \in Words /\ target \in Words /\ Source \in Words
<1> SUFFICES ASSUME TypeOK PROVE value \in Words /\ target \in Words /\ Source \in Words
  OBVIOUS
<1>1. value \in Words /\ target \in Words
  BY RelocAssumption DEF TypeOK, RelocAssumption
<1> QED
  BY <1>1, DistanceLeadsBack DEF Source, relValue
-----------------------------------------------------------------------------
\* A half word is stored once, and the others stay.
LEMMA StoreHalfStep ==
    ASSUME HalvesInv, NEW kind \in {"LO", "HI", "HA"}, StoreHalf(kind)
    PROVE  HalvesInv'
<1>1. /\ UNCHANGED <<value, target, absolute, before, instr, branch>>
      /\ halves' = [k \in DOMAIN halves \cup {kind} |->
                       IF k = kind THEN HalfOf(kind, Source) ELSE halves[k]]
      /\ Source' = Source
  BY DEF StoreHalf, Source, relValue
<1>2. DOMAIN halves' = DOMAIN halves \cup {kind}
  BY <1>1
<1>3. HalfOf(kind, Source) \in 0 .. Half - 1
  BY SourceIsWord, HalvesAreHalves DEF HalvesInv
<1>4. \A k \in DOMAIN halves' : halves'[k] = HalfOf(k, Source) /\ halves'[k] \in 0 .. Half - 1
  BY <1>1, <1>2, <1>3 DEF HalvesInv, TypeOK
<1>5. \A k : HalfOf(k, Source)' = HalfOf(k, Source)
  BY <1>1 DEF HalfOf
<1>6. TypeOK'
  BY <1>1, <1>2, <1>4 DEF HalvesInv, TypeOK
<1> QED
  BY <1>1, <1>4, <1>6 DEF HalvesInv

\* A branch is relocated, or is not, and stays an instruction.
LEMMA BranchStep == ASSUME HalvesInv, Rel14 \/ Rel24 PROVE HalvesInv'
<1>1. UNCHANGED <<value, target, absolute, halves, before>>
  BY DEF Rel14, Rel24
<1>2. instr' \subseteq 0 .. 31
  <2>1. instr \subseteq 0 .. 31
    BY DEF HalvesInv, TypeOK
  <2>2. Displacement14 \subseteq 0 .. 31 /\ Displacement24 \subseteq 0 .. 31
    BY DEF Displacement14, Displacement24, Bits
  <2>3. \A d, n, mask : BitsOf(d, n, mask) \subseteq mask
    BY DEF BitsOf
  <2>4. CASE Rel14
    BY <2>1, <2>2, <2>3, <2>4, Zenon DEF Rel14
  <2>5. CASE Rel24
    BY <2>1, <2>2, <2>3, <2>5, Zenon DEF Rel24
  <2> QED
    BY <2>4, <2>5
<1>3. branch' \in {"none", "REL14", "REL24", "failed"}
  BY DEF Rel14, Rel24
<1>4. Source' = Source
  BY <1>1 DEF Source, relValue
<1>5. TypeOK'
  BY <1>1, <1>2, <1>3 DEF HalvesInv, TypeOK
<1> QED
  BY <1>1, <1>4, <1>5 DEF HalvesInv

\* The halves that are there are those of the address or of the distance.
LEMMA HalvesInvHolds == Spec => []HalvesInv
<1>1. Init => HalvesInv
  BY RelocAssumption DEF Init, HalvesInv, TypeOK, RelocAssumption
<1>2. HalvesInv /\ [Next]_vars => HalvesInv'
  <2>1. ASSUME HalvesInv, UNCHANGED vars PROVE HalvesInv'
    <3>1. /\ UNCHANGED <<value, target, absolute, halves, before, instr, branch>>
          /\ Source' = Source
      BY <2>1 DEF vars, Source, relValue
    <3> QED
      BY <2>1, <3>1 DEF HalvesInv, TypeOK
  <2> QED
    BY <2>1, StoreHalfStep, BranchStep DEF Next, Finished
<1> QED
  BY <1>1, <1>2, PTL DEF Spec

(***************************************************************************)
(* The halves elfLinkOne stores come back whole, whichever instructions    *)
(* put them together, for every address and every distance: the carry of   *)
(* R_PPC_ADDR16_HA and R_PPC_GHS_REL16_HA is right up to the end of the    *)
(* address space.                                                          *)
(***************************************************************************)
THEOREM HalvesAlwaysRejoin == Spec => []HalvesRejoin
<1>1. HalvesInv => HalvesRejoin
  <2> SUFFICES ASSUME HalvesInv PROVE HalvesRejoin
    OBVIOUS
  <2>1. value \in Words /\ target \in Words /\ Source \in Words
    BY SourceIsWord DEF HalvesInv
  <2>2. {"HA", "LO"} \subseteq DOMAIN halves =>
           Joined(halves["HA"], SignedHalf(halves["LO"])) = Source
    BY <2>1, AdjustedRejoins DEF HalvesInv
  <2>3. {"HI", "LO"} \subseteq DOMAIN halves => Joined(halves["HI"], halves["LO"]) = Source
    BY <2>1, PlainRejoins DEF HalvesInv
  <2>4. Add(target, relValue) = value
    BY <2>1, DistanceLeadsBack DEF relValue
  <2> QED
    BY <2>2, <2>3, <2>4 DEF HalvesInv, HalvesRejoin
<1> QED
  BY <1>1, HalvesInvHolds, PTL
-----------------------------------------------------------------------------
\* Some number of a set of numbers is the least.
LEMMA LeastNumber ==
    ASSUME NEW T, T \subseteq Nat, T # {}
    PROVE  \E m \in T : \A k \in T : m <= k
<1> DEFINE R == OpToRel(<, Nat)
<1>1. IsWellFoundedOn(R, Nat)
  BY NatLessThanWellFounded
<1>2. \A x, y \in Nat : x < y => <<x, y>> \in R
  BY DEF OpToRel
<1> HIDE DEF R
<1>3. PICK m \in T : \A k \in T : ~ (<<k, m>> \in R)
  BY <1>1, WFMin
<1>4. ASSUME NEW k \in T
      PROVE  m <= k
  <2>1. k \in Nat /\ m \in Nat /\ ~ (k < m)
    BY <1>2, <1>3
  <2> QED
    BY <2>1
<1> QED
  BY <1>4

\* What the recursion of Sum says.
Sums(s, t, n) == s[0] = 0 /\ \A k \in 1 .. n : s[k] = s[k - 1] + t[k - 1]

\* There is such a function.
LEMMA SumsExist ==
    ASSUME NEW n \in Nat, NEW t, \A k \in 0 .. n - 1 : t[k] \in Int
    PROVE  \E s \in [0 .. n -> Int] : Sums(s, t, n)
<1> DEFINE T == {m \in 0 .. n : ~ \E s \in [0 .. m -> Int] : Sums(s, t, m)}
<1>1. ASSUME T # {} PROVE FALSE
  <2>1. PICK m \in T : \A k \in T : m <= k
    <3>1. T \subseteq Nat
      OBVIOUS
    <3> HIDE DEF T
    <3> QED
      BY <1>1, <3>1, LeastNumber
  <2>2. m # 0
    <3>1. [k \in 0 .. 0 |-> 0] \in [0 .. 0 -> Int] /\ Sums([k \in 0 .. 0 |-> 0], t, 0)
      BY DEF Sums
    <3> QED
      BY <3>1
  <2>3. m - 1 \in 0 .. n /\ m \in 1 .. n /\ m - 1 \notin T
    BY <2>1, <2>2
  <2>4. PICK s \in [0 .. m - 1 -> Int] : Sums(s, t, m - 1)
    BY <2>3
  <2> DEFINE more == [k \in 0 .. m |-> IF k = m THEN s[m - 1] + t[m - 1] ELSE s[k]]
  <2>5. more \in [0 .. m -> Int]
    <3>1. t[m - 1] \in Int /\ s[m - 1] \in Int
      BY <2>3, <2>4
    <3> QED
      BY <2>3, <2>4, <3>1
  <2>6. Sums(more, t, m)
    BY <2>3, <2>4 DEF Sums
  <2> QED
    BY <2>5, <2>6
<1>2. n \notin T
  BY <1>1
<1> QED
  BY <1>2

\* Sum is the last value of such a function.
LEMMA SumIsLast ==
    ASSUME NEW n \in Nat, NEW t, \A k \in 0 .. n - 1 : t[k] \in Int
    PROVE  \E s : Sums(s, t, n) /\ Sum(t, n) = s[n]
<1> DEFINE Rec(s) == s = [k \in 0 .. n |-> IF k = 0 THEN 0 ELSE s[k - 1] + t[k - 1]]
<1>1. PICK g \in [0 .. n -> Int] : Sums(g, t, n)
  BY SumsExist
<1>2. g = [k \in 0 .. n |-> IF k = 0 THEN 0 ELSE g[k - 1] + t[k - 1]]
  BY <1>1 DEF Sums
<1>3. Rec(g)
  BY <1>2
<1>4. Sum(t, n) = (CHOOSE s : Rec(s))[n]
  BY DEF Sum
<1> HIDE DEF Rec
<1>5. PICK s : s = CHOOSE f : Rec(f)
  OBVIOUS
<1>6. Rec(s)
  BY <1>3, <1>5
<1>7. Sums(s, t, n)
  BY <1>6 DEF Rec, Sums
<1> QED
  BY <1>4, <1>5, <1>7

-----------------------------------------------------------------------------
\* The powers of 2 the two kinds of branches need: each is twice the one before.
LEMMA PowersDouble ==
    \A i \in 0 .. 25 : 2 ^ i \in Nat \ {0} /\ 2 ^ (i + 1) = 2 * 2 ^ i
<1> SUFFICES ASSUME NEW i \in 0 .. 25
             PROVE  2 ^ i \in Nat \ {0} /\ 2 ^ (i + 1) = 2 * 2 ^ i
  OBVIOUS
<1> DEFINE P(k) == 2 ^ k \in Nat \ {0} /\ 2 ^ (k + 1) = 2 * 2 ^ k
<1>1. /\ P(0) /\ P(1) /\ P(2) /\ P(3) /\ P(4) /\ P(5) /\ P(6) /\ P(7) /\ P(8)
      /\ P(9) /\ P(10) /\ P(11) /\ P(12) /\ P(13) /\ P(14) /\ P(15) /\ P(16)
      /\ P(17) /\ P(18) /\ P(19) /\ P(20) /\ P(21) /\ P(22) /\ P(23) /\ P(24) /\ P(25)
  OBVIOUS
<1> HIDE DEF P
<1>2. P(i)
  BY <1>1
<1> QED
  BY <1>2 DEF P

\* A bit of a number.
Bit(x, i) == (x \div 2 ^ i) % 2

\* One bit more of a number is one bit more of its remainder.
LEMMA NextBit ==
    ASSUME NEW x \in Nat, NEW p \in Nat \ {0}
    PROVE  x % (2 * p) = (x % p) + ((x \div p) % 2) * p
<1> DEFINE q == x \div p
           r == x % p
           h == q \div 2
           b == q % 2
<1>1. q \in Nat /\ r \in 0 .. p - 1 /\ x = q * p + r
  BY DivMod
<1>2. h \in Nat /\ b \in 0 .. 1 /\ q = h * 2 + b
  BY <1>1, DivMod
<1> HIDE DEF q, r, h, b
<1>3. x = h * (2 * p) + (b * p + r)
  BY <1>1, <1>2
<1>4. b * p + r \in 0 .. 2 * p - 1
  <2>1. CASE b = 0
    BY <1>1, <2>1
  <2>2. CASE b = 1
    BY <1>1, <2>2
  <2> QED
    BY <1>2, <2>1, <2>2
<1>5. x % (2 * p) = b * p + r
  <2>1. PICK d, y : d = 2 * p /\ y = b * p + r
    OBVIOUS
  <2>2. d \in Nat \ {0} /\ x = h * d + y /\ y \in 0 .. d - 1
    BY <1>3, <1>4, <2>1
  <2>3. x % d = y
    BY <1>2, <2>2, DivUnique
  <2> QED
    BY <2>1, <2>3
<1> QED
  BY <1>1, <1>2, <1>5 DEF q, r, b

\* Summing up the bits of a number gives its remainders.
LEMMA BitsAddUp ==
    ASSUME NEW x \in Nat, NEW n \in 0 .. 25, NEW s, NEW t, Sums(s, t, n),
           \A i \in 0 .. n - 1 : t[i] = Bit(x, i) * 2 ^ i
    PROVE  s[n] = x % 2 ^ n
<1> DEFINE T == {k \in 0 .. n : s[k] # x % 2 ^ k}
<1>1. ASSUME T # {} PROVE FALSE
  <2>1. PICK m \in T : \A k \in T : m <= k
    <3>1. T \subseteq Nat
      OBVIOUS
    <3> HIDE DEF T
    <3> QED
      BY <1>1, <3>1, LeastNumber
  <2>2. m # 0
    <3>1. s[0] = 0 /\ x % 1 = 0 /\ 2 ^ 0 = 1
      BY DEF Sums
    <3>2. 0 \notin T
      BY <3>1
    <3> QED
      BY <2>1, <3>2
  <2>3. m - 1 \in 0 .. n - 1 /\ m \in 1 .. n /\ m - 1 \notin T /\ m - 1 \in 0 .. 25
    BY <2>1, <2>2
  <2>4. s[m - 1] = x % 2 ^ (m - 1)
    BY <2>3
  <2>5. s[m] = s[m - 1] + Bit(x, m - 1) * 2 ^ (m - 1)
    BY <2>3 DEF Sums
  <2>6. 2 ^ (m - 1) \in Nat \ {0} /\ 2 ^ m = 2 * 2 ^ (m - 1)
    <3>1. PICK i \in 0 .. 25 : i = m - 1
      BY <2>3
    <3>2. i + 1 = m
      BY <2>3, <3>1
    <3> QED
      BY <3>1, <3>2, PowersDouble
  <2>7. x % 2 ^ m = (x % 2 ^ (m - 1)) + Bit(x, m - 1) * 2 ^ (m - 1)
    BY <2>6, NextBit DEF Bit
  <2>8. s[m] = x % 2 ^ m
    BY <2>4, <2>5, <2>7
  <2> QED
    BY <2>1, <2>8
<1>2. n \notin T
  BY <1>1
<1> QED
  BY <1>2

\* The bits of a displacement of n bits weigh what it is, the lowest two
\* being 0 as they are for an instruction's address.
LEMMA BitsWeigh ==
    ASSUME NEW n \in 3 .. 26, NEW p, p = 2 ^ (n - 1),
           NEW d \in Int, -p <= d, d < p, d % 4 = 0
    PROVE  Weight(BitsOf(d, n, 2 .. n - 1), n) = d
<1> DEFINE bits == BitsOf(d, n, 2 .. n - 1)
           x == d + 2 ^ n
           t == Weights(bits, n)
<1>1. p \in Nat \ {0} /\ 2 ^ n = 2 * p /\ n - 1 \in 0 .. 25 /\ n \in Nat
  <2>1. PICK i \in 0 .. 25 : i = n - 1
    OBVIOUS
  <2>2. i + 1 = n
    BY <2>1
  <2>3. 2 ^ i \in Nat \ {0} /\ 2 ^ (i + 1) = 2 * 2 ^ i
    BY PowersDouble
  <2>4. p \in Nat \ {0} /\ 2 ^ n = 2 * p
    BY <2>1, <2>2, <2>3
  <2> QED
    BY <2>4
<1>2. \A i \in 0 .. n - 1 : 2 ^ i \in Nat \ {0}
  <2> SUFFICES ASSUME NEW i \in 0 .. n - 1 PROVE 2 ^ i \in Nat \ {0}
    OBVIOUS
  <2>1. i \in 0 .. 25
    OBVIOUS
  <2> QED
    BY <2>1, PowersDouble
<1>3. x \in Nat /\ p <= x /\ x < 3 * p
  BY <1>1
<1>4. \A i \in 0 .. n - 1 : Bit(x, i) \in 0 .. 1
  <2>1. \A i \in 0 .. n - 1 : x \div 2 ^ i \in Nat
    BY <1>2, <1>3, DivMod
  <2> QED
    BY <2>1 DEF Bit
<1>5. Bit(x, 0) = 0 /\ Bit(x, 1) = 0
  <2>1. 2 ^ n % 4 = 0
    <3>1. PICK i \in 0 .. 25 : i = n - 2
      OBVIOUS
    <3>2. i + 1 = n - 1
      BY <3>1
    <3>3. 2 ^ i \in Nat /\ 2 ^ (i + 1) = 2 * 2 ^ i
      BY PowersDouble
    <3>4. p = 2 * 2 ^ i
      BY <3>2, <3>3
    <3>5. PICK u : u = 2 ^ i
      OBVIOUS
    <3> QED
      BY <1>1, <3>3, <3>4, <3>5
  <2>2. 2 ^ n \in Nat
    BY <1>1
  <2>3. x % 4 = 0
    BY <2>1, <2>2
  <2>4. 2 ^ 0 = 1 /\ 2 ^ 1 = 2
    OBVIOUS
  <2> HIDE DEF x
  <2> QED
    BY <1>3, <2>3, <2>4 DEF Bit
<1>6. \A i \in 0 .. n - 1 : i \in bits <=> Bit(x, i) = 1
  <2>1. \A i : i \in bits <=> i \in 2 .. n - 1 /\ Bit(x, i) = 1
    BY DEF BitsOf, Bit
  <2> HIDE DEF bits, x
  <2>2. \A i \in 0 .. n - 1 : i = 0 \/ i = 1 \/ i \in 2 .. n - 1
    OBVIOUS
  <2>3. \A i : i \in 2 .. n - 1 => i # 0 /\ i # 1
    OBVIOUS
  <2> QED
    BY <1>5, <2>1, <2>2, <2>3
<1>7. /\ \A i \in 0 .. n - 2 : t[i] = Bit(x, i) * 2 ^ i
      /\ t[n - 1] = -(Bit(x, n - 1) * p)
      /\ \A i \in 0 .. n - 1 : t[i] \in Int
  <2> HIDE DEF bits, x
  <2>1. ASSUME NEW i \in 0 .. n - 1
        PROVE  /\ i # n - 1 => t[i] = Bit(x, i) * 2 ^ i
               /\ i = n - 1 => t[i] = -(Bit(x, i) * 2 ^ i)
               /\ t[i] \in Int
    <3>1. t[i] = IF i \notin bits THEN 0 ELSE IF i = n - 1 THEN -(2 ^ i) ELSE 2 ^ i
      BY DEF Weights
    <3>2. 2 ^ i \in Nat /\ Bit(x, i) \in 0 .. 1 /\ (i \in bits <=> Bit(x, i) = 1)
      BY <1>2, <1>4, <1>6
    <3>3. PICK w, b : w = 2 ^ i /\ b = Bit(x, i)
      OBVIOUS
    <3>4. CASE b = 0
      BY <3>1, <3>2, <3>3, <3>4
    <3>5. CASE b = 1
      BY <3>1, <3>2, <3>3, <3>5
    <3> QED
      BY <3>2, <3>3, <3>4, <3>5
  <2> QED
    BY <1>1, <2>1
<1> HIDE DEF t
<1>8. PICK s : Sums(s, t, n) /\ Sum(t, n) = s[n]
  BY <1>1, <1>7, SumIsLast
<1>9. s[n - 1] = x % p
  <2>1. Sums(s, t, n - 1)
    BY <1>1, <1>8 DEF Sums
  <2>2. \A i \in 0 .. (n - 1) - 1 : t[i] = Bit(x, i) * 2 ^ i
    BY <1>7
  <2> HIDE DEF x
  <2> QED
    BY <1>1, <1>3, <2>1, <2>2, BitsAddUp
<1>10. s[n] = (x % p) - Bit(x, n - 1) * p
  <2>1. s[n] = s[n - 1] + t[n - 1]
    BY <1>1, <1>8 DEF Sums
  <2>2. PICK y : y = Bit(x, n - 1) * p
    OBVIOUS
  <2>3. y \in Int /\ x % p \in Int
    <3>1. Bit(x, n - 1) \in 0 .. 1
      BY <1>1, <1>4
    <3>2. x % p \in Int
      BY <1>1, <1>3, DivMod
    <3> QED
      BY <1>1, <2>2, <3>1, <3>2
  <2> QED
    BY <1>7, <1>9, <2>1, <2>2, <2>3
<1>11. (x % p) - Bit(x, n - 1) * p = x - 2 * p
  <2>1. Bit(x, n - 1) = (x \div p) % 2
    BY DEF Bit
  <2> HIDE DEF x
  <2>2. CASE x < 2 * p
    <3>1. x = 1 * p + (x - p) /\ x - p \in 0 .. p - 1
      BY <1>1, <1>3, <2>2
    <3>2. PICK r : r = x - p
      OBVIOUS
    <3>3. r \in 0 .. p - 1 /\ x = 1 * p + r
      BY <3>1, <3>2
    <3>4. x \div p = 1 /\ x % p = r
      BY <1>1, <1>3, <3>3, DivUnique
    <3> QED
      BY <1>1, <1>3, <2>1, <3>2, <3>4
  <2>3. CASE ~ (x < 2 * p)
    <3>1. PICK r : r = x - 2 * p
      OBVIOUS
    <3>2. r \in 0 .. p - 1 /\ x = 2 * p + r
      BY <1>1, <1>3, <2>3, <3>1
    <3>3. x \div p = 2 /\ x % p = r
      BY <1>1, <1>3, <3>2, DivUnique
    <3> QED
      BY <1>1, <1>3, <2>1, <3>1, <3>3
  <2> QED
    BY <2>2, <2>3
<1>12. x - 2 * p = d
  BY <1>1
<1> QED
  BY <1>8, <1>10, <1>11, <1>12 DEF Weight, t
-----------------------------------------------------------------------------
\* The distance, as wide as a word, leads from the target to the value.
LEMMA DistanceReaches ==
    ASSUME NEW v \in Words, NEW a \in Words
    PROVE  Signed(Sub(v, a)) \in Int /\ Add(a, Signed(Sub(v, a))) = v
<1>1. Word \in Nat \ {0}
  BY Sizes
<1> DEFINE y == Sub(v, a)
<1>2. y \in 0 .. Word - 1 /\ (a + y = v \/ a + y = v + Word)
  BY <1>1 DEF Words, Sub, Wrap
<1> HIDE DEF y
<1>3. Signed(y) \in Int /\ (Signed(y) = y \/ Signed(y) = y - Word)
  BY <1>1, <1>2 DEF Signed
<1>4. a + Signed(y) = v \/ a + Signed(y) = v + Word \/ a + Signed(y) = v - Word
  BY <1>1, <1>2, <1>3 DEF Words
<1>5. Add(a, Signed(y)) = v
  BY <1>1, <1>4 DEF Words, Add, Wrap
<1> QED
  BY <1>3, <1>5 DEF y

\* What has been relocated goes where it should.
BranchInv ==
    /\ TypeOK
    /\ branch = "none" => instr = before
    /\ BranchReaches

\* A conditional branch.
LEMMA Rel14Reaches == ASSUME BranchInv, TypeOK', Rel14 PROVE BranchInv'
<1>1. /\ branch = "none" /\ UNCHANGED <<value, target, absolute, halves, before>>
      /\ branch' # "REL14" => branch' = "failed"
      /\ branch' = "REL14" =>
            Fits14 /\ instr' = (instr \cap Kept14) \cup BitsOf(Distance, 16, Displacement14)
  BY DEF Rel14
<1>2. ASSUME branch' = "REL14"
      PROVE  Add(target, Weight(instr' \cap Displacement14, 16)) = value
  <2>1. value \in Words /\ target \in Words
    BY SourceIsWord DEF BranchInv
  <2>2. Distance \in Int /\ Add(target, Distance) = value
    BY <2>1, DistanceReaches DEF Distance
  <2>3. instr' \cap Displacement14 = BitsOf(Distance, 16, Displacement14)
    <3>1. Kept14 \cap Displacement14 = {}
      BY DEF Kept14
    <3>2. BitsOf(Distance, 16, Displacement14) \subseteq Displacement14
      BY DEF BitsOf
    <3> QED
      BY <1>1, <1>2, <3>1, <3>2
  <2>4. Weight(BitsOf(Distance, 16, 2 .. 16 - 1), 16) = Distance
    <3>1. Fits14
      BY <1>1, <1>2
    <3>2. PICK n, p, d : n = 16 /\ p = 32768 /\ d = Distance
      OBVIOUS
    <3>3. 32768 = 2 ^ (16 - 1)
      OBVIOUS
    <3>4. p = 2 ^ (n - 1)
      BY <3>2, <3>3
    <3>5. n \in 3 .. 26 /\ d \in Int /\ -p <= d /\ d < p /\ d % 4 = 0
      BY <2>2, <3>1, <3>2 DEF Fits14
    <3>6. Weight(BitsOf(d, n, 2 .. n - 1), n) = d
      BY <3>4, <3>5, BitsWeigh
    <3> QED
      BY <3>2, <3>6
  <2>5. Displacement14 = 2 .. 16 - 1
    BY DEF Displacement14, Bits
  <2> QED
    BY <2>2, <2>3, <2>4, <2>5
<1> QED
  BY <1>1, <1>2 DEF BranchInv, BranchReaches, Displacement14, Displacement24, Bits

\* An unconditional one, whose other bits stay.
LEMMA Rel24Reaches == ASSUME BranchInv, TypeOK', Rel24 PROVE BranchInv'
<1>1. /\ branch = "none" /\ UNCHANGED <<value, target, absolute, halves, before>>
      /\ branch' # "REL24" => branch' = "failed"
      /\ branch' = "REL24" =>
            Fits24 /\ instr' = (instr \cap Kept24) \cup BitsOf(Distance, 26, Displacement24)
  BY DEF Rel24
<1>2. ASSUME branch' = "REL24"
      PROVE  Add(target, Weight(instr' \cap Displacement24, 26)) = value
  <2>1. value \in Words /\ target \in Words
    BY SourceIsWord DEF BranchInv
  <2>2. Distance \in Int /\ Add(target, Distance) = value
    BY <2>1, DistanceReaches DEF Distance
  <2>3. instr' \cap Displacement24 = BitsOf(Distance, 26, Displacement24)
    <3>1. Kept24 \cap Displacement24 = {}
      BY DEF Kept24, Displacement24, Bits
    <3>2. BitsOf(Distance, 26, Displacement24) \subseteq Displacement24
      BY DEF BitsOf
    <3> QED
      BY <1>1, <1>2, <3>1, <3>2
  <2>4. Weight(BitsOf(Distance, 26, 2 .. 26 - 1), 26) = Distance
    <3>1. Fits24
      BY <1>1, <1>2
    <3>2. PICK n, p, d : n = 26 /\ p = 33554432 /\ d = Distance
      OBVIOUS
    <3>3. 33554432 = 2 ^ (26 - 1)
      OBVIOUS
    <3>4. p = 2 ^ (n - 1)
      BY <3>2, <3>3
    <3>5. n \in 3 .. 26 /\ d \in Int /\ -p <= d /\ d < p /\ d % 4 = 0
      BY <2>2, <3>1, <3>2 DEF Fits24
    <3>6. Weight(BitsOf(d, n, 2 .. n - 1), n) = d
      BY <3>4, <3>5, BitsWeigh
    <3> QED
      BY <3>2, <3>6
  <2>5. Displacement24 = 2 .. 26 - 1
    BY DEF Displacement24, Bits
  <2> QED
    BY <2>2, <2>3, <2>4, <2>5
<1>3. ASSUME branch' = "REL24"
      PROVE  instr' \ Displacement24 = before \ Displacement24
  <2>1. instr = before /\ instr \subseteq 0 .. 31
    BY <1>1 DEF BranchInv, TypeOK
  <2>2. Kept24 = (0 .. 31) \ Displacement24
    BY DEF Kept24, Displacement24, Bits
  <2>3. BitsOf(Distance, 26, Displacement24) \subseteq Displacement24
    BY DEF BitsOf
  <2> QED
    BY <1>1, <1>3, <2>1, <2>2, <2>3
<1> QED
  BY <1>1, <1>2, <1>3 DEF BranchInv, BranchReaches, Displacement14, Displacement24, Bits

\* Every branch that was accepted goes where it should.
LEMMA BranchInvHolds == Spec => []BranchInv
<1>1. Init /\ TypeOK => BranchInv
  BY DEF Init, BranchInv, BranchReaches
<1>2. BranchInv /\ TypeOK' /\ [Next]_vars => BranchInv'
  <2> SUFFICES ASSUME BranchInv, TypeOK', [Next]_vars PROVE BranchInv'
    OBVIOUS
  <2>1. ASSUME UNCHANGED <<value, target, before, instr, branch>> PROVE BranchInv'
    BY <2>1 DEF BranchInv, BranchReaches
  <2>2. CASE \E kind \in {"LO", "HI", "HA"} : StoreHalf(kind)
    BY <2>1, <2>2 DEF StoreHalf
  <2>3. CASE UNCHANGED vars
    BY <2>1, <2>3 DEF vars
  <2> QED
    BY <2>2, <2>3, Rel14Reaches, Rel24Reaches DEF Next, Finished
<1>3. HalvesInv => TypeOK
  BY DEF HalvesInv
<1> QED
  BY <1>1, <1>2, <1>3, HalvesInvHolds, PTL DEF Spec

(***************************************************************************)
(* A branch elfLinkOne accepts goes to its destination, for every pair of  *)
(* addresses: what the CPU makes of the displacement's bits, sign-extended *)
(* and added to the branch's own address, is the symbol's address with the *)
(* addend applied, also when the way crosses an end of the address space.  *)
(* An unconditional branch keeps its opcode, link and address bits.        *)
(***************************************************************************)
THEOREM BranchesReach == Spec => []BranchReaches
<1>1. BranchInv => BranchReaches
  BY DEF BranchInv
<1> QED
  BY <1>1, BranchInvHolds, PTL
=============================================================================
