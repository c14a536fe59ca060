---------------------------- MODULE MCElfLookup -----------------------------
(***************************************************************************)
(* Two symbols with each hash section of two buckets, chains that are      *)
(* circles or do not end included; and three symbols with the sections a   *)
(* linker would write for them.  The hashes of "a" and "b" differ in the   *)
(* last bit only, which the chains of SHT_GNU_HASH do not hold.            *)
(***************************************************************************)
EXTENDS Integers, Sequences

Letters == {"a", "b", "c"}
Hashes == [n \in Letters |-> IF n = "a" THEN 2 ELSE IF n = "b" THEN 3 ELSE 12]

Tables(n) == {<<"">> \o t : t \in [1 .. n -> {"a", "b", "?"}]}

NoHash == [index |-> 0, type |-> "SHT_HASH"]

\* nchain is n, and so many entries are there (entry 0 is never read).
SysV(n, entries) ==
    {[index |-> 1, type |-> "SHT_HASH", nbucket |-> 2, nchain |-> n, bucket |-> b, chain |-> c] :
       b \in [0 .. 1 -> 0 .. n],
       c \in {d \in [0 .. (entries - 1) -> 0 .. n] : d[0] = 0}}

Gnu ==
    {[index |-> 1, type |-> "SHT_GNU_HASH", nbucket |-> 2, symoffset |-> 1, bloomSize |-> 2,
      bloomShift |-> 1, bloom |-> [i \in 0 .. 1 |-> f], bucket |-> b, chain |-> c] :
       f \in {{}, {1, 2}, 0 .. 3}, b \in [0 .. 1 -> {0, 1, 3}],
       c \in [0 .. 1 -> {2, 3, 12, 13}]}

\* Each chain goes from the last symbol of the bucket to the first.
Linked(t) ==
    LET InBucket(b) == {i \in 1 .. 3 : t[i + 1] \in Letters /\ Hashes[t[i + 1]] % 2 = b}
        Greatest(s) == IF s = {} THEN 0 ELSE CHOOSE i \in s : \A j \in s : j <= i
    IN  [index |-> 1, type |-> "SHT_HASH", nbucket |-> 2, nchain |-> 4,
         bucket |-> [b \in 0 .. 1 |-> Greatest(InBucket(b))],
         chain |-> [i \in 0 .. 3 |->
                     IF i = 0 \/ t[i + 1] \notin Letters THEN 0
                     ELSE Greatest({j \in InBucket(Hashes[t[i + 1]] % 2) : j < i})]]

\* One bucket holds all symbols.
GnuLinked(t) ==
    [index |-> 1, type |-> "SHT_GNU_HASH", nbucket |-> 1, symoffset |-> 1, bloomSize |-> 2,
     bloomShift |-> 1, bloom |-> [i \in 0 .. 1 |-> 0 .. 2],
     bucket |-> [b \in {0} |-> 1],
     chain |-> [i \in 0 .. 2 |-> 2 * (Hashes[t[i + 2]] \div 2) + (i \div 2)]]

ByName(n) == [by |-> "name", name |-> n, value |-> 0]
ByVal(v) == [by |-> "value", name |-> "", value |-> v]

Case(t, h, k) ==
    [names |-> t, values |-> [i \in DOMAIN t |-> IF i = 1 THEN 0 ELSE 4 * (i \div 2)],
     hash |-> h, key |-> k]

Sections == SysV(3, 3) \cup SysV(2, 2) \cup SysV(3, 2) \cup Gnu

SomeCases ==
    {Case(t, NoHash, ByName(k)) : t \in Tables(3), k \in Letters}
    \cup {Case(t, NoHash, ByVal(v)) : t \in Tables(3), v \in {0, 4, 8, 12}}
    \cup {Case(t, h, ByName(k)) : t \in Tables(2), h \in Sections, k \in Letters}
    \cup {Case(t, Linked(t), ByName(k)) : t \in Tables(3), k \in Letters}
    \cup {Case(t, GnuLinked(t), ByName(k)) :
            t \in {<<"">> \o u : u \in [1 .. 3 -> Letters]}, k \in Letters}
=============================================================================
