----------------------------- MODULE ElfLookup ------------------------------
(***************************************************************************)
(* symbol_section_accessor::get_symbol by name and by value: through a     *)
(* SHT_HASH or SHT_GNU_HASH section when the file has one, and one symbol  *)
(* after the other when that finds nothing.  What the hash functions       *)
(* compute is left open, and the hash section may be any section of that   *)
(* type with buckets (and a bloom filter) as many as it says: it need not  *)
(* fit the symbols, and its chains need not end.                           *)
(***************************************************************************)
EXTENDS Integers, Sequences

CONSTANTS
    Names,      \* names of symbols, without "" and Unreadable
    Unreadable, \* what stands for a name that get_string does not find
    ElfHash,    \* elf_hash of each name
    GnuHash,    \* elf_gnu_hash of each name
    MaskBits,   \* 8 * sizeof( T ), the bits of a word of the bloom filter
    Cases       \* the symbols, hash sections and arguments: see Init

LookupAssumption ==
    /\ Unreadable \notin Names /\ "" \notin Names /\ Unreadable # ""
    /\ ElfHash \in [Names -> Nat] /\ GnuHash \in [Names -> Nat]
    /\ MaskBits \in Nat \ {0}

VARIABLES
    names,      \* st_name of each symbol, as get_string reads it; 1 is symbol 0
    values,     \* st_value of each symbol
    hash,       \* the hash section
    key,        \* what is asked for: by name or by value
    pc,
    y,          \* the index, in the table or in the chains
    str,        \* the last name that was read
    got,        \* the symbol whose fields the caller gets
    ret

vars == <<names, values, hash, key, pc, y, str, got, ret>>
given == <<names, values, hash, key>>

Count == Len(names)

\* find_hash_section: by the type of the first section that links to the
\* symbols; none when it is section 0.
Begin(c) ==
    IF c.key.by = "value" THEN "values"
    ELSE IF c.hash.index = 0 THEN "linear" ELSE c.hash.type

Init ==
    /\ \E c \in Cases :
         /\ names = c.names /\ values = c.values /\ hash = c.hash /\ key = c.key
         /\ pc = Begin(c)
    /\ y = 0 /\ str = "" /\ got = -1 /\ ret = FALSE

\* get_symbol by index; a name that cannot be read leaves `str' alone, an
\* index beyond the table everything.
GetSymbol(i, previous) ==
    IF i < Count
    THEN /\ got' = i
         /\ str' = IF names[i + 1] = Unreadable THEN previous ELSE names[i + 1]
    ELSE UNCHANGED got /\ str' = previous

Answer(found) == ret' = found /\ pc' = "done"
FallBack == pc' = "linear" /\ y' = 0

-----------------------------------------------------------------------------
(***************************************************************************)
(* hash_lookup                                                             *)
(***************************************************************************)
HashStart ==
    /\ pc = "SHT_HASH"
    /\ y' = hash.bucket[ElfHash[key.name] % hash.nbucket]
    /\ GetSymbol(y', "")
    /\ pc' = "chain"
    /\ UNCHANGED <<given, ret>>

HashGoesOn_NoUndef == str # key.name /\ y < hash.nchain

HashGoesOn == str # key.name /\ y # 0 /\ y < hash.nchain

HashNext ==
    /\ pc = "chain"
    /\ HashGoesOn
    /\ y \in DOMAIN hash.chain
    /\ y' = hash.chain[y]
    /\ GetSymbol(y', str)
    /\ UNCHANGED <<given, pc, ret>>

\* A chain is read behind the section: nchain is more than there are, or a
\* chain of SHT_GNU_HASH has no last entry.  What is there is undefined.
ChainOutside ==
    /\ (pc = "chain" /\ HashGoesOn) \/ pc = "chains"
    /\ y \notin DOMAIN hash.chain
    /\ pc' = "outside"
    /\ UNCHANGED <<given, y, str, got, ret>>

HashEnd ==
    /\ pc = "chain"
    /\ ~HashGoesOn
    /\ IF str = key.name THEN Answer(TRUE) /\ UNCHANGED y ELSE FallBack /\ UNCHANGED ret
    /\ UNCHANGED <<given, str, got>>

-----------------------------------------------------------------------------
(***************************************************************************)
(* gnu_hash_lookup; `y' is chain_index.                                    *)
(***************************************************************************)
BloomBits(h) == {h % MaskBits, (h \div 2 ^ hash.bloomShift) % MaskBits}
BloomWord(h) == hash.bloom[(h \div MaskBits) % hash.bloomSize]
MayContain(h) == BloomBits(h) \subseteq BloomWord(h)
Bucket(h) == hash.bucket[h % hash.nbucket]

GnuStart ==
    /\ pc = "SHT_GNU_HASH"
    /\ LET h == GnuHash[key.name] IN
       IF MayContain(h) /\ Bucket(h) >= hash.symoffset
       THEN pc' = "chains" /\ y' = Bucket(h) - hash.symoffset
       ELSE FallBack
    /\ str' = ""
    /\ UNCHANGED <<given, got, ret>>

SameHash_Exact == hash.chain[y] = GnuHash[key.name]

SameHash == hash.chain[y] \div 2 = GnuHash[key.name] \div 2

Last == hash.chain[y] % 2 = 1

GnuNext ==
    /\ pc = "chains"
    /\ y \in DOMAIN hash.chain
    /\ IF SameHash THEN GetSymbol(y + hash.symoffset, str) ELSE UNCHANGED <<str, got>>
    /\ IF SameHash /\ y + hash.symoffset < Count /\ str' = key.name
       THEN Answer(TRUE) /\ UNCHANGED y
       ELSE UNCHANGED ret /\ IF Last THEN FallBack ELSE y' = y + 1 /\ UNCHANGED pc
    /\ UNCHANGED given

-----------------------------------------------------------------------------
(***************************************************************************)
(* One symbol after the other: by name, each into a new string, and by     *)
(* value (generic_search_symbols).                                         *)
(***************************************************************************)
Linear ==
    /\ pc = "linear"
    /\ IF y < Count
       THEN /\ GetSymbol(y, "")
            /\ IF str' = key.name THEN Answer(TRUE) /\ UNCHANGED y
               ELSE y' = y + 1 /\ UNCHANGED <<pc, ret>>
       ELSE Answer(FALSE) /\ UNCHANGED <<y, str, got>>
    /\ UNCHANGED given

ByValue ==
    /\ pc = "values"
    /\ IF y < Count
       THEN IF values[y + 1] = key.value
            THEN GetSymbol(y, str) /\ Answer(TRUE) /\ UNCHANGED y
            ELSE y' = y + 1 /\ UNCHANGED <<pc, ret, str, got>>
       ELSE Answer(FALSE) /\ UNCHANGED <<y, str, got>>
    /\ UNCHANGED given

Done == pc \in {"done", "outside"} /\ UNCHANGED vars

Step == HashStart \/ HashNext \/ HashEnd \/ ChainOutside \/ GnuStart \/ GnuNext \/ Linear \/ ByValue
Next == Step \/ Done

\* get_symbol waits for nothing.
Spec == Init /\ [][Next]_vars /\ WF_vars(Step)

-----------------------------------------------------------------------------
\* Every variable keeps its type, and what is returned is in the table.
TypeOK ==
    /\ names \in Seq(Names \cup {"", Unreadable}) /\ Len(values) = Count
    /\ pc \in {"SHT_HASH", "chain", "SHT_GNU_HASH", "chains", "linear", "values", "done",
               "outside"}
    /\ y \in Nat
    /\ str \in Names \cup {""}
    /\ got \in -1 .. (Count - 1)
    /\ ret \in BOOLEAN

InChain(k) == k # 0 /\ k < hash.nchain
SysVEnds ==
    LET walk[n \in 0 .. hash.nchain] ==
          IF n = 0 THEN hash.bucket[ElfHash[key.name] % hash.nbucket]
          ELSE IF InChain(walk[n - 1]) /\ walk[n - 1] \in DOMAIN hash.chain
          THEN hash.chain[walk[n - 1]] ELSE walk[n - 1]
    IN  ~InChain(walk[hash.nchain])
GnuEnds ==
    LET first == Bucket(GnuHash[key.name]) - hash.symoffset
    IN  \E k \in DOMAIN hash.chain : first <= k /\ hash.chain[k] % 2 = 1

\* The chain the search follows ends, within the section.  The code does not
\* check it: elfio_symbols.hpp goes round a chain of SHT_HASH that is a circle,
\* and behind the section along one of SHT_GNU_HASH without a last entry,
\* unless it meets the name before.
ChainEnds ==
    CASE Begin([key |-> key, hash |-> hash]) = "SHT_HASH" -> SysVEnds
      [] Begin([key |-> key, hash |-> hash]) = "SHT_GNU_HASH" -> GnuEnds
      [] OTHER -> TRUE

\* Along a chain that ends nothing is read behind the section.
StaysInChains == pc = "outside" => ~ChainEnds

Matches(i) ==
    IF key.by = "name" THEN names[i + 1] = key.name ELSE values[i + 1] = key.value

\* A search that ends finds a symbol if and only if there is one, and what the
\* caller gets are the fields of a symbol that was asked for: a hash section that
\* does not fit, a name that could not be read and left the last one in its
\* place, and the fields of the symbols tried before do not matter.
FindsWhatIsThere ==
    pc = "done" =>
      /\ ret <=> \E i \in 0 .. (Count - 1) : Matches(i)
      /\ ret => got >= 0 /\ Matches(got)

Reaches(i) ==   \* following the chain from the bucket of symbol i's name
    LET next == [j \in 0 .. (Count - 1) |-> hash.chain[j]]
        start == hash.bucket[ElfHash[names[i + 1]] % hash.nbucket]
        walk[n \in 0 .. Count] == IF n = 0 THEN start
                                  ELSE IF walk[n - 1] \in DOMAIN next THEN next[walk[n - 1]] ELSE 0
    IN  \E n \in 0 .. Count : walk[n] = i /\ \A m \in 0 .. (n - 1) : walk[m] # 0

\* A hash section as a linker writes it.
FitsSymbols ==
    IF hash.type = "SHT_HASH"
    THEN /\ hash.nchain = Count /\ DOMAIN hash.chain = 0 .. (Count - 1)
         /\ \A i \in 1 .. (Count - 1) : names[i + 1] \in Names => Reaches(i)
    ELSE \A i \in 1 .. (Count - 1) : names[i + 1] \in Names =>
           LET h == GnuHash[names[i + 1]] IN
           /\ i >= hash.symoffset
           /\ hash.chain[i - hash.symoffset] \div 2 = h \div 2
           /\ MayContain(h)
           /\ Bucket(h) \in hash.symoffset .. i
           /\ \A j \in Bucket(h) .. (i - 1) : hash.chain[j - hash.symoffset] % 2 = 0

\* With a hash section that fits, a symbol that is there is found through it.
HashSuffices ==
    pc = "linear" /\ hash.index # 0 /\ FitsSymbols =>
      ~\E i \in 0 .. (Count - 1) : Matches(i)
=============================================================================
