--------------------------- MODULE ElfTablesProofs ---------------------------
(***************************************************************************)
(* Proofs about ElfTables, for all names and all numbers of symbols,       *)
(* relocations and failing allocations.                                    *)
(***************************************************************************)
EXTENDS ElfTables, SequenceTheorems, FiniteSetTheorems, WellFoundedInduction, TLAPS

\* A name that is in the string table, behind pos, with its terminator.
StringStored(tab, pos, str) ==
    /\ pos \in Nat /\ pos + Len(str) + 1 <= Len(tab)
    /\ \A j \in 1 .. Len(str) : tab[pos + j] = str[j]
    /\ tab[pos + Len(str) + 1] = 0

\* What is known of a symbol behind the null symbol.
SymbolMatches(symbol) ==
    /\ symbol.born \in DOMAIN added
    /\ StringStored(strtab, symbol.name, added[symbol.born].str)
    /\ symbol.bind = added[symbol.born].bind
    /\ symbol.value = added[symbol.born].value

SymbolsInv ==
    failures = 0 =>
        /\ added = <<>> => symtab = <<>>
        /\ added # <<>> =>
              /\ Count = Len(added) + 1
              /\ symtab[1] = NullSymbol
              /\ \A n \in DOMAIN added : \E i \in 2 .. Count : symtab[i].born = n
              /\ \A i \in 2 .. Count : SymbolMatches(symtab[i])

\* A relocation names the symbol it was meant for, and the rest is as given.
RelocMatches(e, m) ==
    /\ R_SYM(e.r_info) \in 0 .. (Count - 1)
    /\ Born(R_SYM(e.r_info)) = m.born
    /\ R_TYPE(e.r_info) = m.type
    /\ e.offset = m.offset /\ e.addend = m.addend
RelocsInv ==
    Callback /\ failures = 0 => \A r \in DOMAIN relocs : RelocMatches(relocs[r], meant[r])

\* In front of the cursor everything is local.
ArrangeInv ==
    /\ pc = "arrange" => first >= 1 /\ \A k \in 1 .. (first - 1) : k < Count /\ IsLocal(k)
    /\ LocalsFirst

TablesInv == TypeOK /\ SymbolsInv /\ RelocsInv /\ ArrangeInv
-----------------------------------------------------------------------------
\* Some number of a set of numbers is the least.
LEMMA LeastNumber ==
    ASSUME NEW T, T \subseteq Nat, T # {}
    PROVE  \E m \in T : \A k \in T : m <= k
<1> DEFINE R == OpToRel(<, Nat)
<1>1. IsWellFoundedOn(R, Nat)
  BY NatLessThanWellFounded
<1>2. \A x, y \in Nat : x < y => <<x, y>> \in R
  BY DEF OpToRel
<1> HIDE DEF R
<1>3. PICK m \in T : \A k \in T : ~ (<<k, m>> \in R)
  BY <1>1, WFMin
<1>4. ASSUME NEW k \in T
      PROVE  m <= k
  <2>1. k \in Nat /\ m \in Nat
    OBVIOUS
  <2>2. ~ (k < m)
    BY <1>2, <1>3, <2>1
  <2> QED
    BY <2>1, <2>2
<1> QED
  BY <1>4

\* The loops of arrange_local_symbols stop.
LEMMA SeekStops ==
    ASSUME symtab \in Seq(Symbols), NEW from \in Nat, NEW local \in BOOLEAN
    PROVE  /\ Seek(from, local) \in Nat
           /\ Stops(from, Seek(from, local), local)
<1> DEFINE T == {i \in from .. (from + Count) : i >= Count \/ IsLocal(i) = local}
<1>1. Count \in Nat
  BY DEF Count
<1>2. T \subseteq Nat /\ from + Count \in T
  BY <1>1
<1>3. PICK m \in T : \A k \in T : m <= k
  <2> HIDE DEF T
  <2> QED
    BY <1>2, LeastNumber
<1>4. m \in from .. (from + Count) /\ (m >= Count \/ IsLocal(m) = local)
  BY <1>3
<1>5. ASSUME NEW k \in from .. (m - 1)
      PROVE  k < Count /\ IsLocal(k) # local
  <2>1. k \notin T
    BY <1>1, <1>3, <1>4
  <2> QED
    BY <1>1, <1>4, <2>1
<1>6. Stops(from, m, local)
  BY <1>1, <1>4, <1>5 DEF Stops
<1>7. /\ Seek(from, local) \in from .. (from + Count)
      /\ Stops(from, Seek(from, local), local)
  <2> DEFINE P(i) == Stops(from, i, local)
  <2>1. P(m) /\ m \in from .. (from + Count)
    BY <1>4, <1>6
  <2>2. Seek(from, local) = CHOOSE i \in from .. (from + Count) : P(i)
    BY DEF Seek
  <2> HIDE DEF P
  <2>3. Seek(from, local) \in from .. (from + Count) /\ P(Seek(from, local))
    BY <2>1, <2>2
  <2> QED
    BY <2>3 DEF P
<1> QED
  BY <1>1, <1>7
-----------------------------------------------------------------------------
\* What a table is when something has been appended.
LEMMA Concatenated ==
    ASSUME NEW S, NEW s \in Seq(S), NEW t \in Seq(S)
    PROVE  /\ s \o t \in Seq(S)
           /\ Len(s \o t) = Len(s) + Len(t)
           /\ \A i \in 1 .. Len(s) : (s \o t)[i] = s[i]
           /\ \A i \in 1 .. Len(t) : (s \o t)[Len(s) + i] = t[i]
  OBVIOUS

\* A name reads back as it was given.
LEMMA StoredReads ==
    ASSUME strtab \in Seq(Nat), NEW pos, NEW str \in Seq(Nat \ {0}),
           StringStored(strtab, pos, str)
    PROVE  StringAt(pos) = str
<1> DEFINE n == Len(str)
           e == pos + n + 1
           ends == {k \in (pos + 1) .. Len(strtab) : strtab[k] = 0}
           read == SubSeq(strtab, pos + 1, e - 1)
<1>1. /\ pos \in Nat /\ n \in Nat /\ Len(strtab) \in Nat /\ e <= Len(strtab)
      /\ \A j \in 1 .. n : strtab[pos + j] = str[j] /\ str[j] # 0
      /\ strtab[e] = 0
  BY DEF StringStored
<1>2. e \in ends
  BY <1>1
<1>3. \A k \in ends : e <= k
  <2> SUFFICES ASSUME NEW k \in ends, k < e PROVE FALSE
    BY <1>1
  <2>1. k - pos \in 1 .. n /\ k = pos + (k - pos)
    BY <1>1
  <2> QED
    BY <1>1, <2>1
<1>4. (CHOOSE k \in ends : \A j \in ends : k <= j) = e
  <2>1. ends \subseteq Nat
    BY <1>1
  <2> HIDE DEF ends
  <2>2. \A k \in ends : (\A j \in ends : k <= j) => k = e
    BY <1>1, <1>2, <1>3, <2>1
  <2> QED
    BY <1>2, <1>3, <2>2
<1>5. StringAt(pos) = read
  BY <1>2, <1>4 DEF StringAt
<1>6. /\ read \in Seq(Nat) /\ Len(read) = n
      /\ \A j \in 1 .. n : read[j] = strtab[pos + j]
  BY <1>1
<1>7. read = str
  <2> HIDE DEF read
  <2>1. str \in Seq(Nat)
    OBVIOUS
  <2>2. \A j \in 1 .. n : read[j] = str[j]
    BY <1>1, <1>6
  <2> QED
    BY <1>6, <2>1, <2>2, SeqEqual
<1> QED
  BY <1>5, <1>7

\* and stays where it is when the table grows.
LEMMA StoredStays ==
    ASSUME NEW s \in Seq(Nat), NEW t \in Seq(Nat), NEW pos, NEW str \in Seq(Nat \ {0}),
           StringStored(s, pos, str)
    PROVE  StringStored(s \o t, pos, str)
<1>1. /\ pos \in Nat /\ Len(str) \in Nat /\ pos + Len(str) + 1 <= Len(s)
      /\ Len(s) \in Nat /\ Len(t) \in Nat
  BY DEF StringStored
<1>2. \A i \in 1 .. Len(s) : (s \o t)[i] = s[i]
  BY Concatenated
<1>3. \A j \in 1 .. Len(str) : pos + j \in 1 .. Len(s)
  BY <1>1
<1>4. pos + Len(str) + 1 \in 1 .. Len(s)
  BY <1>1
<1>5. Len(s \o t) = Len(s) + Len(t)
  BY Concatenated
<1> QED
  BY <1>1, <1>2, <1>3, <1>4, <1>5 DEF StringStored
-----------------------------------------------------------------------------
\* Appends that find no memory are counted.
LEMMA Lacking ==
    ASSUME NEW lack \in SUBSET AppendsOfEntry
    PROVE  Cardinality(lack) \in Nat /\ (Cardinality(lack) = 0 => lack = {})
<1>1. IsFiniteSet({"string", "symbol", "empty", "null", "relocation"})
  <2>1. IsFiniteSet({"string"}) /\ IsFiniteSet({"string"} \cup {"symbol"})
    BY FS_Singleton, FS_AddElement
  <2>2. IsFiniteSet({"string"} \cup {"symbol"} \cup {"empty"})
    BY <2>1, FS_AddElement
  <2>3. IsFiniteSet({"string"} \cup {"symbol"} \cup {"empty"} \cup {"null"})
    BY <2>2, FS_AddElement
  <2>4. IsFiniteSet({"string"} \cup {"symbol"} \cup {"empty"} \cup {"null"} \cup {"relocation"})
    BY <2>3, FS_AddElement
  <2>5. {"string"} \cup {"symbol"} \cup {"empty"} \cup {"null"} \cup {"relocation"}
          = {"string", "symbol", "empty", "null", "relocation"}
    OBVIOUS
  <2> QED
    BY <2>4, <2>5
<1>2. lack \subseteq {"string", "symbol", "empty", "null", "relocation"}
  BY DEF Appends, AppendsOfEntry
<1>3. IsFiniteSet(lack)
  BY <1>1, <1>2, FS_Subset
<1> QED
  BY <1>3, FS_CardinalityType, FS_EmptySet

\* Every string is one of bytes other than 0.
LEMMA StringsTyped ==
    ASSUME TablesAssumption, NEW str \in Strings
    PROVE  str \in Seq(Nat \ {0}) /\ str \in Seq(Nat) /\ Append(str, 0) \in Seq(Nat)
<1>1. str \in Seq(Nat \ {0})
  BY DEF TablesAssumption
<1>2. str \in Seq(Nat)
  BY <1>1
<1> QED
  BY <1>1, <1>2

\* The history grows by what is added.
LEMMA HistoryGrows ==
    ASSUME TypeOK, NEW str \in Strings, NEW bind \in Binds, NEW value \in Nat,
           added' = Append(added, [str |-> str, bind |-> bind, value |-> value])
    PROVE  /\ added' \in Seq([str : Strings, bind : Binds, value : Nat])
           /\ Len(added) \in Nat /\ Len(added') = Len(added) + 1
           /\ DOMAIN added = 1 .. Len(added) /\ DOMAIN added' = 1 .. Len(added')
           /\ \A n \in DOMAIN added : n \in DOMAIN added' /\ added'[n] = added[n]
           /\ added'[Len(added) + 1] = [str |-> str, bind |-> bind, value |-> value]
           /\ added' # <<>>
<1>1. /\ added \in Seq([str : Strings, bind : Binds, value : Nat])
      /\ [str |-> str, bind |-> bind, value |-> value] \in [str : Strings, bind : Binds, value : Nat]
  BY DEF TypeOK
<1> QED
  BY <1>1

\* The symbols of a history are symbols of a longer one.
LEMMA SymbolsGrow ==
    ASSUME TypeOK, Len(added) \in Nat, Len(added') \in Nat, Len(added) <= Len(added')
    PROVE  Seq(Symbols) \subseteq Seq(Symbols')
<1>1. Symbols \subseteq Symbols'
  BY DEF Symbols
<1> QED
  BY <1>1

\* add_symbol: the types.
LEMMA AddTyped ==
    ASSUME TablesAssumption, TypeOK, NEW str \in Strings, NEW bind \in Binds,
           NEW lack \in SUBSET AppendsOfEntry, AddSymbolWith(str, bind, Len(added) + 1, lack)
    PROVE  /\ strtab' \in Seq(Nat) /\ symtab' \in Seq(Symbols')
           /\ result' \in Int /\ failures' \in 0 .. MaxFailures
           /\ added' \in Seq([str : Strings, bind : Binds, value : Nat])
           /\ UNCHANGED <<info, pc, first>> /\ arranged' = FALSE
<1>1. /\ strtab' = NewString(str, lack)
      /\ symtab' = NewSymbols([name |-> StringIndex, bind |-> bind, value |-> Len(added) + 1,
                               born |-> Len(added) + 1], lack)
      /\ result' = Len(symtab') - 1
      /\ added' = Append(added, [str |-> str, bind |-> bind, value |-> Len(added) + 1])
      /\ failures' = failures + Cardinality(lack)
      /\ Cardinality(lack) + failures <= MaxFailures
      /\ UNCHANGED <<info, pc, first>> /\ arranged' = FALSE
  BY DEF AddSymbolWith
<1>2. /\ strtab \in Seq(Nat) /\ symtab \in Seq(Symbols) /\ failures \in Nat
      /\ added \in Seq([str : Strings, bind : Binds, value : Nat])
  BY DEF TypeOK
<1>3. Len(added) \in Nat /\ Len(added) + 1 \in Nat
  BY <1>2
<1>4. /\ added' \in Seq([str : Strings, bind : Binds, value : Nat])
      /\ Len(added') = Len(added) + 1
  BY <1>1, <1>3, HistoryGrows
<1>5. strtab' \in Seq(Nat)
  <2>1. Append(str, 0) \in Seq(Nat) /\ <<0>> \in Seq(Nat)
    BY StringsTyped
  <2>2. \A data \in Seq(Nat), more \in Seq(Nat), ok \in BOOLEAN :
           Appended(data, more, ok) \in Seq(Nat)
    BY Concatenated DEF Appended
  <2> QED
    BY <1>1, <1>2, <2>1, <2>2 DEF NewString
<1>6. symtab' \in Seq(Symbols')
  <2> DEFINE symbol == [name |-> StringIndex, bind |-> bind, value |-> Len(added) + 1,
                        born |-> Len(added) + 1]
  <2>1. StringIndex \in Nat
    BY <1>2 DEF StringIndex
  <2>2. symbol \in Symbols' /\ NullSymbol \in Symbols'
    BY <1>3, <1>4, <2>1 DEF Symbols, NullSymbol, Binds
  <2>3. symtab \in Seq(Symbols')
    BY <1>2, <1>3, <1>4, SymbolsGrow
  <2> HIDE DEF symbol
  <2>4. <<symbol>> \in Seq(Symbols') /\ <<NullSymbol>> \in Seq(Symbols')
    BY <2>2
  <2>5. \A data \in Seq(Symbols'), more \in Seq(Symbols'), ok \in BOOLEAN :
           Appended(data, more, ok) \in Seq(Symbols')
    BY Concatenated DEF Appended
  <2>6. symtab' = NewSymbols(symbol, lack)
    BY <1>1 DEF symbol
  <2> QED
    BY <2>3, <2>4, <2>5, <2>6 DEF NewSymbols
<1>7. result' \in Int
  BY <1>1, <1>6
<1>8. failures' \in 0 .. MaxFailures
  <2>1. MaxFailures \in Nat
    BY DEF TablesAssumption
  <2>2. Cardinality(lack) \in Nat
    BY Lacking
  <2> QED
    BY <1>1, <1>2, <2>1, <2>2
<1> QED
  BY <1>1, <1>4, <1>5, <1>6, <1>7, <1>8

\* With memory, the tables grow by one name and one symbol, behind the empty
\* name and the null symbol.
LEMMA AddGrows ==
    ASSUME TablesAssumption, TypeOK, SymbolsInv, NEW str \in Strings, NEW bind \in Binds,
           NEW lack \in SUBSET AppendsOfEntry, AddSymbolWith(str, bind, Len(added) + 1, lack),
           failures' = 0
    PROVE  /\ failures = 0
           /\ \A pos, s : s \in Strings /\ StringStored(strtab, pos, s)
                             => StringStored(strtab', pos, s)
           /\ StringStored(strtab', StringIndex, str)
           /\ Count' = Len(added) + 2
           /\ symtab'[1] = NullSymbol
           /\ \A i \in 1 .. Count : symtab'[i] = symtab[i]
           /\ symtab'[Len(added) + 2] = [name |-> StringIndex, bind |-> bind,
                                         value |-> Len(added) + 1, born |-> Len(added) + 1]
           /\ result' = Len(added) + 1
<1>1. /\ strtab' = NewString(str, lack)
      /\ symtab' = NewSymbols([name |-> StringIndex, bind |-> bind, value |-> Len(added) + 1,
                               born |-> Len(added) + 1], lack)
      /\ result' = Len(symtab') - 1
      /\ failures' = failures + Cardinality(lack)
  BY DEF AddSymbolWith
<1>2. /\ strtab \in Seq(Nat) /\ symtab \in Seq(Symbols) /\ failures \in Nat
      /\ added \in Seq([str : Strings, bind : Binds, value : Nat]) /\ Len(added) \in Nat
  BY DEF TypeOK
<1>3. failures = 0 /\ lack = {}
  BY <1>1, <1>2, Lacking
<1>4. /\ str \in Seq(Nat \ {0}) /\ str \in Seq(Nat) /\ Append(str, 0) \in Seq(Nat)
  BY StringsTyped
<1> DEFINE begun == IF strtab = <<>> THEN strtab \o <<0>> ELSE strtab
           more == Append(str, 0)
<1>5. strtab' = begun \o more
  BY <1>1, <1>3 DEF NewString, Appended
<1>6. begun \in Seq(Nat) /\ more \in Seq(Nat) /\ <<0>> \in Seq(Nat)
  BY <1>2, <1>4, Concatenated
<1>7. Len(begun) = StringIndex /\ StringIndex \in Nat
  <2>1. <<>> \o <<0>> = <<0>> /\ Len(<<0>>) = 1
    OBVIOUS
  <2> QED
    BY <1>2, <2>1 DEF StringIndex
<1>8. ASSUME NEW pos, NEW s, s \in Strings, StringStored(strtab, pos, s)
      PROVE  StringStored(strtab', pos, s)
  <2>1. s \in Seq(Nat \ {0})
    BY <1>8, StringsTyped
  <2>2. StringStored(begun, pos, s)
    BY <1>2, <1>6, <1>8, <2>1, StoredStays
  <2> HIDE DEF begun, more
  <2> QED
    BY <1>5, <1>6, <2>1, <2>2, StoredStays
<1>9. StringStored(strtab', StringIndex, str)
  <2>1. /\ Len(str) \in Nat /\ Len(more) = Len(str) + 1
        /\ \A j \in 1 .. Len(str) : more[j] = str[j]
        /\ more[Len(str) + 1] = 0
    BY <1>4
  <2> HIDE DEF begun, more
  <2>2. /\ Len(begun \o more) = Len(begun) + Len(more)
        /\ \A i \in 1 .. Len(more) : (begun \o more)[Len(begun) + i] = more[i]
    BY <1>6, Concatenated
  <2>3. \A j \in 1 .. Len(str) : strtab'[StringIndex + j] = str[j]
    BY <1>5, <1>7, <2>1, <2>2
  <2>4. /\ StringIndex + Len(str) + 1 <= Len(strtab')
        /\ strtab'[StringIndex + Len(str) + 1] = 0
    <3>1. StringIndex + Len(str) + 1 = Len(begun) + (Len(str) + 1)
      BY <1>7, <2>1
    <3>2. Len(str) + 1 \in 1 .. Len(more)
      BY <2>1
    <3> QED
      BY <1>5, <1>7, <2>1, <2>2, <3>1, <3>2
  <2> QED
    BY <1>7, <2>3, <2>4 DEF StringStored
<1> HIDE DEF begun, more
<1> DEFINE symbol == [name |-> StringIndex, bind |-> bind, value |-> Len(added) + 1,
                      born |-> Len(added) + 1]
           start == IF symtab = <<>> THEN <<NullSymbol>> ELSE symtab
<1>10. symtab' = start \o <<symbol>>
  <2>1. <<>> \o <<NullSymbol>> = <<NullSymbol>>
    OBVIOUS
  <2> QED
    BY <1>1, <1>3, <2>1 DEF NewSymbols, Appended
<1>11. /\ Len(start) = Len(added) + 1 /\ start[1] = NullSymbol
       /\ \A i \in 1 .. Count : start[i] = symtab[i] /\ i <= Len(added) + 1
  <2>1. CASE added = <<>>
    <3>1. symtab = <<>> /\ Count = 0 /\ Len(added) = 0
      BY <1>3, <2>1 DEF SymbolsInv, Count
    <3> QED
      BY <3>1
  <2>2. CASE added # <<>>
    <3>1. /\ Count = Len(added) + 1 /\ symtab[1] = NullSymbol
      BY <1>3, <2>2 DEF SymbolsInv
    <3>2. symtab # <<>>
      BY <1>2, <3>1 DEF Count
    <3> QED
      BY <1>2, <3>1, <3>2 DEF Count
  <2> QED
    BY <2>1, <2>2
<1>12. /\ Len(start \o <<symbol>>) = Len(start) + 1
       /\ \A i \in 1 .. Len(start) : (start \o <<symbol>>)[i] = start[i]
       /\ (start \o <<symbol>>)[Len(start) + 1] = symbol
  <2> DEFINE S == Symbols \cup {symbol, NullSymbol}
  <2>1. start \in Seq(S)
    <3>1. symtab \in Seq(S)
      BY <1>2
    <3>2. <<NullSymbol>> \in Seq(S)
      OBVIOUS
    <3> QED
      BY <3>1, <3>2
  <2>2. <<symbol>> \in Seq(S) /\ Len(<<symbol>>) = 1 /\ <<symbol>>[1] = symbol
    <3> HIDE DEF symbol
    <3> QED
      OBVIOUS
  <2> HIDE DEF S, symbol, start
  <2> QED
    BY <2>1, <2>2, Concatenated
<1> HIDE DEF start, symbol
<1>13. /\ Count' = Len(added) + 2 /\ symtab'[1] = NullSymbol
       /\ \A i \in 1 .. Count : symtab'[i] = symtab[i]
       /\ symtab'[Len(added) + 2] = symbol
  BY <1>2, <1>10, <1>11, <1>12 DEF Count
<1>14. result' = Len(added) + 1
  BY <1>1, <1>2, <1>13 DEF Count
<1> QED
  BY <1>3, <1>8, <1>9, <1>13, <1>14 DEF symbol
-----------------------------------------------------------------------------
\* The new symbol is found by its number, and so are the others still.
LEMMA AddMatches ==
    ASSUME TablesAssumption, TypeOK, SymbolsInv, NEW str \in Strings, NEW bind \in Binds,
           NEW lack \in SUBSET AppendsOfEntry, AddSymbolWith(str, bind, Len(added) + 1, lack)
    PROVE  SymbolsInv'
<1> SUFFICES ASSUME failures' = 0
             PROVE  /\ Count' = Len(added') + 1
                    /\ symtab'[1] = NullSymbol
                    /\ \A n \in DOMAIN added' : \E i \in 2 .. Count' : symtab'[i].born = n
                    /\ \A i \in 2 .. Count' : SymbolMatches(symtab[i])'
  <2>1. Len(added) + 1 \in Nat
    BY DEF TypeOK
  <2>2. added' # <<>>
    BY <2>1, HistoryGrows DEF AddSymbolWith
  <2> QED
    BY <2>2 DEF SymbolsInv, NullSymbol
<1> DEFINE n == Len(added)
           new == [name |-> StringIndex, bind |-> bind, value |-> n + 1, born |-> n + 1]
<1>1. /\ failures = 0
      /\ \A pos, s : s \in Strings /\ StringStored(strtab, pos, s)
                        => StringStored(strtab', pos, s)
      /\ StringStored(strtab', StringIndex, str)
      /\ Count' = n + 2 /\ symtab'[1] = NullSymbol
      /\ \A i \in 1 .. Count : symtab'[i] = symtab[i]
      /\ symtab'[n + 2] = new
  BY AddGrows
<1>2. /\ n \in Nat /\ Len(added') = n + 1
      /\ DOMAIN added = 1 .. n /\ DOMAIN added' = 1 .. (n + 1)
      /\ \A k \in DOMAIN added : added'[k] = added[k]
      /\ added'[n + 1] = [str |-> str, bind |-> bind, value |-> n + 1]
  <2>1. added' = Append(added, [str |-> str, bind |-> bind, value |-> n + 1]) /\ n + 1 \in Nat
    BY DEF AddSymbolWith, TypeOK
  <2> QED
    BY <2>1, HistoryGrows
<1>3. /\ Count \in Nat
      /\ \A i \in 2 .. (n + 1) : i \in 2 .. Count /\ symtab'[i] = symtab[i]
                                 /\ SymbolMatches(symtab[i])
      /\ \A k \in DOMAIN added : \E i \in 2 .. (n + 1) : symtab[i].born = k
  <2>1. Count \in Nat
    BY DEF TypeOK, Count
  <2>2. CASE added = <<>>
    BY <1>2, <2>1, <2>2
  <2>3. CASE added # <<>>
    <3>1. /\ Count = n + 1
          /\ \A k \in DOMAIN added : \E i \in 2 .. Count : symtab[i].born = k
          /\ \A i \in 2 .. Count : SymbolMatches(symtab[i])
      BY <1>1, <2>3 DEF SymbolsInv
    <3> QED
      BY <1>1, <1>2, <2>1, <3>1
  <2> QED
    BY <2>2, <2>3
<1>4. ASSUME NEW i \in 2 .. Count', i # n + 2
      PROVE  SymbolMatches(symtab[i])'
  <2>1. i \in 2 .. (n + 1)
    BY <1>1, <1>2, <1>4
  <2>2. symtab'[i] = symtab[i] /\ SymbolMatches(symtab[i])
    BY <1>3, <2>1
  <2>3. /\ symtab[i].born \in DOMAIN added /\ symtab[i].born \in DOMAIN added'
        /\ added'[symtab[i].born] = added[symtab[i].born]
    BY <1>2, <2>2 DEF SymbolMatches
  <2>4. added[symtab[i].born].str \in Strings
    <3> DEFINE S == [str : Strings, bind : Binds, value : Nat]
    <3>1. added \in Seq(S)
      BY DEF TypeOK
    <3>2. \A a \in S : a.str \in Strings
      OBVIOUS
    <3> HIDE DEF S
    <3>3. added[symtab[i].born] \in S
      BY <1>2, <2>3, <3>1
    <3> QED
      BY <3>2, <3>3
  <2> QED
    BY <1>1, <2>2, <2>3, <2>4 DEF SymbolMatches
<1>5. ASSUME NEW i \in 2 .. Count', i = n + 2
      PROVE  SymbolMatches(symtab[i])'
  <2>1. symtab'[i] = new
    BY <1>1, <1>5
  <2>2. n + 1 \in DOMAIN added'
    BY <1>2
  <2> QED
    BY <1>1, <1>2, <2>1, <2>2 DEF SymbolMatches
<1>6. ASSUME NEW k \in DOMAIN added'
      PROVE  \E i \in 2 .. Count' : symtab'[i].born = k
  <2>1. CASE k = n + 1
    <3>1. n + 2 \in 2 .. Count' /\ symtab'[n + 2].born = k
      BY <1>1, <1>2, <2>1
    <3> QED
      BY <3>1
  <2>2. CASE k # n + 1
    <3>1. k \in DOMAIN added
      BY <1>2, <2>2
    <3>2. PICK i \in 2 .. (n + 1) : symtab[i].born = k
      BY <1>3, <3>1
    <3>3. i \in 2 .. Count' /\ symtab'[i].born = k
      BY <1>1, <1>2, <1>3, <3>2
    <3> QED
      BY <3>3
  <2> QED
    BY <2>1, <2>2
<1> HIDE DEF new, n
<1> QED
  BY <1>1, <1>2, <1>4, <1>5, <1>6 DEF n

\* A relocation that names its symbol names it when others are added.
LEMMA OthersFollow ==
    ASSUME TablesAssumption, TypeOK, SymbolsInv, NEW str \in Strings, NEW bind \in Binds,
           NEW lack \in SUBSET AppendsOfEntry, AddSymbolWith(str, bind, Len(added) + 1, lack),
           failures' = 0, NEW e, NEW m, RelocMatches(e, m)
    PROVE  RelocMatches(e, m)'
<1>1. /\ failures = 0 /\ Count' = Len(added) + 2
      /\ \A i \in 1 .. Count : symtab'[i] = symtab[i]
  BY AddGrows
<1>2. /\ Count \in Nat /\ Len(added) \in Nat /\ Count <= Len(added) + 1
      /\ DOMAIN symtab = 1 .. Count
  <2>1. symtab \in Seq(Symbols) /\ Len(added) \in Nat
    BY DEF TypeOK
  <2>2. Count \in Nat /\ DOMAIN symtab = 1 .. Count
    BY <2>1 DEF Count
  <2>3. added = <<>> => Count = 0
    BY <1>1 DEF SymbolsInv, Count
  <2>4. added # <<>> => Count = Len(added) + 1
    BY <1>1 DEF SymbolsInv
  <2> QED
    BY <2>1, <2>2, <2>3, <2>4
<1>3. DOMAIN symtab' = 1 .. Count'
  BY AddTyped DEF Count
<1> DEFINE index == R_SYM(e.r_info)
<1>4. index \in 0 .. (Count - 1) /\ Born(index) = m.born
  BY DEF RelocMatches
<1>5. index \in 0 .. (Count' - 1)
  BY <1>1, <1>2, <1>4
<1>6. index + 1 \in 1 .. Count /\ index + 1 \in 1 .. Count'
  <2> HIDE DEF index
  <2> QED
    BY <1>1, <1>2, <1>4, <1>5
<1>7. (R_SYM(e.r_info))' = index
  BY DEF R_SYM
<1>8. Born(index)' = Born(index)
  BY <1>1, <1>2, <1>3, <1>6 DEF Born
<1> QED
  BY <1>4, <1>5, <1>7, <1>8 DEF RelocMatches, R_SYM, R_TYPE
-----------------------------------------------------------------------------
\* ELF32_R_SYM and ELF32_R_TYPE take apart what ELF32_R_INFO put together.
LEMMA InfoParts ==
    ASSUME NEW symbol \in Int, NEW type \in 0 .. 255
    PROVE  /\ R_INFO(symbol, type) \in Int
           /\ R_SYM(R_INFO(symbol, type)) = symbol
           /\ R_TYPE(R_INFO(symbol, type)) = type
<1>1. type % 256 = type
  OBVIOUS
<1>2. (symbol * 256 + type) \div 256 = symbol /\ (symbol * 256 + type) % 256 = type
  OBVIOUS
<1> QED
  BY <1>1, <1>2 DEF R_INFO, R_SYM, R_TYPE

\* What add_entry and set_entry write is what their caller meant.
LEMMA EntryMatches ==
    ASSUME TablesAssumption, NEW index \in 0 .. (Count - 1), Count \in Nat,
           NEW offset \in Offsets, NEW type \in Types, NEW addend
    PROVE  RelocMatches(Entry(offset, index, type, addend),
                        Meaning(offset, Born(index), type, addend))
<1>1. type \in 0 .. 255 /\ index \in Int
  BY DEF TablesAssumption
<1> QED
  BY <1>1, InfoParts DEF RelocMatches, Entry, Meaning

\* What is written is an entry, and what it means a meaning.
LEMMA EntryTyped ==
    ASSUME TablesAssumption, NEW index \in Int, NEW born \in Nat,
           NEW offset \in Offsets, NEW type \in Types, NEW addend \in Int
    PROVE  /\ Entry(offset, index, type, addend) \in Entries
           /\ Meaning(offset, born, type, addend) \in Meanings
<1>1. type \in 0 .. 255 /\ offset \in Nat
  BY DEF TablesAssumption
<1>2. R_INFO(index, type) \in Int
  BY <1>1, InfoParts
<1> QED
  BY <1>1, <1>2 DEF Entry, Meaning, Entries, Meanings

\* A symbol is known by a number.
LEMMA BornTyped == ASSUME TypeOK, NEW index PROVE Born(index) \in Nat
<1>1. symtab \in Seq(Symbols) /\ Len(added) \in Nat
  BY DEF TypeOK
<1> DEFINE S == Symbols
<1>2. \A s \in S : s.born \in Nat
  BY <1>1 DEF Symbols
<1>3. symtab \in Seq(S)
  BY <1>1
<1> HIDE DEF S
<1>4. \A i \in DOMAIN symtab : symtab[i] \in S
  BY <1>3
<1> QED
  BY <1>2, <1>4 DEF Born

\* The cursor of arrange_local_symbols has local symbols behind it, and the
\* next local one is behind one that is not.
LEMMA Cursor ==
    ASSUME TypeOK, ArrangeInv, pc = "arrange"
    PROVE  /\ Count \in Nat /\ FirstNotLocal \in Nat /\ NextLocal \in Nat
           /\ 1 <= FirstNotLocal /\ FirstNotLocal < NextLocal
           /\ \A k \in 1 .. (FirstNotLocal - 1) : k < Count /\ IsLocal(k)
           /\ FirstNotLocal < Count => ~ IsLocal(FirstNotLocal)
           /\ NextLocal < Count => IsLocal(NextLocal)
           /\ \A k \in (FirstNotLocal + 1) .. (NextLocal - 1) : k < Count /\ ~ IsLocal(k)
<1>1. /\ symtab \in Seq(Symbols) /\ first \in Nat /\ first >= 1 /\ Count \in Nat
      /\ \A k \in 1 .. (first - 1) : k < Count /\ IsLocal(k)
  BY DEF TypeOK, ArrangeInv, Count
<1>2. FirstNotLocal \in Nat /\ Stops(first, FirstNotLocal, FALSE)
  BY <1>1, SeekStops DEF FirstNotLocal
<1>3. NextLocal \in Nat /\ Stops(FirstNotLocal + 1, NextLocal, TRUE)
  <2>1. FirstNotLocal + 1 \in Nat
    BY <1>2
  <2>2. /\ Seek(FirstNotLocal + 1, TRUE) \in Nat
        /\ Stops(FirstNotLocal + 1, Seek(FirstNotLocal + 1, TRUE), TRUE)
    BY <1>1, <2>1, SeekStops
  <2> QED
    BY <2>2 DEF NextLocal
<1>4. \A k : IsLocal(k) \in BOOLEAN
  BY DEF IsLocal
<1> HIDE DEF FirstNotLocal, NextLocal, IsLocal, Count
<1>5. /\ FirstNotLocal >= first
      /\ FirstNotLocal < Count => ~ IsLocal(FirstNotLocal)
      /\ \A k \in first .. (FirstNotLocal - 1) : k < Count /\ IsLocal(k)
  BY <1>2, <1>4 DEF Stops
<1>6. /\ NextLocal >= FirstNotLocal + 1
      /\ NextLocal < Count => IsLocal(NextLocal)
      /\ \A k \in (FirstNotLocal + 1) .. (NextLocal - 1) : k < Count /\ ~ IsLocal(k)
  BY <1>3, <1>4 DEF Stops
<1>7. \A k \in 1 .. (FirstNotLocal - 1) : k < Count /\ IsLocal(k)
  BY <1>1, <1>2, <1>5
<1> QED
  BY <1>1, <1>2, <1>3, <1>5, <1>6, <1>7

\* Two symbols change places, and nothing else moves.
LEMMA SwapMoves ==
    ASSUME symtab \in Seq(Symbols), Count \in Nat,
           NEW p \in 1 .. (Count - 1), NEW q \in 1 .. (Count - 1), p # q,
           symtab' = Swapped(p, q)
    PROVE  /\ symtab' \in Seq(Symbols) /\ Count' = Count
           /\ \A i \in 0 .. (Count - 1) :
                 /\ Renamed(i, p, q) \in 0 .. (Count - 1)
                 /\ Renamed(i, p, q) = 0 <=> i = 0
                 /\ symtab'[Renamed(i, p, q) + 1] = symtab[i + 1]
                 /\ symtab'[i + 1] = symtab[Renamed(i, p, q) + 1]
<1> DEFINE S == Symbols
<1>1. symtab \in Seq(S) /\ DOMAIN symtab = 1 .. Count
  BY DEF Count
<1>2. p + 1 \in 1 .. Count /\ q + 1 \in 1 .. Count /\ p + 1 # q + 1
  OBVIOUS
<1> HIDE DEF S
<1>3. /\ symtab' \in Seq(S) /\ Len(symtab') = Len(symtab)
      /\ symtab'[p + 1] = symtab[q + 1] /\ symtab'[q + 1] = symtab[p + 1]
      /\ \A i \in 1 .. Count : i \notin {p + 1, q + 1} => symtab'[i] = symtab[i]
  BY <1>1, <1>2 DEF Swapped, Count
<1>4. ASSUME NEW i \in 0 .. (Count - 1)
      PROVE  /\ Renamed(i, p, q) \in 0 .. (Count - 1)
             /\ Renamed(i, p, q) = 0 <=> i = 0
             /\ symtab'[Renamed(i, p, q) + 1] = symtab[i + 1]
             /\ symtab'[i + 1] = symtab[Renamed(i, p, q) + 1]
  <2>1. i + 1 \in 1 .. Count
    OBVIOUS
  <2> QED
    BY <1>2, <1>3, <2>1 DEF Renamed
<1>5. Count' = Count
  BY <1>3 DEF Count
<1> QED
  BY <1>3, <1>4, <1>5 DEF S
-----------------------------------------------------------------------------
\* What is known of the symbols, and of one relocation, rests on the tables.
LEMMA SymbolsSame ==
    ASSUME UNCHANGED <<strtab, symtab, added, failures>>
    PROVE  /\ SymbolsInv' <=> SymbolsInv
           /\ \A e, m : RelocMatches(e, m)' <=> RelocMatches(e, m)
<1>1. \A s : SymbolMatches(s)' <=> SymbolMatches(s)
  BY DEF SymbolMatches
<1>2. Count' = Count /\ NullSymbol' = NullSymbol
  BY DEF Count, NullSymbol
<1>3. \A i : Born(i)' = Born(i)
  BY DEF Born
<1>4. SymbolsInv' <=> SymbolsInv
  BY <1>1, <1>2 DEF SymbolsInv
<1>5. ASSUME NEW e, NEW m
      PROVE  RelocMatches(e, m)' <=> RelocMatches(e, m)
  BY <1>2, <1>3 DEF RelocMatches, R_SYM, R_TYPE
<1> QED
  BY <1>4, <1>5

\* Nothing but the relocations changes.
LEMMA TablesSame ==
    ASSUME UNCHANGED <<strtab, symtab, info, pc, first, added, failures, arranged>>
    PROVE  /\ SymbolsInv' <=> SymbolsInv
           /\ ArrangeInv' <=> ArrangeInv
           /\ \A e, m : RelocMatches(e, m)' <=> RelocMatches(e, m)
<1>1. \A i : IsLocal(i)' <=> IsLocal(i)
  BY DEF IsLocal
<1>2. Count' = Count
  BY DEF Count
<1>3. ArrangeInv' <=> ArrangeInv
  BY <1>1, <1>2 DEF ArrangeInv, LocalsFirst
<1> QED
  BY <1>3, SymbolsSame

\* add_symbol on its own.
LEMMA AddSymbolStep ==
    ASSUME TablesAssumption, TablesInv, NEW str \in Strings, NEW bind \in Binds,
           NEW lack \in SUBSET AppendsOfEntry, AddSymbol(str, bind, Len(added) + 1, lack)
    PROVE  TablesInv'
<1>1. /\ AddSymbolWith(str, bind, Len(added) + 1, lack) /\ UNCHANGED <<relocs, meant>>
      /\ TypeOK /\ SymbolsInv /\ RelocsInv /\ pc = "idle"
  BY DEF AddSymbol, TablesInv, AddSymbolWith
<1>2. /\ strtab' \in Seq(Nat) /\ symtab' \in Seq(Symbols')
      /\ result' \in Int /\ failures' \in 0 .. MaxFailures
      /\ added' \in Seq([str : Strings, bind : Binds, value : Nat])
      /\ UNCHANGED <<info, pc, first>> /\ arranged' = FALSE
  BY <1>1, AddTyped
<1>3. TypeOK'
  BY <1>1, <1>2 DEF TypeOK, Entries, Meanings
<1>4. ArrangeInv'
  BY <1>1, <1>2 DEF ArrangeInv, LocalsFirst
<1>5. SymbolsInv'
  BY <1>1, AddMatches
<1>6. RelocsInv'
  <2> SUFFICES ASSUME Callback, failures' = 0, NEW r \in DOMAIN relocs
               PROVE  RelocMatches(relocs[r], meant[r])'
    BY <1>1 DEF RelocsInv
  <2>1. failures = 0
    BY <1>1, AddGrows
  <2>2. \A e, m : RelocMatches(e, m) => RelocMatches(e, m)'
    BY <1>1, OthersFollow
  <2>3. RelocMatches(relocs[r], meant[r])
    BY <1>1, <2>1 DEF RelocsInv
  <2>4. PICK e, m : e = relocs[r] /\ m = meant[r]
    OBVIOUS
  <2>5. RelocMatches(e, m)'
    BY <2>2, <2>3, <2>4
  <2> QED
    BY <1>1, <2>4, <2>5 DEF RelocMatches, R_SYM, R_TYPE
<1> QED
  BY <1>3, <1>4, <1>5, <1>6 DEF TablesInv

\* add_entry with a symbol of its own, when the relocation is added too.
LEMMA AddAllWhole ==
    ASSUME TablesAssumption, TablesInv, NEW str \in Strings, NEW bind \in Binds,
           NEW lack \in SUBSET AppendsOfEntry, NEW offset \in Offsets, NEW type \in Types,
           AddAll(str, bind, Len(added) + 1, offset, type, lack), "relocation" \notin lack
    PROVE  TablesInv'
<1> DEFINE n == Len(relocs)
           e == Entry(offset, result', type, 0)
           m == Meaning(offset, Len(added'), type, 0)
<1>1. /\ AddSymbolWith(str, bind, Len(added) + 1, lack)
      /\ relocs' = Append(relocs, e) /\ meant' = Append(meant, m)
      /\ TypeOK /\ SymbolsInv /\ RelocsInv /\ pc = "idle"
  BY DEF AddAll, TablesInv, AddSymbolWith
<1>2. /\ strtab' \in Seq(Nat) /\ symtab' \in Seq(Symbols')
      /\ result' \in Int /\ failures' \in 0 .. MaxFailures
      /\ added' \in Seq([str : Strings, bind : Binds, value : Nat])
      /\ UNCHANGED <<info, pc, first>> /\ arranged' = FALSE
  BY <1>1, AddTyped
<1>3. e \in Entries /\ m \in Meanings
  <2>1. Len(added') \in Nat
    BY <1>2
  <2> QED
    BY <1>2, <2>1, EntryTyped
<1>4. /\ relocs \in Seq(Entries) /\ meant \in Seq(Meanings) /\ Len(meant) = n /\ n \in Nat
  BY <1>1 DEF TypeOK
<1>5. /\ relocs' \in Seq(Entries) /\ meant' \in Seq(Meanings) /\ Len(meant') = Len(relocs')
      /\ DOMAIN relocs' = 1 .. (n + 1) /\ relocs'[n + 1] = e /\ meant'[n + 1] = m
      /\ \A r \in 1 .. n : relocs'[r] = relocs[r] /\ meant'[r] = meant[r]
  <2> HIDE DEF e, m
  <2> DEFINE E == Entries
             M == Meanings
  <2>1. /\ relocs \in Seq(E) /\ meant \in Seq(M) /\ e \in E /\ m \in M
    BY <1>3, <1>4
  <2> HIDE DEF E, M
  <2>2. /\ relocs' \in Seq(E) /\ meant' \in Seq(M) /\ Len(meant') = Len(relocs')
        /\ DOMAIN relocs' = 1 .. (n + 1) /\ relocs'[n + 1] = e /\ meant'[n + 1] = m
        /\ \A r \in 1 .. n : relocs'[r] = relocs[r] /\ meant'[r] = meant[r]
    BY <1>1, <1>4, <2>1
  <2> QED
    BY <2>2 DEF E, M
<1>6. TypeOK'
  BY <1>1, <1>2, <1>5 DEF TypeOK, Entries, Meanings
<1>7. ArrangeInv'
  BY <1>1, <1>2 DEF ArrangeInv, LocalsFirst
<1>8. SymbolsInv'
  BY <1>1, AddMatches
<1>9. RelocsInv'
  <2> SUFFICES ASSUME Callback, failures' = 0, NEW r \in DOMAIN relocs'
               PROVE  RelocMatches(relocs[r], meant[r])'
    BY DEF RelocsInv
  <2>1. /\ failures = 0 /\ Count' = Len(added) + 2 /\ result' = Len(added) + 1
        /\ symtab'[Len(added) + 2].born = Len(added) + 1
        /\ Len(added) \in Nat /\ Len(added') = Len(added) + 1
    <3>1. Len(added) + 1 \in Nat /\ Len(added) \in Nat
      BY <1>1 DEF TypeOK
    <3>2. Len(added') = Len(added) + 1
      BY <1>1, <3>1, HistoryGrows DEF AddSymbolWith
    <3>3. /\ failures = 0 /\ Count' = Len(added) + 2 /\ result' = Len(added) + 1
          /\ symtab'[Len(added) + 2] = [name |-> StringIndex, bind |-> bind,
                                        value |-> Len(added) + 1, born |-> Len(added) + 1]
      BY <1>1, AddGrows
    <3> QED
      BY <3>1, <3>2, <3>3
  <2>2. CASE r # n + 1
    <3>1. r \in 1 .. n /\ relocs'[r] = relocs[r] /\ meant'[r] = meant[r] /\ r \in DOMAIN relocs
      BY <1>4, <1>5, <2>2
    <3>2. RelocMatches(relocs[r], meant[r])
      BY <1>1, <2>1, <3>1 DEF RelocsInv
    <3>3. \A x, y : RelocMatches(x, y) => RelocMatches(x, y)'
      BY <1>1, OthersFollow
    <3>4. PICK x, y : x = relocs[r] /\ y = meant[r]
      OBVIOUS
    <3>5. RelocMatches(x, y)'
      BY <3>2, <3>3, <3>4
    <3> QED
      BY <3>1, <3>4, <3>5 DEF RelocMatches, R_SYM, R_TYPE
  <2>3. CASE r = n + 1
    <3>1. relocs'[r] = e /\ meant'[r] = m
      BY <1>5, <2>3
    <3>2. type \in 0 .. 255
      BY DEF TablesAssumption
    <3>3. R_SYM(e.r_info) = result' /\ R_TYPE(e.r_info) = type
          /\ e.offset = offset /\ e.addend = 0
      BY <1>2, <3>2, InfoParts DEF Entry
    <3>4. m.born = Len(added) + 1 /\ m.type = type /\ m.offset = offset /\ m.addend = 0
      BY <2>1 DEF Meaning
    <3>5. result' \in 0 .. (Count' - 1)
      BY <2>1
    <3>6. result' + 1 = Len(added) + 2 /\ result' + 1 \in DOMAIN symtab'
      <4>1. DOMAIN symtab' = 1 .. Count'
        BY <1>2 DEF Count
      <4> QED
        BY <2>1, <4>1
    <3> HIDE DEF e, m
    <3>7. (R_SYM(relocs[r].r_info))' = result' /\ (R_TYPE(relocs[r].r_info))' = type
      BY <3>1, <3>3 DEF R_SYM, R_TYPE
    <3>8. Born(R_SYM(relocs[r].r_info))' = Len(added) + 1
      BY <2>1, <3>6, <3>7 DEF Born
    <3> QED
      BY <3>1, <3>3, <3>4, <3>5, <3>7, <3>8 DEF RelocMatches
  <2> QED
    BY <2>2, <2>3
<1> QED
  BY <1>6, <1>7, <1>8, <1>9 DEF TablesInv

\* Without memory for the relocation it is add_symbol.
LEMMA AddAllStep ==
    ASSUME TablesAssumption, TablesInv, NEW str \in Strings, NEW bind \in Binds,
           NEW lack \in SUBSET AppendsOfEntry, NEW offset \in Offsets, NEW type \in Types,
           AddAll(str, bind, Len(added) + 1, offset, type, lack)
    PROVE  TablesInv'
<1>1. CASE "relocation" \in lack
  <2>1. AddSymbol(str, bind, Len(added) + 1, lack)
    BY <1>1 DEF AddAll, AddSymbol
  <2> QED
    BY <2>1, AddSymbolStep
<1>2. CASE "relocation" \notin lack
  BY <1>2, AddAllWhole
<1> QED
  BY <1>1, <1>2

\* An entry that is not added is counted.
LEMMA AddEntryStarvedStep ==
    ASSUME TablesAssumption, TablesInv, AddEntryStarved
    PROVE  TablesInv'
<1>1. /\ UNCHANGED <<strtab, symtab, info, relocs, pc, first, result, added, meant, arranged>>
      /\ failures' = failures + 1 /\ failures < MaxFailures
      /\ TypeOK /\ ArrangeInv
  BY DEF AddEntryStarved, TablesInv, tables
<1>2. failures \in Nat /\ failures' \in 0 .. MaxFailures /\ failures' # 0
  BY <1>1 DEF TypeOK, TablesAssumption
<1>3. TypeOK'
  BY <1>1, <1>2 DEF TypeOK, Symbols, Entries, Meanings
<1>4. SymbolsInv'
  BY <1>2 DEF SymbolsInv
<1>5. RelocsInv'
  BY <1>2 DEF RelocsInv
<1>6. ArrangeInv'
  BY <1>1 DEF ArrangeInv, LocalsFirst, Count, IsLocal, CanSwap, FirstNotLocal, NextLocal, Seek, Stops
<1> QED
  BY <1>3, <1>4, <1>5, <1>6 DEF TablesInv

\* add_entry for a symbol that is known.
LEMMA AddEntryStep ==
    ASSUME TablesAssumption, TablesInv, NEW index \in 0 .. (Count - 1),
           NEW offset \in Offsets, NEW type \in Types, NEW addend \in Addends,
           AddEntry(index, offset, type, addend)
    PROVE  TablesInv'
<1> DEFINE n == Len(relocs)
           e == Entry(offset, index, type, addend)
           m == Meaning(offset, Born(index), type, addend)
<1>1. /\ UNCHANGED <<strtab, symtab, info, pc, first, result, added, failures, arranged>>
      /\ relocs' = Append(relocs, e) /\ meant' = Append(meant, m)
      /\ TypeOK /\ SymbolsInv /\ RelocsInv /\ ArrangeInv
  BY DEF AddEntry, TablesInv, tables, history
<1>2. Count \in Nat
  BY <1>1 DEF TypeOK, Count
<1>3. e \in Entries /\ m \in Meanings
  <2>1. Born(index) \in Nat /\ index \in Int /\ addend \in Int
    BY <1>1, <1>2, BornTyped DEF TablesAssumption
  <2> QED
    BY <2>1, EntryTyped
<1>4. RelocMatches(e, m)
  BY <1>2, EntryMatches
<1>5. /\ relocs \in Seq(Entries) /\ meant \in Seq(Meanings) /\ Len(meant) = n /\ n \in Nat
  BY <1>1 DEF TypeOK
<1>6. /\ relocs' \in Seq(Entries) /\ meant' \in Seq(Meanings) /\ Len(meant') = Len(relocs')
      /\ DOMAIN relocs' = 1 .. (n + 1) /\ relocs'[n + 1] = e /\ meant'[n + 1] = m
      /\ \A r \in 1 .. n : relocs'[r] = relocs[r] /\ meant'[r] = meant[r]
  <2> HIDE DEF e, m
  <2> DEFINE E == Entries
             M == Meanings
  <2>1. /\ relocs \in Seq(E) /\ meant \in Seq(M) /\ e \in E /\ m \in M
    BY <1>3, <1>5
  <2> HIDE DEF E, M
  <2>2. /\ relocs' \in Seq(E) /\ meant' \in Seq(M) /\ Len(meant') = Len(relocs')
        /\ DOMAIN relocs' = 1 .. (n + 1) /\ relocs'[n + 1] = e /\ meant'[n + 1] = m
        /\ \A r \in 1 .. n : relocs'[r] = relocs[r] /\ meant'[r] = meant[r]
    BY <1>1, <1>5, <2>1
  <2> QED
    BY <2>2 DEF E, M
<1>7. TypeOK'
  BY <1>1, <1>6 DEF TypeOK, Entries, Meanings, Symbols
<1>8. SymbolsInv' /\ ArrangeInv'
  BY <1>1, TablesSame
<1>9. RelocsInv'
  <2> SUFFICES ASSUME Callback, failures = 0, NEW r \in 1 .. (n + 1)
               PROVE  RelocMatches(relocs[r], meant[r])'
    BY <1>1, <1>6 DEF RelocsInv
  <2>1. \A x, y : RelocMatches(x, y) => RelocMatches(x, y)'
    BY <1>1, TablesSame
  <2>2. PICK x, y : x = relocs'[r] /\ y = meant'[r]
    OBVIOUS
  <2>3. RelocMatches(x, y)
    <3>1. CASE r # n + 1
      <4>1. r \in 1 .. n /\ r \in DOMAIN relocs
        BY <1>5, <3>1
      <4> QED
        BY <1>1, <1>6, <2>2, <4>1 DEF RelocsInv
    <3>2. CASE r = n + 1
      BY <1>4, <1>6, <2>2, <3>2
    <3> QED
      BY <3>1, <3>2
  <2>4. RelocMatches(x, y)'
    BY <2>1, <2>3
  <2> QED
    BY <2>2, <2>4 DEF RelocMatches, R_SYM, R_TYPE
<1> QED
  BY <1>7, <1>8, <1>9 DEF TablesInv

\* set_entry.
LEMMA SetEntryStep ==
    ASSUME TablesAssumption, TablesInv, NEW index \in 0 .. (Count - 1),
           NEW offset \in Offsets, NEW type \in Types, NEW addend \in Addends,
           NEW i \in DOMAIN relocs, SetEntry(i, index, offset, type, addend)
    PROVE  TablesInv'
<1> DEFINE n == Len(relocs)
           e == Entry(offset, index, type, addend)
           m == Meaning(offset, Born(index), type, addend)
<1>1. /\ UNCHANGED <<strtab, symtab, info, pc, first, result, added, failures, arranged>>
      /\ relocs' = [relocs EXCEPT ![i] = e] /\ meant' = [meant EXCEPT ![i] = m]
      /\ TypeOK /\ SymbolsInv /\ RelocsInv /\ ArrangeInv
  BY DEF SetEntry, TablesInv, tables, history
<1>2. Count \in Nat
  BY <1>1 DEF TypeOK, Count
<1>3. e \in Entries /\ m \in Meanings
  <2>1. Born(index) \in Nat /\ index \in Int /\ addend \in Int
    BY <1>1, <1>2, BornTyped DEF TablesAssumption
  <2> QED
    BY <2>1, EntryTyped
<1>4. RelocMatches(e, m)
  BY <1>2, EntryMatches
<1>5. /\ relocs \in Seq(Entries) /\ meant \in Seq(Meanings) /\ Len(meant) = n /\ n \in Nat
      /\ DOMAIN relocs = 1 .. n /\ DOMAIN meant = 1 .. n
  BY <1>1 DEF TypeOK
<1>6. /\ relocs' \in Seq(Entries) /\ meant' \in Seq(Meanings) /\ Len(meant') = Len(relocs')
      /\ DOMAIN relocs' = 1 .. n /\ relocs'[i] = e /\ meant'[i] = m
      /\ \A r \in 1 .. n : r # i => relocs'[r] = relocs[r] /\ meant'[r] = meant[r]
  <2> HIDE DEF e, m
  <2> DEFINE E == Entries
             M == Meanings
  <2>1. /\ relocs \in Seq(E) /\ meant \in Seq(M) /\ e \in E /\ m \in M
    BY <1>3, <1>5
  <2> HIDE DEF E, M
  <2>2. /\ relocs' \in Seq(E) /\ meant' \in Seq(M) /\ Len(meant') = Len(relocs')
        /\ DOMAIN relocs' = 1 .. n /\ relocs'[i] = e /\ meant'[i] = m
        /\ \A r \in 1 .. n : r # i => relocs'[r] = relocs[r] /\ meant'[r] = meant[r]
    BY <1>1, <1>5, <2>1
  <2> QED
    BY <2>2 DEF E, M
<1>7. TypeOK'
  BY <1>1, <1>6 DEF TypeOK, Entries, Meanings, Symbols
<1>8. SymbolsInv' /\ ArrangeInv'
  BY <1>1, TablesSame
<1>9. RelocsInv'
  <2> SUFFICES ASSUME Callback, failures = 0, NEW r \in 1 .. n
               PROVE  RelocMatches(relocs[r], meant[r])'
    BY <1>1, <1>6 DEF RelocsInv
  <2>1. \A x, y : RelocMatches(x, y) => RelocMatches(x, y)'
    BY <1>1, TablesSame
  <2>2. PICK x, y : x = relocs'[r] /\ y = meant'[r]
    OBVIOUS
  <2>3. RelocMatches(x, y)
    <3>1. CASE r # i
      <4>1. r \in DOMAIN relocs
        BY <1>5
      <4> QED
        BY <1>1, <1>6, <2>2, <3>1, <4>1 DEF RelocsInv
    <3>2. CASE r = i
      BY <1>4, <1>6, <2>2, <3>2
    <3> QED
      BY <3>1, <3>2
  <2>4. RelocMatches(x, y)'
    BY <2>1, <2>3
  <2> QED
    BY <2>2, <2>4 DEF RelocMatches, R_SYM, R_TYPE
<1> QED
  BY <1>7, <1>8, <1>9 DEF TablesInv
-----------------------------------------------------------------------------
\* arrange_local_symbols begins.
LEMMA StartArrangeStep ==
    ASSUME TablesInv, StartArrange
    PROVE  TablesInv'
<1>1. /\ UNCHANGED <<strtab, symtab, info, relocs, result, added, failures, meant, arranged>>
      /\ pc' = "arrange" /\ first' = 1
      /\ TypeOK /\ SymbolsInv /\ RelocsInv /\ LocalsFirst
  BY DEF StartArrange, TablesInv, ArrangeInv, tables, history
<1>2. TypeOK'
  BY <1>1 DEF TypeOK, Symbols, Entries, Meanings
<1>3. /\ SymbolsInv'
      /\ \A e, m : RelocMatches(e, m)' <=> RelocMatches(e, m)
  BY <1>1, SymbolsSame
<1>4. RelocsInv'
  <2> SUFFICES ASSUME Callback, failures = 0, NEW r \in DOMAIN relocs
               PROVE  RelocMatches(relocs[r], meant[r])'
    BY <1>1 DEF RelocsInv
  <2>1. PICK e, m : e = relocs[r] /\ m = meant[r]
    OBVIOUS
  <2>2. RelocMatches(e, m)'
    BY <1>1, <1>3, <2>1 DEF RelocsInv
  <2> QED
    BY <1>1, <2>1, <2>2 DEF RelocMatches, R_SYM, R_TYPE
<1>5. ArrangeInv'
  <2>1. LocalsFirst'
    BY <1>1 DEF LocalsFirst, IsLocal, Count
  <2> QED
    BY <1>1, <2>1 DEF ArrangeInv
<1> QED
  BY <1>2, <1>3, <1>4, <1>5 DEF TablesInv

\* swap_symbols: every relocation of the one symbol becomes one of the other.
LEMMA SwapTyped ==
    ASSUME relocs \in Seq(Entries), NEW p \in Nat, NEW q \in Nat, SwapSymbols(p, q)
    PROVE  /\ relocs' \in Seq(Entries) /\ Len(relocs') = Len(relocs)
           /\ \A r \in DOMAIN relocs :
                 /\ R_SYM(relocs'[r].r_info) = Renamed(R_SYM(relocs[r].r_info), p, q)
                 /\ R_TYPE(relocs'[r].r_info) = R_TYPE(relocs[r].r_info)
                 /\ relocs'[r].offset = relocs[r].offset
                 /\ relocs'[r].addend = relocs[r].addend
<1> DEFINE n == Len(relocs)
           After(e) == [e EXCEPT !.r_info = R_INFO(Renamed(R_SYM(@), p, q), R_TYPE(@))]
<1>1. n \in Nat /\ DOMAIN relocs = 1 .. n /\ \A r \in 1 .. n : relocs[r] \in Entries
  <2> DEFINE E == Entries
  <2>1. relocs \in Seq(E)
    OBVIOUS
  <2> HIDE DEF E
  <2>2. n \in Nat /\ DOMAIN relocs = 1 .. n /\ \A r \in 1 .. n : relocs[r] \in E
    BY <2>1
  <2> QED
    BY <2>2 DEF E
<1>2. relocs' = [r \in 1 .. n |-> After(relocs[r])]
  BY <1>1 DEF SwapSymbols
<1>3. ASSUME NEW e \in Entries
      PROVE  /\ After(e) \in Entries
             /\ R_SYM(After(e).r_info) = Renamed(R_SYM(e.r_info), p, q)
             /\ R_TYPE(After(e).r_info) = R_TYPE(e.r_info)
             /\ After(e).offset = e.offset /\ After(e).addend = e.addend
  <2>1. e.r_info \in Int /\ e.offset \in Nat /\ e.addend \in Int
    BY DEF Entries
  <2>2. R_SYM(e.r_info) \in Int /\ R_TYPE(e.r_info) \in 0 .. 255
    <3>1. \A x \in Int : x \div 256 \in Int /\ x % 256 \in 0 .. 255
      OBVIOUS
    <3> QED
      BY <2>1, <3>1 DEF R_SYM, R_TYPE
  <2>3. Renamed(R_SYM(e.r_info), p, q) \in Int
    BY <2>2 DEF Renamed
  <2> DEFINE new == R_INFO(Renamed(R_SYM(e.r_info), p, q), R_TYPE(e.r_info))
  <2>4. new \in Int /\ R_SYM(new) = Renamed(R_SYM(e.r_info), p, q)
        /\ R_TYPE(new) = R_TYPE(e.r_info)
    BY <2>2, <2>3, InfoParts
  <2> HIDE DEF new
  <2>5. /\ [e EXCEPT !.r_info = new] \in Entries
        /\ [e EXCEPT !.r_info = new].r_info = new
        /\ [e EXCEPT !.r_info = new].offset = e.offset
        /\ [e EXCEPT !.r_info = new].addend = e.addend
    BY <2>4 DEF Entries
  <2>6. After(e) = [e EXCEPT !.r_info = new]
    BY DEF new
  <2> QED
    BY <2>4, <2>5, <2>6
<1> HIDE DEF After
<1>4. \A r \in 1 .. n : relocs'[r] = After(relocs[r]) /\ relocs'[r] \in Entries
  BY <1>1, <1>2, <1>3
<1>5. relocs' \in Seq(Entries) /\ Len(relocs') = n
  BY <1>1, <1>2, <1>4
<1> QED
  BY <1>1, <1>3, <1>4, <1>5

\* One exchange: the symbols stay what they are, and so do the relocations'.
LEMMA ExchangeStep ==
    ASSUME TablesInv, Exchange
    PROVE  TablesInv'
<1> DEFINE p == FirstNotLocal
           q == NextLocal
<1>1. /\ pc = "arrange" /\ p < Count /\ q < Count
      /\ IF Callback THEN SwapSymbols(p, q) ELSE UNCHANGED relocs
      /\ symtab' = Swapped(p, q) /\ first' = p
      /\ UNCHANGED <<strtab, info, pc, result, added, failures, meant, arranged>>
      /\ TypeOK /\ SymbolsInv /\ RelocsInv /\ ArrangeInv
  BY DEF Exchange, TablesInv, CanSwap, history
<1>2. /\ Count \in Nat /\ p \in Nat /\ q \in Nat /\ 1 <= p /\ p < q
      /\ \A k \in 1 .. (p - 1) : k < Count /\ IsLocal(k)
      /\ ~ IsLocal(p) /\ IsLocal(q)
  BY <1>1, Cursor
<1> HIDE DEF p, q
<1>3. p \in 1 .. (Count - 1) /\ q \in 1 .. (Count - 1) /\ p # q
  BY <1>1, <1>2
<1>4. symtab \in Seq(Symbols) /\ relocs \in Seq(Entries)
  BY <1>1 DEF TypeOK
<1>5. /\ symtab' \in Seq(Symbols) /\ Count' = Count
      /\ \A i \in 0 .. (Count - 1) :
            /\ Renamed(i, p, q) \in 0 .. (Count - 1)
            /\ Renamed(i, p, q) = 0 <=> i = 0
            /\ symtab'[Renamed(i, p, q) + 1] = symtab[i + 1]
            /\ symtab'[i + 1] = symtab[Renamed(i, p, q) + 1]
  BY <1>1, <1>2, <1>3, <1>4, SwapMoves
<1>6. relocs' \in Seq(Entries) /\ Len(relocs') = Len(relocs)
  BY <1>1, <1>2, <1>4, SwapTyped
<1>7. TypeOK'
  <2>1. Symbols' = Symbols
    BY <1>1 DEF Symbols
  <2> QED
    BY <1>1, <1>2, <1>5, <1>6, <2>1 DEF TypeOK, Entries, Meanings
<1>8. SymbolsInv'
  <2> SUFFICES ASSUME failures = 0
               PROVE  /\ added # <<>>
                      /\ Count = Len(added) + 1
                      /\ symtab'[1] = NullSymbol
                      /\ \A n \in DOMAIN added : \E i \in 2 .. Count : symtab'[i].born = n
                      /\ \A i \in 2 .. Count : SymbolMatches(symtab[i])'
    BY <1>1, <1>5 DEF SymbolsInv, NullSymbol
  <2>1. added # <<>>
    <3>1. symtab # <<>>
      BY <1>2, <1>3 DEF Count
    <3> QED
      BY <1>1, <3>1 DEF SymbolsInv
  <2>2. /\ Count = Len(added) + 1 /\ symtab[1] = NullSymbol
        /\ \A n \in DOMAIN added : \E i \in 2 .. Count : symtab[i].born = n
        /\ \A i \in 2 .. Count : SymbolMatches(symtab[i])
    BY <1>1, <2>1 DEF SymbolsInv
  <2>3. symtab'[1] = NullSymbol
    <3>1. 0 \in 0 .. (Count - 1)
      BY <1>2, <1>3
    <3>2. Renamed(0, p, q) = 0 /\ symtab'[0 + 1] = symtab[Renamed(0, p, q) + 1]
      BY <1>5, <3>1
    <3> QED
      BY <2>2, <3>2
  <2>4. ASSUME NEW i \in 2 .. Count
        PROVE  \E j \in 2 .. Count : symtab'[j] = symtab[i]
    <3>1. i - 1 \in 0 .. (Count - 1) /\ i - 1 # 0 /\ (i - 1) + 1 = i
      BY <1>2
    <3>2. PICK j : j = Renamed(i - 1, p, q)
      OBVIOUS
    <3>3. /\ j \in 0 .. (Count - 1) /\ j # 0
          /\ symtab'[j + 1] = symtab[i]
      BY <1>5, <3>1, <3>2
    <3>4. j + 1 \in 2 .. Count
      BY <1>2, <3>3
    <3> QED
      BY <3>3, <3>4
  <2>5. ASSUME NEW i \in 2 .. Count
        PROVE  \E j \in 2 .. Count : symtab'[i] = symtab[j]
    <3>1. i - 1 \in 0 .. (Count - 1) /\ i - 1 # 0 /\ (i - 1) + 1 = i
      BY <1>2
    <3>2. PICK j : j = Renamed(i - 1, p, q)
      OBVIOUS
    <3>3. /\ j \in 0 .. (Count - 1) /\ j # 0
          /\ symtab'[i] = symtab[j + 1]
      BY <1>5, <3>1, <3>2
    <3>4. j + 1 \in 2 .. Count
      BY <1>2, <3>3
    <3> QED
      BY <3>3, <3>4
  <2>6. ASSUME NEW n \in DOMAIN added
        PROVE  \E i \in 2 .. Count : symtab'[i].born = n
    <3>1. PICK i \in 2 .. Count : symtab[i].born = n
      BY <2>2
    <3> QED
      BY <2>4, <3>1
  <2>7. ASSUME NEW i \in 2 .. Count
        PROVE  SymbolMatches(symtab[i])'
    <3>1. PICK j \in 2 .. Count : symtab'[i] = symtab[j]
      BY <2>5
    <3>2. SymbolMatches(symtab[j])
      BY <2>2
    <3> QED
      BY <1>1, <3>1, <3>2 DEF SymbolMatches
  <2> QED
    BY <2>1, <2>2, <2>3, <2>6, <2>7
<1>9. RelocsInv'
  <2> SUFFICES ASSUME Callback, failures = 0, NEW r \in DOMAIN relocs
               PROVE  RelocMatches(relocs[r], meant[r])'
    BY <1>1, <1>4, <1>6 DEF RelocsInv
  <2> DEFINE index == R_SYM(relocs[r].r_info)
             now == R_SYM(relocs'[r].r_info)
  <2>1. /\ now = Renamed(index, p, q)
        /\ R_TYPE(relocs'[r].r_info) = R_TYPE(relocs[r].r_info)
        /\ relocs'[r].offset = relocs[r].offset /\ relocs'[r].addend = relocs[r].addend
    BY <1>1, <1>2, <1>4, SwapTyped
  <2>2. /\ index \in 0 .. (Count - 1) /\ Born(index) = meant[r].born
        /\ R_TYPE(relocs[r].r_info) = meant[r].type
        /\ relocs[r].offset = meant[r].offset /\ relocs[r].addend = meant[r].addend
    BY <1>1 DEF RelocsInv, RelocMatches
  <2> HIDE DEF index
  <2>3. now \in 0 .. (Count - 1) /\ symtab'[now + 1] = symtab[index + 1]
    BY <1>5, <2>1, <2>2
  <2>4. /\ DOMAIN symtab = 1 .. Count /\ DOMAIN symtab' = 1 .. Count
    BY <1>2, <1>4, <1>5 DEF Count
  <2> HIDE DEF now
  <2>5. index + 1 \in 1 .. Count /\ now + 1 \in 1 .. Count
    BY <1>2, <2>2, <2>3
  <2>6. (R_SYM(relocs[r].r_info))' = now /\ (R_TYPE(relocs[r].r_info))' = meant[r].type
    BY <2>1, <2>2 DEF now, R_SYM, R_TYPE
  <2>7. Born(R_SYM(relocs[r].r_info))' = meant[r].born
    BY <2>2, <2>3, <2>4, <2>5, <2>6 DEF Born
  <2> QED
    BY <1>1, <1>5, <2>1, <2>2, <2>3, <2>6, <2>7 DEF RelocMatches
<1>10. ArrangeInv'
  <2>1. arranged = FALSE
    <3>1. arranged \in BOOLEAN
      BY <1>1 DEF TypeOK
    <3> SUFFICES ASSUME arranged PROVE FALSE
      BY <3>1
    <3>2. \A i \in 1 .. (Count - 1) : IsLocal(i) <=> i < info
      BY <1>1 DEF ArrangeInv, LocalsFirst
    <3>3. q < info /\ ~ (p < info)
      BY <1>2, <1>3, <3>2
    <3>4. info \in Nat
      BY <1>1 DEF TypeOK
    <3> QED
      BY <1>2, <3>3, <3>4
  <2>2. ASSUME NEW k \in 1 .. (p - 1)
        PROVE  k < Count /\ IsLocal(k)'
    <3>1. k \in 0 .. (Count - 1) /\ k # p /\ k # q
      BY <1>2, <1>3
    <3>2. Renamed(k, p, q) = k
      BY <3>1 DEF Renamed
    <3>3. symtab'[k + 1] = symtab[k + 1]
      BY <1>5, <3>1, <3>2
    <3> QED
      BY <1>2, <3>3 DEF IsLocal
  <2> QED
    BY <1>1, <1>2, <1>5, <2>1, <2>2 DEF ArrangeInv, LocalsFirst
<1> QED
  BY <1>7, <1>8, <1>9, <1>10 DEF TablesInv

\* The last exchange is done: sh_info is where the cursor stopped.
LEMMA ArrangedStep ==
    ASSUME TablesInv, Arranged
    PROVE  TablesInv'
<1> DEFINE p == FirstNotLocal
           q == NextLocal
<1>1. /\ pc = "arrange" /\ ~ (p < Count /\ q < Count)
      /\ info' = p /\ result' = p /\ pc' = "idle" /\ arranged' = TRUE
      /\ UNCHANGED <<strtab, symtab, relocs, first, added, failures, meant>>
      /\ TypeOK /\ SymbolsInv /\ RelocsInv /\ ArrangeInv
  BY DEF Arranged, TablesInv, CanSwap, tables, history
<1>2. /\ Count \in Nat /\ p \in Nat /\ q \in Nat /\ 1 <= p /\ p < q
      /\ \A k \in 1 .. (p - 1) : k < Count /\ IsLocal(k)
      /\ p < Count => ~ IsLocal(p)
      /\ \A k \in (p + 1) .. (q - 1) : k < Count /\ ~ IsLocal(k)
  BY <1>1, Cursor
<1> HIDE DEF p, q
<1>3. TypeOK'
  BY <1>1, <1>2 DEF TypeOK, Symbols, Entries, Meanings
<1>4. /\ SymbolsInv'
      /\ \A e, m : RelocMatches(e, m)' <=> RelocMatches(e, m)
  BY <1>1, SymbolsSame
<1>5. RelocsInv'
  <2> SUFFICES ASSUME Callback, failures = 0, NEW r \in DOMAIN relocs
               PROVE  RelocMatches(relocs[r], meant[r])'
    BY <1>1 DEF RelocsInv
  <2>1. PICK e, m : e = relocs[r] /\ m = meant[r]
    OBVIOUS
  <2>2. RelocMatches(e, m)'
    BY <1>1, <1>4, <2>1 DEF RelocsInv
  <2> QED
    BY <1>1, <2>1, <2>2 DEF RelocMatches, R_SYM, R_TYPE
<1>6. ASSUME NEW i \in 1 .. (Count - 1)
      PROVE  IsLocal(i) <=> i < p
  <2>1. i \in Nat /\ i < Count /\ i >= 1
    BY <1>2
  <2>2. CASE i < p
    <3>1. i \in 1 .. (p - 1)
      BY <1>2, <2>1, <2>2
    <3> QED
      BY <1>2, <2>2, <3>1
  <2>3. CASE i = p
    BY <1>2, <2>1, <2>3
  <2>4. CASE i > p
    <3>1. i \in (p + 1) .. (q - 1)
      BY <1>1, <1>2, <2>1, <2>4
    <3>2. ~ IsLocal(i) /\ ~ (i < p)
      BY <1>2, <2>1, <2>4, <3>1
    <3> QED
      BY <3>2
  <2> QED
    BY <1>2, <2>1, <2>2, <2>3, <2>4
<1>7. ArrangeInv'
  <2>1. Count' = Count /\ \A i : IsLocal(i)' <=> IsLocal(i)
    BY <1>1 DEF Count, IsLocal
  <2> QED
    BY <1>1, <1>6, <2>1 DEF ArrangeInv, LocalsFirst
<1> QED
  BY <1>3, <1>4, <1>5, <1>7 DEF TablesInv

\* Tables that do not change.
LEMMA StutterStep ==
    ASSUME TablesInv, UNCHANGED vars
    PROVE  TablesInv'
<1>1. /\ UNCHANGED <<strtab, symtab, info, relocs, pc, first, result, added, failures, meant, arranged>>
      /\ TypeOK /\ SymbolsInv /\ RelocsInv /\ ArrangeInv
  BY DEF TablesInv, vars
<1>2. TypeOK'
  BY <1>1 DEF TypeOK, Symbols, Entries, Meanings
<1>3. /\ SymbolsInv' /\ ArrangeInv'
      /\ \A e, m : RelocMatches(e, m)' <=> RelocMatches(e, m)
  BY <1>1, TablesSame
<1>4. RelocsInv'
  <2> SUFFICES ASSUME Callback, failures = 0, NEW r \in DOMAIN relocs
               PROVE  RelocMatches(relocs[r], meant[r])'
    BY <1>1 DEF RelocsInv
  <2>1. PICK e, m : e = relocs[r] /\ m = meant[r]
    OBVIOUS
  <2>2. RelocMatches(e, m)'
    BY <1>1, <1>3, <2>1 DEF RelocsInv
  <2> QED
    BY <1>1, <2>1, <2>2 DEF RelocMatches, R_SYM, R_TYPE
<1> QED
  BY <1>2, <1>3, <1>4 DEF TablesInv
-----------------------------------------------------------------------------
\* Empty tables.
LEMMA TablesStart ==
    ASSUME TablesAssumption, Init
    PROVE  TablesInv
<1>1. TypeOK
  <2>1. MaxFailures \in Nat
    BY DEF TablesAssumption
  <2>2. \A S : <<>> \in Seq(S)
    OBVIOUS
  <2>3. /\ strtab \in Seq(Nat) /\ symtab \in Seq(Symbols)
        /\ relocs \in Seq(Entries) /\ meant \in Seq(Meanings)
        /\ added \in Seq([str : Strings, bind : Binds, value : Nat])
    BY <2>2 DEF Init
  <2>4. failures \in 0 .. MaxFailures /\ Len(meant) = Len(relocs)
    BY <2>1 DEF Init
  <2>5. info \in Nat /\ first \in Nat /\ result \in Int
    BY DEF Init
  <2>6. pc \in {"idle", "arrange"}
    BY DEF Init
  <2>7. arranged \in BOOLEAN
    <3>1. arranged = FALSE
      BY DEF Init
    <3> QED
      BY <3>1
  <2> QED
    BY <2>3, <2>4, <2>5, <2>6, <2>7 DEF TypeOK
<1>2. SymbolsInv /\ RelocsInv /\ ArrangeInv
  BY DEF Init, SymbolsInv, RelocsInv, ArrangeInv, LocalsFirst
<1> QED
  BY <1>1, <1>2 DEF TablesInv

\* Every call and every step of arrange_local_symbols keeps the invariant.
LEMMA TablesStep ==
    ASSUME TablesAssumption, TablesInv, [Next]_vars
    PROVE  TablesInv'
<1>1. ASSUME NEW str \in Strings, NEW bind \in Binds, NEW lack \in SUBSET Appends,
             AddSymbol(str, bind, Len(added) + 1, lack)
      PROVE  TablesInv'
  <2>1. lack \in SUBSET AppendsOfEntry
    BY DEF AppendsOfEntry
  <2> QED
    BY <1>1, <2>1, AddSymbolStep
<1>2. ASSUME NEW str \in Strings, NEW bind \in Binds, NEW lack \in SUBSET AppendsOfEntry,
             NEW offset \in Offsets, NEW type \in Types,
             AddAll(str, bind, Len(added) + 1, offset, type, lack)
      PROVE  TablesInv'
  BY <1>2, AddAllStep
<1>3. ASSUME NEW index \in 0 .. (Count - 1), NEW offset \in Offsets, NEW type \in Types,
             NEW addend \in Addends, AddEntry(index, offset, type, addend)
      PROVE  TablesInv'
  BY <1>3, AddEntryStep
<1>4. ASSUME NEW index \in 0 .. (Count - 1), NEW offset \in Offsets, NEW type \in Types,
             NEW addend \in Addends, NEW i \in DOMAIN relocs,
             SetEntry(i, index, offset, type, addend)
      PROVE  TablesInv'
  BY <1>4, SetEntryStep
<1>5. CASE StartArrange
  BY <1>5, StartArrangeStep
<1>6. CASE Exchange
  BY <1>6, ExchangeStep
<1>7. CASE Arranged
  BY <1>7, ArrangedStep
<1>8. CASE Full
  BY <1>8, StutterStep DEF Full
<1>9. CASE UNCHANGED vars
  BY <1>9, StutterStep
<1> QED
  BY <1>1, <1>2, <1>3, <1>4, <1>5, <1>6, <1>7, <1>8, <1>9, AddEntryStarvedStep DEF Next, Calls

\* The invariant holds in every reachable state.
LEMMA TablesAlways ==
    ASSUME TablesAssumption
    PROVE  Spec => []TablesInv
<1>1. Init => TablesInv
  BY TablesStart
<1>2. TablesInv /\ [Next]_vars => TablesInv'
  BY TablesStep
<1> QED
  BY <1>1, <1>2, PTL DEF Spec

\* What a symbol of the table and the history have in common.
LEMMA AddedTyped ==
    ASSUME TablesAssumption, TypeOK, NEW n \in DOMAIN added
    PROVE  added[n].str \in Strings /\ added[n].str \in Seq(Nat \ {0}) /\ n # 0
<1> DEFINE S == [str : Strings, bind : Binds, value : Nat]
<1>1. added \in Seq(S)
  BY DEF TypeOK
<1>2. \A a \in S : a.str \in Strings
  OBVIOUS
<1> HIDE DEF S
<1>3. added[n] \in S /\ n # 0
  BY <1>1
<1>4. added[n].str \in Strings
  BY <1>2, <1>3
<1> QED
  BY <1>3, <1>4, StringsTyped

\* Symbols and names are found as they were given.
LEMMA InvSymbolsKept ==
    ASSUME TablesAssumption, TablesInv
    PROVE  SymbolsKept
<1> SUFFICES ASSUME failures = 0, added # <<>>
             PROVE  /\ Count = Len(added) + 1
                    /\ symtab[1] = NullSymbol
                    /\ {symtab[i].born : i \in 2 .. Count} = DOMAIN added
                    /\ \A i \in 2 .. Count :
                         LET a == added[symtab[i].born] IN
                         /\ StringAt(symtab[i].name) = a.str
                         /\ symtab[i].bind = a.bind /\ symtab[i].value = a.value
  BY DEF SymbolsKept
<1>1. /\ TypeOK
      /\ Count = Len(added) + 1 /\ symtab[1] = NullSymbol
      /\ \A n \in DOMAIN added : \E i \in 2 .. Count : symtab[i].born = n
      /\ \A i \in 2 .. Count : SymbolMatches(symtab[i])
  BY DEF TablesInv, SymbolsInv
<1>2. {symtab[i].born : i \in 2 .. Count} = DOMAIN added
  <2>1. \A i \in 2 .. Count : symtab[i].born \in DOMAIN added
    BY <1>1 DEF SymbolMatches
  <2> QED
    BY <1>1, <2>1
<1>3. ASSUME NEW i \in 2 .. Count
      PROVE  /\ StringAt(symtab[i].name) = added[symtab[i].born].str
             /\ symtab[i].bind = added[symtab[i].born].bind
             /\ symtab[i].value = added[symtab[i].born].value
  <2>1. SymbolMatches(symtab[i])
    BY <1>1
  <2>2. strtab \in Seq(Nat) /\ added[symtab[i].born].str \in Seq(Nat \ {0})
    BY <1>1, <2>1, AddedTyped DEF SymbolMatches, TypeOK
  <2> QED
    BY <2>1, <2>2, StoredReads DEF SymbolMatches
<1> QED
  BY <1>1, <1>2, <1>3

\* Relocations are found with the symbols they were made for.
LEMMA InvRelocationsFollow ==
    ASSUME TablesAssumption, Callback, TablesInv
    PROVE  RelocationsFollow
<1> SUFFICES ASSUME failures = 0, NEW r \in DOMAIN relocs
             PROVE  LET m == meant[r]
                        e == relocs[r]
                        index == R_SYM(e.r_info)
                        S == IF m.born = 0 THEN 0 ELSE added[m.born].value
                    IN  /\ index \in 0 .. (Count - 1)
                        /\ Born(index) = m.born
                        /\ CalcValue(R_TYPE(e.r_info), symtab[index + 1].value, e.addend, e.offset)
                             = CalcValue(m.type, S, m.addend, m.offset)
  BY DEF RelocationsFollow
<1> DEFINE m == meant[r]
           e == relocs[r]
           index == R_SYM(e.r_info)
           S == IF m.born = 0 THEN 0 ELSE added[m.born].value
<1>1. /\ TypeOK /\ SymbolsInv
      /\ index \in 0 .. (Count - 1) /\ Born(index) = m.born /\ R_TYPE(e.r_info) = m.type
      /\ e.offset = m.offset /\ e.addend = m.addend
  BY DEF TablesInv, RelocsInv, RelocMatches
<1> HIDE DEF m, e, index
<1>2. Count \in Nat /\ DOMAIN symtab = 1 .. Count
  BY <1>1 DEF TypeOK, Count
<1>3. added # <<>>
  <2>1. symtab # <<>>
    BY <1>1, <1>2
  <2> QED
    BY <1>1, <2>1 DEF SymbolsInv
<1>4. symtab[index + 1].born = m.born
  <2>1. index + 1 \in DOMAIN symtab
    BY <1>1, <1>2
  <2> QED
    BY <1>1, <2>1 DEF Born
<1>5. symtab[index + 1].value = S
  <2>1. symtab[1] = NullSymbol /\ \A i \in 2 .. Count : SymbolMatches(symtab[i])
    BY <1>1, <1>3 DEF SymbolsInv
  <2>2. CASE index = 0
    BY <1>4, <2>1, <2>2 DEF NullSymbol
  <2>3. CASE index # 0
    <3>1. index + 1 \in 2 .. Count
      BY <1>1, <1>2, <2>3
    <3>2. SymbolMatches(symtab[index + 1])
      BY <2>1, <3>1
    <3>3. m.born \in DOMAIN added /\ symtab[index + 1].value = added[m.born].value
      BY <1>4, <3>2 DEF SymbolMatches
    <3>4. m.born # 0
      BY <1>1, <3>3, AddedTyped
    <3> QED
      BY <3>3, <3>4
  <2> QED
    BY <2>2, <2>3
<1> HIDE DEF S
<1>6. CalcValue(R_TYPE(e.r_info), symtab[index + 1].value, e.addend, e.offset)
        = CalcValue(m.type, S, m.addend, m.offset)
  BY <1>1, <1>5
<1> QED
  BY <1>1, <1>6 DEF m, e, index, S

-----------------------------------------------------------------------------
\* Whatever is added, set and arranged, every variable keeps its type.
THEOREM TablesTyped ==
    ASSUME TablesAssumption
    PROVE  Spec => []TypeOK
<1>1. TablesInv => TypeOK
  BY DEF TablesInv
<1> QED
  BY <1>1, TablesAlways, PTL

\* add_symbol, add_string and swap_symbols: while memory lasts, every symbol
\* that was added is in the table once, and its name reads back as given.
THEOREM SymbolsAreKept ==
    ASSUME TablesAssumption
    PROVE  Spec => []SymbolsKept
<1>1. TablesInv => SymbolsKept
  BY InvSymbolsKept
<1> QED
  BY <1>1, TablesAlways, PTL

\* swap_symbols as the callback of arrange_local_symbols: every relocation
\* still names the symbol it was made for, and get_entry computes its value
\* from that symbol, from before, within and after arranging.
THEOREM RelocationsAreFollowed ==
    ASSUME TablesAssumption, Callback
    PROVE  Spec => []RelocationsFollow
<1>1. TablesInv => RelocationsFollow
  BY InvRelocationsFollow
<1> QED
  BY <1>1, TablesAlways, PTL

\* arrange_local_symbols: sh_info divides the local symbols from the others,
\* even if memory failed before.
THEOREM LocalsComeFirst ==
    ASSUME TablesAssumption
    PROVE  Spec => []LocalsFirst
<1>1. TablesInv => LocalsFirst
  BY DEF TablesInv, ArrangeInv
<1> QED
  BY <1>1, TablesAlways, PTL
=============================================================================
