----------------------------- MODULE ElfTables ------------------------------
(***************************************************************************)
(* A string table, a symbol table and a relocation table built through the *)
(* accessors of src/elfio (elfio_strings, elfio_symbols, elfio_relocation),*)
(* and arrange_local_symbols with swap_symbols as its callback.  Each      *)
(* append_data adds all it is given or, when memory is short, nothing, and *)
(* does not tell: SectionBuffer.  Of the tables after a failure only their *)
(* types and the order of symbols are claimed, not what the bytes are once *)
(* a later append overruns its block.                                      *)
(***************************************************************************)
EXTENDS Integers, Sequences, FiniteSets

CONSTANTS
    Strings,        \* names: sequences of numbers other than 0
    Types,          \* the types of relocations
    Offsets,        \* r_offset
    Addends,        \* r_addend
    Callback,       \* is swap_symbols passed to arrange_local_symbols?
    MaxSymbols,     \* bounds of the runs: symbols, relocations, and
    MaxEntries,     \* allocations that fail
    MaxFailures

TablesAssumption ==
    /\ \A str \in Strings : str \in Seq(Nat \ {0})
    /\ Types \subseteq 0 .. 255
    /\ Offsets \subseteq Nat /\ Addends \subseteq Int
    /\ Callback \in BOOLEAN
    /\ {MaxSymbols, MaxEntries, MaxFailures} \subseteq Nat

VARIABLES
    strtab,     \* the bytes of the string table
    symtab,     \* the symbols; the born'th to be added is known by that number
    info,       \* sh_info of the symbol table
    relocs,     \* the relocations
    pc,         \* "idle", or "arrange" inside arrange_local_symbols,
    first,      \* and its first_not_local
    result,     \* what the last call returned
    added,      \* history: the arguments of each add_symbol,
    meant,      \* of each relocation what it was given, the symbol by its number,
    failures,   \* how many allocations failed,
    arranged    \* whether nothing was added since the symbols were arranged

vars == <<strtab, symtab, info, relocs, pc, first, result, added, meant, failures, arranged>>
tables == <<strtab, symtab>>
history == <<added, failures>>

Binds == {"LOCAL", "GLOBAL"}

Init ==
    /\ strtab = <<>> /\ symtab = <<>> /\ relocs = <<>>
    /\ info = 0 /\ pc = "idle" /\ first = 0 /\ result = 0
    /\ added = <<>> /\ meant = <<>> /\ failures = 0 /\ arranged = FALSE

-----------------------------------------------------------------------------
(***************************************************************************)
(* add_string, add_symbol.  `lack' says which of the appends find no       *)
(* memory.                                                                 *)
(***************************************************************************)
Appended(data, more, ok) == IF ok THEN data \o more ELSE data

NewString(str, lack) ==
    LET begun == IF strtab = <<>> THEN Appended(strtab, <<0>>, "empty" \notin lack) ELSE strtab
    IN  Appended(begun, Append(str, 0), "string" \notin lack)

StringIndex == IF strtab = <<>> THEN 1 ELSE Len(strtab)

NullSymbol == [name |-> 0, bind |-> "LOCAL", value |-> 0, born |-> 0]

NewSymbols(symbol, lack) ==
    LET begun == IF symtab = <<>> THEN Appended(symtab, <<NullSymbol>>, "null" \notin lack) ELSE symtab
    IN  Appended(begun, <<symbol>>, "symbol" \notin lack)

\* add_symbol with a string: the string, the null symbol if it is the first,
\* the symbol.  What it returns is get_size() / sizeof( entry ) - 1.
AddSymbolWith(str, bind, value, lack) ==
    /\ pc = "idle"
    /\ Len(symtab) < MaxSymbols
    /\ Cardinality(lack) + failures <= MaxFailures
    /\ strtab' = NewString(str, lack)
    /\ symtab' = NewSymbols([name |-> StringIndex, bind |-> bind, value |-> value,
                             born |-> Len(added) + 1], lack)
    /\ result' = Len(symtab') - 1
    /\ added' = Append(added, [str |-> str, bind |-> bind, value |-> value])
    /\ failures' = failures + Cardinality(lack)
    /\ arranged' = FALSE
    /\ UNCHANGED <<info, pc, first>>

AddSymbol(str, bind, value, lack) ==
    /\ AddSymbolWith(str, bind, value, lack)
    /\ UNCHANGED <<relocs, meant>>

\* ELF32_R_INFO and its inverses; symbols stay below 2^24.
R_INFO(symbol, type) == symbol * 256 + (type % 256)
R_SYM(r_info) == r_info \div 256
R_TYPE(r_info) == r_info % 256

Entry(offset, symbol, type, addend) ==
    [offset |-> offset, r_info |-> R_INFO(symbol, type), addend |-> addend]

\* What the caller of add_entry and set_entry meant.
Meaning(offset, born, type, addend) ==
    [offset |-> offset, born |-> born, type |-> type, addend |-> addend]

Born(index) == IF index + 1 \in DOMAIN symtab THEN symtab[index + 1].born ELSE 0

\* add_entry for a symbol that is added with it (no addend: SHT_REL).
AddAll(str, bind, value, offset, type, lack) ==
    /\ Len(relocs) < MaxEntries
    /\ AddSymbolWith(str, bind, value, lack)
    /\ IF "relocation" \in lack THEN UNCHANGED <<relocs, meant>>
       ELSE /\ relocs' = Append(relocs, Entry(offset, result', type, 0))
            /\ meant' = Append(meant, Meaning(offset, Len(added'), type, 0))

\* add_entry for a symbol the caller knows the index of.
AddEntry(index, offset, type, addend) ==
    /\ pc = "idle"
    /\ Len(relocs) < MaxEntries
    /\ relocs' = Append(relocs, Entry(offset, index, type, addend))
    /\ meant' = Append(meant, Meaning(offset, Born(index), type, addend))
    /\ UNCHANGED <<tables, info, pc, first, result, history, arranged>>

AddEntryStarved ==
    /\ pc = "idle"
    /\ Len(relocs) < MaxEntries
    /\ failures < MaxFailures
    /\ failures' = failures + 1
    /\ UNCHANGED <<tables, info, relocs, pc, first, result, added, meant, arranged>>

SetEntry(i, index, offset, type, addend) ==
    /\ pc = "idle"
    /\ relocs' = [relocs EXCEPT ![i] = Entry(offset, index, type, addend)]
    /\ meant' = [meant EXCEPT ![i] = Meaning(offset, Born(index), type, addend)]
    /\ UNCHANGED <<tables, info, pc, first, result, history, arranged>>

-----------------------------------------------------------------------------
(***************************************************************************)
(* arrange_local_symbols                                                   *)
(***************************************************************************)
Count == Len(symtab)
IsLocal(i) == symtab[i + 1].bind = "LOCAL"

\* The loops leave the index where they stop, at count or where they began.
Stops(from, i, local) ==
    /\ i >= from
    /\ i < Count => IsLocal(i) = local
    /\ \A k \in from .. (i - 1) : k < Count /\ IsLocal(k) # local
Seek(from, local) == CHOOSE i \in from .. (from + Count) : Stops(from, i, local)

FirstNotLocal == Seek(first, FALSE)
NextLocal == Seek(FirstNotLocal + 1, TRUE)
CanSwap == FirstNotLocal < Count /\ NextLocal < Count

\* Skip the first entry.
StartArrange ==
    /\ pc = "idle"
    /\ pc' = "arrange"
    /\ first' = 1
    /\ UNCHANGED <<tables, info, relocs, result, history, meant, arranged>>

Renamed_Twice(index, p, q) ==
    LET once == IF index = p THEN q ELSE index IN IF once = q THEN p ELSE once

Renamed(index, p, q) == IF index = p THEN q ELSE IF index = q THEN p ELSE index
SwapSymbols(p, q) ==
    relocs' = [r \in DOMAIN relocs |->
                [relocs[r] EXCEPT !.r_info = R_INFO(Renamed(R_SYM(@), p, q), R_TYPE(@))]]

Swapped(p, q) == [symtab EXCEPT ![p + 1] = symtab[q + 1], ![q + 1] = symtab[p + 1]]

Exchange ==
    /\ pc = "arrange"
    /\ CanSwap
    /\ IF Callback THEN SwapSymbols(FirstNotLocal, NextLocal) ELSE UNCHANGED relocs
    /\ symtab' = Swapped(FirstNotLocal, NextLocal)
    /\ first' = FirstNotLocal
    /\ UNCHANGED <<strtab, info, pc, result, history, meant, arranged>>

Arranged_Again ==
    /\ pc = "arrange"
    /\ ~CanSwap
    /\ info' = FirstNotLocal
    /\ result' = FirstNotLocal
    /\ arranged' = TRUE
    /\ UNCHANGED <<tables, relocs, pc, first, history, meant>>

Arranged ==
    /\ pc = "arrange"
    /\ ~CanSwap
    /\ info' = FirstNotLocal
    /\ result' = FirstNotLocal
    /\ pc' = "idle"
    /\ arranged' = TRUE
    /\ UNCHANGED <<tables, relocs, first, history, meant>>

Full == Len(symtab) >= MaxSymbols /\ Len(relocs) >= MaxEntries /\ pc = "idle" /\ UNCHANGED vars

\* The appends of one call.
Appends ==
    {"string", "symbol"} \cup (IF strtab = <<>> THEN {"empty"} ELSE {})
                         \cup (IF symtab = <<>> THEN {"null"} ELSE {})

AppendsOfEntry == Appends \cup {"relocation"}

Calls ==
    \/ \E str \in Strings, bind \in Binds :
         \/ \E lack \in SUBSET Appends : AddSymbol(str, bind, Len(added) + 1, lack)
         \/ \E offset \in Offsets, type \in Types, lack \in SUBSET AppendsOfEntry :
              AddAll(str, bind, Len(added) + 1, offset, type, lack)
    \/ AddEntryStarved
    \/ \E index \in 0 .. (Count - 1), offset \in Offsets, type \in Types, addend \in Addends :
         \/ AddEntry(index, offset, type, addend)
         \/ \E i \in DOMAIN relocs : SetEntry(i, index, offset, type, addend)
    \/ StartArrange
    \/ Full
Next == Exchange \/ Arranged \/ Calls

\* The accessors are called by one thread; arranging waits for nothing.
Spec == Init /\ [][Next]_vars /\ WF_vars(Exchange \/ Arranged)

-----------------------------------------------------------------------------
\* get_string: up to the first 0 that is not before the position.
StringAt(pos) ==
    LET ends == {k \in (pos + 1) .. Len(strtab) : strtab[k] = 0}
        end == CHOOSE k \in ends : \A j \in ends : k <= j
    IN  IF ends = {} THEN <<>> ELSE SubSeq(strtab, pos + 1, end - 1)

\* get_entry's calcValue, of the symbol's value S, the addend and the offset.
CalcValue(type, S, addend, offset) ==
    IF type = 1 THEN S + addend                 \* R_386_32
    ELSE IF type = 2 THEN S + addend - offset   \* R_386_PC32
    ELSE IF type \in {6, 7} THEN S              \* R_386_GLOB_DAT, R_386_JMP_SLOT
    ELSE IF type = 8 THEN addend                \* R_386_RELATIVE
    ELSE 0

-----------------------------------------------------------------------------
Symbols == [name : Nat, bind : Binds, value : Nat, born : 0 .. Len(added)]
Entries == [offset : Nat, r_info : Int, addend : Int]
Meanings == [offset : Nat, born : Nat, type : Types, addend : Int]

\* Every variable keeps its type.
TypeOK ==
    /\ strtab \in Seq(Nat) /\ symtab \in Seq(Symbols)
    /\ relocs \in Seq(Entries) /\ meant \in Seq(Meanings) /\ Len(meant) = Len(relocs)
    /\ info \in Nat /\ first \in Nat /\ result \in Int
    /\ pc \in {"idle", "arrange"}
    /\ added \in Seq([str : Strings, bind : Binds, value : Nat])
    /\ failures \in 0 .. MaxFailures /\ arranged \in BOOLEAN

\* While memory lasts, every symbol that was added is in the table once, the
\* null symbol is first, and each symbol's name reads back as it was given:
\* names are positions in a table that grows behind them.
SymbolsKept ==
    failures = 0 /\ added # <<>> =>
      /\ Count = Len(added) + 1
      /\ symtab[1] = NullSymbol
      /\ {symtab[i].born : i \in 2 .. Count} = DOMAIN added
      /\ \A i \in 2 .. Count :
           LET a == added[symtab[i].born] IN
           /\ StringAt(symtab[i].name) = a.str
           /\ symtab[i].bind = a.bind /\ symtab[i].value = a.value

\* A relocation's symbol is the one it was made for, by whatever index it goes
\* after arrange_local_symbols, and get_entry computes its value from that one.
RelocationsFollow ==
    failures = 0 =>
      \A r \in DOMAIN relocs :
        LET m == meant[r]
            e == relocs[r]
            index == R_SYM(e.r_info)
            S == IF m.born = 0 THEN 0 ELSE added[m.born].value
        IN  /\ index \in 0 .. (Count - 1)
            /\ Born(index) = m.born
            /\ CalcValue(R_TYPE(e.r_info), symtab[index + 1].value, e.addend, e.offset)
                 = CalcValue(m.type, S, m.addend, m.offset)

\* sh_info divides the local symbols from the others once they are arranged,
\* even if memory failed before.
LocalsFirst ==
    arranged =>
      \A i \in 1 .. (Count - 1) : IsLocal(i) <=> i < info
=============================================================================
