----------------------------- MODULE ElfDynamic -----------------------------
(***************************************************************************)
(* The .dynamic section as dynamic_section_accessor reads and extends it   *)
(* (elfio_dynamic.hpp), and the version requirements that are counted by   *)
(* one of its entries (versym_r_section_accessor in elfio_versym.hpp).     *)
(* The section is a sequence of words.  One accessor is kept; another can  *)
(* be opened for the same section at any time.                             *)
(***************************************************************************)
EXTENDS Integers, SequencesExt

CONSTANTS
    Sections,   \* the words of the section and its sh_entsize in words
    Entries,    \* the tags and values add_entry is given
    Names,      \* the names it is given instead of a value
    MaxWords    \* the bound on the section's size for the runs

\* The string table has room: its indices are those of ElfTables.tla, here the
\* place of a name among the names.
DynamicAssumption ==
    /\ MaxWords \in Nat
    /\ \A s \in Sections : s.words \in Seq(Nat) /\ s.entsize \in Nat
    /\ Entries \subseteq Nat \X Nat

VARIABLES
    words,      \* the data of the section
    entsize,    \* get_entry_size()
    names,      \* the names in the string table, by index
    num,        \* entries_num of the accessor; 0 while it is not known
    pc,         \* "idle", or "count" in get_entries_num
    i,          \* its loop's index
    seen,       \* history: what get_entry returned for the first num entries
    fitting,    \* history: the section held whole entries only
    added       \* history: the entries that were added, as they were given

vars == <<words, entsize, names, num, pc, i, seen, fitting, added>>

DT_NULL == 0
DT_VERNEEDNUM == 1879048191
NamesString == {1, 14, 15, 29}      \* DT_NEEDED, DT_SONAME, DT_RPATH, DT_RUNPATH
Valueless == {0, 16, 22, 24}        \* DT_NULL, DT_SYMBOLIC, DT_TEXTREL, DT_BIND_NOW
EntryWords == 2                     \* sizeof( Elf32_Dyn )
NoString == ""                      \* the str of an entry that names none

Init ==
    /\ \E s \in Sections :
         /\ words = s.words /\ entsize = s.entsize
         /\ fitting = (s.entsize = EntryWords /\ s.words = <<>>)
    /\ names = <<>>
    /\ num = 0 /\ pc = "idle" /\ i = 0 /\ seen = <<>> /\ added = <<>>

\* generic_get_entry_dyn; the section has data once it has a size.
InSection(index) ==
    /\ words # <<>>
    /\ (index + 1) * entsize <= Len(words)
    /\ entsize >= EntryWords
Tag(index) == IF InSection(index) THEN words[index * entsize + 1] ELSE DT_NULL
Value(index) ==
    IF InSection(index) /\ Tag(index) \notin Valueless THEN words[index * entsize + 2] ELSE 0

\* get_entry for a valid index: it fails when the name cannot be found, with
\* the tag and the value set.
Name(index) ==
    IF Tag(index) \in NamesString /\ Value(index) \in DOMAIN names THEN names[Value(index)] ELSE NoString
GetEntry(index) ==
    [found |-> Tag(index) \in NamesString => Value(index) \in DOMAIN names,
     tag |-> Tag(index), value |-> Value(index), str |-> Name(index)]

\* The count a new accessor makes.
Countable == entsize # 0 /\ entsize >= EntryWords
Total == Len(words) \div entsize
Nulls == {k \in 0 .. Total - 1 : Tag(k) = DT_NULL}
FirstNull == CHOOSE k \in Nulls : \A j \in Nulls : k <= j

Cached(n) == num' = n /\ seen' = [k \in 1 .. n |-> GetEntry(k - 1)]

\* An empty count is not remembered.
GetEntriesNum ==
    /\ pc = "idle" /\ num = 0 /\ Countable
    /\ Total # 0
    /\ pc' = "count" /\ i' = 0
    /\ UNCHANGED <<words, entsize, names, num, seen, fitting, added>>

CountEntry ==
    /\ pc = "count"
    /\ IF i < Total /\ Tag(i) # DT_NULL
       THEN i' = i + 1 /\ UNCHANGED <<pc, num, seen>>
       ELSE /\ Cached(IF i + 1 < Total THEN i + 1 ELSE Total)
            /\ pc' = "idle"
            /\ UNCHANGED i
    /\ UNCHANGED <<words, entsize, names, fitting, added>>

Stored(tag, value) == <<tag, IF tag \in Valueless THEN 0 ELSE value>>

Append2(tag, value, str) ==
    /\ Len(words) + EntryWords <= MaxWords
    /\ words' = words \o Stored(tag, value)
    /\ added' = Append(added, [tag |-> tag, value |-> value, str |-> str])
    /\ UNCHANGED <<entsize, num, pc, i, seen, fitting>>

AddEntry ==
    /\ pc = "idle"
    /\ \E entry \in Entries : Append2(entry[1], entry[2], NoString)
    /\ UNCHANGED names

AddName ==
    /\ pc = "idle"
    /\ \E tag \in NamesString, name \in Names :
         /\ names' = Append(names, name)
         /\ Append2(tag, Len(names) + 1, name)

\* A new accessor.
Open ==
    /\ pc = "idle"
    /\ num' = 0 /\ i' = 0 /\ seen' = <<>>
    /\ UNCHANGED <<words, entsize, names, pc, fitting, added>>

Calls == GetEntriesNum \/ AddEntry \/ AddName \/ Open
Next == CountEntry \/ Calls

Spec == Init /\ [][Next]_vars /\ WF_vars(CountEntry)

\* What a new accessor would count.
EntriesNum ==
    IF ~Countable THEN 0 ELSE IF Nulls = {} THEN Total ELSE FirstNull + 1

(***************************************************************************)
(* versym_r_section_accessor takes its count from the first entry with the *)
(* tag, if get_entry returns true for it.                                  *)
(***************************************************************************)
Versions == {k \in 0 .. EntriesNum - 1 : GetEntry(k).found /\ Tag(k) = DT_VERNEEDNUM}
VersionCount_Last ==
    IF Versions = {} THEN 0 ELSE Value(CHOOSE k \in Versions : \A j \in Versions : k >= j)

VersionCount ==
    IF Versions = {} THEN 0 ELSE Value(CHOOSE k \in Versions : \A j \in Versions : k <= j)

-----------------------------------------------------------------------------
\* Every variable keeps its type, and the loop's index stays in the section.
TypeOK ==
    /\ words \in Seq(Nat) /\ entsize \in Nat /\ names \in Seq(Names)
    /\ pc \in {"idle", "count"} /\ num \in Nat
    /\ pc = "count" => i <= Total
    /\ Len(seen) = num

\* What is counted ends with the first DT_NULL, or with the last whole entry:
\* the loop, whose end can be either, agrees with the definition, also when an
\* entry on the way has a name that is not found.
EndsWithNull == num' # num /\ num' # 0 => num' = EntriesNum

\* An accessor that counted before entries were added never shows more than a
\* new one, and what it shows is not changed by what is added.
StaleIsPrefix ==
    /\ num <= EntriesNum
    /\ \A k \in DOMAIN seen : Tag(k - 1) = seen[k].tag /\ Value(k - 1) = seen[k].value

\* In a section built by add_entry alone a new accessor reads what was added, in
\* order and with its name, up to the first DT_NULL; a tag without a value has
\* value 0.
ReadsBack ==
    fitting =>
        \A k \in DOMAIN added :
            k <= EntriesNum =>
                /\ Tag(k - 1) = added[k].tag
                /\ Value(k - 1) = (IF added[k].tag \in Valueless THEN 0 ELSE added[k].value)
                /\ added[k].str # NoString => GetEntry(k - 1).found /\ Name(k - 1) = added[k].str

\* The requirements are counted by the first such entry before the DT_NULL, even
\* when names that cannot be found come before it.
VersionsCounted ==
    fitting =>
        LET given == {k \in DOMAIN added :
                /\ added[k].tag = DT_VERNEEDNUM
                /\ \A j \in 1 .. k - 1 : added[j].tag \notin {DT_NULL, DT_VERNEEDNUM}}
        IN VersionCount = IF given = {} THEN 0 ELSE added[CHOOSE k \in given : TRUE].value
=============================================================================
