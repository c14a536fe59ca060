------------------------------ MODULE ElfNotes ------------------------------
(***************************************************************************)
(* The notes of a section (note_section_accessor in elfio_note.hpp): the   *)
(* scan for the places where notes start, reading one and adding one.  The *)
(* section is its bytes; a word of it is read in the file's byte order,    *)
(* which the convertor makes the same for reading and for writing.         *)
(***************************************************************************)
EXTENDS Integers, SequencesExt

CONSTANTS
    Sections,   \* the contents a section may have when it is opened
    Notes,      \* the notes that are added: records of type, name and desc
    MaxSize     \* the bound on the section's size for the runs

(***************************************************************************)
(* A desc of descSize bytes comes with the pointer to them, and appending  *)
(* to the section succeeds.                                                *)
(***************************************************************************)
NotesAssumption ==
    /\ MaxSize \in Nat
    /\ \A data \in Sections : data \in Seq(0 .. 255)
    /\ \A note \in Notes : note.name \in Seq(1 .. 255) /\ note.desc \in Seq(0 .. 255)

VARIABLES
    data,       \* the bytes of the section
    starts,     \* note_start_positions
    pc,         \* "scan" while process_section runs, then "ready"
    current,    \* its position
    before,     \* history: note_start_positions of the accessor before this one
    whole,      \* history: the first scan ended at the end of the section
    added       \* history: the notes that were added, by position

vars == <<data, starts, pc, current, before, whole, added>>

Init ==
    /\ data \in Sections
    /\ starts = <<>> /\ pc = "scan" /\ current = 0
    /\ before = <<>> /\ whole = TRUE /\ added = <<>>

Size == Len(data)
HeaderSize == 12        \* 3 * align
RoundUp(n) == ((n + 3) \div 4) * 4

WordAt(at) ==
    ((data[at + 1] * 256 + data[at + 2]) * 256 + data[at + 3]) * 256 + data[at + 4]
Word(n) == <<n \div 16777216, (n \div 65536) % 256, (n \div 256) % 256, n % 256>>

NameSize(at) == WordAt(at)
DescSize(at) == WordAt(at + 4)
Advance(at) == HeaderSize + RoundUp(NameSize(at)) + RoundUp(DescSize(at))

\* The sizes are compared on their own first: rounding up never wraps.
IsNote(at) ==
    /\ NameSize(at) < Size /\ DescSize(at) < Size
    /\ at + Advance(at) <= Size

Scan ==
    /\ pc = "scan" /\ current + HeaderSize <= Size /\ IsNote(current)
    /\ starts' = Append(starts, current)
    /\ current' = current + Advance(current)
    /\ UNCHANGED <<data, pc, before, whole, added>>

\* The end of the section, or a note that does not fit it.
ScanEnds ==
    /\ pc = "scan" /\ ~(current + HeaderSize <= Size /\ IsNote(current))
    /\ pc' = "ready"
    /\ whole' = IF added = <<>> THEN current = Size ELSE whole
    /\ UNCHANGED <<data, starts, current, before, added>>

Padding(n) == [k \in 1 .. RoundUp(n) - n |-> 0]
Encoded_NoNul(note) ==
    LET name == Append(note.name, 0) IN
    Word(Len(note.name)) \o Word(Len(note.desc)) \o Word(note.type)
      \o name \o Padding(Len(name))
      \o note.desc \o Padding(Len(note.desc))

Encoded(note) ==
    LET name == Append(note.name, 0) IN
    Word(Len(name)) \o Word(Len(note.desc)) \o Word(note.type)
      \o name \o Padding(Len(name))
      \o note.desc \o Padding(Len(note.desc))

AddNote ==
    /\ pc = "ready"
    /\ \E note \in Notes :
         /\ Size + Len(Encoded(note)) <= MaxSize
         /\ starts' = Append(starts, Size)
         /\ data' = data \o Encoded(note)
         /\ added' = Append(added, [at |-> Size, note |-> note])
    /\ UNCHANGED <<pc, current, before, whole>>

\* A new accessor for the section.
Open ==
    /\ pc = "ready"
    /\ before' = starts /\ starts' = <<>> /\ current' = 0 /\ pc' = "scan"
    /\ UNCHANGED <<data, whole, added>>

Scanning == Scan \/ ScanEnds
Next == Scanning \/ AddNote \/ Open

Spec == Init /\ [][Next]_vars /\ WF_vars(Scanning)

\* get_note for an index below get_notes_num, which the code does not ask for:
\* it compares the index with the size of the section.
MaxNameSize(at) == Size - at
Readable(at) ==
    /\ 1 <= NameSize(at) /\ NameSize(at) <= MaxNameSize(at)
    /\ NameSize(at) + DescSize(at) <= MaxNameSize(at)
DescAt(at) == at + HeaderSize + RoundUp(NameSize(at))
GetNote(at) ==
    [type |-> WordAt(at + 8),
     name |-> SubSeq(data, at + HeaderSize + 1, at + HeaderSize + NameSize(at) - 1),
     desc |-> SubSeq(data, DescAt(at) + 1, DescAt(at) + DescSize(at))]

-----------------------------------------------------------------------------
\* Every variable keeps its type.
TypeOK ==
    /\ data \in Seq(0 .. 255) /\ Size <= MaxSize
    /\ starts \in Seq(Nat) /\ before \in Seq(Nat)
    /\ pc \in {"scan", "ready"} /\ current \in 0 .. Size
    /\ whole \in BOOLEAN

\* Whatever the section holds, the header, the name and the desc of every note
\* that was found lie in it, and no two notes overlap: get_note, whose own check
\* forgets the header, reads nothing behind the section.
NotesInside ==
    \A k \in DOMAIN starts :
        /\ starts[k] + HeaderSize <= Size
        /\ starts[k] + Advance(starts[k]) <= (IF k < Len(starts) THEN starts[k + 1] ELSE Size)

\* A note that was added is read back as it was given, whatever is added after
\* it and whatever the section held before.
ReadsBack ==
    \A k \in DOMAIN added :
        Readable(added[k].at) /\ GetNote(added[k].at) = added[k].note

\* A new accessor finds the notes where the one that added them has them.  In a
\* section whose end was not a note it may not: added notes then complete it.
FoundAgain ==
    whole /\ pc = "ready" /\ added # <<>> =>
        /\ \A k \in DOMAIN added : Contains(starts, added[k].at)
        /\ IsPrefix(before, starts)
=============================================================================
