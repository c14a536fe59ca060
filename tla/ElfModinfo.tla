----------------------------- MODULE ElfModinfo -----------------------------
(***************************************************************************)
(* The attributes of a section, `field=value' strings that end with a NUL  *)
(* (modinfo_section_accessor in elfio_modinfo.hpp): the scan when the      *)
(* section is opened, looking an attribute up and adding one.              *)
(***************************************************************************)
EXTENDS Integers, SequencesExt

CONSTANTS
    Letters,    \* the characters that are not NUL, EQ among them
    NUL, EQ,
    Sections,   \* the contents a section may have when it is opened
    Attributes, \* the attributes that are added: pairs of field and value
    MaxSize     \* the bound on the section's size for the runs

(***************************************************************************)
(* A field that is added has no `=' and neither part has a NUL, which the  *)
(* accessor does not check.  Behind the last byte of a section that was    *)
(* loaded there is a NUL (DataCovers in ElfReader.tla).                    *)
(***************************************************************************)
ModinfoAssumption ==
    /\ NUL \notin Letters /\ EQ \in Letters /\ MaxSize \in Nat
    /\ \A data \in Sections : data \in Seq(Letters \cup {NUL})
    /\ \A a \in Attributes :
         /\ a[1] \in Seq(Letters \ {EQ})
         /\ a[2] \in Seq(Letters)

VARIABLES
    data,       \* the bytes of the section
    content,    \* the pairs the accessor holds
    pc,         \* "skip" and "take" in process_section, then "ready"
    i,          \* its index
    kept,       \* history: the content of the accessor before this one
    closed      \* history: the section was empty or ended with a NUL

vars == <<data, content, pc, i, kept, closed>>

Size == Len(data)

Init ==
    /\ data \in Sections
    /\ content = <<>> /\ pc = "skip" /\ i = 0 /\ kept = <<>>
    /\ closed = (data = <<>> \/ Last(data) = NUL)

Skip ==
    /\ pc = "skip"
    /\ IF i < Size /\ data[i + 1] = NUL THEN i' = i + 1 /\ UNCHANGED pc
       ELSE pc' = (IF i < Size THEN "take" ELSE "ready") /\ UNCHANGED i
    /\ UNCHANGED <<data, content, kept, closed>>

\* The string from a place up to the next NUL.
Info(at) ==
    LET nul == SelectInSubSeq(data, at + 1, Size, LAMBDA c : c = NUL)
    IN SubSeq(data, at + 1, IF nul = 0 THEN Size ELSE nul - 1)

\* Without a `=' loc is npos and loc + 1 is 0: field and value are the string.
Split(info) ==
    LET loc == SelectInSeq(info, LAMBDA c : c = EQ)
    IN IF loc = 0 THEN <<info, info>>
       ELSE <<SubSeq(info, 1, loc - 1), SubSeq(info, loc + 1, Len(info))>>

Take ==
    /\ pc = "take"
    /\ content' = Append(content, Split(Info(i)))
    /\ i' = i + Len(Info(i))
    /\ pc' = "skip"
    /\ UNCHANGED <<data, kept, closed>>

Encoded(field, value) == Append(field \o <<EQ>> \o value, NUL)

AddAttribute ==
    /\ pc = "ready"
    /\ \E a \in Attributes :
         /\ Size + Len(Encoded(a[1], a[2])) <= MaxSize
         /\ data' = data \o Encoded(a[1], a[2])
         /\ content' = Append(content, a)
    /\ UNCHANGED <<pc, i, kept, closed>>

\* A new accessor for the section.
Open ==
    /\ pc = "ready"
    /\ kept' = content /\ content' = <<>> /\ i' = 0 /\ pc' = "skip"
    /\ UNCHANGED <<data, closed>>

Scanning == Skip \/ Take
Next == Scanning \/ AddAttribute \/ Open

Spec == Init /\ [][Next]_vars /\ WF_vars(Scanning)

-----------------------------------------------------------------------------
\* Every variable keeps its type; the scan never leaves the section.
TypeOK ==
    /\ data \in Seq(Letters \cup {NUL}) /\ Size <= MaxSize
    /\ \A k \in DOMAIN content : content[k] \in Seq(Letters) \X Seq(Letters)
    /\ pc \in {"skip", "take", "ready"} /\ i \in 0 .. Size
    /\ closed \in BOOLEAN

\* A new accessor reads exactly the attributes the one before it held, those it
\* had read and those it had added, in the same order.  In a section that did
\* not end with a NUL the first attribute that is added runs into the last one.
ReadsTheSame == closed /\ pc = "ready" /\ kept # <<>> => IsPrefix(kept, content)

\* The attributes are the strings of the section, each of them once and in
\* order: the scan skips nothing but NULs and never splits a string in two.
NothingSkipped ==
    pc = "ready" /\ closed =>
        LET Starts == {k \in 1 .. Size : data[k] # NUL /\ (k = 1 \/ data[k - 1] = NUL)}
            ordered == SetToSortSeq(Starts, <)
        IN content = [n \in DOMAIN ordered |-> Split(Info(ordered[n] - 1))]
=============================================================================
