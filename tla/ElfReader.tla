----------------------------- MODULE ElfReader ------------------------------
(***************************************************************************)
(* elfio::load as ModuleDataFactory::load calls it, with the inflation of  *)
(* wiiu_zlib: the identification and the header, then each section with    *)
(* its bytes, the names, then each segment.  Any allocation may fail.      *)
(* Where the code copies from outside the file or writes outside a block,  *)
(* what follows is undefined: the model stops there, "outside".            *)
(***************************************************************************)
EXTENDS ElfImage, FiniteSets

CONSTANT Images

ASSUME ReaderAssumption == \A f \in Images : IsImage(f)

VARIABLES
    image,      \* pBuffer and pBufferSize
    pc,
    sections,   \* sections_: header, get_size(), get_name(), data and data_size
    named,      \* the sections whose name has been looked up
    segments,   \* segments_: data and the sections they hold
    starved     \* history: an allocation has failed

vars == <<image, pc, sections, named, segments, starved>>

Init ==
    /\ image \in Images
    /\ pc = "ident"
    /\ sections = <<>>
    /\ named = 0
    /\ segments = <<>>
    /\ starved = FALSE

GoTo(next) == pc' = next
Unchanged(v) == UNCHANGED <<image, v>>

-----------------------------------------------------------------------------
(***************************************************************************)
(* load: signature, class, encoding and header                             *)
(***************************************************************************)
Recognised(f) == IdentSize <= f.size /\ f.magic /\ f.encoding /\ f.class # "none"

ReadIdent ==
    /\ pc = "ident"
    /\ GoTo(IF Recognised(image) THEN "header" ELSE "failed")
    /\ Unchanged(<<sections, named, segments, starved>>)

HeaderStarved ==
    /\ pc = "header"
    /\ starved' = TRUE
    /\ GoTo("failed")
    /\ Unchanged(<<sections, named, segments>>)

\* An entry size that is too small makes load_sections return false, and
\* load() goes on to the segments.
AfterHeader ==
    IF Len(image.shdrs) # 0 /\ image.shentsize < ShdrSize[image.class]
    THEN "segments" ELSE "sections"

ReadHeader ==
    /\ pc = "header"
    /\ GoTo(IF EhdrSize[image.class] <= image.size THEN AfterHeader ELSE "failed")
    /\ Unchanged(<<sections, named, segments, starved>>)

-----------------------------------------------------------------------------
(***************************************************************************)
(* load_sections: the last section of `sections' is the one being loaded.  *)
(***************************************************************************)
Current == sections[Len(sections)]
Add(h) ==
    sections' = Append(sections,
                  [hdr |-> h, size |-> h.size, name |-> NoName, data |-> NoData, dataSize |-> 0])
SetCurrent(s) == sections' = [sections EXCEPT ![Len(sections)] = s]

Xword == XwordMax + 1
\* off_t has a sign, and so has its sum with a sizeof( header ).
AsOffset(n) == IF n % Xword < Xword \div 2 THEN n % Xword ELSE (n % Xword) - Xword

HeaderEnd(i) == image.shoff + (i - 1) * image.shentsize + ShdrSize[image.class]
HeaderPasses(i) == AsOffset(HeaderEnd(i)) <= image.size
HeaderInside(i) == HeaderEnd(i) <= image.size
MoreSections == pc = "sections" /\ Len(sections) < Len(image.shdrs)

\* set_index() of a section that could not be allocated
SectionStarved ==
    /\ MoreSections
    /\ starved' = TRUE
    /\ GoTo("crashed")
    /\ Unchanged(<<sections, named, segments>>)

\* The section stays in the table, as a null section.
HeaderOutside ==
    /\ MoreSections
    /\ ~HeaderPasses(Len(sections) + 1)
    /\ Add(ZeroHeader)
    /\ Unchanged(<<pc, named, segments, starved>>)

\* memcpy from in front of the buffer.
HeaderFromOutside ==
    /\ MoreSections
    /\ HeaderPasses(Len(sections) + 1) /\ ~HeaderInside(Len(sections) + 1)
    /\ GoTo("outside")
    /\ Unchanged(<<sections, named, segments, starved>>)

ReadSectionHeader ==
    /\ MoreSections
    /\ HeaderPasses(Len(sections) + 1) /\ HeaderInside(Len(sections) + 1)
    /\ Add(image.shdrs[Len(sections) + 1])
    /\ GoTo("data")
    /\ Unchanged(<<named, segments, starved>>)

\* load_data
ReadsData == HasBytes(Current.hdr) /\ Current.size < image.size
DataPasses == (Current.hdr.offset + Current.size) % Xword <= image.size
DataInside == Current.hdr.offset + Current.size <= image.size
AfterData == IF Compressed(Current.hdr) THEN "inflate" ELSE "sections"

SkipData ==
    /\ pc = "data"
    /\ ~ReadsData
    /\ GoTo(AfterData)
    /\ Unchanged(<<sections, named, segments, starved>>)

\* load_data still returns true.
DataStarved ==
    /\ pc = "data"
    /\ ReadsData
    /\ starved' = TRUE
    /\ GoTo(AfterData)
    /\ Unchanged(<<sections, named, segments>>)

EmptyData ==
    /\ pc = "data"
    /\ ReadsData
    /\ Current.size = 0
    /\ SetCurrent([Current EXCEPT !.data = FileBytes(0, 0)])
    /\ GoTo(AfterData)
    /\ Unchanged(<<named, segments, starved>>)

DataOutside ==
    /\ pc = "data"
    /\ ReadsData
    /\ Current.size # 0
    /\ ~DataPasses
    /\ GoTo("sections")
    /\ Unchanged(<<sections, named, segments, starved>>)

DataFromOutside ==
    /\ pc = "data"
    /\ ReadsData
    /\ Current.size # 0
    /\ DataPasses /\ ~DataInside
    /\ GoTo("outside")
    /\ Unchanged(<<sections, named, segments, starved>>)

CopyData ==
    /\ pc = "data"
    /\ ReadsData
    /\ Current.size # 0
    /\ DataPasses /\ DataInside
    /\ SetCurrent([Current EXCEPT
         !.data = FileBytes(Current.hdr.offset, Current.size), !.dataSize = Current.size])
    /\ GoTo(AfterData)
    /\ Unchanged(<<named, segments, starved>>)

\* read_uncompressed_size reads four bytes; fewer, or none, is undefined, and
\* a crash stands for it.
CanInflate == Current.data.kind # "none" /\ Current.data.len >= 4

InflateCrashes ==
    /\ pc = "inflate"
    /\ ~CanInflate
    /\ GoTo("crashed")
    /\ Unchanged(<<sections, named, segments, starved>>)

InflateStarved ==
    /\ pc = "inflate"
    /\ CanInflate
    /\ starved' = TRUE
    /\ GoTo("sections")
    /\ Unchanged(<<sections, named, segments>>)

\* Z_FINISH wants room for all that the stream holds.
StreamFits(z) == z.good /\ z.real <= z.declared
NoRoom(z) == (z.declared + 1) % (WordMax + 1) = 0

ResultOf_NoTerminator(s) ==
    [Inflated(s.hdr.offset, s.hdr.stream.declared) EXCEPT !.room = s.hdr.stream.declared]
\* The result has room for (uint32_t) (uncompressed_size + 1) bytes.
ResultOf(s) ==
    [Inflated(s.hdr.offset, s.hdr.stream.declared)
        EXCEPT !.room = (s.hdr.stream.declared + 1) % (WordMax + 1)]

\* (uint32_t) (uncompressed_size + 1) is 0: inflate and the 0 at the end write
\* behind a block of no bytes.
InflateOutside ==
    /\ pc = "inflate"
    /\ CanInflate
    /\ NoRoom(Current.hdr.stream)
    /\ GoTo("outside")
    /\ Unchanged(<<sections, named, segments, starved>>)

InflateFails ==
    /\ pc = "inflate"
    /\ CanInflate
    /\ ~NoRoom(Current.hdr.stream)
    /\ ~StreamFits(Current.hdr.stream)
    /\ GoTo("sections")
    /\ Unchanged(<<sections, named, segments, starved>>)

Inflate_OldSize ==
    /\ pc = "inflate"
    /\ CanInflate
    /\ ~NoRoom(Current.hdr.stream) /\ StreamFits(Current.hdr.stream)
    /\ SetCurrent([Current EXCEPT !.data = ResultOf(Current)])
    /\ GoTo("sections")
    /\ Unchanged(<<named, segments, starved>>)
\* data_size keeps the size of the compressed bytes.
Inflate ==
    /\ pc = "inflate"
    /\ CanInflate
    /\ ~NoRoom(Current.hdr.stream) /\ StreamFits(Current.hdr.stream)
    /\ SetCurrent([Current EXCEPT !.data = ResultOf(Current), !.size = Current.hdr.stream.declared])
    /\ GoTo("sections")
    /\ Unchanged(<<named, segments, starved>>)

AllSections ==
    /\ pc = "sections"
    /\ Len(sections) = Len(image.shdrs)
    /\ GoTo(IF image.shstrndx = 0 THEN "segments" ELSE "names")
    /\ Unchanged(<<sections, named, segments, starved>>)

\* get_string: the position of the string, or nullptr.  What compressed bytes
\* hold is anybody's guess.
LastNul(s) ==
    IF s.data.kind = "inflated" /\ s.hdr.stream.real < s.size THEN s.size - 1 ELSE s.hdr.lastNul

StringAt(s, n) ==
    IF s.data = NoData \/ n >= s.size THEN {NoName}
    ELSE IF Compressed(s.hdr) /\ s.data.kind = "file"
    THEN {NoName, [table |-> s.data, at |-> n]}
    ELSE IF n <= LastNul(s) THEN {[table |-> s.data, at |-> n]} ELSE {NoName}

\* sections[shstrndx] is nullptr for an index beyond the table.
TableStrings(n) ==
    IF image.shstrndx < Len(sections) THEN StringAt(sections[image.shstrndx + 1], n) ELSE {NoName}

SetName ==
    /\ pc = "names"
    /\ named < Len(sections)
    /\ \E str \in TableStrings(sections[named + 1].hdr.name) :
         sections' = [sections EXCEPT ![named + 1].name = str]
    /\ named' = named + 1
    /\ Unchanged(<<pc, segments, starved>>)

AllNames ==
    /\ pc = "names"
    /\ named = Len(sections)
    /\ GoTo("segments")
    /\ Unchanged(<<sections, named, segments, starved>>)

-----------------------------------------------------------------------------
(***************************************************************************)
(* load_segments                                                           *)
(***************************************************************************)
EntriesTooSmall == Len(image.phdrs) # 0 /\ image.phentsize < PhdrSize[image.class]

SegmentsFail ==
    /\ pc = "segments"
    /\ EntriesTooSmall
    /\ GoTo("failed")
    /\ Unchanged(<<sections, named, segments, starved>>)

MoreSegments ==
    /\ pc = "segments"
    /\ ~EntriesTooSmall
    /\ Len(segments) < Len(image.phdrs)

NextSegment == image.phdrs[Len(segments) + 1]
ProgramHeaderEnd(i) == image.phoff + (i - 1) * image.phentsize + PhdrSize[image.class]
ProgramHeaderPasses == AsOffset(ProgramHeaderEnd(Len(segments) + 1)) <= image.size
ProgramHeaderInside == ProgramHeaderEnd(Len(segments) + 1) <= image.size
CopiesSegment(p) == p.type # "NULL" /\ p.filesz # 0 /\ p.filesz <= image.size

\* load() is called on a segment that could not be allocated.
SegmentStarved ==
    /\ MoreSegments
    /\ starved' = TRUE
    /\ GoTo("crashed")
    /\ Unchanged(<<sections, named, segments>>)

ProgramHeaderOutside ==
    /\ MoreSegments
    /\ ~ProgramHeaderPasses
    /\ GoTo("failed")
    /\ Unchanged(<<sections, named, segments, starved>>)

ProgramHeaderFromOutside ==
    /\ MoreSegments
    /\ ProgramHeaderPasses /\ ~ProgramHeaderInside
    /\ GoTo("outside")
    /\ Unchanged(<<sections, named, segments, starved>>)

SegmentDataStarved ==
    /\ MoreSegments
    /\ ProgramHeaderPasses /\ ProgramHeaderInside
    /\ CopiesSegment(NextSegment)
    /\ starved' = TRUE
    /\ GoTo("failed")
    /\ Unchanged(<<sections, named, segments>>)

\* Nothing asks whether the segment's bytes end before the file does.
SegmentFromOutside ==
    /\ MoreSegments
    /\ ProgramHeaderPasses /\ ProgramHeaderInside
    /\ CopiesSegment(NextSegment) /\ ~SegmentFits(image, NextSegment)
    /\ GoTo("outside")
    /\ Unchanged(<<sections, named, segments, starved>>)

IsSectInSeg_NoEnd(begin, size, first, end) ==
    first <= begin /\ (begin + size) % Xword <= end % Xword
IsSectInSeg(begin, size, first, end) ==
    /\ first <= begin
    /\ (begin + size) % Xword <= end % Xword
    /\ begin < end % Xword

Holds(p, s) ==
    IF "ALLOC" \in s.hdr.flags
    THEN IsSectInSeg(s.hdr.addr, s.size, p.vaddr, p.vaddr + p.memsz)
    ELSE IsSectInSeg(s.hdr.offset, s.size, p.offset, p.offset + p.filesz)

LoadSegment ==
    /\ MoreSegments
    /\ ProgramHeaderPasses /\ ProgramHeaderInside
    /\ CopiesSegment(NextSegment) => SegmentFits(image, NextSegment)
    /\ segments' = Append(segments,
         [hdr |-> NextSegment,
          data |-> IF CopiesSegment(NextSegment)
                   THEN FileBytes(NextSegment.offset, NextSegment.filesz) ELSE NoData,
          sections |-> {i \in DOMAIN sections : Holds(NextSegment, sections[i])}])
    /\ Unchanged(<<pc, sections, named, starved>>)

Loaded ==
    /\ pc = "segments"
    /\ ~EntriesTooSmall
    /\ Len(segments) = Len(image.phdrs)
    /\ GoTo("loaded")
    /\ Unchanged(<<sections, named, segments, starved>>)

Ended == pc \in {"loaded", "failed", "crashed", "outside"}
Done == Ended /\ UNCHANGED vars

Step ==
    \/ ReadIdent \/ HeaderStarved \/ ReadHeader
    \/ SectionStarved \/ HeaderOutside \/ HeaderFromOutside \/ ReadSectionHeader
    \/ SkipData \/ DataStarved \/ EmptyData \/ DataOutside \/ DataFromOutside \/ CopyData
    \/ InflateCrashes \/ InflateStarved \/ InflateOutside \/ InflateFails \/ Inflate
    \/ AllSections \/ SetName \/ AllNames
    \/ SegmentsFail \/ SegmentStarved \/ ProgramHeaderOutside \/ ProgramHeaderFromOutside
    \/ SegmentDataStarved \/ SegmentFromOutside \/ LoadSegment \/ Loaded

Next == Step \/ Done

\* load() waits for nothing.
Spec == Init /\ [][Next]_vars /\ WF_vars(Step)

-----------------------------------------------------------------------------
Blocks == [kind : {"none", "file", "inflated"}, at : Nat, len : Nat, room : 0 .. WordMax]

\* Every variable keeps its type, and no size outgrows a word.
TypeOK ==
    /\ image \in Images
    /\ pc \in {"ident", "header", "sections", "data", "inflate", "names", "segments",
               "loaded", "failed", "crashed", "outside"}
    /\ named \in 0 .. Len(sections)
    /\ starved \in BOOLEAN
    /\ Len(sections) <= Len(image.shdrs) /\ Len(segments) <= Len(image.phdrs)
    /\ \A i \in DOMAIN sections :
         LET s == sections[i] IN
         /\ s.hdr \in {image.shdrs[i], ZeroHeader}
         /\ s.data \in Blocks
         /\ {s.size, s.dataSize} \subseteq 0 .. WordMax
    /\ \A i \in DOMAIN segments :
         segments[i].data \in Blocks /\ segments[i].sections \subseteq DOMAIN sections

\* load() copies from outside the file, or writes outside a block, for no other
\* files than these: a header ends where off_t is negative, or a section's end
\* wraps (both need ELF64: the sums are checked, not whether they wrapped); a
\* segment does not lie in the file (elfio_segment.hpp checks its size alone);
\* or the declared length is the greatest word (wiiu_zlib.hpp).
NothingOutside ==
    pc = "outside" =>
      \/ \E i \in DOMAIN image.shdrs :
           \/ HeaderEnd(i) >= Xword \div 2
           \/ image.shdrs[i].offset + image.shdrs[i].size > XwordMax
           \/ NoRoom(image.shdrs[i].stream)
      \/ \E i \in DOMAIN image.phdrs :
           ProgramHeaderEnd(i) >= Xword \div 2 \/ ~SegmentFits(image, image.phdrs[i])

\* Whatever get_size() says at any moment, the bytes of get_data() reach that
\* far and have room for the 0 behind them (elfio_section.hpp, "Ensure data is
\* ended with 0 to avoid oob read"), also when inflation fails or replaces
\* them.
DataCovers ==
    \A i \in DOMAIN sections :
      sections[i].data # NoData => sections[i].size < sections[i].data.room

\* load_sections ignores what loading a section returns.  If load() returns, a
\* section that could not be read or inflated has left all others as they
\* should be, at their index.  (It need not return: inflating a section that
\* has no bytes crashes.)
DamageStaysLocal ==
    pc = "loaded" /\ AfterHeader = "sections" /\ ~starved =>
      \A i \in DOMAIN image.shdrs :
        /\ i \in DOMAIN sections
        /\ HeaderInside(i) /\ SectionFits(image, image.shdrs[i]) =>
             /\ sections[i].data = WholeData(image.shdrs[i])
             /\ sections[i].size = WholeSize(image.shdrs[i])

Apart(a, lenA, b, lenB) == a + lenA <= b \/ b + lenB <= a

\* Segments that do not overlap share no section, an empty one at the border
\* of two included (the comment in elfio.hpp's is_sect_in_seg).
MembersOnce ==
    \A i, j \in DOMAIN segments :
      LET p == segments[i].hdr
          q == segments[j].hdr
      IN  i # j /\ Apart(p.vaddr, p.memsz, q.vaddr, q.memsz)
                /\ Apart(p.offset, p.filesz, q.offset, q.filesz) =>
            segments[i].sections \cap segments[j].sections = {}

\* The caller's view of the loaded file.
Outcome == IF ~Ended THEN "none" ELSE IF pc = "outside" THEN "crashed" ELSE pc
View ==
    IF pc # "loaded" THEN <<>>
    ELSE [i \in DOMAIN sections |->
           [data |-> sections[i].data, size |-> sections[i].size, name |-> sections[i].name]]

Abstract == INSTANCE ElfReaderSpec WITH result <- Outcome, view <- View

\* A well-formed file is loaded whole, and without memory nothing is mixed up.
LoadsWhole == Abstract!Spec
=============================================================================
