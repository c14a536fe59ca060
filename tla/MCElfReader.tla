---------------------------- MODULE MCElfReader -----------------------------
(***************************************************************************)
(* A small RPX with a null section, a deflated .text, an empty section at  *)
(* the border of two segments, .data, .bss and deflated section names; and *)
(* files that differ from it in one respect.                               *)
(***************************************************************************)
EXTENDS ElfReader

SizeOfEhdr == [c \in {"ELF32", "ELF64"} |-> IF c = "ELF32" THEN 52 ELSE 64]
SizeOfShdr == [c \in {"ELF32", "ELF64"} |-> IF c = "ELF32" THEN 40 ELSE 64]
SizeOfPhdr == [c \in {"ELF32", "ELF64"} |-> IF c = "ELF32" THEN 32 ELSE 56]

Stream(declared, real, good) == [declared |-> declared, real |-> real, good |-> good]
Plain == Stream(0, 0, FALSE)

Header(type, flags, addr, offset, size, name, stream, nul) ==
    [type |-> type, flags |-> flags, addr |-> addr, offset |-> offset, size |-> size,
     name |-> name, stream |-> stream, lastNul |-> nul]

Text == Header("PROGBITS", {"ALLOC", "RPX_DEFLATE"}, 200, 116, 10, 1, Stream(20, 20, TRUE), -1)
Border == Header("PROGBITS", {"ALLOC"}, 220, 126, 0, 3, Plain, -1)
Data == Header("PROGBITS", {"ALLOC"}, 220, 126, 6, 5, Plain, 2)
Bss == Header("NOBITS", {"ALLOC"}, 226, 132, 50, 7, Plain, -1)
Names == Header("PROGBITS", {"RPX_DEFLATE"}, 0, 132, 12, 9, Stream(16, 16, TRUE), 15)

Segment(offset, filesz, vaddr, memsz) ==
    [type |-> "LOAD", offset |-> offset, filesz |-> filesz, vaddr |-> vaddr, memsz |-> memsz]

Rpx ==
    [size |-> 384, magic |-> TRUE, encoding |-> TRUE, class |-> "ELF32",
     shoff |-> 144, shentsize |-> 40, shstrndx |-> 5,
     shdrs |-> <<ZeroHeader, Text, Border, Data, Bss, Names>>,
     phoff |-> 52, phentsize |-> 32,
     phdrs |-> <<Segment(116, 10, 200, 20), Segment(126, 6, 220, 56)>>]

Texts ==
    {Text} \cup {[Text EXCEPT !.stream = z] : z \in
        {Stream(20, 20, FALSE), Stream(20, 21, TRUE), Stream(20, 5, TRUE), Stream(2, 2, TRUE),
         Stream(0, 0, TRUE), Stream(1022, 5, TRUE), Stream(1023, 5, TRUE)}}
    \cup {[Text EXCEPT !.flags = {"ALLOC", "COMPRESSED"}], [Text EXCEPT !.flags = {"ALLOC"}],
          [Text EXCEPT !.size = 3], [Text EXCEPT !.size = 400], [Text EXCEPT !.size = 268],
          [Text EXCEPT !.size = 269], [Text EXCEPT !.offset = 384], [Text EXCEPT !.type = "NOBITS"]}

NameTables ==
    {[Names EXCEPT !.lastNul = 4], [Names EXCEPT !.stream = Stream(16, 10, TRUE), !.lastNul = 4],
     [Names EXCEPT !.stream = Stream(16, 16, FALSE)], [Names EXCEPT !.flags = {}, !.lastNul = 11],
     [Names EXCEPT !.type = "NOBITS", !.flags = {}]}

OddFiles ==
    {[Rpx EXCEPT !.magic = FALSE], [Rpx EXCEPT !.class = "none"], [Rpx EXCEPT !.encoding = FALSE],
     [Rpx EXCEPT !.size = 15], [Rpx EXCEPT !.size = 51], [Rpx EXCEPT !.size = 300],
     [Rpx EXCEPT !.class = "ELF64"], [Rpx EXCEPT !.shentsize = 39], [Rpx EXCEPT !.shoff = 400],
     [Rpx EXCEPT !.shdrs = <<>>], [Rpx EXCEPT !.shstrndx = 0], [Rpx EXCEPT !.shstrndx = 9],
     [Rpx EXCEPT !.phentsize = 31], [Rpx EXCEPT !.phoff = 353], [Rpx EXCEPT !.phdrs = <<>>],
     [Rpx EXCEPT !.phdrs[2].offset = 380], [Rpx EXCEPT !.phdrs[2].filesz = 385],
     [Rpx EXCEPT !.phdrs[1].type = "NULL"], [Rpx EXCEPT !.phdrs[1].filesz = 0]}

Wide ==
    [Rpx EXCEPT !.class = "ELF64", !.size = 600, !.shentsize = 64, !.phentsize = 56,
                !.shoff = 160, !.phoff = 64, !.shdrs[2].offset = 576, !.phdrs[1].offset = 576]

\* Offsets of 64 bits whose sums wrap, or are negative as off_t, and others
\* that are as large.
FarFiles ==
    {[Wide EXCEPT !.shoff = 4000], [Wide EXCEPT !.shoff = 2000], [Wide EXCEPT !.phoff = 4090],
     [Wide EXCEPT !.shdrs[4].offset = 4095], [Wide EXCEPT !.shdrs[4].offset = 4089],
     [Wide EXCEPT !.shdrs[4].offset = 4080, !.shdrs[4].size = 599]}

Files ==
    {Rpx, Wide} \cup FarFiles \cup OddFiles \cup {[Rpx EXCEPT !.shdrs[2] = t] : t \in Texts}
                \cup {[Rpx EXCEPT !.shdrs[6] = n] : n \in NameTables}
=============================================================================
