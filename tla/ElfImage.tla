------------------------------ MODULE ElfImage ------------------------------
(***************************************************************************)
(* An ELF file in memory, as far as the reader in src/elfio looks at it:   *)
(* the header, the two tables of headers, and of each section where its    *)
(* bytes are, what zlib makes of them and where its last zero byte is.     *)
(* Positions count bytes; a string is named by its position in its table.  *)
(***************************************************************************)
EXTENDS Integers, Sequences

CONSTANTS
    IdentSize,      \* EI_NIDENT
    EhdrSize,       \* sizes of the file header, a section header and
    ShdrSize,       \* a program header, by class of the file
    PhdrSize,
    WordMax,        \* the greatest 32 bit number
    XwordMax        \* the greatest 64 bit number: of off_t, Elf_Xword and Elf64_Off

ASSUME ElfImageAssumption ==
    /\ {IdentSize, WordMax, XwordMax} \subseteq Nat \ {0}
    /\ WordMax < XwordMax
    /\ EhdrSize \in [{"ELF32", "ELF64"} -> Nat \ {0}]
    /\ ShdrSize \in [{"ELF32", "ELF64"} -> Nat \ {0}]
    /\ PhdrSize \in [{"ELF32", "ELF64"} -> Nat \ {0}]

Flags == {"ALLOC", "RPX_DEFLATE", "COMPRESSED"}

\* What zlib says of a section's bytes: the length declared in front of the
\* stream, the length of what it holds, and whether it can be decoded.
Streams == [declared : 0 .. WordMax, real : Nat, good : BOOLEAN]

SectionHeaders ==
    [type : {"NULL", "PROGBITS", "NOBITS"}, flags : SUBSET Flags, addr : Nat,
     offset : Nat, size : Nat, name : Nat, stream : Streams, lastNul : Int]

ProgramHeaders ==
    [type : {"NULL", "LOAD"}, offset : Nat, filesz : Nat, vaddr : Nat, memsz : Nat]

\* What the headers say of places in the file.
Offsets(f) ==
    {f.shoff, f.phoff}
    \cup UNION {{f.shdrs[i].offset, f.shdrs[i].size} : i \in DOMAIN f.shdrs}
    \cup UNION {{f.phdrs[i].offset, f.phdrs[i].filesz} : i \in DOMAIN f.phdrs}

IsImage(f) ==
    /\ {f.size, f.shoff, f.shentsize, f.phoff, f.phentsize, f.shstrndx} \subseteq Nat
    /\ {f.magic, f.encoding} \subseteq BOOLEAN
    /\ f.class \in {"ELF32", "ELF64", "none"}
    /\ f.shdrs \in Seq(SectionHeaders)
    /\ f.phdrs \in Seq(ProgramHeaders)
    /\ f.size <= WordMax
    /\ Offsets(f) \subseteq 0 .. (IF f.class = "ELF64" THEN XwordMax ELSE WordMax)

\* header = { }
ZeroHeader ==
    [type |-> "NULL", flags |-> {}, addr |-> 0, offset |-> 0, size |-> 0, name |-> 0,
     stream |-> [declared |-> 0, real |-> 0, good |-> FALSE], lastNul |-> -1]

HasBytes(h) == h.type \notin {"NULL", "NOBITS"}
Compressed(h) == h.flags \cap {"RPX_DEFLATE", "COMPRESSED"} # {}

\* A block of memory: whose bytes it holds, how many, and how many it has room for.
NoData == [kind |-> "none", at |-> 0, len |-> 0, room |-> 0]
FileBytes(at, len) == [kind |-> "file", at |-> at, len |-> len, room |-> len + 1]
Inflated(at, len) == [kind |-> "inflated", at |-> at, len |-> len, room |-> len + 1]
NoName == [table |-> NoData, at |-> 0]

-----------------------------------------------------------------------------
(***************************************************************************)
(* A file the toolchain writes, and what a reader should make of it.       *)
(***************************************************************************)
SectionFits(f, h) ==
    /\ HasBytes(h) => h.size < f.size /\ h.offset + h.size <= f.size
    /\ Compressed(h) =>
         /\ h.type = "PROGBITS"
         /\ h.size >= 4
         /\ h.stream.good
         /\ h.stream.real = h.stream.declared
         /\ h.stream.declared < WordMax

SegmentFits(f, p) == p.offset + p.filesz <= f.size

WellFormed(f) ==
    /\ f.magic /\ f.encoding /\ f.class # "none"
    /\ f.size >= EhdrSize[f.class]
    /\ f.shentsize >= ShdrSize[f.class]
    /\ f.phentsize >= PhdrSize[f.class]
    /\ f.shoff + Len(f.shdrs) * f.shentsize <= f.size
    /\ f.phoff + Len(f.phdrs) * f.phentsize <= f.size
    /\ \A i \in DOMAIN f.shdrs : SectionFits(f, f.shdrs[i])
    /\ \A i \in DOMAIN f.phdrs : SegmentFits(f, f.phdrs[i])
    /\ f.shstrndx \in 0 .. (Len(f.shdrs) - 1)
    /\ LET table == f.shdrs[f.shstrndx + 1]
       IN  \A i \in DOMAIN f.shdrs : HasBytes(table) /\ f.shdrs[i].name <= table.lastNul

\* The bytes and the size a section should have once it is loaded.
WholeData(h) ==
    IF ~HasBytes(h) THEN NoData
    ELSE IF Compressed(h) THEN Inflated(h.offset, h.stream.declared)
    ELSE IF h.size = 0 THEN FileBytes(0, 0)
    ELSE FileBytes(h.offset, h.size)
WholeSize(h) == IF HasBytes(h) /\ Compressed(h) THEN h.stream.declared ELSE h.size

WholeName(f, h) ==
    IF f.shstrndx = 0 THEN NoName
    ELSE [table |-> WholeData(f.shdrs[f.shstrndx + 1]), at |-> h.name]

WholeSection(f, h) ==
    [data |-> WholeData(h), size |-> WholeSize(h), name |-> WholeName(f, h)]
=============================================================================
