--------------------------- MODULE MCModuleLoader ---------------------------
(***************************************************************************)
(* Files for TLC.  Addresses are the console's, except that TLC's integers *)
(* force a word of 30 bits and move the import region from 0xC0000000 to   *)
(* 0x30000000.                                                             *)
(***************************************************************************)
EXTENDS ModuleLoader, FiniteSets, TLC

Text  == 33554432      \* 0x02000000
Data  == 268435456     \* 0x10000000
Impts == 805306368     \* 0x30000000

NoImp == [ok |-> FALSE, rpl |-> "", isData |-> FALSE]
Section(type, name, addr, size) ==
    [type |-> type, alloc |-> type \in {"PROGBITS", "NOBITS"}, name |-> name,
     addr |-> addr, size |-> size, info |-> 0, imp |-> NoImp, rel |-> <<>>]
ImportSection(rpl, isData) ==
    [Section("RPL_IMPORTS", "", Impts, 8) EXCEPT
        !.imp = [ok |-> TRUE, rpl |-> rpl, isData |-> isData]]
Rela(info, rel) == [Section("RELA", "", 0, 0) EXCEPT !.info = info, !.rel = rel]

Sym(value, shn, name) == [ok |-> TRUE, value |-> value, shn |-> shn, name |-> name]
BadSym == [ok |-> FALSE, value |-> 0, shn |-> 0, name |-> ""]
Reloc(type, offset, addend, sym) ==
    [type |-> type, offset |-> offset, addend |-> addend, sym |-> sym]

TextSym  == Sym(Text + 256, 1, "f")
DataSym  == Sym(Data + 16, 2, "d")
BssSym   == Sym(Data + 260, 3, "b")
AbsSym   == Sym(0, SHN_ABS, "weak")
NearFn   == Sym(Impts, 4, "near")
FarFn    == Sym(Impts, 4, "far")
Far2Fn   == Sym(Impts, 5, "far")
ImpData  == Sym(Impts, 6, "var")
NoExport == Sym(Impts, 4, "missing")

\* Sections 1 .. 3 are the module; 4 .. 6 its imports; then the relocations.
File(text, data) ==
    [n |-> 9, entry |-> Text + 512, sec |->
        [i \in 0 .. 8 |->
            CASE i = 0 -> Section("NULL", "", 0, 0)
              [] i = 1 -> Section("PROGBITS", ".text", Text, 1024)
              [] i = 2 -> Section("PROGBITS", ".data", Data, 256)
              [] i = 3 -> Section("NOBITS", ".bss", Data + 256, 64)
              [] i = 4 -> ImportSection("coreinit", FALSE)
              [] i = 5 -> ImportSection("nsysnet", FALSE)
              [] i = 6 -> ImportSection("coreinit", TRUE)
              [] i = 7 -> Rela(1, text)
              [] i = 8 -> Rela(2, data)]]

TextRelocs == {Reloc("REL24", Text + 8, 0, TextSym),
               Reloc("REL24", Text + 8, 0, AbsSym),
               Reloc("REL24", Text + 8, 0, FarFn),
               Reloc("REL24", Text + 8, 0, Far2Fn),
               Reloc("REL24", Text + 8, 0, NearFn),
               Reloc("ADDR16", Text + 10, 0, BssSym),
               Reloc("ADDR16", Text + 10, 4, ImpData),
               Reloc("REL14", Text + 8, 0, TextSym)}
OtherRelocs == {Reloc("REL24", Text + 1020, 0, TextSym),
                Reloc("REL24", Text + 1020, 0, FarFn),
                Reloc("REL24", Text + 1020, 0, NearFn),
                Reloc("REL16", Text + 1020, 0, DataSym),
                Reloc("NONE", Text + 1020, 0, TextSym),
                Reloc("DTPMOD32", Text + 1020, 0, TextSym)}
DataRelocs == {Reloc("ADDR32", Data + 4, 0, TextSym),
               Reloc("ADDR32", Data + 4, 0, FarFn)}

TidyFiles ==
    {File(<<t, o>>, <<Reloc("ADDR32", Data + 4, 0, TextSym)>>) :
        t \in TextRelocs, o \in {r \in OtherRelocs : r.type = "REL24"}}
    \cup {File(<<o>>, <<d>>) : o \in OtherRelocs, d \in DataRelocs}

\* One odd relocation, followed by one that would be applied.
OddRelocs == {Reloc("OTHER", Text + 8, 0, TextSym),
              Reloc("REL24", Text + 8, 1, TextSym),
              Reloc("REL24", Text + 8, 4, FarFn),
              Reloc("REL24", Text + 8, 2, FarFn),
              Reloc("REL24", Text + 8, 0, NoExport),
              Reloc("REL24", Text + 8, 67108864, TextSym),
              Reloc("REL14", Text + 8, 0, DataSym),
              Reloc("REL14", Text + 8, 0, FarFn),
              Reloc("REL14", Text + 8, 32764, TextSym),
              Reloc("ADDR32", Text + 8, 0, Sym(4096, 1, "low")),
              Reloc("ADDR32", Text + 8, 0, Sym(Text, 65522, "common")),
              Reloc("ADDR32", Text + 8, 0, BadSym),
              Reloc("ADDR32", Text + 8, 0, Sym(Impts, 1, "noimport"))}
OddRelocFiles == {File(<<o, Reloc("REL24", Text + 16, 0, FarFn)>>, <<>>) : o \in OddRelocs}
    \cup {File(<<Reloc("REL24", Text + 8, 0, FarFn), Reloc("REL24", Text + 16, 2, Far2Fn)>>, <<>>),
          File(<<Reloc("REL24", Text + 8, 0, Sym(Text + 201326592, SHN_ABS, "absolute"))>>, <<>>)}

\* The file with one section replaced.
With(i, section) == [File(<<Reloc("REL24", Text + 8, 0, TextSym)>>, <<>>)
                        EXCEPT !.sec[i] = section]
OddLayoutFiles ==
    { With(2, Section("PROGBITS", ".data", Data, 8388608)),
      With(2, Section("PROGBITS", ".data", Data + 448, 256)),
      With(2, Section("PROGBITS", ".data", 4096, 256)),
      With(2, Section("PROGBITS", ".data", Impts, 256)),
      With(2, Section("PROGBITS", ".syscall", Text + 1024, 32)),
      With(2, Section("PROGBITS", ".wut_load_bounds", Data, 8)),
      With(0, Section("PROGBITS", ".rodata", Data + 512, 16)),
      With(2, Section("NOBITS", ".sbss", Data, 32)),
      With(2, Section("NOBITS", ".sbss", Data + 512, Word - 1)),
      With(1, Section("PROGBITS", ".text", Text, Word - 256)),
      With(8, [Section("SYMTAB", "", 0, 0) EXCEPT
                  !.info = 1, !.rel = <<Reloc("NONE", 0, 0, BadSym)>>]),
      With(8, Rela(0, <<Reloc("NONE", 0, 0, BadSym)>>)),
      [n |-> 1, entry |-> Text, sec |-> [i \in {0} |-> Section("NULL", "", 0, 0)]] }

AllFiles == TidyFiles \cup OddRelocFiles \cup OddLayoutFiles

\* Two functions out of reach of the module, called from two places.
TwoFarFiles == {File(<<Reloc("REL24", Text + 8, 0, FarFn),
                       Reloc("REL24", Text + 16, 0, Far2Fn)>>, <<>>)}

MCExports ==
    <<"coreinit", "near", FALSE>> :> 16908288       \* 0x01020000
    @@ <<"coreinit", "far", FALSE>> :> 234881024    \* 0x0E000000
    @@ <<"nsysnet", "far", FALSE>> :> 243269632     \* 0x0E800000
    @@ <<"coreinit", "var", TRUE>> :> 268500992     \* 0x10010000
=============================================================================
