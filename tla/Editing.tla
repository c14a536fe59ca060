------------------------------ MODULE Editing -------------------------------
(***************************************************************************)
(* What changes data in memory: the bytes of one section (SectionBuffer),  *)
(* string, symbol and relocation tables (Tables), the .dynamic section     *)
(* (Dynamic) and the functions on C++ and C strings (Texts).  They share *)
(* no variable: a behaviour is about one of them, the variables of the     *)
(* others stay Unused.                                                     *)
(***************************************************************************)
EXTENDS SectionBuffer

CONSTANTS
    \* of ElfTables:
    TableStrings, Types, Offsets, Addends, Callback, MaxSymbols, MaxEntries, MaxFailures,
    \* of ElfDynamic:
    Sections, DynamicEntries, Names, MaxWords,
    \* of StringTools:
    Lower, Room, StringCalls

VARIABLES
    part,       \* "buffer", "tables", "dynamic" or "strings"
    tStrtab, tSymtab, tInfo, tRelocs, tPc, tFirst, tResult, tAdded, tMeant, tFailures, tArranged,
    dWords, dEntsize, dNames, dNum, dPc, dI, dSeen, dFitting, dAdded,
    sCall, sPc, sRest, sOut, sI, sN, sRoom, sRet

symbols == <<tStrtab, tSymtab, tInfo, tRelocs, tPc, tFirst, tResult, tAdded, tMeant, tFailures, tArranged>>
dynamic == <<dWords, dEntsize, dNames, dNum, dPc, dI, dSeen, dFitting, dAdded>>
strings == <<sCall, sPc, sRest, sOut, sI, sN, sRoom, sRet>>
all == <<part, vars, symbols, dynamic, strings>>

Tables == INSTANCE ElfTables WITH
    Strings <- TableStrings,
    strtab <- tStrtab, symtab <- tSymtab, info <- tInfo, relocs <- tRelocs, pc <- tPc,
    first <- tFirst, result <- tResult, added <- tAdded, meant <- tMeant,
    failures <- tFailures, arranged <- tArranged

Dynamic == INSTANCE ElfDynamic WITH
    Entries <- DynamicEntries,
    words <- dWords, entsize <- dEntsize, names <- dNames, num <- dNum, pc <- dPc, i <- dI,
    seen <- dSeen, fitting <- dFitting, added <- dAdded

Texts == INSTANCE StringTools WITH
    Calls <- StringCalls,
    call <- sCall, pc <- sPc, rest <- sRest, out <- sOut, i <- sI, n <- sN, room <- sRoom,
    ret <- sRet

ASSUME PartsAssumption ==
    Tables!TablesAssumption /\ Dynamic!DynamicAssumption /\ Texts!StringAssumption

Unused == "unused"
TablesUnused ==
    /\ tStrtab = Unused /\ tSymtab = Unused /\ tInfo = Unused /\ tRelocs = Unused
    /\ tPc = Unused /\ tFirst = Unused /\ tResult = Unused /\ tAdded = Unused
    /\ tMeant = Unused /\ tFailures = Unused /\ tArranged = Unused
DynamicUnused ==
    /\ dWords = Unused /\ dEntsize = Unused /\ dNames = Unused /\ dNum = Unused
    /\ dPc = Unused /\ dI = Unused /\ dSeen = Unused /\ dFitting = Unused /\ dAdded = Unused
StringsUnused ==
    /\ sCall = Unused /\ sPc = Unused /\ sRest = Unused /\ sOut = Unused
    /\ sI = Unused /\ sN = Unused /\ sRoom = Unused /\ sRet = Unused

EditingInit ==
    /\ part \in {"buffer", "tables", "dynamic", "strings"}
    /\ Init /\ (part # "buffer" => size = 0 /\ room = 0 /\ ~nobits)
    /\ IF part = "tables" THEN Tables!Init ELSE TablesUnused
    /\ IF part = "dynamic" THEN Dynamic!Init ELSE DynamicUnused
    /\ IF part = "strings" THEN Texts!Init ELSE StringsUnused

TablesStep  == part = "tables" /\ (Tables!Exchange \/ Tables!Arranged) /\ UNCHANGED <<part, vars, dynamic, strings>>
DynamicStep == part = "dynamic" /\ Dynamic!CountEntry /\ UNCHANGED <<part, vars, symbols, strings>>
StringsStep == part = "strings" /\ Texts!Step /\ UNCHANGED <<part, vars, symbols, dynamic>>

EditingNext ==
    \/ TablesStep \/ DynamicStep \/ StringsStep
    \/ part = "buffer" /\ Next /\ UNCHANGED <<part, symbols, dynamic, strings>>
    \/ part = "tables" /\ Tables!Calls /\ UNCHANGED <<part, vars, dynamic, strings>>
    \/ part = "dynamic" /\ Dynamic!Calls /\ UNCHANGED <<part, vars, symbols, strings>>
    \/ part = "strings" /\ Texts!Done /\ UNCHANGED <<part, vars, symbols, dynamic>>

EditingSpec ==
    /\ EditingInit /\ [][EditingNext]_all
    /\ WF_all(TablesStep) /\ WF_all(DynamicStep) /\ WF_all(StringsStep)
-----------------------------------------------------------------------------
(***************************************************************************)
(* insert_data stays in its block while data_size is right (after a failed *)
(* insertion, inflation or data that could not be read it is not, and an   *)
(* overrun is possible); what str_replace copies fits what it counted; the *)
(* loops over entries and characters keep their indexes within them.       *)
(***************************************************************************)
EditingStaysInside ==
    /\ TypeOK /\ StaysInBlock
    /\ part = "tables" => Tables!TypeOK
    /\ part = "dynamic" => Dynamic!TypeOK
    /\ part = "strings" => Texts!TypeOK /\ Texts!ReplaceFits

(***************************************************************************)
(* Symbols keep their names, relocations their symbols, and local symbols  *)
(* come first, whatever is added and rearranged in whatever order.         *)
(***************************************************************************)
TablesKeepLinks ==
    part = "tables" => Tables!SymbolsKept /\ Tables!RelocationsFollow /\ Tables!LocalsFirst

(***************************************************************************)
(* What was added to .dynamic is read back up to the first DT_NULL, by an  *)
(* accessor that counted the entries earlier as far as it counted, and the *)
(* version requirements are those it states.                               *)
(***************************************************************************)
DynamicReadsBack ==
    part = "dynamic" => Dynamic!StaleIsPrefix /\ Dynamic!ReadsBack /\ Dynamic!VersionsCounted

(***************************************************************************)
(* Each string function returns what its name says, by definitions that    *)
(* have no loop.                                                           *)
(***************************************************************************)
StringsAsSpecified ==
    part = "strings" =>
        /\ Texts!PartsRejoin /\ Texts!ErasesJustThose /\ Texts!NameFollowsSlash
        /\ Texts!ReplacesAll /\ Texts!FindsToken /\ Texts!ComparesEnds
        /\ Texts!DigitsOfByte

(***************************************************************************)
(* Arranging symbols, counting entries and the string functions come to an *)
(* end, the counting at the first DT_NULL or behind the last whole entry.  *)
(***************************************************************************)
EditingEnds ==
    /\ [][part = "dynamic" => Dynamic!EndsWithNull]_all
    /\ []<>(part = "tables" => tPc = "idle")
    /\ []<>(part = "dynamic" => dPc = "idle")
    /\ <>(part = "strings" => sPc = "done")
=============================================================================
