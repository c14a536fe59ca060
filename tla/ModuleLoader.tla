---------------------------- MODULE ModuleLoader ----------------------------
(***************************************************************************)
(* Loading payload.rpx: do_start calls ModuleDataFactory::load, which      *)
(* sizes, places and links the module below 0x00FD0000 and lists its       *)
(* import relocations; do_start then resolves the imports (doRelocation),  *)
(* clears .bss and .sbss, flushes the caches and enters the module.        *)
(*                                                                         *)
(* The file is a constant record: what elfio returns for it.  Section and  *)
(* relocation names, contents and instruction words are abstracted; every  *)
(* address the loader computes is kept.                                    *)
(***************************************************************************)
EXTENDS Machine, Sequences

CONSTANTS
    Files,        \* the ELF files that may be found on the SD card
    Exports,      \* <<rpl, name, isData>> -> the address an RPL exports
    CodeEnd,      \* __CODE_END of the loader itself
    TrampLen,     \* DYN_LINK_TRAMPOLIN_LIST_LENGTH
    SlotSize,     \* sizeof(relocation_trampolin_entry_t)
    DestAddr,     \* destination_address, the end of the module's arena
    FlushLo,      \* do_start's last flush covers [FlushLo, FlushHi)
    FlushHi,
    TextBase,     \* link addresses: text, data and imports start here
    DataBase,
    ImportBase,
    Reach         \* how far a REL24 branch may jump

\* The section and symbol indices ELF reserves.
SHN_LORESERVE == 65280
SHN_ABS       == 65521

SectionTypes == {"NULL", "PROGBITS", "NOBITS", "RELA", "SYMTAB", "RPL_IMPORTS"}
RelocTypes   == {"NONE", "ADDR32", "ADDR16", "REL16", "DTPMOD32", "REL14",
                 "REL24", "OTHER"}

Symbols == [ok: BOOLEAN, value: Words, shn: Nat, name: STRING]

\* An addend is an int32_t.
Relocs == [type: RelocTypes, offset: Words, addend: -Word .. Word, sym: Symbols]

\* What createImportRPLInformation makes of the name of a section.
ImportInfos == [ok: BOOLEAN, rpl: STRING, isData: BOOLEAN]

Sections == [type: SectionTypes, alloc: BOOLEAN, name: STRING, addr: Words,
             size: Words, info: Nat, imp: ImportInfos, rel: Seq(Relocs)]

\* gModuleData, moduleDataStartAddress and maximum_size of do_start.
TrampBase   == PageFloor(CodeEnd + 256)
TrampEnd    == TrampBase + TrampLen * SlotSize
ModuleStart == BlockFloor(TrampEnd + 65536)
MaximumSize == Sub(DestAddr, ModuleStart)

(***************************************************************************)
(* link.ld fixes the regions.  Its assertion does not count the trampoline *)
(* table and the rounding, so that the arena has any room is an assumption.*)
(***************************************************************************)
ASSUME LayoutAssumption ==
    /\ {CodeEnd, TrampLen, SlotSize, DestAddr, FlushLo, FlushHi} \subseteq Nat
    /\ {TextBase, DataBase, ImportBase, Reach} \subseteq Nat
    /\ FlushLo <= CodeEnd
    /\ ModuleStart <= DestAddr
    /\ DestAddr % 256 = 0
    /\ DestAddr <= FlushHi
    /\ FlushHi <= Reach
    /\ Reach < TextBase
    /\ TextBase < DataBase
    /\ DataBase < ImportBase
    /\ DestAddr + ImportBase < Word

(***************************************************************************)
(* A file is what elfio decodes.  sh_info of a relocation section names a  *)
(* section (the code indexes destinations with it, unchecked).  A size may *)
(* be any word: the sums the loader makes of it wrap.                      *)
(***************************************************************************)
ASSUME FilesAssumption ==
    \A f \in Files :
        /\ f.n \in Nat
        /\ f.entry \in Words
        /\ f.sec \in [0 .. (f.n - 1) -> Sections]
        /\ \A s \in 0 .. (f.n - 1) :
              f.sec[s].type = "RELA" => f.sec[s].info < f.n

ASSUME ExportsAssumption == \A e \in DOMAIN Exports : Exports[e] \in Words

VARIABLES
    file,           \* the file being loaded
    pc,             \* the loop or step the loader is at
    cur,            \* loop counters: section, relocation section, entry
    sizeOfModule,
    targetAddress,
    baseOffset,
    offset_data,
    destinations,
    bss,            \* moduleData: location and size of .bss and .sbss
    sbss,
    imports,        \* moduleData: the list of import relocations
    slots,          \* the trampoline table in front of the arena
    usedRPls,       \* doRelocation's map, as the set of its keys
    refs,           \* how often each RPL has been acquired
    at,             \* where the bytes of each section went
    patched,        \* the relocations written so far, in order
    dirty           \* ranges written and not yet flushed

loadVars  == <<sizeOfModule, targetAddress, baseOffset, offset_data,
               destinations, bss, sbss, at>>
linkVars  == <<slots, patched, dirty>>
importVars == <<imports, usedRPls, refs>>
vars == <<file, pc, cur, loadVars, linkVars, importVars>>

Sec       == file.sec
SecIndex  == 0 .. (file.n - 1)
Names     == {Sec[s].imp.rpl : s \in SecIndex}
NotPlaced == -1
NoRange   == [lo |-> 0, size |-> 0]
Statuses  == {"FREE", "FIXED", "IN_PROGRESS", "DONE"}
SlotIndex == 0 .. (TrampLen - 1)
SlotAddr(s) == TrampBase + s * SlotSize

\* PROGBITS and NOBITS sections with SHF_ALLOC are part of the module.
Loadable(s) == Sec[s].type \in {"PROGBITS", "NOBITS"} /\ Sec[s].alloc
InText(a) == TextBase <= a /\ a < DataBase
InData(a) == DataBase <= a /\ a < ImportBase

\* Flushing [lo, hi) writes back whatever lies inside it.
Flushed(lo, hi) == {r \in dirty : ~ Inside(r.lo, r.size, lo, hi)}

\* (Definitions with a suffix, X_Suffix, are X with a bug; no action uses them.)
NextSection_CountsTwice == [cur EXCEPT !.sec = @ + 2, !.rel = 0, !.ent = 1]
NextRelSection_Stays    == [cur EXCEPT !.ent = 1]

Start == [sec |-> 0, rel |-> 0, ent |-> 1]
NextSection    == [cur EXCEPT !.sec = @ + 1, !.rel = 0, !.ent = 1]
NextRelSection == [cur EXCEPT !.rel = @ + 1, !.ent = 1]
NextEntry      == [cur EXCEPT !.ent = @ + 1]
-----------------------------------------------------------------------------
(***************************************************************************)
(* The trampoline table is never initialised: it holds what an earlier     *)
(* run, or anything else, left there.  A status the enumeration does not   *)
(* name behaves like IN_PROGRESS.                                          *)
(***************************************************************************)
Init ==
    /\ file \in Files
    /\ pc = "read"
    /\ cur = Start
    /\ sizeOfModule = 0
    /\ targetAddress = 0
    /\ baseOffset = 0
    /\ offset_data = 0
    /\ destinations = [s \in SecIndex |-> 0]
    /\ bss = NoRange
    /\ sbss = NoRange
    /\ imports = <<>>
    /\ slots \in [SlotIndex -> [status: Statuses, jump: {0}]]
    /\ usedRPls = {}
    /\ refs = [r \in Names |-> 0]
    /\ at = [s \in SecIndex |-> NotPlaced]
    /\ patched = <<>>
    /\ dirty = {}

\* LoadFileToMem, elfio's load or the allocation of destinations may fail.
ReadFile ==
    /\ pc = "read"
    /\ pc' \in {"size", "failed"}
    /\ UNCHANGED <<file, cur, loadVars, linkVars, importVars>>

SizeSection ==
    /\ pc = "size"
    /\ cur.sec < file.n
    /\ sizeOfModule' = IF Loadable(cur.sec)
                         THEN Add(sizeOfModule, Wrap(Sec[cur.sec].size + 1))
                         ELSE sizeOfModule
    /\ cur' = NextSection
    /\ UNCHANGED <<file, pc, targetAddress, baseOffset, offset_data,
                   destinations, bss, sbss, at, linkVars, importVars>>

TooBig ==
    /\ pc = "size"
    /\ cur.sec = file.n
    /\ sizeOfModule > MaximumSize
    /\ pc' = "failed"
    /\ UNCHANGED <<file, cur, loadVars, linkVars, importVars>>

ChooseTarget ==
    /\ pc = "size"
    /\ cur.sec = file.n
    /\ sizeOfModule <= MaximumSize
    /\ targetAddress' = PageFloor(Sub(DestAddr, sizeOfModule))
    /\ baseOffset' = targetAddress'
    /\ offset_data' = targetAddress'
    /\ pc' = "place"
    /\ cur' = Start
    /\ UNCHANGED <<file, sizeOfModule, destinations, bss, sbss, at, linkVars,
                   importVars>>
-----------------------------------------------------------------------------
\* The placement loop, ModuleDataFactory::load.
Skipped(s) == ~ Loadable(s) \/ Sec[s].name = ".wut_load_bounds"

\* The address at which the region of a section starts in the file.
LinkBase(s) == IF InText(Sec[s].addr) THEN TextBase ELSE DataBase
Destination(s) == Sub(Add(baseOffset, Sec[s].addr), LinkBase(s))
OutOfArena_Unsized(s) == Destination(s) < targetAddress \/ Destination(s) > DestAddr
OutOfArena(s) ==
    \/ Destination(s) < targetAddress
    \/ Add(Destination(s), Sec[s].size) > DestAddr

Placing(s) ==
    /\ pc = "place"
    /\ s = cur.sec
    /\ s < file.n
    /\ ~ Skipped(s)

SkipSection ==
    /\ pc = "place"
    /\ cur.sec < file.n
    /\ Skipped(cur.sec)
    /\ cur' = NextSection
    /\ UNCHANGED <<file, pc, loadVars, linkVars, importVars>>

\* An address in the import region or below the text region.
BadAddress ==
    /\ Placing(cur.sec)
    /\ ~ InText(Sec[cur.sec].addr)
    /\ ~ InData(Sec[cur.sec].addr)
    /\ pc' = "failed"
    /\ UNCHANGED <<file, cur, loadVars, linkVars, importVars>>

\* OSFatal does not return: what the locals hold is never read again.
ArenaFatal ==
    /\ Placing(cur.sec)
    /\ InText(Sec[cur.sec].addr) \/ InData(Sec[cur.sec].addr)
    /\ OutOfArena(cur.sec)
    /\ pc' = "fatal"
    /\ UNCHANGED <<file, cur, loadVars, linkVars, importVars>>

(***************************************************************************)
(* A size so large that destination + sectionSize wraps passes the check.  *)
(* The copy (or the clearing) then runs from the destination to the end of *)
(* the address space, over whatever is mapped there, until it faults.      *)
(***************************************************************************)
Runaway(s) == Destination(s) + Sec[s].size >= Word

Overrun ==
    /\ Placing(cur.sec)
    /\ InText(Sec[cur.sec].addr) \/ InData(Sec[cur.sec].addr)
    /\ ~ OutOfArena(cur.sec)
    /\ Runaway(cur.sec)
    /\ at' = [at EXCEPT ![cur.sec] = Destination(cur.sec)]
    /\ pc' = "overrun"
    /\ UNCHANGED <<file, cur, sizeOfModule, targetAddress, baseOffset, offset_data,
                   destinations, bss, sbss, linkVars, importVars>>

\* baseOffset and offset_data advance behind each text section.
NextOffset_Never(o, s) == o
NextOffset(o, s) == IF InText(Sec[s].addr) THEN Add(o, Sec[s].size) ELSE o

(***************************************************************************)
(* The copy (or the clearing) and the flush of the same range are one      *)
(* iteration of the loop: nothing stays dirty.                             *)
(***************************************************************************)
PlaceSection ==
    LET s == cur.sec
        range == [lo |-> Destination(s), size |-> Sec[s].size]
    IN
    /\ Placing(s)
    /\ InText(Sec[s].addr) \/ InData(Sec[s].addr)
    /\ ~ OutOfArena(s)
    /\ ~ Runaway(s)
    /\ destinations' = [destinations EXCEPT ![s] = Sub(baseOffset, LinkBase(s))]
    /\ at' = [at EXCEPT ![s] = Destination(s)]
    /\ baseOffset' = NextOffset(baseOffset, s)
    /\ offset_data' = NextOffset(offset_data, s)
    /\ bss' = IF Sec[s].name = ".bss" THEN range ELSE bss
    /\ sbss' = IF Sec[s].name = ".sbss" THEN range ELSE sbss
    /\ cur' = NextSection
    /\ UNCHANGED <<file, pc, sizeOfModule, targetAddress, linkVars, importVars>>

AllPlaced ==
    /\ pc = "place"
    /\ cur.sec = file.n
    /\ pc' = "link"
    /\ cur' = Start
    /\ UNCHANGED <<file, loadVars, linkVars, importVars>>
-----------------------------------------------------------------------------
(***************************************************************************)
(* ElfUtils::elfLinkOne.  A relocation is a record with the fields of the  *)
(* call: id (which entry it is), type, target (destination + offset),      *)
(* symbol, addend and import (RELOC_TYPE_IMPORT).  ok is what it returns.  *)
(***************************************************************************)
Value(l) == Add(l.symbol, l.addend)
Distance(l, v) == Signed(v) - Signed(l.target)

\* The bytes a relocation writes, and the address they now name.
Write(l, len, dest) ==
    /\ patched' = Append(patched, [id |-> l.id, lo |-> l.target, len |-> len,
                                   type |-> l.type, dest |-> dest,
                                   want |-> Value(l), import |-> l.import])
    /\ dirty' = dirty \cup {[lo |-> l.target, size |-> len]}

LinkNothing(l, ok) ==
    /\ l.type \in {"NONE", "DTPMOD32"}
    /\ ok
    /\ UNCHANGED linkVars

LinkUnsupported(l, ok) ==
    /\ l.type = "OTHER"
    /\ ~ ok
    /\ UNCHANGED linkVars

LinkAddress(l, ok) ==
    /\ l.type \in {"ADDR32", "ADDR16", "REL16"}
    /\ ok
    /\ Write(l, IF l.type = "ADDR32" THEN 4 ELSE 2, Value(l))
    /\ UNCHANGED slots

ShortBranchFits(d) == d \in -32764 .. 32764 /\ d % 4 = 0

LinkRel14(l, ok) ==
    /\ l.type = "REL14"
    /\ ok <=> ShortBranchFits(Distance(l, Value(l)))
    /\ IF ok THEN Write(l, 4, Value(l)) ELSE UNCHANGED <<patched, dirty>>
    /\ UNCHANGED slots

\* The checks every REL24 branch must pass before it is written.
BranchFits(d) == d % 4 = 0 /\ -(Reach + 4) <= d /\ d < Reach + 4

IsNear(l) == Distance(l, Value(l)) \in -Reach .. Reach

LinkNearBranch(l, ok) ==
    /\ l.type = "REL24"
    /\ IsNear(l)
    /\ ok <=> BranchFits(Distance(l, Value(l)))
    /\ IF ok THEN Write(l, 4, Value(l)) ELSE UNCHANGED <<patched, dirty>>
    /\ UNCHANGED slots

Reusable(s) == slots[s].status \in {"FREE", "DONE"}
FirstReusable(s) == Reusable(s) /\ \A t \in 0 .. (s - 1) : ~ Reusable(t)
TooFarFromSlot(l, s) == Sub(l.target, SlotAddr(s)) > Reach

NoTrampoline(l, ok) ==
    /\ l.type = "REL24"
    /\ ~ IsNear(l)
    /\ ~ ok
    /\ \/ \A s \in SlotIndex : ~ Reusable(s)
       \/ \E s \in SlotIndex : FirstReusable(s) /\ TooFarFromSlot(l, s)
    /\ UNCHANGED linkVars

(***************************************************************************)
(* The slot is written, flushed and marked before the branch to it is      *)
(* checked; the addend is applied to the slot's address as well.           *)
(***************************************************************************)
NewStatus(l) == IF l.import THEN "DONE" ELSE "FIXED"

BranchVia_FirstSlot(l, s) == Add(TrampBase, l.addend)
BranchVia(l, s) == Add(SlotAddr(s), l.addend)

LinkFarBranch(l, ok) ==
    /\ l.type = "REL24"
    /\ ~ IsNear(l)
    /\ \E s \in SlotIndex :
          LET dest == BranchVia(l, s) IN
          /\ FirstReusable(s)
          /\ ~ TooFarFromSlot(l, s)
          /\ slots' = [slots EXCEPT ![s] = [status |-> NewStatus(l),
                                            jump |-> Value(l)]]
          /\ ok <=> BranchFits(Distance(l, dest))
          /\ IF ok THEN Write(l, 4, dest) ELSE UNCHANGED <<patched, dirty>>

ElfLinkOne(l, ok) ==
    \/ LinkNothing(l, ok)
    \/ LinkUnsupported(l, ok)
    \/ LinkAddress(l, ok)
    \/ LinkRel14(l, ok)
    \/ LinkNearBranch(l, ok)
    \/ NoTrampoline(l, ok)
    \/ LinkFarBranch(l, ok)
-----------------------------------------------------------------------------
(***************************************************************************)
(* ModuleDataFactory::linkSection, called for every loadable section in    *)
(* turn: it applies the entries of every section whose sh_info names the   *)
(* section, whatever the type of that section is.                          *)
(***************************************************************************)
Linking == pc = "link" /\ cur.sec < file.n

\* The entry the cursor is at.
Entry == Sec[cur.rel].rel[cur.ent]
LinkingEntry ==
    /\ Linking
    /\ Loadable(cur.sec)
    /\ cur.rel < file.n
    /\ Sec[cur.rel].info = cur.sec
    /\ cur.ent <= Len(Sec[cur.rel].rel)

SectionLinked ==
    /\ Linking
    /\ ~ Loadable(cur.sec) \/ cur.rel = file.n
    /\ cur' = NextSection
    /\ UNCHANGED <<file, pc, loadVars, linkVars, importVars>>

RelSectionDone ==
    /\ Linking
    /\ Loadable(cur.sec)
    /\ cur.rel < file.n
    /\ ~ LinkingEntry
    /\ cur' = NextRelSection
    /\ UNCHANGED <<file, pc, loadVars, linkVars, importVars>>

\* get_symbol fails, as it does for the "entries" of a symbol table.
LinkNoSymbol ==
    /\ LinkingEntry
    /\ ~ Entry.sym.ok
    /\ pc' = "fatal"
    /\ UNCHANGED <<file, cur, loadVars, linkVars, importVars>>

IsImport(sym) == sym.value >= ImportBase
Unlinkable(sym) ==
    \/ 0 < sym.value /\ sym.value < TextBase
    \/ sym.shn > SHN_LORESERVE /\ sym.shn # SHN_ABS

LinkSkipImport ==
    /\ LinkingEntry
    /\ Entry.sym.ok
    /\ IsImport(Entry.sym)
    /\ cur' = NextEntry
    /\ UNCHANGED <<file, pc, loadVars, linkVars, importVars>>

LinkBadSymbol ==
    /\ LinkingEntry
    /\ Entry.sym.ok
    /\ ~ IsImport(Entry.sym)
    /\ Unlinkable(Entry.sym)
    /\ pc' = "failed"
    /\ UNCHANGED <<file, cur, loadVars, linkVars, importVars>>

\* base_text is targetAddress, base_data the final value of offset_data.
Adjusted_DataAtText(v) ==
    IF InText(v) THEN Add(Sub(v, TextBase), targetAddress)
    ELSE IF InData(v) THEN Add(Sub(v, DataBase), targetAddress) ELSE v
Adjusted(v) ==
    IF InText(v) THEN Add(Sub(v, TextBase), targetAddress)
    ELSE IF InData(v) THEN Add(Sub(v, DataBase), offset_data) ELSE v

LinkEntry ==
    /\ LinkingEntry
    /\ Entry.sym.ok
    /\ ~ IsImport(Entry.sym)
    /\ ~ Unlinkable(Entry.sym)
    /\ \E ok \in BOOLEAN :
          /\ ElfLinkOne([id |-> <<cur.rel, cur.ent>>,
                         type |-> Entry.type,
                         target |-> Add(destinations[cur.sec], Entry.offset),
                         symbol |-> Adjusted(Entry.sym.value),
                         addend |-> Entry.addend,
                         import |-> FALSE], ok)
          /\ pc' = IF ok THEN pc ELSE "failed"
          /\ cur' = IF ok THEN NextEntry ELSE cur
    /\ UNCHANGED <<file, loadVars, importVars>>

AllLinked ==
    /\ pc = "link"
    /\ cur.sec = file.n
    /\ pc' = "collect"
    /\ cur' = Start
    /\ UNCHANGED <<file, loadVars, linkVars, importVars>>
-----------------------------------------------------------------------------
\* ModuleDataFactory::getImportRelocationData.
Collecting == pc = "collect" /\ cur.rel < file.n
CollectingEntry_AllButLast ==
    /\ Collecting
    /\ Sec[cur.rel].type = "RELA"
    /\ cur.ent < Len(Sec[cur.rel].rel)
CollectingEntry ==
    /\ Collecting
    /\ Sec[cur.rel].type = "RELA"
    /\ cur.ent <= Len(Sec[cur.rel].rel)

CollectNextSection ==
    /\ Collecting
    /\ ~ CollectingEntry
    /\ cur' = NextRelSection
    /\ UNCHANGED <<file, pc, loadVars, linkVars, importVars>>

CollectNoSymbol ==
    /\ CollectingEntry
    /\ ~ Entry.sym.ok
    /\ pc' = "fatal"
    /\ UNCHANGED <<file, cur, loadVars, linkVars, importVars>>

CollectSkipLocal ==
    /\ CollectingEntry
    /\ Entry.sym.ok
    /\ ~ IsImport(Entry.sym)
    /\ cur' = NextEntry
    /\ UNCHANGED <<file, pc, loadVars, linkVars, importVars>>

\* infoMap[sym_section_index] is the name of an RPL import section, or empty.
ImportInfo(sym) ==
    IF sym.shn \in SecIndex /\ Sec[sym.shn].type = "RPL_IMPORTS"
      THEN Sec[sym.shn].imp
      ELSE [ok |-> FALSE, rpl |-> "", isData |-> FALSE]

\* The break leaves the rest of this relocation section out of the list.
CollectBreak ==
    /\ CollectingEntry
    /\ Entry.sym.ok
    /\ IsImport(Entry.sym)
    /\ ~ ImportInfo(Entry.sym).ok
    /\ cur' = NextRelSection
    /\ UNCHANGED <<file, pc, loadVars, linkVars, importVars>>

\* The destination a relocation is recorded with; its offset loses TextBase.
ImportBaseOf(s) == Add(destinations[s], TextBase)

CollectImport ==
    /\ CollectingEntry
    /\ Entry.sym.ok
    /\ IsImport(Entry.sym)
    /\ ImportInfo(Entry.sym).ok
    /\ imports' = Append(imports,
                         [id |-> <<cur.rel, cur.ent>>,
                          type |-> Entry.type,
                          offset |-> Sub(Entry.offset, TextBase),
                          addend |-> Entry.addend,
                          destination |-> ImportBaseOf(Sec[cur.rel].info),
                          name |-> Entry.sym.name,
                          rpl |-> ImportInfo(Entry.sym).rpl,
                          isData |-> ImportInfo(Entry.sym).isData])
    /\ cur' = NextEntry
    /\ UNCHANGED <<file, pc, loadVars, linkVars, usedRPls, refs>>

\* load flushes [targetAddress, destination_address) and returns.
LoadDone ==
    /\ pc = "collect"
    /\ cur.rel = file.n
    /\ dirty' = Flushed(targetAddress, DestAddr)
    /\ pc' = "reloc"
    /\ cur' = Start
    /\ UNCHANGED <<file, loadVars, slots, patched, importVars>>
-----------------------------------------------------------------------------
\* doRelocation.
Import == imports[cur.ent]
Resolving == pc = "reloc" /\ cur.ent <= Len(imports)

\* OSDynLoad_Acquire fails; do_start stops with OSFatal.
AcquireFails ==
    /\ Resolving
    /\ Import.rpl \notin usedRPls
    /\ pc' = "fatal"
    /\ UNCHANGED <<file, cur, loadVars, linkVars, importVars>>

Acquired_EveryTime ==
    /\ usedRPls' = usedRPls \cup {Import.rpl}
    /\ refs' = [refs EXCEPT ![Import.rpl] = @ + 1]
\* The RPL is acquired the first time it is needed, and then cached.
Acquired ==
    IF Import.rpl \in usedRPls
      THEN UNCHANGED <<usedRPls, refs>>
      ELSE /\ usedRPls' = usedRPls \cup {Import.rpl}
           /\ refs' = [refs EXCEPT ![Import.rpl] = @ + 1]

ExportAddress ==
    LET export == <<Import.rpl, Import.name, Import.isData>>
    IN IF export \in DOMAIN Exports THEN Exports[export] ELSE 0

ExportMissing ==
    /\ Resolving
    /\ Acquired
    /\ pc' = "fatal"
    /\ UNCHANGED <<file, cur, loadVars, linkVars, imports>>

ResolveImport ==
    /\ Resolving
    /\ Acquired
    /\ ExportAddress # 0
    /\ \E ok \in BOOLEAN :
          /\ ElfLinkOne([id |-> Import.id,
                         type |-> Import.type,
                         target |-> Add(Import.destination, Import.offset),
                         symbol |-> ExportAddress,
                         addend |-> Import.addend,
                         import |-> TRUE], ok)
          /\ pc' = IF ok THEN pc ELSE "fatal"
          /\ cur' = IF ok THEN NextEntry ELSE cur
    /\ UNCHANGED <<file, loadVars, imports>>

\* The trampoline table is flushed.
AllResolved ==
    /\ pc = "reloc"
    /\ cur.ent > Len(imports)
    /\ dirty' = Flushed(TrampBase, TrampEnd)
    /\ pc' = "clear"
    /\ UNCHANGED <<file, cur, loadVars, slots, patched, importVars>>

\* do_start clears .bss and .sbss, where load recorded them.
ClearBss ==
    /\ pc = "clear"
    /\ dirty' = dirty \cup {r \in {bss, sbss} : r.lo # 0}
    /\ pc' = "enter"
    /\ UNCHANGED <<file, cur, loadVars, slots, patched, importVars>>

EntryPoint == Sub(Add(targetAddress, file.entry), TextBase)

FinalFlush_TableOnly == Flushed(TrampBase, TrampEnd)
FinalFlush == Flushed(FlushLo, FlushHi)

\* The last flush; _start then calls the entry point.
Enter ==
    /\ pc = "enter"
    /\ dirty' = FinalFlush
    /\ pc' = "entered"
    /\ UNCHANGED <<file, cur, loadVars, slots, patched, importVars>>

Halted == pc \in {"entered", "failed", "fatal", "overrun"}

Done == Halted /\ UNCHANGED vars

Next ==
    \/ ReadFile \/ SizeSection \/ TooBig \/ ChooseTarget
    \/ SkipSection \/ BadAddress \/ ArenaFatal \/ Overrun \/ PlaceSection \/ AllPlaced
    \/ SectionLinked \/ RelSectionDone \/ LinkNoSymbol \/ LinkSkipImport
    \/ LinkBadSymbol \/ LinkEntry \/ AllLinked
    \/ CollectNextSection \/ CollectNoSymbol \/ CollectSkipLocal
    \/ CollectBreak \/ CollectImport \/ LoadDone
    \/ AcquireFails \/ ExportMissing \/ ResolveImport \/ AllResolved
    \/ ClearBss \/ Enter \/ Done

\* The loader is one thread that nothing blocks.
Spec == Init /\ [][Next]_vars /\ WF_vars(Next)
-----------------------------------------------------------------------------
Ranges   == [lo : Words, size : Words]
RelocIds == SecIndex \X (Nat \ {0})
Patches  == [id : RelocIds, lo : Words, len : {2, 4}, type : RelocTypes,
             dest : Words, want : Words, import : BOOLEAN]
ImportRelocs == [id : RelocIds, type : RelocTypes, offset : Words,
                 addend : -Word .. Word, destination : Words, name : STRING,
                 rpl : Names, isData : BOOLEAN]
PCs == {"read", "size", "place", "link", "collect", "reloc", "clear", "enter",
        "entered", "failed", "fatal", "overrun"}

TypeOK ==
    /\ file \in Files
    /\ pc \in PCs
    /\ cur \in [sec : 0 .. file.n, rel : 0 .. file.n, ent : Nat \ {0}]
    /\ {sizeOfModule, targetAddress, baseOffset, offset_data} \subseteq Words
    /\ destinations \in [SecIndex -> Words]
    /\ bss \in Ranges
    /\ sbss \in Ranges
    /\ imports \in Seq(ImportRelocs)
    /\ slots \in [SlotIndex -> [status : Statuses, jump : Words]]
    /\ usedRPls \subseteq Names
    /\ refs \in [Names -> Nat]
    /\ at \in [SecIndex -> NotPlaced .. (Word - 1)]
    /\ patched \in Seq(Patches)
    /\ dirty \subseteq [lo : Words, size : Nat]

(***************************************************************************)
(* A section whose end does not wrap goes between the trampoline table and *)
(* 0x00FD0000, wherever the file puts it and whatever sizes the others     *)
(* have (their sum, which decides where the module goes, may have wrapped).*)
(* A section whose end does wrap passes the check of ModuleDataFactory::load*)
(* and is not confined (Overrun); none starts below the arena.             *)
(***************************************************************************)
ArenaSafe ==
    \A s \in SecIndex : at[s] # NotPlaced =>
        /\ ModuleStart <= at[s]
        /\ at[s] + Sec[s].size < Word => Inside(at[s], Sec[s].size, ModuleStart, DestAddr)

(***************************************************************************)
(* A tidy file is laid out the way elf2rpl does it: one text section at    *)
(* the text base, before every data section; data sections apart from each *)
(* other; no section so large that a sum wraps (that excludes about 1 GB   *)
(* and more); relocations inside the section they are for; symbols inside  *)
(* the section that defines them.  The loader checks none of this.         *)
(***************************************************************************)
LocalSym(sym) == sym.ok /\ ~ IsImport(sym) /\ sym.shn \in SecIndex
SizesFit == \A s \in SecIndex : Sec[s].size + DestAddr + ImportBase < Word
TidyLayout ==
    /\ SizesFit
    /\ \A s \in SecIndex : Loadable(s) =>
          /\ Sec[s].name # ".wut_load_bounds"
          /\ Sec[s].size > 0
          /\ InText(Sec[s].addr) \/ InData(Sec[s].addr)
          /\ InText(Sec[s].addr) => Sec[s].addr = TextBase
          /\ Sec[s].type = "NOBITS" <=> Sec[s].name \in {".bss", ".sbss"}
    /\ \A s, t \in SecIndex : Loadable(s) /\ Loadable(t) /\ s < t =>
          /\ ~ InText(Sec[t].addr)
          /\ ~ Overlap(Sec[s].addr, Sec[s].size, Sec[t].addr, Sec[t].size)
          /\ Sec[s].name \in {".bss", ".sbss"} => Sec[s].name # Sec[t].name
    /\ \E s \in SecIndex : Loadable(s) /\ InText(Sec[s].addr) /\
          Inside(file.entry, 4, Sec[s].addr, Sec[s].addr + Sec[s].size)
TidyReloc(i, r) ==
    /\ Inside(r.offset, 4, Sec[i].addr, Sec[i].addr + Sec[i].size)
    /\ r.sym.ok
    /\ IsImport(r.sym) => ImportInfo(r.sym).ok
    /\ LocalSym(r.sym) => LET d == Sec[r.sym.shn] IN
          /\ Loadable(r.sym.shn)
          /\ Inside(r.sym.value, 0, d.addr, d.addr + d.size)
          /\ InText(d.addr) => InText(r.sym.value)
TidyRelocs ==
    \A s \in SecIndex :
        /\ Sec[s].type # "RELA" => Sec[s].rel = <<>> \/ ~ Loadable(Sec[s].info)
        /\ Sec[s].type = "RELA" =>
              /\ Loadable(Sec[s].info)
              /\ Sec[Sec[s].info].type = "PROGBITS"
              /\ \A e \in 1 .. Len(Sec[s].rel) :
                    TidyReloc(Sec[s].info, Sec[s].rel[e])
Tidy == TidyLayout /\ TidyRelocs

Patched  == {patched[i] : i \in 1 .. Len(patched)}
RelocOf(id) == Sec[id[1]].rel[id[2]]
OwnerOf(id) == Sec[id[1]].info

(***************************************************************************)
(* Placement and linking agree on where things are.  Placement advances    *)
(* baseOffset section by section; linking uses two bases, the first and    *)
(* the last value of offset_data.  A relocation must still be written at   *)
(* its own place in its own section, and name the place its symbol went    *)
(* to.                                                                     *)
(***************************************************************************)
PatchesAtOwnPlace ==
    Tidy => \A p \in Patched :
        LET s == OwnerOf(p.id) IN
        /\ p.lo = at[s] + RelocOf(p.id).offset - Sec[s].addr
        /\ Inside(p.lo, p.len, at[s], at[s] + Sec[s].size)

SymbolsWherePlaced ==
    Tidy => \A p \in Patched :
        LET r == RelocOf(p.id) IN
        LocalSym(r.sym) =>
            p.want = Add(at[r.sym.shn] + r.sym.value - Sec[r.sym.shn].addr,
                         r.addend)

LinkedWherePlaced == PatchesAtOwnPlace /\ SymbolsWherePlaced

\* No byte of the module belongs to two sections.
SectionsApart ==
    Tidy => \A s, t \in SecIndex :
        s # t /\ NotPlaced \notin {at[s], at[t]} =>
            ~ Overlap(at[s], Sec[s].size, at[t], Sec[t].size)

(***************************************************************************)
(* The two passes over the relocations divide the work: linkSection finds  *)
(* its entries through sh_info and leaves imports out,                     *)
(* getImportRelocationData goes by section type and leaves the others out. *)
(* A tidy module is only entered when each entry that writes anything has  *)
(* been applied, and once.                                                 *)
(***************************************************************************)
Writing(r) == r.type \notin {"NONE", "DTPMOD32"}
ToApply == {id \in UNION {{s} \X (1 .. Len(Sec[s].rel)) : s \in SecIndex} :
               Sec[id[1]].type = "RELA" /\ Writing(RelocOf(id))}
EachRelocationOnce ==
    /\ \A i, j \in 1 .. Len(patched) :
          Tidy /\ patched[i].id = patched[j].id => i = j
    /\ Tidy /\ pc = "entered" => {p.id : p \in Patched} = ToApply

(***************************************************************************)
(* Where a REL24 branch ends up: in reach, at its destination; out of      *)
(* reach, at a trampoline that jumps there.  The code reuses a slot as     *)
(* soon as it is written (status DONE), so branches only all arrive when   *)
(* the imports out of reach are one function; it adds the addend to the    *)
(* slot's address as well, so it must be 0; and it writes the slot before  *)
(* it finds that a branch cannot be written, which ends the load.          *)
(***************************************************************************)
ViaSlot(p) == p.type = "REL24" /\ Signed(p.want) - Signed(p.lo) \notin -Reach .. Reach
Lands(p) == IF ViaSlot(p)
              THEN \E s \in SlotIndex : SlotAddr(s) = p.dest /\ slots[s].jump = p.want
              ELSE p.dest = p.want
OneFarFunction == \A p, q \in Patched : ViaSlot(p) /\ ViaSlot(q) => p.want = q.want
BranchesLand ==
    OneFarFunction /\ pc \notin {"failed", "fatal"} => \A p \in Patched :
        p.type = "REL24" /\ RelocOf(p.id).addend = 0 => Lands(p)

(***************************************************************************)
(* A branch to a symbol of the module, or to an undefined weak one, is     *)
(* never out of reach, so it never takes a FIXED slot.  Those are not given *)
(* back: one that was taken would be lost until the console is switched off.*)
(***************************************************************************)
InternalBranchesDirect ==
    Tidy => \A p \in Patched : LET r == RelocOf(p.id) IN
        /\ ~ p.import
        /\ LocalSym(r.sym) \/ r.sym.value = 0
        /\ r.addend = 0
        => ~ ViaSlot(p)

\* Every branch arrives, and a trampoline is only used up for a far import.
BranchesArrive == BranchesLand /\ InternalBranchesDirect

(***************************************************************************)
(* When the module is entered every RPL it imports from has been acquired, *)
(* and just once however many relocations name it.                         *)
(***************************************************************************)
RplsPinnedOnce ==
    pc = "entered" => \A r \in Names :
        refs[r] = IF \E i \in 1 .. Len(imports) : imports[i].rpl = r THEN 1 ELSE 0

\* The module is entered with no byte of it left in the data cache only.
CoherentAtEntry == Tidy /\ pc = "entered" => dirty = {}

\* The entry point is in the text section, and what was linked there is intact.
EntersOwnText ==
    Tidy /\ pc = "entered" =>
        /\ \E s \in SecIndex : /\ InText(Sec[s].addr)
                               /\ Inside(EntryPoint, 4, at[s], at[s] + Sec[s].size)
        /\ \A p \in Patched : \A r \in {bss, sbss} :
              r.lo # 0 => ~ Overlap(p.lo, p.len, r.lo, r.size)

\* The module is entered in its own text, linked, intact and written back.
EntersCoherently == CoherentAtEntry /\ EntersOwnText

\* The loader enters the file it finds or gives up, unless a copy runs away.
Terminates == <>Halted

(***************************************************************************)
(* "Pending relocations have the status RELOC_TRAMP_IMPORT_IN_PROGRESS.    *)
(* When all relocations are done successfully, they will be turned into    *)
(* RELOC_TRAMP_IMPORT_DONE so they can be overridden": a trampoline filled *)
(* by this load is not overridden by this load.                            *)
(***************************************************************************)
PendingTrampolinesKept ==
    [][\A s \in SlotIndex : slots[s].jump # 0 => slots'[s].jump = slots[s].jump]_vars
=============================================================================
