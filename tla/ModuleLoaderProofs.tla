------------------------- MODULE ModuleLoaderProofs -------------------------
(***************************************************************************)
(* Proofs about ModuleLoader, for all files and for all addresses that     *)
(* satisfy its assumptions.  First types, the arena, the layout of a tidy  *)
(* file and the RPLs that are acquired; then the relocations: what the two *)
(* passes write and where, where branches end up, that no entry is left    *)
(* out or taken twice, and the state in which the module is entered.  Each *)
(* invariant uses the ones before it.                                      *)
(***************************************************************************)
EXTENDS ModuleLoader, TLAPS

\* What elfLinkOne may be called with.
Calls == [id : RelocIds, type : RelocTypes, target : Words, symbol : Words,
          addend : -Word .. Word, import : BOOLEAN]

-----------------------------------------------------------------------------
\* One correction brings the sum of a word and anything up to a word back.
LEMMA WrapTyped ==
    ASSUME NEW x \in Words, NEW y \in -Word .. Word
    PROVE  Add(x, y) \in Words
BY WordAssumption, SMT DEF Add, Wrap, Words

\* The wrapped difference of two words is a word.
LEMMA SubTyped ==
    ASSUME NEW x \in Words, NEW y \in Words
    PROVE  Sub(x, y) \in Words
BY WordAssumption, SMT DEF Sub, Wrap, Words

\* Rounding down to a page never goes below a page boundary.
LEMMA PageFloorBounds ==
    ASSUME NEW x \in Nat
    PROVE  /\ PageFloor(x) \in Nat
           /\ PageFloor(x) <= x
           /\ \A b \in Nat : b % 256 = 0 /\ b <= x => b <= PageFloor(x)
BY SMT DEF PageFloor

\* Aligning a word to 64 KiB lowers it by less than 64 KiB.
LEMMA BlockFloorBounds ==
    ASSUME NEW x \in Nat
    PROVE  /\ BlockFloor(x) \in Nat
           /\ BlockFloor(x) <= x
           /\ x < BlockFloor(x) + 65536
           /\ BlockFloor(x) % 256 = 0
BY SMT DEF BlockFloor

\* The named constants of the memory layout are words.
LEMMA ConstantsTyped ==
    /\ {CodeEnd, TrampLen, SlotSize, DestAddr, FlushLo, FlushHi} \subseteq Nat
    /\ {TextBase, DataBase, ImportBase, Reach} \subseteq Words
BY LayoutAssumption, WordAssumption, SMT DEF LayoutAssumption, Words

\* The arena starts on a page, behind every slot of the trampoline table.
LEMMA Layout ==
    /\ TrampBase \in Nat
    /\ TrampEnd \in Nat
    /\ ModuleStart \in Nat
    /\ ModuleStart % 256 = 0
    /\ ModuleStart <= DestAddr
    /\ TrampEnd < ModuleStart
    /\ DestAddr \in Words
    /\ MaximumSize = DestAddr - ModuleStart
    /\ \A s \in SlotIndex : SlotAddr(s) \in Words
<1>1. TrampBase \in Nat
  BY ConstantsTyped, PageFloorBounds DEF TrampBase
<1>2. TrampLen * SlotSize \in Nat
  BY ConstantsTyped, SMT
<1>3. TrampEnd \in Nat
  BY <1>1, <1>2 DEF TrampEnd
<1>4. /\ ModuleStart \in Nat
      /\ ModuleStart % 256 = 0
      /\ TrampEnd < ModuleStart
  BY <1>3, BlockFloorBounds, SMT DEF ModuleStart
<1>5. ModuleStart <= DestAddr /\ DestAddr \in Words
  BY LayoutAssumption, WordAssumption, SMT DEF LayoutAssumption, Words
<1>6. MaximumSize = DestAddr - ModuleStart
  BY <1>4, <1>5, WordAssumption, SMT DEF MaximumSize, Sub, Wrap, Words
<1>7. ASSUME NEW s \in SlotIndex
      PROVE  SlotAddr(s) \in Words
  <2>1. s * SlotSize \in Nat /\ s * SlotSize <= TrampLen * SlotSize
    BY ConstantsTyped, SMT DEF SlotIndex
  <2>2. SlotAddr(s) \in Nat /\ SlotAddr(s) <= TrampEnd
    BY <1>1, <1>2, <2>1, SMT DEF SlotAddr, TrampEnd
  <2> QED
    BY <1>3, <1>4, <1>5, <2>2, WordAssumption, SMT DEF Words
<1> QED
  BY <1>1, <1>3, <1>4, <1>5, <1>6, <1>7
-----------------------------------------------------------------------------
\* What the type invariant says of the file.
LEMMA FileTyped ==
    ASSUME file \in Files
    PROVE  /\ file.n \in Nat
           /\ file.entry \in Words
           /\ \A s \in SecIndex :
                 /\ Sec[s] \in Sections
                 /\ Sec[s].type = "RELA" => Sec[s].info \in SecIndex
                 /\ \A e \in 1 .. Len(Sec[s].rel) : Sec[s].rel[e] \in Relocs
<1>1. /\ file.n \in Nat
      /\ file.entry \in Words
      /\ file.sec \in [0 .. (file.n - 1) -> Sections]
      /\ \A s \in 0 .. (file.n - 1) :
            file.sec[s].type = "RELA" => file.sec[s].info < file.n
  BY FilesAssumption DEF FilesAssumption
<1>2. \A s \in SecIndex : Sec[s] \in Sections
  BY <1>1 DEF Sec, SecIndex
<1>3. \A s \in SecIndex : Sec[s].info \in Nat /\ Sec[s].rel \in Seq(Relocs)
  BY <1>2 DEF Sections
<1>4. \A s \in SecIndex : \A e \in 1 .. Len(Sec[s].rel) : Sec[s].rel[e] \in Relocs
  BY <1>3
<1>5. \A s \in SecIndex : Sec[s].type = "RELA" => Sec[s].info \in SecIndex
  BY <1>1, <1>3, SMT DEF Sec, SecIndex
<1> QED
  BY <1>1, <1>2, <1>4, <1>5 DEF Sec, SecIndex

\* The part of the type invariant that elfLinkOne may disturb.
LinkTypeOK ==
    /\ slots \in [SlotIndex -> [status : Statuses, jump : Words]]
    /\ patched \in Seq(Patches)
    /\ dirty \subseteq [lo : Words, size : Nat]

\* A relocation that writes something leaves typed records of it.
LEMMA WriteTyped ==
    ASSUME LinkTypeOK, NEW l \in Calls, NEW len \in {2, 4}, NEW dest \in Words,
           Write(l, len, dest), UNCHANGED file
    PROVE  /\ patched' \in Seq(Patches)
           /\ patched' \in Seq(Patches')
           /\ dirty' \subseteq [lo : Words, size : Nat]
<1>1. Value(l) \in Words
  BY WrapTyped DEF Value, Calls
<1>2. [id |-> l.id, lo |-> l.target, len |-> len, type |-> l.type, dest |-> dest,
       want |-> Value(l), import |-> l.import] \in Patches
  BY <1>1 DEF Calls, Patches
<1>3. patched' \in Seq(Patches)
  BY <1>2 DEF Write, LinkTypeOK
<1>4. Patches' = Patches
  BY DEF Patches, RelocIds, SecIndex
<1>5. dirty' \subseteq [lo : Words, size : Nat]
  BY DEF Write, LinkTypeOK, Calls
<1> QED
  BY <1>3, <1>4, <1>5

\* Every branch of ElfUtils::elfLinkOne keeps the tables typed.
LEMMA LinkTyped ==
    ASSUME LinkTypeOK, NEW l \in Calls, NEW ok \in BOOLEAN, ElfLinkOne(l, ok),
           UNCHANGED file
    PROVE  LinkTypeOK'
<1>1. Value(l) \in Words
  BY WrapTyped DEF Value, Calls
<1>2. Patches' = Patches
  BY DEF Patches, RelocIds, SecIndex
<1>3. ASSUME UNCHANGED linkVars
      PROVE  LinkTypeOK'
  BY <1>2, <1>3 DEF LinkTypeOK, linkVars
<1>4. ASSUME UNCHANGED slots, UNCHANGED <<patched, dirty>>
      PROVE  LinkTypeOK'
  BY <1>2, <1>4 DEF LinkTypeOK
<1>5. ASSUME UNCHANGED slots, NEW len \in {2, 4}, Write(l, len, Value(l))
      PROVE  LinkTypeOK'
  BY <1>1, <1>5, WriteTyped DEF LinkTypeOK
<1>6. CASE LinkNothing(l, ok) \/ LinkUnsupported(l, ok) \/ NoTrampoline(l, ok)
  BY <1>3, <1>6 DEF LinkNothing, LinkUnsupported, NoTrampoline
<1>7. CASE LinkAddress(l, ok)
  BY <1>5, <1>7 DEF LinkAddress
<1>8. CASE LinkRel14(l, ok) \/ LinkNearBranch(l, ok)
  <2>1. UNCHANGED slots
    BY <1>8 DEF LinkRel14, LinkNearBranch
  <2>2. IF ok THEN Write(l, 4, Value(l)) ELSE UNCHANGED <<patched, dirty>>
    BY <1>8 DEF LinkRel14, LinkNearBranch
  <2>3. CASE ok
    BY <1>5, <2>1, <2>2, <2>3
  <2>4. CASE ~ ok
    BY <1>4, <2>1, <2>2, <2>4
  <2> QED
    BY <2>3, <2>4
<1>9. CASE LinkFarBranch(l, ok)
  <2>1. PICK s \in SlotIndex :
          /\ slots' = [slots EXCEPT ![s] = [status |-> NewStatus(l),
                                            jump |-> Value(l)]]
          /\ IF ok THEN Write(l, 4, BranchVia(l, s)) ELSE UNCHANGED <<patched, dirty>>
    BY <1>9 DEF LinkFarBranch
  <2>2. BranchVia(l, s) \in Words
    BY Layout, WrapTyped DEF BranchVia, Calls
  <2>3. NewStatus(l) \in Statuses
    BY DEF NewStatus, Statuses
  <2>4. slots' \in [SlotIndex -> [status : Statuses, jump : Words]]
    BY <1>1, <2>1, <2>3 DEF LinkTypeOK
  <2>5. CASE ok
    BY <2>1, <2>2, <2>4, <2>5, WriteTyped DEF LinkTypeOK
  <2>6. CASE ~ ok
    BY <1>2, <2>1, <2>4, <2>6 DEF LinkTypeOK
  <2> QED
    BY <2>5, <2>6
<1> QED
  BY <1>6, <1>7, <1>8, <1>9 DEF ElfLinkOne
-----------------------------------------------------------------------------
\* The state do_start begins in is typed.
LEMMA InitTypeOK == Init => TypeOK
<1> SUFFICES ASSUME Init PROVE TypeOK
  OBVIOUS
<1>1. file \in Files /\ file.n \in Nat
  BY FileTyped DEF Init
<1>2. cur \in [sec : 0 .. file.n, rel : 0 .. file.n, ent : Nat \ {0}]
  BY <1>1 DEF Init, Start
<1>3. 0 \in Words
  BY WordAssumption, SMT DEF Words
<1>4. /\ destinations \in [SecIndex -> Words]
      /\ at \in [SecIndex -> NotPlaced .. (Word - 1)]
  BY <1>3, WordAssumption, SMT DEF Init, NotPlaced
<1>5. slots \in [SlotIndex -> [status : Statuses, jump : Words]]
  BY <1>3 DEF Init
<1>6. bss \in Ranges /\ sbss \in Ranges
  BY <1>3 DEF Init, Ranges, NoRange
<1>7. /\ imports \in Seq(ImportRelocs)
      /\ patched \in Seq(Patches)
  BY DEF Init
<1>8. /\ usedRPls \subseteq Names
      /\ refs \in [Names -> Nat]
      /\ dirty \subseteq [lo : Words, size : Nat]
      /\ pc \in PCs
      /\ {sizeOfModule, targetAddress, baseOffset, offset_data} \subseteq Words
  BY <1>3 DEF Init, PCs
<1> QED
  BY <1>1, <1>2, <1>4, <1>5, <1>6, <1>7, <1>8 DEF TypeOK

\* Moving the loop counters keeps them in range.
LEMMA CursorTyped ==
    ASSUME TypeOK, UNCHANGED file,
           \/ cur' = cur
           \/ cur' = Start
           \/ cur.sec < file.n /\ cur' = NextSection
           \/ cur.rel < file.n /\ cur' = NextRelSection
           \/ cur' = NextEntry
    PROVE  cur' \in [sec : 0 .. file.n, rel : 0 .. file.n, ent : Nat \ {0}]
<1>1. file.n \in Nat
  BY FileTyped DEF TypeOK
<1>2. cur \in [sec : 0 .. file.n, rel : 0 .. file.n, ent : Nat \ {0}]
  BY DEF TypeOK
<1>3. cur.sec \in 0 .. file.n /\ cur.rel \in 0 .. file.n /\ cur.ent \in Nat \ {0}
  BY <1>2
<1>4. CASE cur' = cur
  BY <1>2, <1>4
<1>5. CASE cur' = Start
  BY <1>1, <1>5 DEF Start
<1>6. CASE cur.sec < file.n /\ cur' = NextSection
  <2>1. cur' = [sec |-> cur.sec + 1, rel |-> 0, ent |-> 1]
    BY <1>2, <1>6 DEF NextSection
  <2> QED
    BY <1>1, <1>3, <1>6, <2>1
<1>7. CASE cur.rel < file.n /\ cur' = NextRelSection
  <2>1. cur' = [sec |-> cur.sec, rel |-> cur.rel + 1, ent |-> 1]
    BY <1>2, <1>7 DEF NextRelSection
  <2> QED
    BY <1>1, <1>3, <1>7, <2>1
<1>8. CASE cur' = NextEntry
  <2>1. cur' = [sec |-> cur.sec, rel |-> cur.rel, ent |-> cur.ent + 1]
    BY <1>2, <1>8 DEF NextEntry
  <2> QED
    BY <1>1, <1>3, <2>1
<1> QED
  BY <1>4, <1>5, <1>6, <1>7, <1>8

\* The type invariant, in the groups the actions leave unchanged.
LoadTypeOK ==
    /\ {sizeOfModule, targetAddress, baseOffset, offset_data} \subseteq Words
    /\ destinations \in [SecIndex -> Words]
    /\ bss \in Ranges
    /\ sbss \in Ranges
    /\ at \in [SecIndex -> NotPlaced .. (Word - 1)]
ImportTypeOK ==
    /\ imports \in Seq(ImportRelocs)
    /\ usedRPls \subseteq Names
    /\ refs \in [Names -> Nat]
ControlTypeOK ==
    /\ file \in Files
    /\ pc \in PCs
    /\ cur \in [sec : 0 .. file.n, rel : 0 .. file.n, ent : Nat \ {0}]

\* TypeOK, split into what the cursor, placement, linking and imports need.
LEMMA TypeOKGroups ==
    TypeOK <=> ControlTypeOK /\ LoadTypeOK /\ LinkTypeOK /\ ImportTypeOK
BY DEF TypeOK, ControlTypeOK, LoadTypeOK, LinkTypeOK, ImportTypeOK

\* A step keeps the type of each group of variables it leaves alone.
LEMMA GroupsUnchanged ==
    ASSUME TypeOK, UNCHANGED file
    PROVE  /\ UNCHANGED loadVars => LoadTypeOK'
           /\ UNCHANGED linkVars => LinkTypeOK'
           /\ UNCHANGED importVars => ImportTypeOK'
<1>1. /\ SecIndex' = SecIndex
      /\ Names' = Names
      /\ Patches' = Patches
      /\ ImportRelocs' = ImportRelocs
  BY DEF SecIndex, Names, Sec, Patches, ImportRelocs, RelocIds
<1>2. UNCHANGED loadVars => LoadTypeOK'
  BY <1>1 DEF TypeOK, LoadTypeOK, loadVars
<1>3. UNCHANGED linkVars => LinkTypeOK'
  BY <1>1 DEF TypeOK, LinkTypeOK, linkVars
<1>4. UNCHANGED importVars => ImportTypeOK'
  BY <1>1 DEF TypeOK, ImportTypeOK, importVars
<1> QED
  BY <1>2, <1>3, <1>4
-----------------------------------------------------------------------------
\* Actions that only move the program counter and the cursor.
MovesOn ==
    /\ pc' \in PCs
    /\ \/ cur' = cur
       \/ cur' = Start
       \/ cur.sec < file.n /\ cur' = NextSection
       \/ cur.rel < file.n /\ cur' = NextRelSection
       \/ cur' = NextEntry
    /\ UNCHANGED file

\* A step that moves pc and the cursor keeps both in the file.
LEMMA ControlTyped ==
    ASSUME TypeOK, MovesOn
    PROVE  ControlTypeOK'
BY CursorTyped DEF TypeOK, MovesOn, ControlTypeOK

\* If it does nothing else, every type is kept.
LEMMA MovesOnly ==
    ASSUME TypeOK, MovesOn, UNCHANGED <<loadVars, linkVars, importVars>>
    PROVE  TypeOK'
<1>1. UNCHANGED loadVars /\ UNCHANGED linkVars /\ UNCHANGED importVars /\ UNCHANGED file
  BY DEF MovesOn
<1> QED
  BY <1>1, ControlTyped, GroupsUnchanged, TypeOKGroups DEF ControlTypeOK, LoadTypeOK,
     LinkTypeOK, ImportTypeOK, TypeOK

\* Adding up the sections keeps the types: the sum wraps within a word.
LEMMA SizeTypeOK == ASSUME TypeOK, SizeSection PROVE TypeOK'
<1>1. MovesOn
  BY DEF SizeSection, MovesOn, TypeOK
<1>2. file \in Files /\ sizeOfModule \in Words /\ cur.sec \in SecIndex
  <2>1. file \in Files /\ sizeOfModule \in Words /\ cur.sec \in 0 .. file.n
    BY DEF TypeOK
  <2> QED
    BY <2>1, FileTyped, SMT DEF SizeSection, SecIndex
<1>3. Sec[cur.sec].size \in Words
  BY <1>2, FileTyped DEF Sections
<1>4. sizeOfModule' \in Words
  <2>1. Wrap(Sec[cur.sec].size + 1) \in Words
    BY <1>3, WordAssumption, SMT DEF Wrap, Words
  <2>2. Wrap(Sec[cur.sec].size + 1) \in -Word .. Word
    BY <2>1, WordAssumption, SMT DEF Words
  <2> QED
    BY <1>2, <2>2, WrapTyped DEF SizeSection
<1>5. LoadTypeOK'
  BY <1>4 DEF SizeSection, TypeOK, LoadTypeOK, SecIndex
<1>6. UNCHANGED linkVars /\ UNCHANGED importVars /\ UNCHANGED file
  BY DEF SizeSection
<1> QED
  BY <1>1, <1>5, <1>6, ControlTyped, GroupsUnchanged DEF ControlTypeOK, LoadTypeOK,
     LinkTypeOK, ImportTypeOK, TypeOK

\* So does choosing where the module goes.
LEMMA ChooseTypeOK ==
    ASSUME TypeOK, ChooseTarget
    PROVE  /\ TypeOK'
           /\ ModuleStart <= targetAddress'
           /\ targetAddress' <= DestAddr
           /\ baseOffset' = targetAddress'
<1>1. MovesOn
  BY DEF ChooseTarget, MovesOn, PCs
<1>2. Sub(DestAddr, sizeOfModule) = DestAddr - sizeOfModule
      /\ DestAddr - sizeOfModule \in Nat
      /\ ModuleStart <= DestAddr - sizeOfModule
  <2>1. sizeOfModule \in Words /\ sizeOfModule <= MaximumSize
    BY DEF TypeOK, ChooseTarget
  <2> QED
    BY <2>1, Layout, WordAssumption, SMT DEF Sub, Wrap, Words
<1>3. /\ targetAddress' \in Nat
      /\ ModuleStart <= targetAddress'
      /\ targetAddress' <= DestAddr - sizeOfModule
  BY <1>2, PageFloorBounds, Layout DEF ChooseTarget
<1>4. /\ targetAddress' <= DestAddr
      /\ targetAddress' \in Words
  <2>1. sizeOfModule \in Words
    BY DEF TypeOK
  <2> QED
    BY <1>2, <1>3, <2>1, Layout, WordAssumption, SMT DEF Words
<1>5. LoadTypeOK'
  BY <1>4 DEF ChooseTarget, TypeOK, LoadTypeOK, SecIndex
<1>6. UNCHANGED linkVars /\ UNCHANGED importVars /\ UNCHANGED file
  BY DEF ChooseTarget
<1>7. TypeOK'
  BY <1>1, <1>5, <1>6, ControlTyped, GroupsUnchanged DEF ControlTypeOK, LoadTypeOK,
     LinkTypeOK, ImportTypeOK, TypeOK
<1> QED
  BY <1>3, <1>4, <1>7 DEF ChooseTarget

(***************************************************************************)
(* The destination does not wrap: baseOffset has stayed below the end of   *)
(* the arena, so the destination is below DestAddr + ImportBase.           *)
(***************************************************************************)
LEMMA DestinationExact ==
    ASSUME TypeOK, PlaceSection \/ Overrun, baseOffset <= DestAddr
    PROVE  LET s    == cur.sec
               addr == Sec[s].addr
           IN
           /\ file \in Files /\ s \in SecIndex
           /\ addr \in Words /\ Sec[s].size \in Words
           /\ LinkBase(s) \in Words
           /\ LinkBase(s) <= addr
           /\ InText(addr) => LinkBase(s) = TextBase
           /\ Destination(s) = baseOffset + addr - LinkBase(s)
           /\ Destination(s) \in Words
           /\ Destination(s) < DestAddr + ImportBase
           /\ targetAddress <= Destination(s)
<1> DEFINE s == cur.sec
           addr == Sec[s].addr
<1>1. file \in Files /\ s \in SecIndex
  <2>1. file \in Files /\ s \in 0 .. file.n
    BY DEF TypeOK
  <2> QED
    BY <2>1, FileTyped, SMT DEF PlaceSection, Overrun, Placing, SecIndex
<1>2. addr \in Words /\ Sec[s].size \in Words
  BY <1>1, FileTyped DEF Sections
<1>3. baseOffset \in Words /\ targetAddress \in Words
  BY DEF TypeOK
<1>4. InText(addr) \/ InData(addr)
  BY DEF PlaceSection, Overrun
<1>5. /\ LinkBase(s) \in Words
      /\ LinkBase(s) <= addr
      /\ addr < ImportBase
      /\ InText(addr) => LinkBase(s) = TextBase
  BY <1>2, <1>4, ConstantsTyped, LayoutAssumption, SMT
     DEF InText, InData, LinkBase, LayoutAssumption, Words
<1>6. /\ Destination(s) = baseOffset + addr - LinkBase(s)
      /\ Destination(s) \in Words
      /\ Destination(s) < DestAddr + ImportBase
  BY <1>2, <1>3, <1>5, Layout, ConstantsTyped, LayoutAssumption, WordAssumption, SMT
     DEF Destination, Add, Sub, Wrap, Words, LayoutAssumption
<1>7. targetAddress <= Destination(s)
  <2>1. ~ (Destination(s) < targetAddress)
    BY DEF PlaceSection, Overrun, OutOfArena
  <2> QED
    BY <1>3, <1>6, <2>1, SMT DEF Words
<1> QED
  BY <1>1, <1>2, <1>5, <1>6, <1>7

\* Placing keeps to the arena because the end of the section does not wrap either.
LEMMA PlaceTypeOK ==
    ASSUME TypeOK, PlaceSection,
           ModuleStart <= targetAddress, targetAddress <= baseOffset,
           baseOffset <= DestAddr
    PROVE  /\ TypeOK'
           /\ targetAddress <= baseOffset'
           /\ baseOffset' <= DestAddr
           /\ Inside(at'[cur.sec], Sec[cur.sec].size, ModuleStart, DestAddr)
           /\ at' = [at EXCEPT ![cur.sec] = Destination(cur.sec)]
<1> DEFINE s == cur.sec
           size == Sec[s].size
           addr == Sec[s].addr
<1>1. MovesOn
  BY DEF PlaceSection, Placing, MovesOn, TypeOK
<1>2. file \in Files /\ s \in SecIndex
  BY DestinationExact
<1>3. addr \in Words /\ size \in Words
  BY DestinationExact
<1>4. baseOffset \in Words /\ targetAddress \in Words /\ offset_data \in Words
  BY DEF TypeOK
<1>5. /\ LinkBase(s) \in Words
      /\ LinkBase(s) <= addr
      /\ InText(addr) => LinkBase(s) = TextBase /\ LinkBase(s) <= addr
  BY DestinationExact
<1>6. /\ Destination(s) = baseOffset + addr - LinkBase(s)
      /\ Destination(s) \in Words
      /\ targetAddress <= Destination(s)
  BY DestinationExact
<1>7. /\ targetAddress <= Destination(s)
      /\ Destination(s) + size <= DestAddr
  <2>1. /\ ~ (Add(Destination(s), size) > DestAddr)
        /\ ~ (Destination(s) + size >= Word)
    BY DEF PlaceSection, OutOfArena, Runaway
  <2> QED
    BY <1>3, <1>4, <1>6, <2>1, Layout, ConstantsTyped, WordAssumption, SMT
       DEF Add, Wrap, Words
<1>8. /\ baseOffset' \in Words
      /\ baseOffset <= baseOffset'
      /\ baseOffset' <= DestAddr
  <2>1. baseOffset' = NextOffset(baseOffset, s)
    BY DEF PlaceSection
  <2>2. CASE InText(addr)
    <3>1. baseOffset' = Add(baseOffset, size)
      BY <2>1, <2>2 DEF NextOffset
    <3>2. baseOffset + size <= Destination(s) + size
      BY <1>3, <1>4, <1>5, <1>6, SMT DEF Words
    <3> QED
      BY <1>3, <1>4, <1>6, <1>7, <3>1, <3>2, Layout, WordAssumption, SMT
         DEF Add, Wrap, Words
  <2>3. CASE ~ InText(addr)
    BY <1>4, <2>1, <2>3, SMT DEF NextOffset, Words
  <2> QED
    BY <2>2, <2>3
<1>9. offset_data' \in Words
  <2>1. size \in -Word .. Word
    BY <1>3, WordAssumption, SMT DEF Words
  <2>2. Add(offset_data, size) \in Words
    BY <1>4, <2>1, WrapTyped
  <2> QED
    BY <1>4, <2>2 DEF PlaceSection, NextOffset
<1>10. at' = [at EXCEPT ![s] = Destination(s)]
  BY DEF PlaceSection
<1>11. LoadTypeOK'
  <2>1. Destination(s) \in NotPlaced .. (Word - 1)
    BY <1>6, WordAssumption, SMT DEF Words, NotPlaced
  <2>2. at' \in [SecIndex -> NotPlaced .. (Word - 1)]
    BY <1>2, <1>10, <2>1 DEF TypeOK
  <2>3. Sub(baseOffset, LinkBase(s)) \in Words
    BY <1>4, <1>5, SubTyped
  <2>4. destinations' \in [SecIndex -> Words]
    BY <1>2, <2>3 DEF PlaceSection, TypeOK
  <2>5. bss' \in Ranges /\ sbss' \in Ranges
    BY <1>3, <1>6 DEF PlaceSection, TypeOK, Ranges
  <2>6. SecIndex' = SecIndex
    BY DEF PlaceSection, SecIndex
  <2>7. sizeOfModule' \in Words /\ targetAddress' \in Words
    BY DEF PlaceSection, TypeOK
  <2> QED
    BY <1>8, <1>9, <2>2, <2>4, <2>5, <2>6, <2>7 DEF LoadTypeOK
<1>12. UNCHANGED linkVars /\ UNCHANGED importVars /\ UNCHANGED file
  BY DEF PlaceSection
<1>13. TypeOK'
  BY <1>1, <1>11, <1>12, ControlTyped, GroupsUnchanged DEF ControlTypeOK, LoadTypeOK,
     LinkTypeOK, ImportTypeOK, TypeOK
<1>14. at'[s] = Destination(s)
  BY <1>2, <1>10 DEF TypeOK
<1>15. Inside(at'[s], size, ModuleStart, DestAddr)
  BY <1>3, <1>4, <1>6, <1>7, <1>14, Layout, SMT DEF Inside, Words
<1>16. targetAddress <= baseOffset'
  BY <1>4, <1>8, SMT DEF Words
<1> QED
  BY <1>8, <1>10, <1>13, <1>15, <1>16

\* A copy that runs away starts in the arena all the same.
LEMMA OverrunTypeOK ==
    ASSUME TypeOK, Overrun,
           ModuleStart <= targetAddress, baseOffset <= DestAddr
    PROVE  /\ TypeOK'
           /\ ModuleStart <= at'[cur.sec]
           /\ ~ (at'[cur.sec] + Sec[cur.sec].size < Word)
           /\ at' = [at EXCEPT ![cur.sec] = Destination(cur.sec)]
           /\ ~ SizesFit
<1> DEFINE s == cur.sec
<1>1. MovesOn
  BY DEF Overrun, Placing, MovesOn, TypeOK, PCs
<1>2. /\ s \in SecIndex /\ Sec[s].size \in Words
      /\ Destination(s) \in Words
      /\ Destination(s) < DestAddr + ImportBase
      /\ targetAddress <= Destination(s)
  BY DestinationExact
<1>3. at' = [at EXCEPT ![s] = Destination(s)]
  BY DEF Overrun
<1>4. at'[s] = Destination(s)
  BY <1>2, <1>3 DEF TypeOK
<1>5. targetAddress \in Words
  BY DEF TypeOK
<1>6. ModuleStart <= at'[s]
  BY <1>2, <1>4, <1>5, Layout, SMT DEF Words
<1>7. Destination(s) + Sec[s].size >= Word
  BY DEF Overrun, Runaway
<1>8. ~ (at'[s] + Sec[s].size < Word)
  BY <1>2, <1>4, <1>7, WordAssumption, SMT DEF Words
<1>9. ~ SizesFit
  <2>1. SUFFICES ASSUME SizesFit PROVE FALSE
    OBVIOUS
  <2>2. Sec[s].size + DestAddr + ImportBase < Word
    BY <1>2, <2>1 DEF SizesFit
  <2> QED
    BY <1>2, <1>7, <2>2, ConstantsTyped, WordAssumption, SMT DEF Words
<1>10. LoadTypeOK'
  <2>1. Destination(s) \in NotPlaced .. (Word - 1)
    BY <1>2, WordAssumption, SMT DEF Words, NotPlaced
  <2>2. at' \in [SecIndex -> NotPlaced .. (Word - 1)]
    BY <1>2, <1>3, <2>1 DEF TypeOK
  <2> QED
    BY <2>2 DEF Overrun, LoadTypeOK, TypeOK, SecIndex
<1>11. UNCHANGED linkVars /\ UNCHANGED importVars /\ UNCHANGED file
  BY DEF Overrun
<1>12. TypeOK'
  BY <1>1, <1>10, <1>11, ControlTyped, GroupsUnchanged DEF ControlTypeOK, LoadTypeOK,
     LinkTypeOK, ImportTypeOK, TypeOK
<1> QED
  BY <1>3, <1>6, <1>8, <1>9, <1>12
-----------------------------------------------------------------------------
\* The relocation under the cursor, in either pass.
LEMMA EntryTyped ==
    ASSUME TypeOK, cur.rel < file.n, cur.ent <= Len(Sec[cur.rel].rel)
    PROVE  /\ cur.rel \in SecIndex
           /\ Entry \in Relocs
           /\ <<cur.rel, cur.ent>> \in RelocIds
           /\ Entry.sym \in Symbols
<1>1. file \in Files /\ cur.rel \in 0 .. file.n /\ cur.ent \in Nat \ {0}
  BY DEF TypeOK
<1>2. cur.rel \in SecIndex
  BY <1>1, FileTyped, SMT DEF SecIndex
<1>3. Len(Sec[cur.rel].rel) \in Nat
  BY <1>1, <1>2, FileTyped DEF Sections
<1>4. Entry \in Relocs
  BY <1>1, <1>2, <1>3, FileTyped DEF Entry
<1> QED
  BY <1>1, <1>2, <1>4 DEF RelocIds, Relocs

\* The value of a symbol of an entry is a word.
LEMMA SymbolTyped ==
    ASSUME NEW sym \in Symbols
    PROVE  sym.value \in Words /\ sym.name \in STRING
BY DEF Symbols

\* So is the address linkSection turns it into.
LEMMA AdjustedTyped ==
    ASSUME TypeOK, NEW v \in Words
    PROVE  Adjusted(v) \in Words
<1>1. targetAddress \in Words /\ offset_data \in Words
  BY DEF TypeOK
<1>2. Sub(v, TextBase) \in Words /\ Sub(v, DataBase) \in Words
  BY ConstantsTyped, SubTyped
<1>3. targetAddress \in -Word .. Word /\ offset_data \in -Word .. Word
  BY <1>1, WordAssumption, SMT DEF Words
<1> QED
  BY <1>2, <1>3, WrapTyped DEF Adjusted

\* Linking an entry keeps the types.
LEMMA LinkEntryTypeOK == ASSUME TypeOK, LinkEntry PROVE TypeOK'
<1> DEFINE call == [id |-> <<cur.rel, cur.ent>>,
                    type |-> Entry.type,
                    target |-> Add(destinations[cur.sec], Entry.offset),
                    symbol |-> Adjusted(Entry.sym.value),
                    addend |-> Entry.addend,
                    import |-> FALSE]
<1>1. PICK ok \in BOOLEAN : /\ ElfLinkOne(call, ok)
                            /\ pc' = IF ok THEN pc ELSE "failed"
                            /\ cur' = IF ok THEN NextEntry ELSE cur
  BY DEF LinkEntry
<1>2. /\ cur.rel < file.n
      /\ cur.ent <= Len(Sec[cur.rel].rel)
      /\ cur.sec < file.n
      /\ pc = "link"
      /\ UNCHANGED <<file, loadVars, importVars>>
  BY DEF LinkEntry, LinkingEntry, Linking
<1>3. Entry \in Relocs /\ Entry.sym \in Symbols /\ <<cur.rel, cur.ent>> \in RelocIds
  BY <1>2, EntryTyped
<1>4. destinations[cur.sec] \in Words
  <2>1. cur.sec \in 0 .. file.n /\ file \in Files /\ destinations \in [SecIndex -> Words]
    BY DEF TypeOK
  <2>2. cur.sec \in SecIndex
    BY <1>2, <2>1, FileTyped, SMT DEF SecIndex
  <2> QED
    BY <2>1, <2>2
<1>5. call \in Calls
  <2>1. Entry.offset \in -Word .. Word
    BY <1>3, WordAssumption, SMT DEF Relocs, Words
  <2>2. Add(destinations[cur.sec], Entry.offset) \in Words
    BY <1>4, <2>1, WrapTyped
  <2>3. Entry.sym.value \in Words
    BY <1>3, SymbolTyped
  <2>4. Adjusted(Entry.sym.value) \in Words
    BY <2>3, AdjustedTyped
  <2> QED
    BY <1>3, <2>2, <2>4 DEF Calls, Relocs
<1>6. LinkTypeOK'
  BY <1>1, <1>2, <1>5, LinkTyped, TypeOKGroups
<1>7. MovesOn
  BY <1>1, <1>2 DEF MovesOn, PCs
<1>8. UNCHANGED loadVars /\ UNCHANGED importVars /\ UNCHANGED file
  BY <1>2
<1> QED
  BY <1>6, <1>7, <1>8, ControlTyped, GroupsUnchanged DEF ControlTypeOK, LoadTypeOK,
     LinkTypeOK, ImportTypeOK, TypeOK

\* Listing an import keeps the types.
LEMMA CollectTypeOK == ASSUME TypeOK, CollectImport PROVE TypeOK'
<1>1. /\ cur.rel < file.n
      /\ cur.ent <= Len(Sec[cur.rel].rel)
      /\ Sec[cur.rel].type = "RELA"
      /\ ImportInfo(Entry.sym).ok
      /\ pc = "collect" /\ UNCHANGED pc
      /\ cur' = NextEntry
      /\ UNCHANGED <<file, loadVars, linkVars, usedRPls, refs>>
  BY DEF CollectImport, CollectingEntry, Collecting
<1>2. /\ cur.rel \in SecIndex
      /\ Entry \in Relocs /\ Entry.sym \in Symbols
      /\ <<cur.rel, cur.ent>> \in RelocIds
  BY <1>1, EntryTyped
<1>3. file \in Files
  BY DEF TypeOK
<1>4. destinations[Sec[cur.rel].info] \in Words
  BY <1>1, <1>2, <1>3, FileTyped DEF TypeOK
<1>5. ImportBaseOf(Sec[cur.rel].info) \in Words
  <2>1. TextBase \in -Word .. Word
    BY ConstantsTyped, WordAssumption, SMT DEF Words
  <2> QED
    BY <1>4, <2>1, WrapTyped DEF ImportBaseOf
<1>6. Sub(Entry.offset, TextBase) \in Words
  BY <1>2, ConstantsTyped, SubTyped DEF Relocs
<1>7. /\ Entry.sym.shn \in SecIndex
      /\ ImportInfo(Entry.sym) = Sec[Entry.sym.shn].imp
  BY <1>1 DEF ImportInfo
<1>8. ImportInfo(Entry.sym).rpl \in Names /\ ImportInfo(Entry.sym).isData \in BOOLEAN
  BY <1>3, <1>7, FileTyped DEF Names, Sections, ImportInfos
<1>9. [id |-> <<cur.rel, cur.ent>>,
       type |-> Entry.type,
       offset |-> Sub(Entry.offset, TextBase),
       addend |-> Entry.addend,
       destination |-> ImportBaseOf(Sec[cur.rel].info),
       name |-> Entry.sym.name,
       rpl |-> ImportInfo(Entry.sym).rpl,
       isData |-> ImportInfo(Entry.sym).isData] \in ImportRelocs
  <2>1. Entry.type \in RelocTypes /\ Entry.addend \in -Word .. Word
    BY <1>2 DEF Relocs
  <2>2. Entry.sym.name \in STRING
    BY <1>2, SymbolTyped
  <2> QED
    BY <1>2, <1>5, <1>6, <1>8, <2>1, <2>2 DEF ImportRelocs
<1>10. imports' \in Seq(ImportRelocs)
  BY <1>9 DEF CollectImport, TypeOK
<1>11. ImportTypeOK'
  <2>1. ImportRelocs' = ImportRelocs /\ Names' = Names
    BY <1>1 DEF ImportRelocs, RelocIds, Names, SecIndex, Sec
  <2> QED
    BY <1>1, <1>10, <2>1 DEF ImportTypeOK, TypeOK
<1>12. MovesOn
  BY <1>1 DEF MovesOn, PCs
<1>13. UNCHANGED loadVars /\ UNCHANGED linkVars /\ UNCHANGED file
  BY <1>1
<1> QED
  BY <1>11, <1>12, <1>13, ControlTyped, GroupsUnchanged DEF ControlTypeOK, LoadTypeOK,
     LinkTypeOK, ImportTypeOK, TypeOK

\* The import relocation doRelocation is at, and acquiring its RPL.
LEMMA AcquiredTyped ==
    ASSUME TypeOK, Resolving, Acquired, UNCHANGED <<file, imports>>
    PROVE  ImportTypeOK' /\ Import \in ImportRelocs
<1>1. Import \in ImportRelocs
  BY DEF TypeOK, Resolving, Import
<1>2. Import.rpl \in Names
  BY <1>1 DEF ImportRelocs
<1>3. usedRPls' \subseteq Names /\ refs' \in [Names -> Nat]
  <2>1. usedRPls \subseteq Names /\ refs \in [Names -> Nat]
    BY DEF TypeOK
  <2>2. CASE Import.rpl \in usedRPls
    BY <2>1, <2>2 DEF Acquired
  <2>3. CASE Import.rpl \notin usedRPls
    <3>1. usedRPls' = usedRPls \cup {Import.rpl}
      BY <2>3 DEF Acquired
    <3>2. refs' = [refs EXCEPT ![Import.rpl] = @ + 1]
      BY <2>3 DEF Acquired
    <3> QED
      BY <1>2, <2>1, <3>1, <3>2
  <2> QED
    BY <2>2, <2>3
<1>4. ImportRelocs' = ImportRelocs /\ Names' = Names
  BY DEF ImportRelocs, RelocIds, Names, SecIndex, Sec
<1> QED
  BY <1>1, <1>3, <1>4 DEF ImportTypeOK, TypeOK

\* Resolving an import keeps the types.
LEMMA ResolveTypeOK == ASSUME TypeOK, ResolveImport PROVE TypeOK'
<1> DEFINE call == [id |-> Import.id,
                    type |-> Import.type,
                    target |-> Add(Import.destination, Import.offset),
                    symbol |-> ExportAddress,
                    addend |-> Import.addend,
                    import |-> TRUE]
<1>1. PICK ok \in BOOLEAN : /\ ElfLinkOne(call, ok)
                            /\ pc' = IF ok THEN pc ELSE "fatal"
                            /\ cur' = IF ok THEN NextEntry ELSE cur
  BY DEF ResolveImport
<1>2. /\ Resolving /\ Acquired /\ pc = "reloc"
      /\ UNCHANGED file /\ UNCHANGED loadVars /\ UNCHANGED imports
  BY DEF ResolveImport, Resolving
<1>3. ImportTypeOK' /\ Import \in ImportRelocs
  BY <1>2, AcquiredTyped
<1>4. call \in Calls
  <2>1. 0 \in Words
    BY WordAssumption, SMT DEF Words
  <2>2. ExportAddress \in Words
    BY <2>1, ExportsAssumption DEF ExportAddress, ExportsAssumption
  <2>3. Import.offset \in -Word .. Word
    BY <1>3, WordAssumption, SMT DEF ImportRelocs, Words
  <2>4. Add(Import.destination, Import.offset) \in Words
    BY <1>3, <2>3, WrapTyped DEF ImportRelocs
  <2> QED
    BY <1>3, <2>2, <2>4 DEF Calls, ImportRelocs
<1>5. LinkTypeOK'
  BY <1>1, <1>2, <1>4, LinkTyped, TypeOKGroups
<1>6. MovesOn
  BY <1>1, <1>2 DEF MovesOn, PCs
<1> QED
  BY <1>2, <1>3, <1>5, <1>6, ControlTyped, GroupsUnchanged DEF ControlTypeOK, LoadTypeOK,
     LinkTypeOK, ImportTypeOK, TypeOK

\* Flushing and clearing keep the types.
LEMMA FlushTypeOK ==
    ASSUME TypeOK, LoadDone \/ AllResolved \/ ClearBss \/ Enter
    PROVE  TypeOK'
<1>1. MovesOn
  BY DEF LoadDone, AllResolved, ClearBss, Enter, MovesOn, PCs
<1>2. UNCHANGED <<file, loadVars, slots, patched, importVars>>
  BY DEF LoadDone, AllResolved, ClearBss, Enter
<1>3. dirty' \subseteq [lo : Words, size : Nat]
  <2>1. {r \in {bss, sbss} : r.lo # 0} \subseteq [lo : Words, size : Nat]
    BY DEF TypeOK, Ranges, Words
  <2> QED
    BY <2>1 DEF LoadDone, AllResolved, ClearBss, Enter, Flushed, FinalFlush, TypeOK
<1>4. LinkTypeOK'
  <2>1. Patches' = Patches
    BY <1>2 DEF Patches, RelocIds, SecIndex
  <2> QED
    BY <1>2, <1>3, <2>1 DEF LinkTypeOK, TypeOK
<1>5. UNCHANGED loadVars /\ UNCHANGED importVars /\ UNCHANGED file
  BY <1>2
<1> QED
  BY <1>1, <1>4, <1>5, ControlTyped, GroupsUnchanged DEF ControlTypeOK, LoadTypeOK,
     LinkTypeOK, ImportTypeOK, TypeOK
-----------------------------------------------------------------------------
\* The remaining actions move the program counter or the cursor only.
Bookkeeping ==
    \/ ReadFile \/ TooBig
    \/ SkipSection \/ BadAddress \/ ArenaFatal \/ AllPlaced
    \/ SectionLinked \/ RelSectionDone \/ LinkNoSymbol \/ LinkSkipImport
    \/ LinkBadSymbol \/ AllLinked
    \/ CollectNextSection \/ CollectNoSymbol \/ CollectSkipLocal \/ CollectBreak
    \/ AcquireFails

\* These actions do move on within the file and change nothing else.
LEMMA BookkeepingMovesOn ==
    ASSUME TypeOK, Bookkeeping
    PROVE  MovesOn /\ UNCHANGED <<loadVars, linkVars, importVars>>
<1>1. CASE ReadFile \/ TooBig \/ SkipSection \/ BadAddress \/ ArenaFatal \/ AllPlaced
  BY <1>1 DEF ReadFile, TooBig, SkipSection, BadAddress, ArenaFatal, AllPlaced,
     Placing, MovesOn, PCs, TypeOK
<1>2. CASE SectionLinked \/ RelSectionDone \/ LinkNoSymbol \/ LinkSkipImport
           \/ LinkBadSymbol \/ AllLinked
  BY <1>2 DEF SectionLinked, RelSectionDone, LinkNoSymbol, LinkSkipImport,
     LinkBadSymbol, AllLinked, Linking, MovesOn, PCs, TypeOK
<1>3. CASE CollectNextSection \/ CollectNoSymbol \/ CollectSkipLocal \/ CollectBreak
           \/ AcquireFails
  BY <1>3 DEF CollectNextSection, CollectNoSymbol, CollectSkipLocal, CollectBreak,
     AcquireFails, CollectingEntry, Collecting, MovesOn, PCs, TypeOK
<1> QED
  BY <1>1, <1>2, <1>3 DEF Bookkeeping

\* Every step is one of these, or one that a lemma above is about.
LEMMA NextCases ==
    Next <=> \/ Bookkeeping \/ SizeSection \/ ChooseTarget \/ PlaceSection \/ Overrun
             \/ LinkEntry \/ CollectImport \/ ResolveImport \/ ExportMissing
             \/ LoadDone \/ AllResolved \/ ClearBss \/ Enter \/ Done
BY DEF Next, Bookkeeping

\* An export that is missing keeps the types.
LEMMA ExportMissingTypeOK == ASSUME TypeOK, ExportMissing PROVE TypeOK'
<1>1. MovesOn
  BY DEF ExportMissing, MovesOn, PCs
<1>2. UNCHANGED loadVars /\ UNCHANGED linkVars /\ UNCHANGED file
  BY DEF ExportMissing
<1>3. ImportTypeOK'
  BY AcquiredTyped DEF ExportMissing
<1> QED
  BY <1>1, <1>2, <1>3, ControlTyped, GroupsUnchanged DEF ControlTypeOK, LoadTypeOK,
     LinkTypeOK, ImportTypeOK, TypeOK

\* What is read off the file does not change while the file does not.
LEMMA FileKept ==
    ASSUME UNCHANGED file
    PROVE  /\ Sec' = Sec
           /\ SecIndex' = SecIndex
           /\ Names' = Names
           /\ Tidy' <=> Tidy
           /\ \A s : Loadable(s)' <=> Loadable(s)
           /\ \A s : LinkBase(s)' = LinkBase(s)
BY DEF Sec, SecIndex, Names, Tidy, TidyLayout, SizesFit, TidyRelocs, TidyReloc, LocalSym,
       ImportInfo, Loadable, LinkBase

(***************************************************************************)
(* ArenaSafe is not inductive: that the next section fits depends on       *)
(* baseOffset staying between targetAddress and the end of the arena while *)
(* sections are placed, and on targetAddress having been chosen in it.     *)
(***************************************************************************)
PlacingInArena ==
    pc = "place" => /\ ModuleStart <= targetAddress
                    /\ targetAddress <= baseOffset
                    /\ baseOffset <= DestAddr

\* No section of a tidy file is so large that its end wraps.
TidyConfined ==
    Tidy => \A s \in SecIndex : at[s] # NotPlaced =>
        Inside(at[s], Sec[s].size, ModuleStart, DestAddr)

ArenaInv == TypeOK /\ PlacingInArena /\ ArenaSafe /\ TidyConfined

\* Before the first section is placed the arena is untouched.
LEMMA InitArenaInv == Init => ArenaInv
<1> SUFFICES ASSUME Init PROVE ArenaInv
  OBVIOUS
<1>1. TypeOK
  BY InitTypeOK
<1>2. PlacingInArena /\ ArenaSafe /\ TidyConfined
  BY DEF Init, PlacingInArena, ArenaSafe, TidyConfined
<1> QED
  BY <1>1, <1>2 DEF ArenaInv

\* Only placing records where a section went, only ChooseTarget starts placing.
LEMMA NotPlacing ==
    ASSUME ArenaInv, TypeOK', UNCHANGED <<file, at>>,
           pc' = "place" => pc = "place" /\ UNCHANGED <<targetAddress, baseOffset>>
    PROVE  ArenaInv'
<1>1. ArenaSafe' /\ TidyConfined'
  BY FileKept DEF ArenaInv, ArenaSafe, TidyConfined
<1>2. PlacingInArena'
  BY DEF ArenaInv, PlacingInArena
<1> QED
  BY <1>1, <1>2 DEF ArenaInv

\* No step places a section outside the arena.
LEMMA StepArenaInv == ASSUME ArenaInv, [Next]_vars PROVE ArenaInv'
<1> USE DEF ArenaInv
<1>1. CASE Bookkeeping
  <2>1. MovesOn /\ UNCHANGED <<loadVars, linkVars, importVars>>
    BY <1>1, BookkeepingMovesOn
  <2>2. TypeOK'
    BY <2>1, MovesOnly
  <2>3. UNCHANGED <<file, at>>
    BY <2>1 DEF MovesOn, loadVars
  <2>4. pc' = "place" => pc = "place"
    BY <1>1 DEF Bookkeeping, ReadFile, TooBig, SkipSection, BadAddress, ArenaFatal,
       AllPlaced, Placing, SectionLinked, RelSectionDone, LinkNoSymbol, LinkSkipImport,
       LinkBadSymbol, AllLinked, Linking, LinkingEntry, CollectNextSection,
       CollectNoSymbol, CollectSkipLocal, CollectBreak, CollectingEntry, Collecting,
       AcquireFails, Resolving
  <2>5. UNCHANGED <<targetAddress, baseOffset>>
    BY <2>1 DEF loadVars
  <2> QED
    BY <2>2, <2>3, <2>4, <2>5, NotPlacing
<1>2. CASE SizeSection
  <2>1. TypeOK'
    BY <1>2, SizeTypeOK
  <2>2. UNCHANGED <<file, at, pc, targetAddress, baseOffset>>
    BY <1>2 DEF SizeSection
  <2> QED
    BY <2>1, <2>2, NotPlacing
<1>3. CASE ChooseTarget
  <2>1. /\ TypeOK'
        /\ ModuleStart <= targetAddress'
        /\ targetAddress' <= DestAddr
        /\ baseOffset' = targetAddress'
    BY <1>3, ChooseTypeOK
  <2>2. UNCHANGED <<file, at>>
    BY <1>3 DEF ChooseTarget
  <2>3. ArenaSafe' /\ TidyConfined'
    BY <2>2, FileKept DEF ArenaSafe, TidyConfined
  <2>4. targetAddress' \in Words
    BY <2>1 DEF TypeOK
  <2>5. PlacingInArena'
    BY <2>1, <2>4, SMT DEF PlacingInArena, Words
  <2> QED
    BY <2>1, <2>3, <2>5
<1>4. CASE PlaceSection
  <2>1. pc = "place" /\ UNCHANGED <<file, targetAddress>>
    BY <1>4 DEF PlaceSection, Placing
  <2>2. /\ TypeOK'
        /\ targetAddress <= baseOffset'
        /\ baseOffset' <= DestAddr
        /\ Inside(at'[cur.sec], Sec[cur.sec].size, ModuleStart, DestAddr)
        /\ at' = [at EXCEPT ![cur.sec] = Destination(cur.sec)]
    BY <1>4, <2>1, PlaceTypeOK DEF PlacingInArena
  <2>3. PlacingInArena'
    BY <2>1, <2>2 DEF PlacingInArena
  <2>4. \A s \in SecIndex : s # cur.sec => at'[s] = at[s]
    BY <2>2 DEF TypeOK
  <2>5. Inside(at'[cur.sec], Sec[cur.sec].size, ModuleStart, DestAddr)
        /\ ModuleStart <= at'[cur.sec]
    BY <2>2 DEF Inside
  <2>6. ArenaSafe'
    BY <2>1, <2>4, <2>5, FileKept DEF ArenaSafe
  <2>7. TidyConfined'
    BY <2>1, <2>4, <2>5, FileKept DEF TidyConfined
  <2> QED
    BY <2>2, <2>3, <2>6, <2>7
<1>11. CASE Overrun
  <2>1. pc = "place" /\ pc' # "place" /\ UNCHANGED <<file, targetAddress, baseOffset>>
    BY <1>11 DEF Overrun, Placing
  <2>2. /\ TypeOK'
        /\ ModuleStart <= at'[cur.sec]
        /\ ~ (at'[cur.sec] + Sec[cur.sec].size < Word)
        /\ at' = [at EXCEPT ![cur.sec] = Destination(cur.sec)]
        /\ ~ Tidy
    BY <1>11, <2>1, OverrunTypeOK DEF PlacingInArena, Tidy, TidyLayout
  <2>3. \A s \in SecIndex : s # cur.sec => at'[s] = at[s]
    BY <2>2 DEF TypeOK
  <2>4. ArenaSafe'
    BY <2>1, <2>2, <2>3, FileKept DEF ArenaSafe
  <2>5. TidyConfined' /\ PlacingInArena'
    BY <2>1, <2>2, FileKept DEF TidyConfined, PlacingInArena
  <2> QED
    BY <2>2, <2>4, <2>5
<1>5. CASE LinkEntry
  <2>1. TypeOK'
    BY <1>5, LinkEntryTypeOK
  <2>2. UNCHANGED <<file, at>> /\ pc' # "place"
    BY <1>5 DEF LinkEntry, LinkingEntry, Linking, loadVars
  <2> QED
    BY <2>1, <2>2, NotPlacing
<1>6. CASE CollectImport
  <2>1. TypeOK'
    BY <1>6, CollectTypeOK
  <2>2. UNCHANGED <<file, at>> /\ pc' # "place"
    BY <1>6 DEF CollectImport, CollectingEntry, Collecting, loadVars
  <2> QED
    BY <2>1, <2>2, NotPlacing
<1>7. CASE ResolveImport
  <2>1. TypeOK'
    BY <1>7, ResolveTypeOK
  <2>2. UNCHANGED <<file, at>> /\ pc' # "place"
    BY <1>7 DEF ResolveImport, Resolving, loadVars
  <2> QED
    BY <2>1, <2>2, NotPlacing
<1>8. CASE ExportMissing
  <2>1. TypeOK'
    BY <1>8, ExportMissingTypeOK
  <2>2. UNCHANGED <<file, at>> /\ pc' # "place"
    BY <1>8 DEF ExportMissing, loadVars
  <2> QED
    BY <2>1, <2>2, NotPlacing
<1>9. CASE LoadDone \/ AllResolved \/ ClearBss \/ Enter
  <2>1. TypeOK'
    BY <1>9, FlushTypeOK
  <2>2. UNCHANGED <<file, at>> /\ pc' # "place"
    BY <1>9 DEF LoadDone, AllResolved, ClearBss, Enter, loadVars
  <2> QED
    BY <2>1, <2>2, NotPlacing
<1>10. CASE UNCHANGED vars \/ Done
  <2>1. UNCHANGED vars
    BY <1>10 DEF Done
  <2>2. UNCHANGED <<file, pc, cur, loadVars, linkVars, importVars>>
    BY <2>1 DEF vars
  <2>3. MovesOn
    BY <2>2 DEF MovesOn, TypeOK
  <2>4. TypeOK'
    BY <2>2, <2>3, MovesOnly
  <2> QED
    BY <2>2, <2>4, NotPlacing DEF loadVars
<1> QED
  BY <1>1, <1>2, <1>3, <1>4, <1>5, <1>6, <1>7, <1>8, <1>9, <1>10, <1>11, NextCases

(***************************************************************************)
(* Every variable of the loader stays in its type: every address it        *)
(* computes is a machine word, and its cursors never leave the tables.     *)
(***************************************************************************)
THEOREM LoaderTyped == Spec => []TypeOK
<1>1. Init => ArenaInv
  BY InitArenaInv
<1>2. ArenaInv /\ [Next]_vars => ArenaInv'
  BY StepArenaInv
<1>3. ArenaInv => TypeOK
  BY DEF ArenaInv
<1> QED
  BY <1>1, <1>2, <1>3, PTL DEF Spec

(***************************************************************************)
(* A section is only copied (or cleared) between the trampoline table and  *)
(* 0x00FD0000, wherever the file puts it, unless it is so large that its   *)
(* end wraps; none starts below the arena.                                 *)
(***************************************************************************)
THEOREM LoaderArenaSafe == Spec => []ArenaSafe
<1>1. Init => ArenaInv
  BY InitArenaInv
<1>2. ArenaInv /\ [Next]_vars => ArenaInv'
  BY StepArenaInv
<1>3. ArenaInv => ArenaSafe
  BY DEF ArenaInv
<1> QED
  BY <1>1, <1>2, <1>3, PTL DEF Spec
-----------------------------------------------------------------------------
\* The phases behind the placement loop, as long as nothing went wrong.
Placed == {"link", "collect", "reloc", "clear", "enter", "entered"}

\* The order of the regions, with everything placed at the end of a word's range.
LEMMA Bounds ==
    /\ DestAddr \in Nat /\ ModuleStart \in Nat /\ Word \in Nat
    /\ TextBase \in Nat /\ DataBase \in Nat /\ ImportBase \in Nat
    /\ Reach \in Nat /\ FlushLo \in Nat /\ FlushHi \in Nat
    /\ FlushLo <= ModuleStart
    /\ ModuleStart <= DestAddr
    /\ DestAddr <= FlushHi
    /\ DestAddr <= Reach
    /\ DestAddr < TextBase
    /\ TextBase < DataBase
    /\ DataBase < ImportBase
    /\ DestAddr + ImportBase < Word
<1>1. /\ {DestAddr, TextBase, DataBase, ImportBase, Reach, FlushLo, FlushHi, Word} \subseteq Nat
      /\ CodeEnd \in Nat /\ TrampLen \in Nat /\ SlotSize \in Nat
  BY LayoutAssumption, WordAssumption DEF LayoutAssumption
<1>2. ModuleStart \in Nat /\ TrampEnd \in Nat /\ TrampBase \in Nat /\ TrampEnd < ModuleStart
  BY Layout
<1>3. TrampLen * SlotSize \in Nat
  BY <1>1, SMT
<1>4. CodeEnd <= TrampBase
  BY <1>1, SMT DEF TrampBase, PageFloor
<1>5. FlushLo <= ModuleStart
  BY <1>1, <1>2, <1>3, <1>4, LayoutAssumption, SMT DEF TrampEnd, LayoutAssumption
<1> QED
  BY <1>1, <1>2, <1>5, LayoutAssumption, SMT DEF LayoutAssumption

\* A difference that does not go below zero is the plain one.
LEMMA ExactSub == \A x, y \in Nat : y <= x /\ x < Word => Sub(x, y) = x - y
BY WordAssumption, SMT DEF Sub, Wrap

\* The steps that matter to the layout, and what the others leave alone.
LEMMA PlaceFrame ==
    ASSUME TypeOK, [Next]_vars
    PROVE  \/ ChooseTarget \/ SkipSection \/ PlaceSection \/ Overrun \/ AllPlaced
           \/ /\ UNCHANGED <<file, targetAddress, baseOffset, offset_data,
                             destinations, bss, sbss, at>>
              /\ \/ pc' \in {"failed", "fatal"}
                 \/ pc \in {"read", "size"} /\ pc' = "size"
                 \/ pc \in Placed /\ pc' \in Placed
                 \/ UNCHANGED <<pc, cur>>
<1> USE DEF Placed, loadVars
<1>1. CASE ReadFile \/ SizeSection \/ TooBig \/ BadAddress \/ ArenaFatal
  BY <1>1 DEF ReadFile, SizeSection, TooBig, BadAddress, ArenaFatal
<1>2. CASE SectionLinked \/ RelSectionDone \/ LinkNoSymbol \/ LinkSkipImport
           \/ LinkBadSymbol \/ AllLinked
  BY <1>2 DEF SectionLinked, RelSectionDone, LinkNoSymbol, LinkSkipImport,
     LinkBadSymbol, AllLinked, LinkingEntry, Linking
<1>3. CASE LinkEntry
  BY <1>3 DEF LinkEntry, LinkingEntry, Linking
<1>4. CASE CollectNextSection \/ CollectNoSymbol \/ CollectSkipLocal \/ CollectBreak
           \/ CollectImport \/ LoadDone
  BY <1>4 DEF CollectNextSection, CollectNoSymbol, CollectSkipLocal, CollectBreak,
     CollectImport, LoadDone, CollectingEntry, Collecting
<1>5. CASE AcquireFails \/ ExportMissing \/ AllResolved \/ ClearBss \/ Enter
  BY <1>5 DEF AcquireFails, ExportMissing, AllResolved, ClearBss, Enter
<1>6. CASE ResolveImport
  BY <1>6 DEF ResolveImport, Resolving
<1>7. CASE Done \/ UNCHANGED vars
  BY <1>7 DEF Done, vars
<1> QED
  BY <1>1, <1>2, <1>3, <1>4, <1>5, <1>6, <1>7 DEF Next
-----------------------------------------------------------------------------
(***************************************************************************)
(* Where each section of a tidy file goes.  The code never says this: the  *)
(* running baseOffset comes to it because the text section is the first.   *)
(***************************************************************************)
TextSection(t) == Loadable(t) /\ InText(Sec[t].addr)
IsPlaced(s) == at[s] # NotPlaced

\* The text goes to targetAddress and the data right behind it.
RegionStart(t, s) ==
    IF InText(Sec[s].addr) THEN targetAddress ELSE targetAddress + Sec[t].size

PlacedInOrder ==
    /\ pc \in {"read", "size"} => \A s \in SecIndex : ~ IsPlaced(s)
    /\ pc = "place" => \A s \in SecIndex : IsPlaced(s) => s < cur.sec
    /\ \A s \in SecIndex : IsPlaced(s) => Loadable(s)

Recorded(range, name) ==
    \/ range = NoRange
    \/ \E s \in SecIndex : /\ IsPlaced(s)
                           /\ Sec[s].name = name
                           /\ range = [lo |-> at[s], size |-> Sec[s].size]
RangesRecorded == Recorded(bss, ".bss") /\ Recorded(sbss, ".sbss")

AllPlacedSoFar ==
    /\ pc = "place" => \A s \in SecIndex : s < cur.sec /\ Loadable(s) => IsPlaced(s)
    /\ pc \in Placed => \A s \in SecIndex : Loadable(s) => IsPlaced(s)

BasesFollow ==
    \A t \in SecIndex : TextSection(t) =>
        /\ pc = "place" => /\ baseOffset = IF cur.sec <= t THEN targetAddress
                                             ELSE targetAddress + Sec[t].size
                           /\ offset_data = baseOffset
        /\ pc \in Placed => offset_data = targetAddress + Sec[t].size

PlacedByRegion ==
    \A t \in SecIndex : TextSection(t) => \A s \in SecIndex : IsPlaced(s) =>
        /\ at[s] = RegionStart(t, s) + Sec[s].addr - LinkBase(s)
        /\ destinations[s] = Sub(RegionStart(t, s), LinkBase(s))

PlacedInv == /\ PlacedInOrder
             /\ RangesRecorded
             /\ Tidy => AllPlacedSoFar /\ BasesFollow /\ PlacedByRegion

\* What a tidy file says of its loadable sections.
LEMMA TidySection ==
    ASSUME file \in Files, Tidy, NEW s \in SecIndex, Loadable(s)
    PROVE  /\ Sec[s].addr \in Words
           /\ Sec[s].size \in Words
           /\ Sec[s].size > 0
           /\ InText(Sec[s].addr) \/ InData(Sec[s].addr)
           /\ InText(Sec[s].addr) => Sec[s].addr = TextBase
           /\ LinkBase(s) \in {TextBase, DataBase}
           /\ LinkBase(s) <= Sec[s].addr
           /\ ~ Skipped(s)
<1>1. Sec[s].addr \in Words /\ Sec[s].size \in Words
  BY FileTyped DEF Sections
<1>2. /\ Sec[s].size > 0
      /\ InText(Sec[s].addr) \/ InData(Sec[s].addr)
      /\ InText(Sec[s].addr) => Sec[s].addr = TextBase
      /\ ~ Skipped(s)
  BY DEF Tidy, TidyLayout, Skipped
<1>3. LinkBase(s) \in {TextBase, DataBase} /\ LinkBase(s) <= Sec[s].addr
  BY <1>2 DEF LinkBase, InText, InData
<1> QED
  BY <1>1, <1>2, <1>3

\* The text section is the first to be loaded, and the only one of its kind.
LEMMA TextFirst ==
    ASSUME file \in Files, Tidy, NEW t \in SecIndex, TextSection(t),
           NEW s \in SecIndex, Loadable(s)
    PROVE  /\ InText(Sec[s].addr) <=> s = t
           /\ s # t => t < s /\ InData(Sec[s].addr) /\ LinkBase(s) = DataBase
<1>1. t \in SecIndex /\ Loadable(t) /\ InText(Sec[t].addr)
  BY DEF TextSection
<1>2. file.n \in Nat
  BY FileTyped
<1>3. s = t \/ s < t \/ t < s
  BY <1>1, <1>2, SMT DEF SecIndex
<1>4. s < t => ~ InText(Sec[t].addr)
  BY <1>1 DEF Tidy, TidyLayout
<1>5. t < s => ~ InText(Sec[s].addr)
  BY <1>1 DEF Tidy, TidyLayout
<1>6. InText(Sec[s].addr) \/ InData(Sec[s].addr)
  BY TidySection
<1> QED
  BY <1>1, <1>3, <1>4, <1>5, <1>6 DEF LinkBase

\* There is a text section, and the entry point is in it.
LEMMA TextExists ==
    ASSUME Tidy
    PROVE  \E t \in SecIndex :
              /\ TextSection(t)
              /\ Inside(file.entry, 4, Sec[t].addr, Sec[t].addr + Sec[t].size)
BY DEF Tidy, TidyLayout, TextSection

\* Nothing is placed at first.
LEMMA InitPlaced == Init => PlacedInv
<1> SUFFICES ASSUME Init PROVE PlacedInv
  OBVIOUS
<1>1. PlacedInOrder /\ RangesRecorded
  BY DEF Init, PlacedInOrder, RangesRecorded, Recorded, IsPlaced
<1>2. AllPlacedSoFar /\ BasesFollow /\ PlacedByRegion
  BY DEF Init, AllPlacedSoFar, BasesFollow, PlacedByRegion, IsPlaced, Placed
<1> QED
  BY <1>1, <1>2 DEF PlacedInv

\* The operators above change only with the variables they are about.
LEMMA PlaceKept ==
    ASSUME UNCHANGED <<file, targetAddress>>
    PROVE  /\ \A t : TextSection(t)' <=> TextSection(t)
           /\ \A t, s : RegionStart(t, s)' = RegionStart(t, s)
BY FileKept DEF TextSection, RegionStart

\* A step that places nothing keeps what was placed.
LEMMA PlacedKept ==
    ASSUME TypeOK, PlacedInv, UNCHANGED <<file, bss, sbss, at>>
    PROVE  /\ RangesRecorded'
           /\ \A s \in SecIndex : IsPlaced(s)' <=> IsPlaced(s)
           /\ UNCHANGED <<targetAddress, destinations>> => (Tidy' => PlacedByRegion')
<1>1. \A s : IsPlaced(s)' <=> IsPlaced(s)
  BY DEF IsPlaced
<1>2. RangesRecorded'
  BY <1>1, FileKept DEF PlacedInv, RangesRecorded, Recorded
<1>3. ASSUME UNCHANGED <<targetAddress, destinations>>, Tidy'
      PROVE  PlacedByRegion'
  BY <1>1, <1>3, FileKept, PlaceKept DEF PlacedByRegion, PlacedInv
<1> QED
  BY <1>1, <1>2, <1>3
\* Choosing the target: nothing is placed yet, and text goes to the target.
LEMMA ChoosePlaced == ASSUME TypeOK, PlacedInv, ChooseTarget PROVE PlacedInv'
<1>1. /\ pc = "size" /\ pc' = "place" /\ cur'.sec = 0
      /\ UNCHANGED <<file, bss, sbss, at>>
      /\ baseOffset' = targetAddress' /\ offset_data' = targetAddress'
  BY DEF ChooseTarget, Start
<1>2. \A s \in SecIndex : ~ IsPlaced(s)'
  BY <1>1 DEF PlacedInv, PlacedInOrder, IsPlaced
<1>3. PlacedInOrder'
  BY <1>1, <1>2, FileKept DEF PlacedInOrder
<1>4. RangesRecorded'
  BY <1>1, PlacedKept
<1>5. \A s \in SecIndex : s >= 0
  BY FileTyped, SMT DEF TypeOK, SecIndex
<1>6. AllPlacedSoFar'
  <2>1. \A s \in SecIndex : ~ (s < cur'.sec)
    BY <1>1, <1>5, FileTyped, SMT DEF SecIndex, TypeOK
  <2> QED
    BY <1>1, <2>1, FileKept DEF AllPlacedSoFar, Placed
<1>7. BasesFollow'
  BY <1>1, <1>5, FileKept DEF BasesFollow, Placed
<1>8. PlacedByRegion'
  BY <1>1, <1>2, FileKept DEF PlacedByRegion
<1> QED
  BY <1>3, <1>4, <1>6, <1>7, <1>8 DEF PlacedInv

\* A section that is skipped is none of a tidy module's.
LEMMA SkipPlaced == ASSUME TypeOK, PlacedInv, SkipSection PROVE PlacedInv'
<1>1. /\ pc = "place" /\ pc' = "place" /\ cur.sec < file.n /\ Skipped(cur.sec)
      /\ UNCHANGED <<file, targetAddress, baseOffset, offset_data, destinations,
                     bss, sbss, at>>
      /\ cur' = NextSection
  BY DEF SkipSection, loadVars
<1>2. file \in Files /\ cur.sec \in SecIndex /\ cur'.sec = cur.sec + 1
  <2>1. file \in Files /\ cur \in [sec : 0 .. file.n, rel : 0 .. file.n, ent : Nat \ {0}]
    BY DEF TypeOK
  <2>2. cur.sec \in SecIndex
    BY <1>1, <2>1, FileTyped, SMT DEF SecIndex
  <2> QED
    BY <1>1, <2>1, <2>2 DEF NextSection
<1>3. \A s \in SecIndex : IsPlaced(s)' <=> IsPlaced(s)
  BY <1>1, PlacedKept
<1>4. \A s \in SecIndex : s \in Nat
  BY <1>2, FileTyped, SMT DEF SecIndex
<1>5. PlacedInOrder'
  <2>1. \A s \in SecIndex : IsPlaced(s) => s < cur.sec + 1
    BY <1>1, <1>2, <1>4, SMT DEF PlacedInv, PlacedInOrder
  <2> QED
    BY <1>1, <1>2, <1>3, <2>1, FileKept DEF PlacedInv, PlacedInOrder
<1>6. RangesRecorded' /\ (Tidy' => PlacedByRegion')
  BY <1>1, PlacedKept
<1>7. ASSUME Tidy
      PROVE  AllPlacedSoFar' /\ BasesFollow'
  <2>1. ~ Loadable(cur.sec)
    BY <1>1, <1>2, <1>7, TidySection
  <2>2. \A s \in SecIndex : s < cur.sec + 1 /\ Loadable(s) => s < cur.sec
    BY <1>2, <1>4, <2>1, SMT
  <2>3. AllPlacedSoFar'
    BY <1>1, <1>2, <1>3, <1>7, <2>2, FileKept DEF AllPlacedSoFar, Placed, PlacedInv
  <2>4. \A t \in SecIndex : TextSection(t) => (cur.sec <= t <=> cur.sec + 1 <= t)
    BY <1>2, <1>4, <2>1, SMT DEF TextSection
  <2>5. ASSUME NEW t \in SecIndex', TextSection(t)'
        PROVE  /\ baseOffset' = IF cur'.sec <= t THEN targetAddress'
                                  ELSE targetAddress' + Sec'[t].size
               /\ offset_data' = baseOffset'
    <3>1. t \in SecIndex /\ TextSection(t)
      BY <1>1, <2>5, FileKept, PlaceKept
    <3>2. baseOffset = (IF cur.sec <= t THEN targetAddress
                           ELSE targetAddress + Sec[t].size) /\ offset_data = baseOffset
      BY <1>1, <1>7, <3>1 DEF BasesFollow, PlacedInv
    <3> QED
      BY <1>1, <1>2, <2>4, <3>1, <3>2, FileKept
  <2>6. BasesFollow'
    BY <1>1, <2>5 DEF BasesFollow, Placed
  <2> QED
    BY <2>3, <2>6
<1> QED
  BY <1>1, <1>5, <1>6, <1>7, FileKept DEF PlacedInv

\* The loop ends behind the last section, and so behind the text section.
LEMMA AllPlacedPlaced == ASSUME TypeOK, PlacedInv, AllPlaced PROVE PlacedInv'
<1>1. /\ pc = "place" /\ pc' = "link" /\ cur.sec = file.n
      /\ UNCHANGED <<file, targetAddress, baseOffset, offset_data, destinations,
                     bss, sbss, at>>
  BY DEF AllPlaced, loadVars
<1>2. \A s \in SecIndex : s < cur.sec /\ ~ (cur.sec <= s)
  BY <1>1, FileTyped, SMT DEF SecIndex, TypeOK
<1>3. \A s \in SecIndex : IsPlaced(s)' <=> IsPlaced(s)
  BY <1>1, PlacedKept
<1>4. RangesRecorded' /\ (Tidy' => PlacedByRegion')
  BY <1>1, PlacedKept
<1>5. PlacedInOrder'
  BY <1>1, <1>3, FileKept DEF PlacedInOrder, PlacedInv
<1>6. Tidy => AllPlacedSoFar'
  BY <1>1, <1>2, <1>3, FileKept DEF AllPlacedSoFar, PlacedInv, Placed
<1>7. Tidy => BasesFollow'
  BY <1>1, <1>2, FileKept, PlaceKept DEF BasesFollow, PlacedInv, Placed
<1> QED
  BY <1>1, <1>4, <1>5, <1>6, <1>7, FileKept DEF PlacedInv
(***************************************************************************)
(* Placing a section of a tidy file: baseOffset is where its region        *)
(* starts, and nothing that is added to it wraps.                          *)
(***************************************************************************)
LEMMA PlaceByRegion ==
    ASSUME ArenaInv, PlacedInv, PlaceSection, Tidy,
           NEW t \in SecIndex, TextSection(t)
    PROVE  LET s == cur.sec IN
           /\ s \in SecIndex /\ Loadable(s)
           /\ baseOffset = RegionStart(t, s)
           /\ Destination(s) = RegionStart(t, s) + Sec[s].addr - LinkBase(s)
           /\ s = t => baseOffset' = targetAddress + Sec[t].size
           /\ s # t => t < s /\ baseOffset' = baseOffset
           /\ offset_data' = baseOffset'
<1> DEFINE s == cur.sec
<1>1. /\ pc = "place" /\ s < file.n /\ ~ Skipped(s)
      /\ baseOffset' = NextOffset(baseOffset, s)
      /\ offset_data' = NextOffset(offset_data, s)
  BY DEF PlaceSection, Placing
<1>2. TypeOK /\ file \in Files /\ s \in 0 .. file.n
  BY DEF ArenaInv, TypeOK
<1>3. s \in SecIndex
  BY <1>1, <1>2, FileTyped, SMT DEF SecIndex
<1>4. Loadable(s)
  BY <1>1 DEF Skipped
<1>5. /\ baseOffset = IF s <= t THEN targetAddress ELSE targetAddress + Sec[t].size
      /\ offset_data = baseOffset
  BY <1>1 DEF PlacedInv, BasesFollow
<1>6. /\ InText(Sec[s].addr) <=> s = t
      /\ s # t => t < s
  BY <1>2, <1>3, <1>4, TextFirst
<1>7. s \in Int /\ t \in Int
  BY <1>2, <1>3, FileTyped, SMT DEF SecIndex
<1>8. baseOffset = RegionStart(t, s)
  BY <1>5, <1>6, <1>7, SMT DEF RegionStart
<1>9. /\ Sec[s].addr \in Words
      /\ Sec[s].size \in Words
      /\ Sec[s].size + DestAddr + ImportBase < Word
      /\ LinkBase(s) \in {TextBase, DataBase}
      /\ LinkBase(s) <= Sec[s].addr
      /\ Sec[s].addr < ImportBase
      /\ InText(Sec[s].addr) => Sec[s].addr = TextBase /\ LinkBase(s) = TextBase
  <2>1. /\ Sec[s].addr \in Words
        /\ Sec[s].size \in Words
        /\ LinkBase(s) \in {TextBase, DataBase}
        /\ LinkBase(s) <= Sec[s].addr
        /\ InText(Sec[s].addr) \/ InData(Sec[s].addr)
        /\ InText(Sec[s].addr) => Sec[s].addr = TextBase
    BY <1>2, <1>3, <1>4, TidySection
  <2>2. Sec[s].size + DestAddr + ImportBase < Word
    BY <1>3 DEF Tidy, TidyLayout, SizesFit
  <2>3. Sec[s].addr < ImportBase
    BY <2>1, ConstantsTyped, LayoutAssumption, SMT DEF InText, InData, LayoutAssumption, Words
  <2>4. InText(Sec[s].addr) => LinkBase(s) = TextBase
    BY DEF LinkBase
  <2> QED
    BY <2>1, <2>2, <2>3, <2>4
<1>10. /\ baseOffset \in Words /\ targetAddress <= baseOffset /\ baseOffset <= DestAddr
  BY <1>1, <1>2 DEF ArenaInv, PlacingInArena, TypeOK
<1>11. Destination(s) = baseOffset + Sec[s].addr - LinkBase(s)
  <2>1. /\ baseOffset \in Nat /\ Sec[s].addr \in Nat /\ LinkBase(s) \in Nat
        /\ baseOffset <= DestAddr /\ Sec[s].addr < ImportBase /\ LinkBase(s) <= Sec[s].addr
    BY <1>9, <1>10, Bounds, SMT DEF Words
  <2>2. baseOffset + Sec[s].addr < Word
    BY <2>1, Bounds, SMT
  <2>3. Destination(s) = Sub(baseOffset + Sec[s].addr, LinkBase(s))
    BY <2>1, <2>2, SMT DEF Destination, Add, Wrap
  <2>4. baseOffset + Sec[s].addr \in Nat /\ LinkBase(s) <= baseOffset + Sec[s].addr
    BY <2>1, SMT
  <2> QED
    BY <2>1, <2>2, <2>3, <2>4, ExactSub
<1>12. s = t => baseOffset' = targetAddress + Sec[t].size
  BY <1>1, <1>5, <1>6, <1>7, <1>9, <1>10, Layout, WordAssumption, ConstantsTyped, SMT
     DEF NextOffset, Add, Wrap, Words
<1>13. s # t => baseOffset' = baseOffset
  BY <1>1, <1>6 DEF NextOffset
<1>14. offset_data' = baseOffset'
  BY <1>1, <1>5
<1> QED
  BY <1>3, <1>4, <1>6, <1>8, <1>11, <1>12, <1>13, <1>14

\* The step that places a section keeps the order and the recorded ranges.
LEMMA PlaceSectionOrder ==
    ASSUME ArenaInv, PlacedInv, PlaceSection
    PROVE  /\ PlacedInOrder'
           /\ RangesRecorded'
           /\ \A s \in SecIndex : IsPlaced(s)' <=> IsPlaced(s) \/ s = cur.sec
           /\ \A s \in SecIndex : s # cur.sec => /\ at'[s] = at[s]
                                                 /\ destinations'[s] = destinations[s]
           /\ at'[cur.sec] = Destination(cur.sec)
           /\ destinations'[cur.sec] = Sub(baseOffset, LinkBase(cur.sec))
           /\ cur.sec \in SecIndex
           /\ cur'.sec = cur.sec + 1
           /\ UNCHANGED <<pc, file, targetAddress>>
<1> DEFINE k == cur.sec
           range == [lo |-> Destination(k), size |-> Sec[k].size]
<1>1. /\ pc = "place" /\ k < file.n /\ ~ Skipped(k)
      /\ destinations' = [destinations EXCEPT ![k] = Sub(baseOffset, LinkBase(k))]
      /\ bss' = IF Sec[k].name = ".bss" THEN range ELSE bss
      /\ sbss' = IF Sec[k].name = ".sbss" THEN range ELSE sbss
      /\ cur' = NextSection
      /\ UNCHANGED <<pc, file, targetAddress>>
  BY DEF PlaceSection, Placing
<1>2. TypeOK /\ file \in Files /\ cur \in [sec : 0 .. file.n, rel : 0 .. file.n, ent : Nat \ {0}]
  BY DEF ArenaInv, TypeOK
<1>3. k \in SecIndex /\ cur'.sec = k + 1
  <2>1. k \in SecIndex
    BY <1>1, <1>2, FileTyped, SMT DEF SecIndex
  <2> QED
    BY <1>1, <1>2, <2>1 DEF NextSection
<1>4. at' = [at EXCEPT ![k] = Destination(k)] /\ TypeOK'
  BY <1>1, <1>2, PlaceTypeOK DEF ArenaInv, PlacingInArena
<1>5. /\ at'[k] = Destination(k)
      /\ destinations'[k] = Sub(baseOffset, LinkBase(k))
      /\ \A s \in SecIndex : s # k => at'[s] = at[s] /\ destinations'[s] = destinations[s]
  BY <1>1, <1>2, <1>3, <1>4 DEF TypeOK
<1>6. Destination(k) # NotPlaced
  <2>1. Destination(k) \in Words
    <3>1. Sec[k].addr \in -Word .. Word
      BY <1>2, <1>3, FileTyped, WordAssumption, SMT DEF Sections, Words
    <3>2. Add(baseOffset, Sec[k].addr) \in Words
      BY <1>2, <3>1, WrapTyped DEF TypeOK
    <3> QED
      BY <3>2, SubTyped, ConstantsTyped DEF Destination, LinkBase
  <2> QED
    BY <2>1, WordAssumption, SMT DEF Words, NotPlaced
<1>7. \A s \in SecIndex : IsPlaced(s)' <=> IsPlaced(s) \/ s = k
  BY <1>5, <1>6 DEF IsPlaced
<1>8. \A s \in SecIndex : IsPlaced(s) => s # k
  BY <1>1, <1>2, <1>3, FileTyped, SMT DEF PlacedInv, PlacedInOrder, SecIndex
<1>9. PlacedInOrder'
  <2>1. \A s \in SecIndex : IsPlaced(s)' => s < k + 1
    BY <1>1, <1>2, <1>3, <1>7, FileTyped, SMT DEF PlacedInv, PlacedInOrder, SecIndex
  <2>2. \A s \in SecIndex : IsPlaced(s)' => Loadable(s)
    BY <1>1, <1>7 DEF PlacedInv, PlacedInOrder, Skipped
  <2> QED
    BY <1>1, <1>3, <2>1, <2>2, FileKept DEF PlacedInOrder
<1>10. RangesRecorded'
  <2>1. ASSUME NEW r, NEW name, Recorded(r, name)
        PROVE  \/ r = NoRange
               \/ \E s \in SecIndex : /\ IsPlaced(s)'
                                      /\ Sec[s].name = name
                                      /\ r = [lo |-> at'[s], size |-> Sec[s].size]
    BY <1>5, <1>7, <1>8, <2>1 DEF Recorded
  <2>2. ASSUME NEW name, Sec[k].name = name
        PROVE  \E s \in SecIndex : /\ IsPlaced(s)'
                                   /\ Sec[s].name = name
                                   /\ range = [lo |-> at'[s], size |-> Sec[s].size]
    BY <1>3, <1>5, <1>7, <2>2
  <2>3. Recorded(bss, ".bss")'
    <3>1. CASE Sec[k].name = ".bss"
      BY <1>1, <2>2, <3>1, FileKept DEF Recorded
    <3>2. CASE Sec[k].name # ".bss"
      <4>1. bss' = bss
        BY <1>1, <3>2
      <4> QED
        BY <1>1, <2>1, <4>1, FileKept DEF Recorded, PlacedInv, RangesRecorded
    <3> QED
      BY <3>1, <3>2
  <2>4. Recorded(sbss, ".sbss")'
    <3>1. CASE Sec[k].name = ".sbss"
      BY <1>1, <2>2, <3>1, FileKept DEF Recorded
    <3>2. CASE Sec[k].name # ".sbss"
      <4>1. sbss' = sbss
        BY <1>1, <3>2
      <4> QED
        BY <1>1, <2>1, <4>1, FileKept DEF Recorded, PlacedInv, RangesRecorded
    <3> QED
      BY <3>1, <3>2
  <2> QED
    BY <2>3, <2>4 DEF RangesRecorded
<1> QED
  BY <1>1, <1>3, <1>5, <1>7, <1>9, <1>10

\* Placing a section keeps every part of the layout invariant.
LEMMA PlaceSectionPlaced ==
    ASSUME ArenaInv, PlacedInv, PlaceSection
    PROVE  PlacedInv'
<1> DEFINE k == cur.sec
<1>1. /\ PlacedInOrder' /\ RangesRecorded'
      /\ \A s \in SecIndex : IsPlaced(s)' <=> IsPlaced(s) \/ s = k
      /\ \A s \in SecIndex : s # k => at'[s] = at[s] /\ destinations'[s] = destinations[s]
      /\ at'[k] = Destination(k) /\ destinations'[k] = Sub(baseOffset, LinkBase(k))
      /\ k \in SecIndex /\ cur'.sec = k + 1
      /\ UNCHANGED <<pc, file, targetAddress>>
  BY PlaceSectionOrder
<1>2. pc = "place"
  BY DEF PlaceSection, Placing
<1>3. file \in Files /\ \A s \in SecIndex : s \in Nat
  BY FileTyped, SMT DEF ArenaInv, TypeOK, SecIndex
<1>4. ASSUME Tidy
      PROVE  AllPlacedSoFar' /\ BasesFollow' /\ PlacedByRegion'
  <2>1. AllPlacedSoFar'
    <3>1. \A s \in SecIndex : s < k + 1 => s < k \/ s = k
      BY <1>1, <1>3, SMT
    <3> QED
      BY <1>1, <1>2, <1>4, <3>1, FileKept DEF AllPlacedSoFar, PlacedInv, Placed
  <2>2. ASSUME NEW t \in SecIndex, TextSection(t)
        PROVE  /\ baseOffset' = IF k + 1 <= t THEN targetAddress
                                  ELSE targetAddress + Sec[t].size
               /\ offset_data' = baseOffset'
    <3>1. /\ k = t => baseOffset' = targetAddress + Sec[t].size
          /\ k # t => t < k /\ baseOffset' = baseOffset
          /\ offset_data' = baseOffset'
      BY <1>4, <2>2, PlaceByRegion
    <3>2. baseOffset = IF k <= t THEN targetAddress ELSE targetAddress + Sec[t].size
      BY <1>2, <1>4, <2>2 DEF PlacedInv, BasesFollow
    <3> QED
      BY <1>1, <1>3, <2>2, <3>1, <3>2, SMT
  <2>3. BasesFollow'
    BY <1>1, <1>2, <2>2, FileKept, PlaceKept DEF BasesFollow, Placed
  <2>4. ASSUME NEW t \in SecIndex, TextSection(t), NEW s \in SecIndex, IsPlaced(s)'
        PROVE  /\ at'[s] = RegionStart(t, s) + Sec[s].addr - LinkBase(s)
               /\ destinations'[s] = Sub(RegionStart(t, s), LinkBase(s))
    <3>1. CASE s = k
      BY <1>1, <1>4, <2>4, <3>1, PlaceByRegion
    <3>2. CASE s # k
      BY <1>1, <1>4, <2>4, <3>2 DEF PlacedInv, PlacedByRegion
    <3> QED
      BY <3>1, <3>2
  <2>5. PlacedByRegion'
    BY <1>1, <2>4, FileKept, PlaceKept DEF PlacedByRegion
  <2> QED
    BY <2>1, <2>3, <2>5
<1> QED
  BY <1>1, <1>4, FileKept DEF PlacedInv

\* A copy that runs away leaves the records of the sections before it; no tidy file has one.
LEMMA OverrunPlaced == ASSUME ArenaInv, PlacedInv, Overrun PROVE PlacedInv'
<1>1. /\ pc = "place" /\ pc' = "overrun" /\ ~ Skipped(cur.sec)
      /\ UNCHANGED <<file, bss, sbss>>
  BY DEF Overrun, Placing
<1>2. ModuleStart <= targetAddress /\ baseOffset <= DestAddr /\ TypeOK
  BY <1>1 DEF ArenaInv, PlacingInArena
<1>3. /\ at' = [at EXCEPT ![cur.sec] = Destination(cur.sec)]
      /\ ~ Tidy
  BY <1>2, OverrunTypeOK DEF Tidy, TidyLayout
<1>4. \A s \in SecIndex : s # cur.sec => at'[s] = at[s]
  BY <1>2, <1>3 DEF TypeOK
<1>5. \A s \in SecIndex : IsPlaced(s)' => Loadable(s)
  BY <1>1, <1>4 DEF PlacedInv, PlacedInOrder, IsPlaced, Skipped
<1>6. PlacedInOrder'
  BY <1>1, <1>5, FileKept DEF PlacedInOrder
<1>7. \A s \in SecIndex : IsPlaced(s) => at'[s] = at[s] /\ IsPlaced(s)'
  <2>1. \A s \in SecIndex : IsPlaced(s) => s # cur.sec
    <3>1. cur.sec \in Int
      BY <1>2, FileTyped, SMT DEF TypeOK
    <3> QED
      BY <1>1, <3>1, SMT DEF PlacedInv, PlacedInOrder
  <2> QED
    BY <1>4, <2>1 DEF IsPlaced
<1>8. RangesRecorded'
  BY <1>1, <1>7, FileKept DEF PlacedInv, RangesRecorded, Recorded
<1> QED
  BY <1>1, <1>3, <1>6, <1>8, FileKept DEF PlacedInv

\* No step disturbs the layout.
LEMMA StepPlaced == ASSUME ArenaInv, PlacedInv, [Next]_vars PROVE PlacedInv'
<1>1. TypeOK
  BY DEF ArenaInv
<1>2. CASE ChooseTarget \/ SkipSection \/ PlaceSection \/ Overrun \/ AllPlaced
  BY <1>1, <1>2, ChoosePlaced, SkipPlaced, PlaceSectionPlaced, OverrunPlaced,
     AllPlacedPlaced
<1>3. CASE /\ UNCHANGED <<file, targetAddress, baseOffset, offset_data,
                          destinations, bss, sbss, at>>
           /\ \/ pc' \in {"failed", "fatal"}
              \/ pc \in {"read", "size"} /\ pc' = "size"
              \/ pc \in Placed /\ pc' \in Placed
              \/ UNCHANGED <<pc, cur>>
  <2>1. /\ RangesRecorded' /\ (Tidy' => PlacedByRegion')
        /\ \A s \in SecIndex : IsPlaced(s)' <=> IsPlaced(s)
    BY <1>1, <1>3, PlacedKept
  <2>2. PlacedInOrder'
    BY <1>3, <2>1, FileKept DEF PlacedInv, PlacedInOrder, Placed
  <2>3. Tidy => AllPlacedSoFar'
    BY <1>3, <2>1, FileKept DEF PlacedInv, AllPlacedSoFar, Placed
  <2>4. Tidy => BasesFollow'
    BY <1>3, FileKept, PlaceKept DEF PlacedInv, BasesFollow, Placed
  <2> QED
    BY <1>3, <2>1, <2>2, <2>3, <2>4, FileKept DEF PlacedInv
<1> QED
  BY <1>1, <1>2, <1>3, PlaceFrame

\* The arena and the layout hold together.
LEMMA PlacedAlways == Spec => [](ArenaInv /\ PlacedInv)
<1>1. Init => ArenaInv /\ PlacedInv
  BY InitArenaInv, InitPlaced
<1>2. ArenaInv /\ PlacedInv /\ [Next]_vars => (ArenaInv /\ PlacedInv)'
  BY StepArenaInv, StepPlaced
<1> QED
  BY <1>1, <1>2, PTL DEF Spec

(***************************************************************************)
(* No byte of a tidy module belongs to two sections: the data sections     *)
(* keep the distances they have in the file, and go behind the text.       *)
(***************************************************************************)
LEMMA PlacedApart == ASSUME TypeOK, PlacedInv PROVE SectionsApart
<1> SUFFICES ASSUME Tidy, NEW s \in SecIndex, NEW u \in SecIndex, s # u,
                    NotPlaced \notin {at[s], at[u]}
             PROVE  ~ Overlap(at[s], Sec[s].size, at[u], Sec[u].size)
  BY DEF SectionsApart
<1>1. PICK t \in SecIndex : TextSection(t)
  BY TextExists
<1>2. file \in Files /\ IsPlaced(s) /\ IsPlaced(u) /\ Loadable(s) /\ Loadable(u)
  BY DEF TypeOK, PlacedInv, PlacedInOrder, IsPlaced
<1>3. /\ at[s] = RegionStart(t, s) + Sec[s].addr - LinkBase(s)
      /\ at[u] = RegionStart(t, u) + Sec[u].addr - LinkBase(u)
  BY <1>1, <1>2 DEF PlacedInv, PlacedByRegion
<1>4. ~ Overlap(Sec[s].addr, Sec[s].size, Sec[u].addr, Sec[u].size)
  <2>1. s < u \/ u < s
    BY <1>2, FileTyped, SMT DEF SecIndex
  <2> QED
    BY <1>2, <2>1 DEF Tidy, TidyLayout, Overlap
<1>5. \A x \in {s, u, t} : Sec[x].addr \in Int /\ Sec[x].size \in Int
  BY <1>1, <1>2, TidySection DEF TextSection, Words
<1>6. targetAddress \in Int /\ DataBase \in Int /\ TextBase \in Int
  BY ConstantsTyped DEF TypeOK, Words
<1>7. \A x \in {s, u} :
         /\ x = t => /\ RegionStart(t, x) = targetAddress
                     /\ Sec[x].addr = TextBase /\ LinkBase(x) = TextBase
         /\ x # t => /\ RegionStart(t, x) = targetAddress + Sec[t].size
                     /\ LinkBase(x) = DataBase /\ DataBase <= Sec[x].addr
  BY <1>1, <1>2, TextFirst, TidySection DEF RegionStart, InData, LinkBase
<1> QED
  BY <1>3, <1>4, <1>5, <1>6, <1>7, SMT DEF Overlap

(***************************************************************************)
(* No byte of a tidy module belongs to two sections, though each is placed *)
(* from its link address alone and only the arena is checked.              *)
(***************************************************************************)
THEOREM LoaderSectionsApart == Spec => []SectionsApart
BY PlacedAlways, PlacedApart, PTL DEF ArenaInv
-----------------------------------------------------------------------------
(***************************************************************************)
(* An RPL has been acquired, and once, when an import before the cursor    *)
(* names it.  That it is not acquired again rests on usedRPls being the    *)
(* keys of the map in every phase, not only at the end.                    *)
(***************************************************************************)
NamedBefore(r, n) == \E i \in 1 .. (n - 1) : i <= Len(imports) /\ imports[i].rpl = r

PinsCounted == \A r \in Names : refs[r] = IF r \in usedRPls THEN 1 ELSE 0
PinsFollow ==
    /\ pc \in {"read", "size", "place", "link", "collect"} => usedRPls = {}
    /\ pc = "reloc" => /\ cur.ent <= Len(imports) + 1
                       /\ \A r \in Names : r \in usedRPls <=> NamedBefore(r, cur.ent)
    /\ pc \in {"clear", "enter", "entered"} =>
          \A r \in Names : r \in usedRPls <=> NamedBefore(r, Len(imports) + 1)
PinInv == PinsCounted /\ PinsFollow

\* Acquiring what an import names counts it once.
LEMMA AcquireCounts ==
    ASSUME TypeOK, PinsCounted, Resolving, Acquired, UNCHANGED file
    PROVE  /\ PinsCounted'
           /\ Import.rpl \in Names
           /\ \A r \in Names : r \in usedRPls' <=> r \in usedRPls \/ r = Import.rpl
<1>1. Import \in ImportRelocs /\ refs \in [Names -> Nat]
  BY DEF TypeOK, Resolving, Import
<1>2. Import.rpl \in Names
  BY <1>1 DEF ImportRelocs
<1>3. CASE Import.rpl \in usedRPls
  BY <1>2, <1>3, FileKept DEF Acquired, PinsCounted
<1>4. CASE Import.rpl \notin usedRPls
  <2>1. /\ usedRPls' = usedRPls \cup {Import.rpl}
        /\ refs' = [refs EXCEPT ![Import.rpl] = @ + 1]
    BY <1>4 DEF Acquired
  <2>2. refs'[Import.rpl] = 1
    BY <1>1, <1>2, <1>4, <2>1 DEF PinsCounted
  <2>3. \A r \in Names : r # Import.rpl => refs'[r] = refs[r]
    BY <1>1, <2>1
  <2>4. PinsCounted'
    BY <2>1, <2>2, <2>3, FileKept DEF PinsCounted
  <2> QED
    BY <1>2, <2>1, <2>4
<1> QED
  BY <1>3, <1>4

\* Going on to the next import.
LEMMA NamedNext ==
    ASSUME NEW n \in Nat \ {0}, n <= Len(imports), NEW r
    PROVE  NamedBefore(r, n + 1) <=> NamedBefore(r, n) \/ r = imports[n].rpl
BY SMT DEF NamedBefore

\* Only doRelocation touches what is counted.
LEMMA PinFrame ==
    ASSUME [Next]_vars
    PROVE  \/ ResolveImport \/ ExportMissing \/ LoadDone \/ AllResolved
           \/ /\ UNCHANGED <<file, usedRPls, refs>>
              /\ \/ pc' \in {"failed", "fatal", "overrun"}
                 \/ /\ pc \in {"read", "size", "place", "link", "collect"}
                    /\ pc' \in {"read", "size", "place", "link", "collect"}
                 \/ /\ pc \in {"clear", "enter", "entered"} /\ UNCHANGED imports
                    /\ pc' \in {"clear", "enter", "entered"}
                 \/ UNCHANGED <<pc, cur, imports>>
<1> USE DEF importVars
<1>1. CASE Bookkeeping
  BY <1>1 DEF Bookkeeping, ReadFile, TooBig, SkipSection, BadAddress, ArenaFatal,
     AllPlaced, SectionLinked, RelSectionDone, LinkNoSymbol, LinkSkipImport,
     LinkBadSymbol, AllLinked, CollectNextSection, CollectNoSymbol,
     CollectSkipLocal, CollectBreak, AcquireFails, Placing, Linking, LinkingEntry,
     Collecting, CollectingEntry, Resolving
<1>2. CASE SizeSection \/ ChooseTarget \/ PlaceSection \/ Overrun
  BY <1>2 DEF SizeSection, ChooseTarget, PlaceSection, Overrun, Placing
<1>3. CASE LinkEntry \/ CollectImport
  BY <1>3 DEF LinkEntry, CollectImport, Linking, LinkingEntry, Collecting, CollectingEntry
<1>4. CASE ClearBss \/ Enter
  BY <1>4 DEF ClearBss, Enter
<1>5. CASE Done \/ UNCHANGED vars
  BY <1>5 DEF Done, vars
<1> QED
  BY <1>1, <1>2, <1>3, <1>4, <1>5, NextCases

\* No step loses or repeats an acquisition.
LEMMA StepPins == ASSUME TypeOK, PinInv, [Next]_vars PROVE PinInv'
<1>1. CASE ResolveImport
  <2>1. /\ Resolving /\ Acquired /\ pc = "reloc" /\ cur.ent <= Len(imports)
        /\ UNCHANGED <<file, imports>>
        /\ pc' = "fatal" \/ (pc' = "reloc" /\ cur' = NextEntry)
    BY <1>1 DEF ResolveImport, Resolving
  <2>2. /\ PinsCounted'
        /\ \A r \in Names : r \in usedRPls' <=> r \in usedRPls \/ r = Import.rpl
    BY <2>1, AcquireCounts DEF PinInv
  <2>3. CASE pc' = "reloc" /\ cur' = NextEntry
    <3>1. cur.ent \in Nat \ {0} /\ cur'.ent = cur.ent + 1
      BY <2>3 DEF TypeOK, NextEntry
    <3>2. Len(imports) \in Nat
      BY DEF TypeOK
    <3>3. cur'.ent <= Len(imports) + 1
      BY <2>1, <3>1, <3>2, SMT
    <3>4. \A r \in Names : r \in usedRPls' <=> NamedBefore(r, cur.ent + 1)
      BY <2>1, <2>2, <3>1, NamedNext DEF PinInv, PinsFollow, Import
    <3>5. \A r, n : NamedBefore(r, n)' <=> NamedBefore(r, n)
      BY <2>1 DEF NamedBefore
    <3> QED
      BY <2>1, <2>2, <2>3, <3>1, <3>3, <3>4, <3>5, FileKept DEF PinInv, PinsFollow
  <2>4. CASE pc' = "fatal"
    BY <2>2, <2>4 DEF PinInv, PinsFollow
  <2> QED
    BY <2>1, <2>3, <2>4
<1>2. CASE ExportMissing
  BY <1>2, AcquireCounts DEF ExportMissing, PinInv, PinsFollow
<1>3. CASE LoadDone
  <2>1. /\ pc = "collect" /\ pc' = "reloc" /\ cur'.ent = 1
        /\ UNCHANGED <<file, usedRPls, refs, imports>>
    BY <1>3 DEF LoadDone, Start, importVars
  <2>2. \A r : ~ NamedBefore(r, 1)
    BY SMT DEF NamedBefore
  <2>3. \A r, n : NamedBefore(r, n)' <=> NamedBefore(r, n)
    BY <2>1 DEF NamedBefore
  <2>4. 1 <= Len(imports) + 1
    BY DEF TypeOK
  <2> QED
    BY <2>1, <2>2, <2>3, <2>4, FileKept DEF PinInv, PinsFollow, PinsCounted
<1>4. CASE AllResolved
  <2>1. /\ pc = "reloc" /\ pc' = "clear" /\ cur.ent > Len(imports)
        /\ UNCHANGED <<file, usedRPls, refs, imports>>
    BY <1>4 DEF AllResolved, importVars
  <2>2. cur.ent = Len(imports) + 1
    BY <2>1, SMT DEF PinInv, PinsFollow, TypeOK
  <2>3. \A r, n : NamedBefore(r, n)' <=> NamedBefore(r, n)
    BY <2>1 DEF NamedBefore
  <2> QED
    BY <2>1, <2>2, <2>3, FileKept DEF PinInv, PinsFollow, PinsCounted
<1>5. CASE /\ UNCHANGED <<file, usedRPls, refs>>
           /\ \/ pc' \in {"failed", "fatal", "overrun"}
              \/ /\ pc \in {"read", "size", "place", "link", "collect"}
                 /\ pc' \in {"read", "size", "place", "link", "collect"}
              \/ /\ pc \in {"clear", "enter", "entered"} /\ UNCHANGED imports
                 /\ pc' \in {"clear", "enter", "entered"}
              \/ UNCHANGED <<pc, cur, imports>>
  <2>1. PinsCounted'
    BY <1>5, FileKept DEF PinInv, PinsCounted
  <2>2. UNCHANGED imports => \A r, n : NamedBefore(r, n)' <=> NamedBefore(r, n)
    BY DEF NamedBefore
  <2>3. PinsFollow'
    BY <1>5, <2>2, FileKept DEF PinInv, PinsFollow
  <2> QED
    BY <2>1, <2>3 DEF PinInv
<1> QED
  BY <1>1, <1>2, <1>3, <1>4, <1>5, PinFrame

(***************************************************************************)
(* When the module is entered, every RPL it imports from has been acquired *)
(* once, and no other.                                                     *)
(***************************************************************************)
THEOREM LoaderPinsOnce == Spec => []RplsPinnedOnce
<1>1. Init => PinInv
  BY DEF Init, PinInv, PinsCounted, PinsFollow
<1>2. TypeOK /\ PinInv /\ [Next]_vars => PinInv'
  BY StepPins
<1>3. TypeOK /\ PinInv => RplsPinnedOnce
  <2> SUFFICES ASSUME TypeOK, PinInv, pc = "entered", NEW r \in Names
               PROVE  refs[r] = IF \E i \in 1 .. Len(imports) : imports[i].rpl = r
                                  THEN 1 ELSE 0
    BY DEF RplsPinnedOnce
  <2>1. Len(imports) \in Nat
    BY DEF TypeOK
  <2>2. NamedBefore(r, Len(imports) + 1) <=> \E i \in 1 .. Len(imports) : imports[i].rpl = r
    BY <2>1, SMT DEF NamedBefore
  <2> QED
    BY <2>2 DEF PinInv, PinsCounted, PinsFollow
<1> QED
  BY <1>1, <1>2, <1>3, LoaderTyped, PTL DEF Spec
-----------------------------------------------------------------------------
(***************************************************************************)
(* Every call of elfLinkOne, and so every relocation written, is one entry *)
(* of the file with the address and the value the file and the placement   *)
(* give it.                                                                *)
(***************************************************************************)
IsEntry(id) == id \in RelocIds /\ id[2] <= Len(Sec[id[1]].rel)

\* What doRelocation and linkSection compute from an entry.
TargetOf(id, import) ==
    IF import THEN Add(ImportBaseOf(OwnerOf(id)), Sub(RelocOf(id).offset, TextBase))
              ELSE Add(destinations[OwnerOf(id)], RelocOf(id).offset)

\* Which pass an entry is for, and which sections it may be for.
ForPass(id, import) ==
    /\ IsEntry(id)
    /\ OwnerOf(id) \in SecIndex
    /\ RelocOf(id).sym.ok
    /\ import <=> IsImport(RelocOf(id).sym)
    /\ IF import THEN Sec[id[1]].type = "RELA" ELSE Loadable(OwnerOf(id))

CallTraced(l) ==
    /\ ForPass(l.id, l.import)
    /\ l.type = RelocOf(l.id).type
    /\ l.addend = RelocOf(l.id).addend
    /\ l.target = TargetOf(l.id, l.import)
    /\ ~ l.import => l.symbol = Adjusted(RelocOf(l.id).sym.value)

PatchTraced(p) ==
    /\ ForPass(p.id, p.import)
    /\ p.type = RelocOf(p.id).type
    /\ Writing(RelocOf(p.id))
    /\ p.len \in {2, 4}
    /\ p.lo = TargetOf(p.id, p.import)
    /\ ~ p.import => p.want = Add(Adjusted(RelocOf(p.id).sym.value), RelocOf(p.id).addend)

ImportTraced(m) ==
    /\ ForPass(m.id, TRUE)
    /\ m.type = RelocOf(m.id).type
    /\ m.addend = RelocOf(m.id).addend
    /\ m.offset = Sub(RelocOf(m.id).offset, TextBase)
    /\ m.destination = ImportBaseOf(OwnerOf(m.id))

\* Nothing is linked or listed before everything is placed.
PassesInOrder ==
    /\ pc \in {"read", "size", "place"} => patched = <<>> /\ dirty = {}
    /\ pc \in {"read", "size", "place", "link"} => imports = <<>>

TracedInv == /\ PassesInOrder
             /\ \A i \in 1 .. Len(patched) : PatchTraced(patched[i])
             /\ \A i \in 1 .. Len(imports) : ImportTraced(imports[i])

\* A call of elfLinkOne writes its relocation, or nothing.
LEMMA LinkOutcome ==
    ASSUME NEW l, NEW ok \in BOOLEAN, ElfLinkOne(l, ok)
    PROVE  \/ /\ UNCHANGED <<patched, dirty>>
              /\ ok => l.type \in {"NONE", "DTPMOD32"}
           \/ /\ ok
              /\ l.type \notin {"NONE", "DTPMOD32"}
              /\ \E len \in {2, 4} : \E dest : Write(l, len, dest)
BY DEF ElfLinkOne, LinkNothing, LinkUnsupported, LinkAddress, LinkRel14, LinkNearBranch,
   NoTrampoline, LinkFarBranch, linkVars

\* Only two steps link anything, and only one lists an import.
LEMMA LinkFrame ==
    ASSUME [Next]_vars
    PROVE  /\ LinkEntry \/ ResolveImport \/ UNCHANGED <<patched, slots>>
           /\ CollectImport \/ UNCHANGED imports
           /\ UNCHANGED file
           /\ pc \in {"failed", "fatal"} => UNCHANGED vars
<1> USE DEF linkVars, importVars
<1>1. CASE Bookkeeping
  <2>1. UNCHANGED <<file, linkVars, importVars>>
    BY <1>1 DEF Bookkeeping, ReadFile, TooBig, SkipSection, BadAddress, ArenaFatal,
       AllPlaced, SectionLinked, RelSectionDone, LinkNoSymbol, LinkSkipImport,
       LinkBadSymbol, AllLinked, CollectNextSection, CollectNoSymbol,
       CollectSkipLocal, CollectBreak, AcquireFails
  <2>2. pc \notin {"failed", "fatal"}
    BY <1>1 DEF Bookkeeping, ReadFile, TooBig, SkipSection, BadAddress, ArenaFatal,
       AllPlaced, SectionLinked, RelSectionDone, LinkNoSymbol, LinkSkipImport,
       LinkBadSymbol, AllLinked, CollectNextSection, CollectNoSymbol,
       CollectSkipLocal, CollectBreak, AcquireFails, Placing, Linking, LinkingEntry,
       Collecting, CollectingEntry, Resolving
  <2> QED
    BY <2>1, <2>2
<1>2. CASE SizeSection \/ ChooseTarget \/ PlaceSection \/ Overrun
  BY <1>2 DEF SizeSection, ChooseTarget, PlaceSection, Overrun, Placing
<1>3. CASE LinkEntry \/ CollectImport \/ ResolveImport
  BY <1>3 DEF LinkEntry, CollectImport, ResolveImport, Linking, LinkingEntry,
     Collecting, CollectingEntry, Resolving
<1>4. CASE ExportMissing \/ LoadDone \/ AllResolved \/ ClearBss \/ Enter
  BY <1>4 DEF ExportMissing, LoadDone, AllResolved, ClearBss, Enter, Resolving
<1>5. CASE Done \/ UNCHANGED vars
  BY <1>5 DEF Done, vars
<1> QED
  BY <1>1, <1>2, <1>3, <1>4, <1>5, NextCases

\* The passes come one after the other.
LEMMA PassesKept == ASSUME TypeOK, PassesInOrder, [Next]_vars PROVE PassesInOrder'
<1> USE DEF PassesInOrder, linkVars, importVars
<1>1. CASE Bookkeeping
  BY <1>1 DEF Bookkeeping, ReadFile, TooBig, SkipSection, BadAddress, ArenaFatal,
     AllPlaced, SectionLinked, RelSectionDone, LinkNoSymbol, LinkSkipImport,
     LinkBadSymbol, AllLinked, CollectNextSection, CollectNoSymbol,
     CollectSkipLocal, CollectBreak, AcquireFails, Placing, Linking, LinkingEntry,
     Collecting, CollectingEntry, Resolving
<1>2. CASE SizeSection \/ ChooseTarget \/ PlaceSection \/ Overrun
  BY <1>2 DEF SizeSection, ChooseTarget, PlaceSection, Overrun, Placing
<1>3. CASE LinkEntry \/ CollectImport \/ ResolveImport
  BY <1>3 DEF LinkEntry, CollectImport, ResolveImport, Linking, LinkingEntry,
     Collecting, CollectingEntry, Resolving
<1>4. CASE ExportMissing \/ LoadDone \/ AllResolved \/ ClearBss \/ Enter
  BY <1>4 DEF ExportMissing, LoadDone, AllResolved, ClearBss, Enter, Resolving
<1>5. CASE Done \/ UNCHANGED vars
  BY <1>5 DEF Done, vars
<1> QED
  BY <1>1, <1>2, <1>3, <1>4, <1>5, NextCases

\* The operators above depend on what is fixed once everything is placed.
LEMMA TracesKept ==
    ASSUME UNCHANGED <<file, targetAddress, offset_data, destinations>>
    PROVE  /\ \A id : RelocOf(id)' = RelocOf(id)
           /\ \A id : OwnerOf(id)' = OwnerOf(id)
           /\ \A p : PatchTraced(p)' <=> PatchTraced(p)
           /\ \A m : ImportTraced(m)' <=> ImportTraced(m)
<1>1. /\ \A id : RelocOf(id)' = RelocOf(id)
      /\ \A id : OwnerOf(id)' = OwnerOf(id)
      /\ \A id : IsEntry(id)' <=> IsEntry(id)
      /\ \A v : Adjusted(v)' = Adjusted(v)
      /\ \A s : ImportBaseOf(s)' = ImportBaseOf(s)
  BY FileKept DEF RelocOf, OwnerOf, IsEntry, Adjusted, ImportBaseOf, RelocIds
<1>2. /\ \A id, import : ForPass(id, import)' <=> ForPass(id, import)
      /\ \A id, import : TargetOf(id, import)' = TargetOf(id, import)
  BY <1>1, FileKept DEF ForPass, TargetOf
<1> QED
  BY <1>1, <1>2 DEF PatchTraced, ImportTraced

\* linkSection calls elfLinkOne for the entry it is at.
LEMMA LinkEntryCall ==
    ASSUME TypeOK, LinkEntry
    PROVE  \E l \in Calls, ok \in BOOLEAN :
              /\ ElfLinkOne(l, ok)
              /\ CallTraced(l)
              /\ l.id = <<cur.rel, cur.ent>> /\ ~ l.import
              /\ IF ok THEN pc' = pc /\ cur' = NextEntry ELSE pc' = "failed"
<1> DEFINE call == [id |-> <<cur.rel, cur.ent>>,
                    type |-> Entry.type,
                    target |-> Add(destinations[cur.sec], Entry.offset),
                    symbol |-> Adjusted(Entry.sym.value),
                    addend |-> Entry.addend,
                    import |-> FALSE]
<1>1. PICK ok \in BOOLEAN : /\ ElfLinkOne(call, ok)
                            /\ pc' = IF ok THEN pc ELSE "failed"
                            /\ cur' = IF ok THEN NextEntry ELSE cur
  BY DEF LinkEntry
<1>2. /\ cur.rel < file.n
      /\ cur.ent <= Len(Sec[cur.rel].rel)
      /\ cur.sec < file.n
      /\ Loadable(cur.sec)
      /\ Sec[cur.rel].info = cur.sec
      /\ Entry.sym.ok
      /\ ~ IsImport(Entry.sym)
  BY DEF LinkEntry, LinkingEntry, Linking
<1>3. Entry \in Relocs /\ Entry.sym \in Symbols /\ <<cur.rel, cur.ent>> \in RelocIds
  BY <1>2, EntryTyped
<1>4. cur.sec \in SecIndex /\ destinations[cur.sec] \in Words
  <2>1. cur.sec \in 0 .. file.n /\ file \in Files /\ destinations \in [SecIndex -> Words]
    BY DEF TypeOK
  <2>2. cur.sec \in SecIndex
    BY <1>2, <2>1, FileTyped, SMT DEF SecIndex
  <2> QED
    BY <2>1, <2>2
<1>5. call \in Calls
  <2>1. Entry.offset \in -Word .. Word
    BY <1>3, WordAssumption, SMT DEF Relocs, Words
  <2>2. Add(destinations[cur.sec], Entry.offset) \in Words
    BY <1>4, <2>1, WrapTyped
  <2>3. Entry.sym.value \in Words
    BY <1>3, SymbolTyped
  <2>4. Adjusted(Entry.sym.value) \in Words
    BY <2>3, AdjustedTyped
  <2> QED
    BY <1>3, <2>2, <2>4 DEF Calls, Relocs
<1>6. RelocOf(call.id) = Entry /\ OwnerOf(call.id) = cur.sec
  BY <1>2 DEF RelocOf, OwnerOf, Entry
<1>7. CallTraced(call)
  <2>1. ForPass(call.id, FALSE)
    BY <1>2, <1>3, <1>4, <1>6 DEF ForPass, IsEntry
  <2> QED
    BY <1>6, <2>1 DEF CallTraced, TargetOf
<1> QED
  BY <1>1, <1>5, <1>7

\* doRelocation calls it for the import it is at.
LEMMA ResolveCall ==
    ASSUME TypeOK, TracedInv, ResolveImport
    PROVE  \E l \in Calls, ok \in BOOLEAN :
              /\ ElfLinkOne(l, ok)
              /\ CallTraced(l)
              /\ l.id = imports[cur.ent].id /\ l.import
              /\ IF ok THEN pc' = pc /\ cur' = NextEntry ELSE pc' = "fatal"
<1> DEFINE call == [id |-> Import.id,
                    type |-> Import.type,
                    target |-> Add(Import.destination, Import.offset),
                    symbol |-> ExportAddress,
                    addend |-> Import.addend,
                    import |-> TRUE]
<1>1. PICK ok \in BOOLEAN : /\ ElfLinkOne(call, ok)
                            /\ pc' = IF ok THEN pc ELSE "fatal"
                            /\ cur' = IF ok THEN NextEntry ELSE cur
  BY DEF ResolveImport
<1>2. /\ Resolving /\ Acquired /\ UNCHANGED <<file, imports>>
      /\ cur.ent \in Nat \ {0} /\ cur.ent <= Len(imports) /\ imports \in Seq(ImportRelocs)
  BY DEF ResolveImport, Resolving, TypeOK
<1>3. Import \in ImportRelocs /\ cur.ent \in 1 .. Len(imports)
  BY <1>2, AcquiredTyped
<1>4. ImportTraced(Import)
  BY <1>3 DEF TracedInv, Import
<1>5. call \in Calls
  <2>1. 0 \in Words
    BY WordAssumption, SMT DEF Words
  <2>2. ExportAddress \in Words
    BY <2>1, ExportsAssumption DEF ExportAddress, ExportsAssumption
  <2>3. Import.offset \in -Word .. Word
    BY <1>3, WordAssumption, SMT DEF ImportRelocs, Words
  <2>4. Add(Import.destination, Import.offset) \in Words
    BY <1>3, <2>3, WrapTyped DEF ImportRelocs
  <2> QED
    BY <1>3, <2>2, <2>4 DEF Calls, ImportRelocs
<1>6. CallTraced(call)
  BY <1>4 DEF CallTraced, ImportTraced, TargetOf
<1> QED
  BY <1>1, <1>5, <1>6 DEF Import

\* What a traced call writes is traced.
LEMMA WriteTraced ==
    ASSUME TypeOK, NEW l \in Calls, NEW ok \in BOOLEAN, ElfLinkOne(l, ok), CallTraced(l)
    PROVE  \/ patched' = patched
           \/ \E q : patched' = Append(patched, q) /\ PatchTraced(q) /\ q.id = l.id
<1>1. CASE UNCHANGED <<patched, dirty>>
  BY <1>1
<1>2. CASE l.type \notin {"NONE", "DTPMOD32"} /\ \E len \in {2, 4} : \E dest : Write(l, len, dest)
  <2>0. PICK len \in {2, 4} : \E dest : Write(l, len, dest)
    BY <1>2
  <2>1. PICK dest : Write(l, len, dest)
    BY <2>0
  <2> DEFINE q == [id |-> l.id, lo |-> l.target, len |-> len, type |-> l.type,
                   dest |-> dest, want |-> Value(l), import |-> l.import]
  <2>2. patched' = Append(patched, q)
    BY <2>1 DEF Write
  <2>3. PatchTraced(q)
    BY <1>2 DEF PatchTraced, CallTraced, Writing, Value
  <2> QED
    BY <2>2, <2>3
<1> QED
  BY <1>1, <1>2, LinkOutcome

\* An import is listed as the entry it comes from.
LEMMA CollectTraced ==
    ASSUME TypeOK, CollectImport
    PROVE  \E m : /\ imports' = Append(imports, m)
                  /\ ImportTraced(m)
                  /\ m.id = <<cur.rel, cur.ent>>
<1> DEFINE m == [id |-> <<cur.rel, cur.ent>>,
                 type |-> Entry.type,
                 offset |-> Sub(Entry.offset, TextBase),
                 addend |-> Entry.addend,
                 destination |-> ImportBaseOf(Sec[cur.rel].info),
                 name |-> Entry.sym.name,
                 rpl |-> ImportInfo(Entry.sym).rpl,
                 isData |-> ImportInfo(Entry.sym).isData]
<1>1. imports' = Append(imports, m)
  BY DEF CollectImport
<1>2. /\ cur.rel < file.n
      /\ cur.ent <= Len(Sec[cur.rel].rel)
      /\ Sec[cur.rel].type = "RELA"
      /\ Entry.sym.ok /\ IsImport(Entry.sym)
  BY DEF CollectImport, CollectingEntry, Collecting
<1>3. cur.rel \in SecIndex /\ <<cur.rel, cur.ent>> \in RelocIds
  BY <1>2, EntryTyped
<1>4. Sec[cur.rel].info \in SecIndex
  BY <1>2, <1>3, FileTyped DEF TypeOK
<1>5. RelocOf(m.id) = Entry /\ OwnerOf(m.id) = Sec[cur.rel].info
  BY DEF RelocOf, OwnerOf, Entry
<1>6. ForPass(m.id, TRUE)
  BY <1>2, <1>3, <1>4, <1>5 DEF ForPass, IsEntry
<1>7. ImportTraced(m)
  BY <1>5, <1>6 DEF ImportTraced
<1> QED
  BY <1>1, <1>7

\* Every element of a sequence but the appended one was there before.
LEMMA Appended ==
    ASSUME NEW S, NEW seq \in Seq(S), NEW x
    PROVE  /\ Len(Append(seq, x)) = Len(seq) + 1
           /\ \A i \in 1 .. Len(Append(seq, x)) :
                 \/ i = Len(seq) + 1 /\ Append(seq, x)[i] = x
                 \/ i \in 1 .. Len(seq) /\ Append(seq, x)[i] = seq[i]
           /\ \A i \in 1 .. Len(seq) : Append(seq, x)[i] = seq[i]
OBVIOUS

\* No step writes or lists anything else.
LEMMA StepTraced == ASSUME TypeOK, TracedInv, [Next]_vars PROVE TracedInv'
<1>1. PassesInOrder'
  BY PassesKept DEF TracedInv
<1>2. patched \in Seq(Patches) /\ imports \in Seq(ImportRelocs)
  BY DEF TypeOK
<1>3. CASE ChooseTarget \/ SkipSection \/ PlaceSection \/ Overrun \/ AllPlaced
  <2>1. pc \in {"size", "place"} /\ UNCHANGED <<patched, imports>>
    BY <1>3 DEF ChooseTarget, SkipSection, PlaceSection, Overrun, AllPlaced, Placing, linkVars, importVars
  <2>2. patched' = <<>> /\ imports' = <<>>
    BY <2>1 DEF TracedInv, PassesInOrder
  <2> QED
    BY <1>1, <2>2 DEF TracedInv
<1>4. CASE UNCHANGED <<file, targetAddress, offset_data, destinations>>
  <2>1. /\ \A p : PatchTraced(p)' <=> PatchTraced(p)
        /\ \A m : ImportTraced(m)' <=> ImportTraced(m)
    BY <1>4, TracesKept
  <2>2. \/ patched' = patched
        \/ \E q : patched' = Append(patched, q) /\ PatchTraced(q)
    <3>1. CASE LinkEntry
      BY <3>1, LinkEntryCall, WriteTraced
    <3>2. CASE ResolveImport
      BY <3>2, ResolveCall, WriteTraced
    <3> QED
      BY <3>1, <3>2, LinkFrame
  <2>3. \A i \in 1 .. Len(patched') : PatchTraced(patched'[i])
    BY <1>2, <2>2, Appended DEF TracedInv
  <2>4. \/ imports' = imports
        \/ \E m : imports' = Append(imports, m) /\ ImportTraced(m)
    BY LinkFrame, CollectTraced
  <2>5. \A i \in 1 .. Len(imports') : ImportTraced(imports'[i])
    BY <1>2, <2>4, Appended DEF TracedInv
  <2> QED
    BY <1>1, <2>1, <2>3, <2>5 DEF TracedInv
<1> QED
  BY <1>3, <1>4, PlaceFrame

\* Nothing is written at first.
LEMMA InitTraced == Init => TracedInv
BY DEF Init, TracedInv, PassesInOrder
-----------------------------------------------------------------------------
\* Linking begins when everything is placed, and moves nothing.
PlacedBeforeLinked ==
    Tidy /\ patched # <<>> =>
        /\ \A s \in SecIndex : Loadable(s) => IsPlaced(s)
        /\ \A t \in SecIndex : TextSection(t) => offset_data = targetAddress + Sec[t].size

\* A step that links is one of a module that is in place.
LEMMA StepPlacedBefore ==
    ASSUME TypeOK, PlacedInv, TracedInv, PlacedBeforeLinked, [Next]_vars
    PROVE  PlacedBeforeLinked'
<1> DEFINE InPlace == /\ \A s \in SecIndex : Loadable(s) => IsPlaced(s)
                      /\ \A t \in SecIndex :
                            TextSection(t) => offset_data = targetAddress + Sec[t].size
<1>1. CASE ChooseTarget \/ SkipSection \/ PlaceSection \/ Overrun \/ AllPlaced
  <2>1. pc \in {"size", "place"} /\ UNCHANGED patched
    BY <1>1 DEF ChooseTarget, SkipSection, PlaceSection, Overrun, AllPlaced, Placing, linkVars
  <2>2. patched' = <<>>
    BY <2>1 DEF TracedInv, PassesInOrder
  <2> QED
    BY <2>2 DEF PlacedBeforeLinked
<1>2. CASE UNCHANGED <<file, targetAddress, baseOffset, offset_data, destinations,
                       bss, sbss, at>>
  <2>1. Tidy /\ pc \in Placed => InPlace
    BY DEF PlacedInv, AllPlacedSoFar, BasesFollow
  <2>2. patched' # patched => pc \in Placed
    BY LinkFrame DEF LinkEntry, LinkingEntry, Linking, ResolveImport, Resolving, Placed
  <2>3. \A s : IsPlaced(s)' <=> IsPlaced(s)
    BY <1>2 DEF IsPlaced
  <2>4. ASSUME Tidy', patched' # <<>>
        PROVE  InPlace'
    <3>1. Tidy
      BY <1>2, <2>4, FileKept
    <3>2. InPlace
      BY <2>1, <2>2, <2>4, <3>1 DEF PlacedBeforeLinked
    <3> QED
      BY <1>2, <2>3, <3>2, FileKept, PlaceKept
  <2> QED
    BY <2>4 DEF PlacedBeforeLinked
<1> QED
  BY <1>1, <1>2, PlaceFrame

\* The invariant of loading, up to the contents of what is linked.
LoadInv == ArenaInv /\ PlacedInv /\ TracedInv /\ PlacedBeforeLinked

\* LoadInv holds at first, and every step keeps it.
LEMMA LoadInvInductive ==
    /\ Init => LoadInv
    /\ LoadInv /\ [Next]_vars => LoadInv'
<1>1. Init => PlacedBeforeLinked
  BY DEF Init, PlacedBeforeLinked
<1>2. Init => LoadInv
  BY <1>1, InitArenaInv, InitPlaced, InitTraced DEF LoadInv
<1>3. LoadInv => TypeOK
  BY DEF LoadInv, ArenaInv
<1>4. LoadInv /\ [Next]_vars => LoadInv'
  BY <1>3, StepArenaInv, StepPlaced, StepTraced, StepPlacedBefore DEF LoadInv
<1> QED
  BY <1>2, <1>4

\* So it always holds.
LEMMA LoadInvAlways == Spec => []LoadInv
BY LoadInvInductive, PTL DEF Spec

\* A difference that goes below zero wraps,
LEMMA PlainSub ==
    ASSUME NEW x \in Nat, NEW y \in Nat, x < Word, y < Word
    PROVE  Sub(x, y) = IF y <= x THEN x - y ELSE x - y + Word
BY WordAssumption, SMT DEF Sub, Wrap

\* and so does a sum that passes the last word.
LEMMA PlainAdd ==
    ASSUME NEW x \in Nat, NEW y \in Nat
    PROVE  Add(x, y) = IF x + y < Word THEN x + y ELSE x + y - Word
BY WordAssumption, SMT DEF Add, Wrap

(***************************************************************************)
(* Both passes come to the same address: the link address less the link    *)
(* base of the region plus where the region starts, although an            *)
(* intermediate result wraps, and wraps twice for imports.                 *)
(***************************************************************************)
LEMMA TargetsAgree ==
    ASSUME NEW R \in Nat, R <= DestAddr, NEW L \in {TextBase, DataBase},
           NEW a \in Words, L <= a, R + a - L <= DestAddr
    PROVE  /\ Add(Sub(R, L), a) = R + a - L
           /\ Add(Add(Sub(R, L), TextBase), Sub(a, TextBase)) = R + a - L
           /\ Add(Sub(a, L), R) = R + a - L
<1>1. /\ L \in Nat /\ a \in Nat /\ a < Word /\ R < L /\ L < Word /\ TextBase <= L
      /\ TextBase \in Nat /\ TextBase <= a /\ TextBase < Word /\ R + a - L \in Nat
      /\ R + a - L < Word
  BY Bounds, SMT DEF Words
<1>2. Sub(R, L) = R - L + Word /\ R - L + Word \in Nat
  BY <1>1, PlainSub, Bounds, SMT
<1>3. Add(Sub(R, L), a) = R + a - L
  <2>1. Add(R - L + Word, a) = IF (R - L + Word) + a < Word THEN (R - L + Word) + a
                                 ELSE (R - L + Word) + a - Word
    BY <1>1, <1>2, PlainAdd
  <2>2. ~ ((R - L + Word) + a < Word)
    BY <1>1, Bounds, SMT
  <2>3. (R - L + Word) + a - Word = R + a - L
    BY <1>1, Bounds, SMT
  <2> QED
    BY <1>2, <2>1, <2>2, <2>3
<1>4. Sub(a, TextBase) = a - TextBase /\ a - TextBase \in Nat
  BY <1>1, PlainSub, SMT
<1>5. Add(Sub(a, L), R) = R + a - L
  <2>1. Sub(a, L) = a - L /\ a - L \in Nat
    BY <1>1, PlainSub, SMT
  <2>2. (a - L) + R = R + a - L /\ (a - L) + R < Word
    BY <1>1, SMT
  <2>3. Add(a - L, R) = (a - L) + R
    BY <2>1, <2>2, PlainAdd
  <2> QED
    BY <2>1, <2>2, <2>3
<1>6. CASE R - L + Word + TextBase < Word
  <2>1. Add(Sub(R, L), TextBase) = R - L + Word + TextBase
    BY <1>1, <1>2, <1>6, PlainAdd, SMT
  <2>2. R - L + Word + TextBase \in Nat
    BY <1>1, <1>2, SMT
  <2>3. Add(R - L + Word + TextBase, a - TextBase) = R + a - L
    BY <1>1, <1>4, <2>2, PlainAdd, Bounds, SMT
  <2> QED
    BY <1>3, <1>4, <1>5, <2>1, <2>3
<1>7. CASE ~ (R - L + Word + TextBase < Word)
  <2>1. Add(Sub(R, L), TextBase) = R - L + TextBase
    BY <1>1, <1>2, <1>7, PlainAdd, Bounds, SMT
  <2>2. R - L + TextBase \in Nat
    BY <1>1, <1>7, Bounds, SMT
  <2>3. Add(R - L + TextBase, a - TextBase) = R + a - L
    BY <1>1, <1>4, <2>2, PlainAdd, Bounds, SMT
  <2> QED
    BY <1>3, <1>4, <1>5, <2>1, <2>3
<1> QED
  BY <1>6, <1>7

\* A section of a tidy module lies in the arena, in its region.
LEMMA SectionInArena ==
    ASSUME LoadInv, Tidy, NEW t \in SecIndex, TextSection(t), IsPlaced(t),
           NEW s \in SecIndex, IsPlaced(s)
    PROVE  /\ Loadable(s)
           /\ at[s] = RegionStart(t, s) + Sec[s].addr - LinkBase(s)
           /\ destinations[s] = Sub(RegionStart(t, s), LinkBase(s))
           /\ RegionStart(t, s) \in Nat
           /\ RegionStart(t, s) <= DestAddr
           /\ targetAddress \in Nat
           /\ targetAddress + Sec[t].size \in Nat
           /\ targetAddress + Sec[t].size <= DestAddr
           /\ at[s] \in Nat
           /\ ModuleStart <= at[s]
           /\ at[s] + Sec[s].size <= DestAddr
           /\ at[t] = targetAddress
<1>1. file \in Files /\ Loadable(s) /\ Loadable(t) /\ targetAddress \in Words
  BY DEF LoadInv, ArenaInv, TypeOK, PlacedInv, PlacedInOrder
<1>2. \A x \in {s, t} : /\ at[x] = RegionStart(t, x) + Sec[x].addr - LinkBase(x)
                        /\ destinations[x] = Sub(RegionStart(t, x), LinkBase(x))
  BY DEF LoadInv, PlacedInv, PlacedByRegion
<1>3. \A x \in {s, t} : ModuleStart <= at[x] /\ at[x] + Sec[x].size <= DestAddr
  BY DEF LoadInv, ArenaInv, TidyConfined, IsPlaced, Inside
<1>4. \A x \in {s, t} : at[x] \in Nat
  BY <1>3, Bounds, SMT DEF LoadInv, ArenaInv, TypeOK, NotPlaced
<1>5. InText(Sec[t].addr) /\ Sec[t].addr = TextBase /\ LinkBase(t) = TextBase
  BY <1>1, TidySection DEF TextSection, LinkBase
<1>6. RegionStart(t, t) = targetAddress /\ targetAddress \in Nat
  BY <1>1, <1>5 DEF RegionStart, Words
<1>7. at[t] = targetAddress
  BY <1>2, <1>5, <1>6, Bounds, SMT
<1>8. Sec[t].size \in Nat
  BY <1>1, TidySection DEF Words
<1>9. targetAddress + Sec[t].size \in Nat /\ targetAddress + Sec[t].size <= DestAddr
  BY <1>3, <1>6, <1>7, <1>8
<1>10. RegionStart(t, s) \in Nat /\ RegionStart(t, s) <= DestAddr
  BY <1>6, <1>8, <1>9, Bounds, SMT DEF RegionStart
<1> QED
  BY <1>1, <1>2, <1>3, <1>4, <1>6, <1>7, <1>9, <1>10

\* An entry of a tidy file is for a section with contents and inside it.
LEMMA TidyEntry ==
    ASSUME file \in Files, Tidy, NEW id, NEW import, ForPass(id, import)
    PROVE  /\ id[1] \in SecIndex
           /\ id[2] \in 1 .. Len(Sec[id[1]].rel)
           /\ Sec[id[1]].type = "RELA"
           /\ OwnerOf(id) \in SecIndex
           /\ Loadable(OwnerOf(id))
           /\ Sec[OwnerOf(id)].type = "PROGBITS"
           /\ RelocOf(id) \in Relocs
           /\ TidyReloc(OwnerOf(id), RelocOf(id))
<1>1. /\ id \in RelocIds /\ id[2] <= Len(Sec[id[1]].rel) /\ OwnerOf(id) \in SecIndex
      /\ Sec[id[1]].type = "RELA" \/ Loadable(OwnerOf(id))
  BY DEF ForPass, IsEntry
<1>2. id[1] \in SecIndex /\ id[2] \in Nat \ {0}
  BY <1>1 DEF RelocIds
<1>3. Sec[id[1]].rel \in Seq(Relocs)
  BY <1>2, FileTyped DEF Sections
<1>4. id[2] \in 1 .. Len(Sec[id[1]].rel) /\ Sec[id[1]].rel # <<>>
  BY <1>1, <1>2, <1>3
<1>5. Sec[id[1]].type = "RELA"
  BY <1>1, <1>2, <1>4 DEF Tidy, TidyRelocs, OwnerOf
<1>6. /\ Loadable(Sec[id[1]].info)
      /\ Sec[Sec[id[1]].info].type = "PROGBITS"
      /\ TidyReloc(Sec[id[1]].info, Sec[id[1]].rel[id[2]])
  BY <1>2, <1>4, <1>5 DEF Tidy, TidyRelocs
<1> QED
  BY <1>1, <1>2, <1>3, <1>4, <1>5, <1>6 DEF OwnerOf, RelocOf

(***************************************************************************)
(* A relocation of a tidy module is written at its own place in its own    *)
(* section, in the arena.                                                  *)
(***************************************************************************)
LEMMA PatchInPlace ==
    ASSUME LoadInv, Tidy, NEW p, p \in Patched
    PROVE  LET s == OwnerOf(p.id) IN
           /\ PatchTraced(p)
           /\ s \in SecIndex /\ IsPlaced(s) /\ Sec[s].type = "PROGBITS"
           /\ p.len \in {2, 4}
           /\ p.lo = at[s] + RelocOf(p.id).offset - Sec[s].addr
           /\ p.lo \in Nat
           /\ at[s] <= p.lo
           /\ p.lo + p.len <= at[s] + Sec[s].size
           /\ ModuleStart <= at[s] /\ at[s] + Sec[s].size <= DestAddr
<1> DEFINE s == OwnerOf(p.id)
           r == RelocOf(p.id)
<1>1. file \in Files /\ PatchTraced(p) /\ patched # <<>>
  BY DEF LoadInv, ArenaInv, TypeOK, TracedInv, Patched
<1>2. ForPass(p.id, p.import) /\ p.lo = TargetOf(p.id, p.import) /\ p.len \in {2, 4}
  BY <1>1 DEF PatchTraced
<1>3. /\ s \in SecIndex /\ Loadable(s) /\ Sec[s].type = "PROGBITS"
      /\ r \in Relocs /\ TidyReloc(s, r)
  BY <1>1, <1>2, TidyEntry
<1>4. PICK t \in SecIndex : TextSection(t)
  BY TextExists
<1>5. IsPlaced(s) /\ IsPlaced(t)
  BY <1>1, <1>3, <1>4 DEF LoadInv, PlacedBeforeLinked, TextSection
<1>6. /\ at[s] = RegionStart(t, s) + Sec[s].addr - LinkBase(s)
      /\ destinations[s] = Sub(RegionStart(t, s), LinkBase(s))
      /\ RegionStart(t, s) \in Nat
      /\ RegionStart(t, s) <= DestAddr
      /\ at[s] \in Nat
      /\ ModuleStart <= at[s]
      /\ at[s] + Sec[s].size <= DestAddr
  BY <1>4, <1>5, <1>3, SectionInArena
<1>7. /\ r.offset \in Words
      /\ Sec[s].addr <= r.offset
      /\ r.offset + 4 <= Sec[s].addr + Sec[s].size
  BY <1>3 DEF TidyReloc, Inside, Relocs
<1>8. /\ Sec[s].addr \in Words /\ Sec[s].size \in Words
      /\ LinkBase(s) \in {TextBase, DataBase}
      /\ LinkBase(s) <= Sec[s].addr
  BY <1>1, <1>3, TidySection
<1>9. /\ LinkBase(s) <= r.offset
      /\ RegionStart(t, s) + r.offset - LinkBase(s) <= DestAddr
  BY <1>6, <1>7, <1>8, Bounds, SMT DEF Words
<1>10. /\ Add(Sub(RegionStart(t, s), LinkBase(s)), r.offset)
             = RegionStart(t, s) + r.offset - LinkBase(s)
       /\ Add(Add(Sub(RegionStart(t, s), LinkBase(s)), TextBase), Sub(r.offset, TextBase))
             = RegionStart(t, s) + r.offset - LinkBase(s)
  BY <1>6, <1>7, <1>8, <1>9, TargetsAgree
<1>11. p.lo = RegionStart(t, s) + r.offset - LinkBase(s)
  BY <1>2, <1>6, <1>10 DEF TargetOf, ImportBaseOf
<1>12. /\ p.lo = at[s] + r.offset - Sec[s].addr
       /\ p.lo \in Nat
       /\ at[s] <= p.lo
       /\ p.lo + p.len <= at[s] + Sec[s].size
  BY <1>2, <1>6, <1>7, <1>8, <1>11, Bounds, SMT DEF Words
<1> QED
  BY <1>1, <1>2, <1>3, <1>5, <1>6, <1>12

\* linkSection's two bases name the place where a symbol's section went.
LEMMA SymbolInPlace ==
    ASSUME LoadInv, Tidy, patched # <<>>, NEW sym, LocalSym(sym), sym.value \in Words,
           Loadable(sym.shn),
           Inside(sym.value, 0, Sec[sym.shn].addr, Sec[sym.shn].addr + Sec[sym.shn].size),
           InText(Sec[sym.shn].addr) => InText(sym.value)
    PROVE  /\ Adjusted(sym.value) = at[sym.shn] + sym.value - Sec[sym.shn].addr
           /\ Adjusted(sym.value) \in Nat
           /\ Adjusted(sym.value) <= DestAddr
<1> DEFINE d == sym.shn
           v == sym.value
<1>1. d \in SecIndex /\ ~ IsImport(sym)
  BY DEF LocalSym
<1>2. PICK t \in SecIndex : TextSection(t)
  BY TextExists
<1>3. /\ IsPlaced(d) /\ IsPlaced(t) /\ offset_data = targetAddress + Sec[t].size
      /\ file \in Files
  BY <1>1, <1>2 DEF LoadInv, PlacedBeforeLinked, TextSection, ArenaInv, TypeOK
<1>4. /\ at[d] = RegionStart(t, d) + Sec[d].addr - LinkBase(d)
      /\ at[d] \in Nat
      /\ at[d] + Sec[d].size <= DestAddr
      /\ targetAddress \in Nat
      /\ targetAddress + Sec[t].size \in Nat
      /\ targetAddress + Sec[t].size <= DestAddr
      /\ at[t] = targetAddress
      /\ RegionStart(t, d) \in Nat
  BY <1>1, <1>2, <1>3, SectionInArena
<1>5. /\ Sec[d].addr \in Nat /\ Sec[d].size \in Nat
      /\ InText(Sec[d].addr) \/ InData(Sec[d].addr)
      /\ InText(Sec[d].addr) => Sec[d].addr = TextBase /\ LinkBase(d) = TextBase
      /\ ~ InText(Sec[d].addr) => LinkBase(d) = DataBase
  BY <1>1, <1>3, TidySection DEF Words, LinkBase
<1>6. /\ v \in Nat /\ v < Word /\ v < ImportBase
      /\ Sec[d].addr <= v /\ v <= Sec[d].addr + Sec[d].size
  BY <1>1, Bounds, SMT DEF Inside, IsImport, Words
<1>7. /\ LinkBase(d) \in {TextBase, DataBase} /\ LinkBase(d) \in Nat
      /\ LinkBase(d) <= Sec[d].addr
  BY <1>1, <1>3, TidySection, Bounds DEF LinkBase
<1>8. /\ at[d] + v - Sec[d].addr = RegionStart(t, d) + v - LinkBase(d)
      /\ RegionStart(t, d) + v - LinkBase(d) \in Nat
      /\ RegionStart(t, d) + v - LinkBase(d) <= DestAddr
      /\ RegionStart(t, d) <= DestAddr
      /\ LinkBase(d) <= v
  <2> DEFINE x == at[d]
             R == RegionStart(t, d)
             L == LinkBase(d)
             addr == Sec[d].addr
             size == Sec[d].size
  <2>1. /\ x \in Nat /\ R \in Nat /\ L \in Nat /\ addr \in Nat /\ size \in Nat
        /\ x = R + addr - L /\ x + size <= DestAddr
        /\ addr <= v /\ v <= addr + size /\ L <= addr /\ v \in Nat
    BY <1>4, <1>5, <1>6, <1>7
  <2> HIDE DEF x, R, L, addr, size, v
  <2>2. x + v - addr = R + v - L /\ R + v - L \in Nat /\ R + v - L <= DestAddr
        /\ R <= DestAddr /\ L <= v
    BY <2>1, Bounds, SMT
  <2> QED
    BY <2>2 DEF x, R, L, addr, v
<1>9. Add(Sub(v, LinkBase(d)), RegionStart(t, d)) = RegionStart(t, d) + v - LinkBase(d)
  BY <1>4, <1>6, <1>7, <1>8, TargetsAgree DEF Words
<1>10. Adjusted(v) = Add(Sub(v, LinkBase(d)), RegionStart(t, d))
  <2>1. CASE InText(Sec[d].addr)
    BY <1>5, <2>1 DEF Adjusted, RegionStart
  <2>2. CASE ~ InText(Sec[d].addr)
    <3>1. ~ InText(v) /\ InData(v)
      BY <1>5, <1>6, <2>2, Bounds, SMT DEF InText, InData
    <3> QED
      BY <1>3, <1>5, <2>2, <3>1 DEF Adjusted, RegionStart
  <2> QED
    BY <2>1, <2>2
<1> QED
  BY <1>8, <1>9, <1>10

\* Placement and linking agree.
LEMMA LoadInvLinked == ASSUME LoadInv PROVE LinkedWherePlaced
<1>1. PatchesAtOwnPlace
  <2> SUFFICES ASSUME Tidy, NEW p \in Patched
               PROVE  LET s == OwnerOf(p.id) IN
                      /\ p.lo = at[s] + RelocOf(p.id).offset - Sec[s].addr
                      /\ Inside(p.lo, p.len, at[s], at[s] + Sec[s].size)
    BY DEF PatchesAtOwnPlace
  <2> QED
    BY PatchInPlace DEF Inside
<1>2. SymbolsWherePlaced
  <2> SUFFICES ASSUME Tidy, NEW p \in Patched, LocalSym(RelocOf(p.id).sym)
               PROVE  LET r == RelocOf(p.id) IN
                      p.want = Add(at[r.sym.shn] + r.sym.value - Sec[r.sym.shn].addr,
                                   r.addend)
    BY DEF SymbolsWherePlaced
  <2> DEFINE r == RelocOf(p.id)
  <2>1. PatchTraced(p) /\ patched # <<>> /\ file \in Files
    BY DEF LoadInv, ArenaInv, TypeOK, TracedInv, Patched
  <2>2. ForPass(p.id, p.import) /\ ~ p.import
    BY <2>1 DEF PatchTraced, ForPass, LocalSym
  <2>3. p.want = Add(Adjusted(r.sym.value), r.addend)
    BY <2>1, <2>2 DEF PatchTraced
  <2>4. r \in Relocs /\ TidyReloc(OwnerOf(p.id), r)
    BY <2>1, <2>2, TidyEntry
  <2>5. r.sym.value \in Words
    BY <2>4 DEF Relocs, Symbols
  <2>6. Adjusted(r.sym.value) = at[r.sym.shn] + r.sym.value - Sec[r.sym.shn].addr
    BY <2>1, <2>4, <2>5, SymbolInPlace DEF TidyReloc
  <2> QED
    BY <2>3, <2>6
<1> QED
  BY <1>1, <1>2 DEF LinkedWherePlaced

(***************************************************************************)
(* Placement and linking agree for every tidy file: each relocation is     *)
(* written at its own place and names where its symbol went, although the  *)
(* one advances its base section by section and the other uses two.        *)
(***************************************************************************)
THEOREM LoaderLinksWherePlaced == Spec => []LinkedWherePlaced
BY LoadInvAlways, LoadInvLinked, PTL
-----------------------------------------------------------------------------
(***************************************************************************)
(* What is in the data cache only has been written by a relocation or by   *)
(* the clearing of .bss and .sbss, so the last flush covers it all.        *)
(***************************************************************************)
WrittenBy(r) ==
    \/ \E p \in Patched : r = [lo |-> p.lo, size |-> p.len]
    \/ r \in {bss, sbss} /\ r.lo # 0
DirtyInv ==
    /\ \A r \in dirty : WrittenBy(r)
    /\ Tidy /\ pc = "entered" => dirty = {}

\* Where a section went and how large it is are numbers.
LEMMA PlacedTyped ==
    ASSUME TypeOK, NEW s \in SecIndex
    PROVE  at[s] \in Int /\ Sec[s].size \in Int
<1>1. at \in [SecIndex -> NotPlaced .. (Word - 1)] /\ file \in Files
  BY DEF TypeOK
<1>2. at[s] \in Int
  BY <1>1, WordAssumption, SMT DEF NotPlaced
<1>3. Sec[s].size \in Int
  BY <1>1, FileTyped DEF Sections, Words
<1> QED
  BY <1>2, <1>3

\* Whatever a tidy module has been written to lies in the last flush.
LEMMA WrittenInside ==
    ASSUME LoadInv, Tidy, NEW r, WrittenBy(r)
    PROVE  Inside(r.lo, r.size, FlushLo, FlushHi)
<1>1. CASE \E p \in Patched : r = [lo |-> p.lo, size |-> p.len]
  <2>1. PICK p \in Patched : r = [lo |-> p.lo, size |-> p.len]
    BY <1>1
  <2>2. /\ p.lo \in Nat /\ p.len \in {2, 4}
        /\ OwnerOf(p.id) \in SecIndex
        /\ at[OwnerOf(p.id)] <= p.lo
        /\ p.lo + p.len <= at[OwnerOf(p.id)] + Sec[OwnerOf(p.id)].size
        /\ ModuleStart <= at[OwnerOf(p.id)]
        /\ at[OwnerOf(p.id)] + Sec[OwnerOf(p.id)].size <= DestAddr
    BY PatchInPlace
  <2>3. at[OwnerOf(p.id)] \in Int /\ Sec[OwnerOf(p.id)].size \in Int
    BY <2>2, PlacedTyped DEF LoadInv, ArenaInv
  <2>4. FlushLo <= p.lo /\ p.lo + p.len <= FlushHi
    BY <2>2, <2>3, Bounds, SMT
  <2> QED
    BY <2>1, <2>4 DEF Inside
<1>2. CASE r \in {bss, sbss} /\ r.lo # 0
  <2>1. PICK s \in SecIndex : IsPlaced(s) /\ r = [lo |-> at[s], size |-> Sec[s].size]
    BY <1>2 DEF LoadInv, PlacedInv, RangesRecorded, Recorded, NoRange
  <2>2. ModuleStart <= at[s] /\ at[s] + Sec[s].size <= DestAddr
    BY <2>1 DEF LoadInv, ArenaInv, TidyConfined, IsPlaced, Inside
  <2>3. at[s] \in Int /\ Sec[s].size \in Int
    BY PlacedTyped DEF LoadInv, ArenaInv
  <2>4. FlushLo <= at[s] /\ at[s] + Sec[s].size <= FlushHi
    BY <2>2, <2>3, Bounds, SMT
  <2> QED
    BY <2>1, <2>4 DEF Inside
<1> QED
  BY <1>1, <1>2 DEF WrittenBy

\* Only linking, flushing and clearing change what is dirty.
LEMMA DirtyFrame ==
    ASSUME [Next]_vars
    PROVE  \/ LinkEntry \/ ResolveImport \/ PlaceSection
           \/ LoadDone \/ AllResolved \/ ClearBss \/ Enter
           \/ /\ UNCHANGED <<file, dirty, patched, bss, sbss>>
              /\ pc' = "entered" => pc = "entered"
<1> USE DEF linkVars, loadVars
<1>1. CASE Bookkeeping
  BY <1>1 DEF Bookkeeping, ReadFile, TooBig, SkipSection, BadAddress, ArenaFatal,
     AllPlaced, SectionLinked, RelSectionDone, LinkNoSymbol, LinkSkipImport,
     LinkBadSymbol, AllLinked, CollectNextSection, CollectNoSymbol,
     CollectSkipLocal, CollectBreak, AcquireFails, Placing, Linking, LinkingEntry,
     Collecting, CollectingEntry, Resolving
<1>2. CASE SizeSection \/ ChooseTarget \/ Overrun \/ CollectImport \/ ExportMissing
  BY <1>2 DEF SizeSection, ChooseTarget, Overrun, CollectImport, ExportMissing
<1>3. CASE Done \/ UNCHANGED vars
  BY <1>3 DEF Done, vars
<1> QED
  BY <1>1, <1>2, <1>3, NextCases

\* No step leaves anything else dirty, and the last flush leaves nothing.
LEMMA StepDirty == ASSUME LoadInv, DirtyInv, [Next]_vars PROVE DirtyInv'
<1>1. TypeOK /\ patched \in Seq(Patches)
  BY DEF LoadInv, ArenaInv, TypeOK
<1>2. CASE LinkEntry \/ ResolveImport
  <2>1. PICK l \in Calls, ok \in BOOLEAN : ElfLinkOne(l, ok) /\ pc' \in {pc, "failed", "fatal"}
    BY <1>1, <1>2, LinkEntryCall, ResolveCall DEF LoadInv
  <2>2. UNCHANGED <<file, bss, sbss>> /\ pc \in {"link", "reloc"}
    BY <1>2 DEF LinkEntry, LinkingEntry, Linking, ResolveImport, Resolving, loadVars
  <2>3. CASE UNCHANGED <<patched, dirty>>
    BY <2>1, <2>2, <2>3 DEF DirtyInv, WrittenBy, Patched
  <2>4. CASE \E len \in {2, 4} : \E dest : Write(l, len, dest)
    <3>1. PICK len \in {2, 4} : \E dest : Write(l, len, dest)
      BY <2>4
    <3>2. PICK dest : Write(l, len, dest)
      BY <3>1
    <3> DEFINE q == [id |-> l.id, lo |-> l.target, len |-> len, type |-> l.type,
                     dest |-> dest, want |-> Value(l), import |-> l.import]
    <3>3. patched' = Append(patched, q)
          /\ dirty' = dirty \cup {[lo |-> q.lo, size |-> q.len]}
      BY <3>2 DEF Write
    <3>4. \A p : p \in Patched' <=> p \in Patched \/ p = q
      BY <1>1, <3>3, Appended DEF Patched
    <3>5. \A r \in dirty' : WrittenBy(r)'
      BY <2>2, <3>3, <3>4 DEF DirtyInv, WrittenBy
    <3> QED
      BY <2>1, <2>2, <3>5 DEF DirtyInv
  <2> QED
    BY <2>1, <2>3, <2>4, LinkOutcome
<1>3. CASE PlaceSection
  <2>1. dirty = {} /\ UNCHANGED <<dirty, pc>> /\ pc = "place"
    BY <1>3 DEF PlaceSection, Placing, linkVars, LoadInv, TracedInv, PassesInOrder
  <2> QED
    BY <2>1 DEF DirtyInv
<1>4. CASE LoadDone \/ AllResolved
  <2>1. /\ dirty' \subseteq dirty /\ UNCHANGED <<file, patched, bss, sbss>>
        /\ pc' # "entered"
    BY <1>4 DEF LoadDone, AllResolved, Flushed, loadVars
  <2> QED
    BY <2>1 DEF DirtyInv, WrittenBy, Patched
<1>5. CASE ClearBss
  <2>1. /\ dirty' = dirty \cup {r \in {bss, sbss} : r.lo # 0}
        /\ UNCHANGED <<file, patched, bss, sbss>>
        /\ pc' # "entered"
    BY <1>5 DEF ClearBss, loadVars
  <2> QED
    BY <2>1 DEF DirtyInv, WrittenBy, Patched
<1>6. CASE Enter
  <2>1. /\ dirty' = Flushed(FlushLo, FlushHi)
        /\ UNCHANGED <<file, patched, bss, sbss>>
    BY <1>6 DEF Enter, FinalFlush, loadVars
  <2>2. Tidy => dirty' = {}
    BY <2>1, WrittenInside DEF DirtyInv, Flushed
  <2>3. \A r \in dirty' : WrittenBy(r)'
    BY <2>1 DEF DirtyInv, WrittenBy, Patched, Flushed
  <2> QED
    BY <2>1, <2>2, <2>3, FileKept DEF DirtyInv
<1>7. CASE /\ UNCHANGED <<file, dirty, patched, bss, sbss>>
           /\ pc' = "entered" => pc = "entered"
  BY <1>7, FileKept DEF DirtyInv, WrittenBy, Patched
<1> QED
  BY <1>2, <1>3, <1>4, <1>5, <1>6, <1>7, DirtyFrame

\* The entry point of a tidy file goes where its text section goes.
LEMMA EntryInText ==
    ASSUME LoadInv, Tidy, pc = "entered"
    PROVE  \E s \in SecIndex : /\ InText(Sec[s].addr)
                               /\ Inside(EntryPoint, 4, at[s], at[s] + Sec[s].size)
<1>1. PICK t \in SecIndex :
         /\ TextSection(t)
         /\ Inside(file.entry, 4, Sec[t].addr, Sec[t].addr + Sec[t].size)
  BY TextExists
<1>2. file \in Files /\ IsPlaced(t) /\ Loadable(t) /\ InText(Sec[t].addr)
  BY <1>1 DEF LoadInv, ArenaInv, TypeOK, PlacedInv, AllPlacedSoFar, TextSection, Placed
<1>3. /\ targetAddress \in Nat /\ at[t] = targetAddress
      /\ targetAddress + Sec[t].size <= DestAddr
  BY <1>1, <1>2, SectionInArena
<1>4. /\ Sec[t].addr = TextBase /\ Sec[t].size \in Nat /\ file.entry \in Nat
  BY <1>2, TidySection, FileTyped DEF Words
<1>5. /\ TextBase <= file.entry
      /\ file.entry + 4 <= TextBase + Sec[t].size
  BY <1>1, <1>4 DEF Inside
<1>6. Add(targetAddress, file.entry) = targetAddress + file.entry
  <2>1. targetAddress + file.entry < Word
    BY <1>3, <1>4, <1>5, Bounds, SMT
  <2> QED
    BY <1>3, <1>4, <2>1, PlainAdd
<1>7. EntryPoint = targetAddress + file.entry - TextBase
  <2>1. /\ targetAddress + file.entry \in Nat
        /\ targetAddress + file.entry < Word
        /\ TextBase <= targetAddress + file.entry
        /\ TextBase < Word
    BY <1>3, <1>4, <1>5, Bounds, SMT
  <2> DEFINE x == targetAddress + file.entry
  <2>2. Sub(x, TextBase) = x - TextBase
    <3>1. x \in Nat /\ x < Word /\ TextBase \in Nat /\ TextBase <= x /\ TextBase < Word
      BY <2>1, Bounds
    <3> HIDE DEF x
    <3> QED
      BY <3>1, ExactSub
  <2>3. EntryPoint = Sub(x, TextBase)
    BY <1>6, Zenon DEF EntryPoint
  <2> QED
    BY <1>3, <1>4, <2>2, <2>3, Bounds, SMT
<1>8. Inside(EntryPoint, 4, at[t], at[t] + Sec[t].size)
  BY <1>3, <1>4, <1>5, <1>7, Bounds, SMT DEF Inside
<1> QED
  BY <1>2, <1>8

\* Clearing .bss and .sbss leaves what was linked alone.
LEMMA PatchesSurvive ==
    ASSUME LoadInv, Tidy, NEW p \in Patched, NEW r \in {bss, sbss}, r.lo # 0
    PROVE  ~ Overlap(p.lo, p.len, r.lo, r.size)
<1> DEFINE s == OwnerOf(p.id)
<1>1. /\ s \in SecIndex /\ IsPlaced(s) /\ Sec[s].type = "PROGBITS"
      /\ p.lo \in Nat /\ p.len \in {2, 4}
      /\ at[s] <= p.lo
      /\ p.lo + p.len <= at[s] + Sec[s].size
  BY PatchInPlace
<1>2. PICK u \in SecIndex : /\ IsPlaced(u)
                            /\ Sec[u].name \in {".bss", ".sbss"}
                            /\ r = [lo |-> at[u], size |-> Sec[u].size]
  BY DEF LoadInv, PlacedInv, RangesRecorded, Recorded, NoRange
<1>3. Loadable(u)
  BY <1>2 DEF LoadInv, PlacedInv, PlacedInOrder
<1>4. s # u
  BY <1>1, <1>2, <1>3 DEF Tidy, TidyLayout
<1>5. ~ Overlap(at[s], Sec[s].size, at[u], Sec[u].size)
  BY <1>1, <1>2, <1>4, PlacedApart DEF LoadInv, ArenaInv, SectionsApart, IsPlaced
<1>6. /\ at[s] \in Int /\ Sec[s].size \in Int /\ at[u] \in Int /\ Sec[u].size \in Int
  BY <1>1, PlacedTyped DEF LoadInv, ArenaInv
<1> QED
  BY <1>1, <1>2, <1>5, <1>6, SMT DEF Overlap

(***************************************************************************)
(* A tidy module is entered in its own text section, with nothing of it    *)
(* left in the data cache and with what was linked intact.                 *)
(***************************************************************************)
THEOREM LoaderEntersCoherently == Spec => []EntersCoherently
<1>1. Init => DirtyInv
  BY DEF Init, DirtyInv
<1>2. LoadInv /\ DirtyInv /\ [Next]_vars => DirtyInv'
  BY StepDirty
<1>3. LoadInv /\ DirtyInv => EntersCoherently
  BY EntryInText, PatchesSurvive
     DEF EntersCoherently, CoherentAtEntry, EntersOwnText, DirtyInv
<1> QED
  BY <1>1, <1>2, <1>3, LoadInvAlways, PTL DEF Spec
-----------------------------------------------------------------------------
(***************************************************************************)
(* While the load goes on, a branch that was written either goes straight  *)
(* to its destination or to a slot (plus its addend) that jumps there.     *)
(* Slots are reused, so this needs all far branches to want the same.      *)
(***************************************************************************)
Arrives(p) ==
    p.type = "REL24" =>
        IF ViaSlot(p)
          THEN \E s \in SlotIndex : /\ p.dest = Add(SlotAddr(s), RelocOf(p.id).addend)
                                    /\ slots[s].jump = p.want
          ELSE p.dest = p.want
SlotsInv == OneFarFunction /\ pc \notin {"failed", "fatal"} => \A p \in Patched : Arrives(p)

\* The patches behind the first are those before the step and the new one.
LEMMA PatchedNext ==
    ASSUME TypeOK, NEW q, patched' = Append(patched, q)
    PROVE  Patched' = Patched \cup {q}
<1>1. patched \in Seq(Patches)
  BY DEF TypeOK
<1>2. /\ Len(patched') = Len(patched) + 1
      /\ \A i \in 1 .. Len(patched') :
            \/ i = Len(patched) + 1 /\ patched'[i] = q
            \/ i \in 1 .. Len(patched) /\ patched'[i] = patched[i]
      /\ \A i \in 1 .. Len(patched) : patched'[i] = patched[i]
  BY <1>1, Appended
<1>3. Len(patched) \in Nat /\ Len(patched) + 1 \in 1 .. Len(patched')
  BY <1>1, <1>2
<1>4. \A i \in 1 .. Len(patched) : i \in 1 .. Len(patched')
  BY <1>2, <1>3, SMT
<1>5. patched'[Len(patched) + 1] = q
  BY <1>2, <1>3, SMT
<1> QED
  BY <1>2, <1>3, <1>4, <1>5, Zenon DEF Patched

\* One call of elfLinkOne that succeeds.
LEMMA CallArrives ==
    ASSUME TypeOK, \A p \in Patched : Arrives(p), UNCHANGED file, OneFarFunction',
           NEW l \in Calls, ElfLinkOne(l, TRUE), l.addend = RelocOf(l.id).addend
    PROVE  \A p \in Patched' : Arrives(p)'
<1>1. \A id : RelocOf(id)' = RelocOf(id)
  BY FileKept DEF RelocOf
<1>2. ASSUME UNCHANGED slots, NEW p, Arrives(p)
      PROVE  Arrives(p)'
  BY <1>1, <1>2 DEF Arrives
<1>3. ASSUME UNCHANGED <<slots, patched>>
      PROVE  \A p \in Patched' : Arrives(p)'
  BY <1>2, <1>3 DEF Patched
<1>4. ASSUME UNCHANGED slots, NEW len, Write(l, len, Value(l)),
             l.type = "REL24" => IsNear(l)
      PROVE  \A p \in Patched' : Arrives(p)'
  <2> DEFINE q == [id |-> l.id, lo |-> l.target, len |-> len, type |-> l.type,
                   dest |-> Value(l), want |-> Value(l), import |-> l.import]
  <2>1. Patched' = Patched \cup {q}
    BY <1>4, PatchedNext DEF Write
  <2>2. Arrives(q)
    BY <1>4 DEF Arrives, ViaSlot, IsNear, Distance
  <2> QED
    BY <1>2, <1>4, <2>1, <2>2
<1>5. CASE LinkNothing(l, TRUE)
  BY <1>3, <1>5 DEF LinkNothing, linkVars
<1>6. CASE LinkAddress(l, TRUE)
  BY <1>4, <1>6 DEF LinkAddress
<1>7. CASE LinkRel14(l, TRUE)
  BY <1>4, <1>7 DEF LinkRel14
<1>8. CASE LinkNearBranch(l, TRUE)
  BY <1>4, <1>8 DEF LinkNearBranch
<1>9. CASE LinkFarBranch(l, TRUE)
  <2>1. PICK s \in SlotIndex :
          /\ slots' = [slots EXCEPT ![s] = [status |-> NewStatus(l),
                                            jump |-> Value(l)]]
          /\ Write(l, 4, BranchVia(l, s))
    BY <1>9 DEF LinkFarBranch
  <2>2. l.type = "REL24" /\ ~ IsNear(l)
    BY <1>9 DEF LinkFarBranch
  <2> DEFINE q == [id |-> l.id, lo |-> l.target, len |-> 4, type |-> l.type,
                   dest |-> BranchVia(l, s), want |-> Value(l), import |-> l.import]
  <2>3. Patched' = Patched \cup {q}
    BY <2>1, PatchedNext DEF Write
  <2>4. ViaSlot(q)
    BY <2>2 DEF ViaSlot, IsNear, Distance
  <2>5. slots \in [SlotIndex -> [status : Statuses, jump : Words]]
    BY DEF TypeOK
  <2>6. /\ slots'[s].jump = Value(l)
        /\ \A t \in SlotIndex : t # s => slots'[t] = slots[t]
    BY <2>1, <2>5
  <2>7. Arrives(q)'
    BY <1>1, <2>4, <2>6 DEF Arrives, BranchVia
  <2>8. ASSUME NEW p \in Patched
        PROVE  Arrives(p)'
    <3>1. Arrives(p)
      OBVIOUS
    <3>2. CASE p.type = "REL24" /\ ViaSlot(p)
      <4>1. p.want = Value(l)
        BY <2>3, <2>4, <3>2 DEF OneFarFunction, ViaSlot
      <4>2. PICK t \in SlotIndex : /\ p.dest = Add(SlotAddr(t), RelocOf(p.id).addend)
                                   /\ slots[t].jump = p.want
        BY <3>1, <3>2 DEF Arrives
      <4>3. slots'[t].jump = p.want
        BY <2>6, <4>1, <4>2
      <4> QED
        BY <1>1, <3>2, <4>2, <4>3 DEF Arrives, ViaSlot
    <3>3. CASE ~ (p.type = "REL24" /\ ViaSlot(p))
      BY <3>1, <3>3 DEF Arrives, ViaSlot
    <3> QED
      BY <3>2, <3>3
  <2> QED
    BY <2>3, <2>7, <2>8
<1> QED
  BY <1>5, <1>6, <1>7, <1>8, <1>9 DEF ElfLinkOne, LinkUnsupported, NoTrampoline

\* Steps that link nothing move no branch.
LEMMA StepSlots == ASSUME TypeOK, TracedInv, SlotsInv, [Next]_vars PROVE SlotsInv'
<1> SUFFICES ASSUME OneFarFunction', pc' \notin {"failed", "fatal"}
             PROVE  \A p \in Patched' : Arrives(p)'
  BY DEF SlotsInv
<1>1. UNCHANGED file /\ pc \notin {"failed", "fatal"}
  BY LinkFrame DEF vars
<1>2. CASE UNCHANGED <<patched, slots>>
  <2>1. Patched' = Patched /\ OneFarFunction
    BY <1>2 DEF Patched, OneFarFunction
  <2>2. \A p : Arrives(p)' <=> Arrives(p)
    BY <1>1, <1>2, FileKept DEF Arrives, RelocOf
  <2> QED
    BY <1>1, <2>1, <2>2 DEF SlotsInv
<1>3. ASSUME NEW l \in Calls, NEW ok \in BOOLEAN, ElfLinkOne(l, ok), CallTraced(l), ok
      PROVE  \A p \in Patched' : Arrives(p)'
  <2>1. ElfLinkOne(l, TRUE) /\ l.addend = RelocOf(l.id).addend
    BY <1>3 DEF CallTraced
  <2>2. Patched \subseteq Patched'
    <3>1. patched' = patched \/ \E q : patched' = Append(patched, q)
      BY <1>3, WriteTraced
    <3> QED
      BY <3>1, PatchedNext DEF Patched
  <2>3. OneFarFunction
    BY <2>2 DEF OneFarFunction
  <2> QED
    BY <1>1, <2>1, <2>3, CallArrives DEF SlotsInv
<1>4. CASE LinkEntry
  BY <1>3, <1>4, LinkEntryCall
<1>5. CASE ResolveImport
  BY <1>3, <1>5, ResolveCall
<1> QED
  BY <1>2, <1>4, <1>5, LinkFrame

\* Without an addend a branch goes to the slot itself.
LEMMA SlotsInvLands == ASSUME TypeOK, SlotsInv PROVE BranchesLand
<1> SUFFICES ASSUME OneFarFunction, pc \notin {"failed", "fatal"}, NEW p \in Patched,
                    p.type = "REL24", RelocOf(p.id).addend = 0
             PROVE  Lands(p)
  BY DEF BranchesLand
<1>1. Arrives(p)
  BY DEF SlotsInv
<1>2. \A s \in SlotIndex : Add(SlotAddr(s), 0) = SlotAddr(s)
  <2> SUFFICES ASSUME NEW s \in SlotIndex PROVE Add(SlotAddr(s), 0) = SlotAddr(s)
    OBVIOUS
  <2>1. SlotAddr(s) \in Words
    BY Layout
  <2> HIDE DEF SlotAddr
  <2> QED
    BY <2>1, WordAssumption, SMT DEF Words, Add, Wrap
<1> QED
  BY <1>1, <1>2, Zenon DEF Arrives, Lands

\* A word of the lower half reads as itself.
LEMMA SignedLow ==
    ASSUME NEW x \in Nat, x <= DestAddr
    PROVE  Signed(x) = x
BY Bounds, SMT DEF Signed

\* A branch inside the arena is in reach.
LEMMA LoadInvDirect == ASSUME LoadInv PROVE InternalBranchesDirect
<1> SUFFICES ASSUME Tidy, NEW p \in Patched, ~ p.import,
                    LocalSym(RelocOf(p.id).sym) \/ RelocOf(p.id).sym.value = 0,
                    RelocOf(p.id).addend = 0
             PROVE  ~ ViaSlot(p)
  BY DEF InternalBranchesDirect
<1> DEFINE r == RelocOf(p.id)
<1>1. /\ PatchTraced(p)
      /\ OwnerOf(p.id) \in SecIndex
      /\ p.lo \in Nat /\ p.len \in {2, 4}
      /\ at[OwnerOf(p.id)] <= p.lo
      /\ p.lo + p.len <= at[OwnerOf(p.id)] + Sec[OwnerOf(p.id)].size
      /\ at[OwnerOf(p.id)] + Sec[OwnerOf(p.id)].size <= DestAddr
  BY PatchInPlace
<1>2. p.lo <= DestAddr
  <2>1. at[OwnerOf(p.id)] \in Int /\ Sec[OwnerOf(p.id)].size \in Int
    BY <1>1, PlacedTyped DEF LoadInv, ArenaInv
  <2> QED
    BY <1>1, <2>1, Bounds, SMT
<1>3. file \in Files /\ patched # <<>> /\ ForPass(p.id, p.import)
      /\ p.want = Add(Adjusted(r.sym.value), 0)
  BY <1>1 DEF LoadInv, ArenaInv, TypeOK, Patched, PatchTraced
<1>4. r \in Relocs /\ TidyReloc(OwnerOf(p.id), r)
  BY <1>3, TidyEntry
<1>5. r.sym.value \in Words
  BY <1>4 DEF Relocs, Symbols
<1>6. Adjusted(r.sym.value) \in Nat /\ Adjusted(r.sym.value) <= DestAddr
  <2>1. CASE LocalSym(r.sym)
    BY <1>3, <1>4, <1>5, <2>1, SymbolInPlace DEF TidyReloc
  <2>2. CASE r.sym.value = 0
    BY <2>2, Bounds, SMT DEF Adjusted, InText, InData
  <2> QED
    BY <2>1, <2>2
<1>7. p.want \in Nat /\ p.want <= DestAddr
  <2> DEFINE x == Adjusted(r.sym.value)
  <2>1. x \in Nat /\ x <= DestAddr /\ p.want = Add(x, 0)
    BY <1>3, <1>6
  <2> HIDE DEF x
  <2>2. Add(x, 0) = x
    BY <2>1, Bounds, SMT DEF Add, Wrap
  <2> QED
    BY <2>1, <2>2
<1>8. Signed(p.want) = p.want /\ Signed(p.lo) = p.lo
  BY <1>1, <1>2, <1>7, SignedLow
<1>9. p.want - p.lo \in -Reach .. Reach
  BY <1>1, <1>2, <1>7, Bounds, SMT
<1> QED
  BY <1>8, <1>9 DEF ViaSlot

(***************************************************************************)
(* As long as the load goes on, and all far branches want one function,    *)
(* every branch without an addend arrives; a branch inside a tidy module   *)
(* never takes a slot.                                                     *)
(***************************************************************************)
THEOREM LoaderBranchesArrive == Spec => []BranchesArrive
<1>1. Init => SlotsInv
  BY DEF Init, SlotsInv, Patched
<1>2. LoadInv => TypeOK /\ TracedInv
  BY DEF LoadInv, ArenaInv
<1>3. LoadInv /\ SlotsInv /\ [Next]_vars => SlotsInv'
  BY <1>2, StepSlots
<1>4. LoadInv /\ SlotsInv => BranchesArrive
  BY <1>2, SlotsInvLands, LoadInvDirect DEF BranchesArrive
<1> QED
  BY <1>1, <1>3, <1>4, LoadInvAlways, PTL DEF Spec
(***************************************************************************)
(* Each relocation once.  The two passes go through the entries in         *)
(* lexicographic order, linkSection by the section an entry is for,        *)
(* getImportRelocationData by the section it is in.                        *)
(***************************************************************************)
PatchedIds == {p.id : p \in Patched}
ListedIds  == {imports[k].id : k \in 1 .. Len(imports)}
CollectBefore(id, c) == id[1] < c.rel \/ (id[1] = c.rel /\ id[2] < c.ent)
LinkBefore(id, c) ==
    OwnerOf(id) < c.sec \/ (OwnerOf(id) = c.sec /\ CollectBefore(id, c))

Distinct(seq) == \A i, j \in 1 .. Len(seq) : seq[i].id = seq[j].id => i = j

\* No entry is written or listed that was before, by either pass.
OnceInv ==
    /\ Distinct(patched)
    /\ Distinct(imports)
    /\ pc = "link" => \A id \in PatchedIds : LinkBefore(id, cur)
    /\ pc \in {"link", "collect"} => \A p \in Patched : ~ p.import
    /\ pc = "collect" => \A id \in ListedIds : CollectBefore(id, cur)
    /\ pc = "reloc" => \A k \in 1 .. Len(imports) :
                          cur.ent <= k => imports[k].id \notin PatchedIds

\* What do_start does not reach any more, and what it does behind the imports.
Late == {"clear", "enter", "entered"}

\* The steps that move a pass on; the others neither write nor list anything.
LinkPass == \/ AllPlaced \/ SectionLinked \/ RelSectionDone \/ LinkSkipImport
            \/ LinkEntry \/ AllLinked
CollectPass == \/ CollectNextSection \/ CollectSkipLocal \/ CollectBreak
               \/ CollectImport \/ LoadDone
ImportPass == ResolveImport \/ AllResolved
Aside ==
    /\ UNCHANGED <<file, patched, imports>>
    /\ \/ pc' \in {"size", "place", "failed", "fatal", "overrun"}
       \/ pc \in Late /\ pc' \in Late
       \/ UNCHANGED <<pc, cur>>

\* Every step is of one of the three passes, or none of their business.
LEMMA PassFrame ==
    ASSUME [Next]_vars
    PROVE  LinkPass \/ CollectPass \/ ImportPass \/ Aside
<1> USE DEF linkVars, importVars, Late
<1>1. CASE Bookkeeping
  BY <1>1 DEF Bookkeeping, LinkPass, CollectPass, Aside, ReadFile, TooBig, SkipSection,
     BadAddress, ArenaFatal, LinkNoSymbol, LinkBadSymbol, CollectNoSymbol, AcquireFails,
     Placing
<1>2. CASE SizeSection \/ ChooseTarget \/ PlaceSection \/ Overrun
  BY <1>2 DEF SizeSection, ChooseTarget, PlaceSection, Overrun, Aside, Placing
<1>3. CASE LinkEntry \/ CollectImport \/ ResolveImport
  BY <1>3 DEF LinkPass, CollectPass, ImportPass
<1>4. CASE ExportMissing \/ LoadDone \/ AllResolved \/ ClearBss \/ Enter
  BY <1>4 DEF ExportMissing, ClearBss, Enter, CollectPass, ImportPass, Aside
<1>5. CASE Done \/ UNCHANGED vars
  BY <1>5 DEF Done, vars, Aside
<1> QED
  BY <1>1, <1>2, <1>3, <1>4, <1>5, NextCases

\* The loop counters are numbers, and move one way.
LEMMA CursorFields ==
    ASSUME TypeOK
    PROVE  /\ file \in Files /\ file.n \in Nat
           /\ cur.sec \in Nat /\ cur.rel \in Nat /\ cur.ent \in Nat \ {0}
           /\ cur.sec <= file.n /\ cur.rel <= file.n
           /\ Start.sec = 0 /\ Start.rel = 0 /\ Start.ent = 1
           /\ NextSection.sec = cur.sec + 1
           /\ NextSection.rel = 0 /\ NextSection.ent = 1
           /\ NextRelSection.sec = cur.sec
           /\ NextRelSection.rel = cur.rel + 1 /\ NextRelSection.ent = 1
           /\ NextEntry.sec = cur.sec
           /\ NextEntry.rel = cur.rel /\ NextEntry.ent = cur.ent + 1
<1>1. file \in Files /\ file.n \in Nat
  BY FileTyped DEF TypeOK
<1>2. cur \in [sec : 0 .. file.n, rel : 0 .. file.n, ent : Nat \ {0}]
  BY DEF TypeOK
<1>3. /\ cur.sec \in Nat /\ cur.rel \in Nat /\ cur.ent \in Nat \ {0}
      /\ cur.sec <= file.n /\ cur.rel <= file.n
  BY <1>1, <1>2
<1> QED
  BY <1>1, <1>2, <1>3 DEF Start, NextSection, NextRelSection, NextEntry

\* What comes before the cursor when it moves.
LEMMA BeforeNext ==
    ASSUME TypeOK, NEW id \in RelocIds, OwnerOf(id) \in SecIndex
    PROVE  /\ ~ LinkBefore(id, Start) /\ ~ CollectBefore(id, Start)
           /\ LinkBefore(id, NextSection) <=> OwnerOf(id) <= cur.sec
           /\ CollectBefore(id, NextRelSection) <=> id[1] <= cur.rel
           /\ LinkBefore(id, NextRelSection) <=>
                 OwnerOf(id) < cur.sec \/ (OwnerOf(id) = cur.sec /\ id[1] <= cur.rel)
           /\ CollectBefore(id, NextEntry) <=>
                 CollectBefore(id, cur) \/ id = <<cur.rel, cur.ent>>
           /\ LinkBefore(id, NextEntry) <=>
                 \/ LinkBefore(id, cur)
                 \/ OwnerOf(id) = cur.sec /\ id = <<cur.rel, cur.ent>>
<1>0. /\ id[1] \in Nat /\ id[2] \in Nat \ {0} /\ OwnerOf(id) \in Nat
      /\ cur.sec \in Nat /\ cur.rel \in Nat /\ cur.ent \in Nat \ {0}
  BY CursorFields DEF RelocIds, SecIndex
<1>1. id = <<cur.rel, cur.ent>> <=> id[1] = cur.rel /\ id[2] = cur.ent
  BY DEF RelocIds
<1> DEFINE r == id[1]
           e == id[2]
           o == OwnerOf(id)
           cs == cur.sec
           cr == cur.rel
           ce == cur.ent
<1> HIDE DEF r, e, o, cs, cr, ce
<1>a. r \in Nat /\ e \in Nat \ {0} /\ o \in Nat /\ cs \in Nat /\ cr \in Nat /\ ce \in Nat \ {0}
  BY <1>0 DEF r, e, o, cs, cr, ce
<1>b. /\ CollectBefore(id, Start) <=> r < 0 \/ (r = 0 /\ e < 1)
      /\ CollectBefore(id, NextSection) <=> r < 0 \/ (r = 0 /\ e < 1)
      /\ CollectBefore(id, NextRelSection) <=> r < cr + 1 \/ (r = cr + 1 /\ e < 1)
      /\ CollectBefore(id, NextEntry) <=> r < cr \/ (r = cr /\ e < ce + 1)
      /\ CollectBefore(id, cur) <=> r < cr \/ (r = cr /\ e < ce)
  BY CursorFields, Zenon DEF CollectBefore, r, e, cr, ce
<1>c. /\ LinkBefore(id, Start) <=> o < 0 \/ (o = 0 /\ CollectBefore(id, Start))
      /\ LinkBefore(id, NextSection) <=>
            o < cs + 1 \/ (o = cs + 1 /\ CollectBefore(id, NextSection))
  BY CursorFields, Zenon DEF LinkBefore, o, cs
<1>2. ~ CollectBefore(id, Start) /\ ~ CollectBefore(id, NextSection)
  BY <1>a, <1>b
<1>3. ~ LinkBefore(id, Start)
  BY <1>a, <1>2, <1>c
<1>5. LinkBefore(id, NextSection) <=> o <= cs
  BY <1>a, <1>2, <1>c
<1>6. CollectBefore(id, NextRelSection) <=> r <= cr
  BY <1>a, <1>b
<1>7. CollectBefore(id, NextEntry) <=> CollectBefore(id, cur) \/ (r = cr /\ e = ce)
  BY <1>a, <1>b
<1>8. CollectBefore(id, NextEntry) <=> CollectBefore(id, cur) \/ id = <<cur.rel, cur.ent>>
  BY <1>1, <1>7, Zenon DEF r, e, cr, ce
<1>9. LinkBefore(id, NextRelSection) <=>
         OwnerOf(id) < cur.sec \/ (OwnerOf(id) = cur.sec /\ id[1] <= cur.rel)
  BY <1>6, CursorFields, Zenon DEF LinkBefore, r, cr
<1>10. LinkBefore(id, NextEntry) <=>
         \/ LinkBefore(id, cur)
         \/ OwnerOf(id) = cur.sec /\ id = <<cur.rel, cur.ent>>
  BY <1>8, CursorFields, Zenon DEF LinkBefore
<1> QED
  BY <1>2, <1>3, <1>5, <1>6, <1>8, <1>9, <1>10, Zenon DEF r, o, cs, cr

\* The operators that name an entry depend on the file alone.
LEMMA EntriesKept ==
    ASSUME UNCHANGED file
    PROVE  /\ \A id : RelocOf(id)' = RelocOf(id)
           /\ \A id : OwnerOf(id)' = OwnerOf(id)
           /\ RelocIds' = RelocIds /\ ToApply' = ToApply
           /\ \A id, c : LinkBefore(id, c)' <=> LinkBefore(id, c')
           /\ \A id, c : CollectBefore(id, c)' <=> CollectBefore(id, c')
BY FileKept DEF RelocOf, OwnerOf, RelocIds, ToApply, LinkBefore, CollectBefore

\* A call of elfLinkOne that succeeds on an entry that writes leaves a patch.
CallEffect(id, import, ok) ==
    IF ok /\ Writing(RelocOf(id))
      THEN \E q : patched' = Append(patched, q) /\ q.id = id /\ q.import = import
      ELSE patched' = patched

\* So it does for both passes.
LEMMA CallWrites ==
    ASSUME NEW l, NEW ok \in BOOLEAN, ElfLinkOne(l, ok), l.type = RelocOf(l.id).type
    PROVE  CallEffect(l.id, l.import, ok)
<1>1. CASE /\ UNCHANGED <<patched, dirty>>
           /\ ok => l.type \in {"NONE", "DTPMOD32"}
  BY <1>1 DEF CallEffect, Writing
<1>2. CASE /\ ok
           /\ l.type \notin {"NONE", "DTPMOD32"}
           /\ \E len \in {2, 4} : \E dest : Write(l, len, dest)
  <2>1. PICK len \in {2, 4} : \E dest : Write(l, len, dest)
    BY <1>2
  <2>2. PICK dest : Write(l, len, dest)
    BY <2>1
  <2> DEFINE q == [id |-> l.id, lo |-> l.target, len |-> len, type |-> l.type,
                   dest |-> dest, want |-> Value(l), import |-> l.import]
  <2>3. patched' = Append(patched, q) /\ q.id = l.id /\ q.import = l.import
    BY <2>2 DEF Write
  <2> QED
    BY <1>2, <2>3 DEF CallEffect, Writing
<1> QED
  BY <1>1, <1>2, LinkOutcome

\* linkSection goes on, or gives up.
LEMMA LinkEntryEffect ==
    ASSUME TypeOK, LinkEntry
    PROVE  LET id == <<cur.rel, cur.ent>> IN
           \E ok \in BOOLEAN :
              /\ CallEffect(id, FALSE, ok)
              /\ IF ok THEN pc' = "link" /\ cur' = NextEntry ELSE pc' = "failed"
              /\ ForPass(id, FALSE)
              /\ OwnerOf(id) = cur.sec
              /\ pc = "link"
              /\ UNCHANGED <<file, imports>>
<1>1. PICK l \in Calls, ok \in BOOLEAN :
              /\ ElfLinkOne(l, ok)
              /\ CallTraced(l)
              /\ l.id = <<cur.rel, cur.ent>> /\ ~ l.import
              /\ IF ok THEN pc' = pc /\ cur' = NextEntry ELSE pc' = "failed"
  BY LinkEntryCall
<1>2. l.import = FALSE
  BY <1>1 DEF Calls
<1>3. /\ pc = "link" /\ UNCHANGED <<file, imports>>
      /\ Sec[cur.rel].info = cur.sec
  BY DEF LinkEntry, LinkingEntry, Linking, importVars
<1>4. CallEffect(<<cur.rel, cur.ent>>, FALSE, ok)
  BY <1>1, <1>2, CallWrites DEF CallTraced
<1>5. OwnerOf(<<cur.rel, cur.ent>>) = cur.sec
  BY <1>3 DEF OwnerOf
<1>6. ForPass(<<cur.rel, cur.ent>>, FALSE)
  BY <1>1, <1>2 DEF CallTraced
<1> QED
  BY <1>1, <1>3, <1>4, <1>5, <1>6

\* So does doRelocation.
LEMMA ResolveEffect ==
    ASSUME TypeOK, TracedInv, ResolveImport
    PROVE  LET id == imports[cur.ent].id IN
           \E ok \in BOOLEAN :
              /\ CallEffect(id, TRUE, ok)
              /\ IF ok THEN pc' = "reloc" /\ cur' = NextEntry ELSE pc' = "fatal"
              /\ cur.ent \in 1 .. Len(imports)
              /\ pc = "reloc"
              /\ UNCHANGED <<file, imports>>
<1>1. PICK l \in Calls, ok \in BOOLEAN :
              /\ ElfLinkOne(l, ok)
              /\ CallTraced(l)
              /\ l.id = imports[cur.ent].id /\ l.import
              /\ IF ok THEN pc' = pc /\ cur' = NextEntry ELSE pc' = "fatal"
  BY ResolveCall
<1>2. l.import = TRUE
  BY <1>1 DEF Calls
<1>3. /\ pc = "reloc" /\ UNCHANGED <<file, imports>> /\ cur.ent <= Len(imports)
  BY DEF ResolveImport, Resolving
<1>4. cur.ent \in 1 .. Len(imports)
  BY <1>3, CursorFields DEF TypeOK
<1>5. CallEffect(imports[cur.ent].id, TRUE, ok)
  BY <1>1, <1>2, CallWrites DEF CallTraced
<1> QED
  BY <1>1, <1>3, <1>4, <1>5

\* An entry that was not in a list can be added to it.
LEMMA DistinctAppend ==
    ASSUME NEW S, NEW seq \in Seq(S), NEW q, Distinct(seq),
           \A i \in 1 .. Len(seq) : seq[i].id # q.id
    PROVE  Distinct(Append(seq, q))
BY Appended DEF Distinct

\* What a call does to the set of patched entries.
LEMMA EffectOnPatches ==
    ASSUME TypeOK, NEW id, NEW import \in BOOLEAN, NEW ok \in BOOLEAN,
           CallEffect(id, import, ok)
    PROVE  /\ PatchedIds \subseteq PatchedIds'
           /\ PatchedIds' \subseteq PatchedIds \cup {id}
           /\ ok /\ Writing(RelocOf(id)) => id \in PatchedIds'
           /\ \A p \in Patched' : p \in Patched \/ p.import = import
           /\ Distinct(patched) /\ id \notin PatchedIds => Distinct(patched')
<1>1. CASE ok /\ Writing(RelocOf(id))
  <2>1. PICK q : patched' = Append(patched, q) /\ q.id = id /\ q.import = import
    BY <1>1 DEF CallEffect
  <2>2. Patched' = Patched \cup {q}
    BY <2>1, PatchedNext
  <2>3. ASSUME Distinct(patched), id \notin PatchedIds
        PROVE  Distinct(patched')
    <3>1. patched \in Seq(Patches)
      BY DEF TypeOK
    <3>2. \A i \in 1 .. Len(patched) : patched[i].id # q.id
      BY <2>1, <2>3 DEF PatchedIds, Patched
    <3> QED
      BY <2>1, <2>3, <3>1, <3>2, DistinctAppend
  <2> QED
    BY <2>1, <2>2, <2>3 DEF PatchedIds
<1>2. CASE ~ (ok /\ Writing(RelocOf(id)))
  <2>1. patched' = patched
    BY <1>2 DEF CallEffect
  <2>2. Patched' = Patched
    BY <2>1 DEF Patched
  <2> QED
    BY <1>2, <2>1, <2>2 DEF PatchedIds
<1> QED
  BY <1>1, <1>2

\* What is written or listed is an entry.
LEMMA KnownEntries ==
    ASSUME TracedInv
    PROVE  /\ \A p \in Patched : /\ ForPass(p.id, p.import)
                                 /\ Writing(RelocOf(p.id))
                                 /\ p.id \in PatchedIds
           /\ \A id \in PatchedIds : IsEntry(id) /\ OwnerOf(id) \in SecIndex
           /\ \A k \in 1 .. Len(imports) : /\ ForPass(imports[k].id, TRUE)
                                           /\ imports[k].id \in ListedIds
           /\ \A id \in ListedIds : IsEntry(id) /\ OwnerOf(id) \in SecIndex
<1>1. \A p \in Patched : PatchTraced(p)
  BY DEF TracedInv, Patched
<1>2. \A p \in Patched : /\ ForPass(p.id, p.import)
                         /\ Writing(RelocOf(p.id))
                         /\ p.id \in PatchedIds
  BY <1>1 DEF PatchTraced, PatchedIds
<1>3. \A k \in 1 .. Len(imports) : /\ ForPass(imports[k].id, TRUE)
                                   /\ imports[k].id \in ListedIds
  BY DEF TracedInv, ImportTraced, ListedIds
<1>4. \A id \in PatchedIds : IsEntry(id) /\ OwnerOf(id) \in SecIndex
  BY <1>2 DEF PatchedIds, ForPass
<1>5. \A id \in ListedIds : IsEntry(id) /\ OwnerOf(id) \in SecIndex
  BY <1>3 DEF ListedIds, ForPass
<1> QED
  BY <1>2, <1>3, <1>4, <1>5

\* The steps that neither write nor list anything.
LEMMA QuietOnce ==
    ASSUME UNCHANGED <<patched, imports>>
    PROVE  /\ PatchedIds' = PatchedIds
           /\ ListedIds' = ListedIds
           /\ Patched' = Patched
BY DEF PatchedIds, ListedIds, Patched

\* The pass over the internal relocations takes each entry once.
LEMMA LinkPassOnce ==
    ASSUME TypeOK, TracedInv, OnceInv, LinkPass, UNCHANGED file
    PROVE  OnceInv'
<1>0. /\ \A id : OwnerOf(id)' = OwnerOf(id)
      /\ \A id : LinkBefore(id, cur)' <=> LinkBefore(id, cur')
  BY EntriesKept
<1>1. \A id \in PatchedIds : id \in RelocIds /\ OwnerOf(id) \in SecIndex
  BY KnownEntries DEF IsEntry
<1>2. CASE AllPlaced
  <2>1. pc = "place" /\ pc' = "link" /\ UNCHANGED <<patched, imports>>
    BY <1>2 DEF AllPlaced, linkVars, importVars
  <2>2. patched = <<>> /\ Patched = {} /\ PatchedIds = {}
    BY <2>1 DEF TracedInv, PassesInOrder, Patched, PatchedIds
  <2> QED
    BY <2>1, <2>2, QuietOnce DEF OnceInv
<1>3. CASE SectionLinked \/ RelSectionDone \/ LinkSkipImport
  <2>1. /\ pc = "link" /\ pc' = "link" /\ UNCHANGED <<patched, imports>>
        /\ cur' \in {NextSection, NextRelSection, NextEntry}
    BY <1>3 DEF SectionLinked, RelSectionDone, LinkSkipImport, LinkingEntry, Linking,
       linkVars, importVars
  <2>2. ASSUME NEW id \in PatchedIds
        PROVE  LinkBefore(id, cur')
    <3>1. LinkBefore(id, cur) /\ id \in RelocIds /\ OwnerOf(id) \in SecIndex
      BY <1>1, <2>1 DEF OnceInv
    <3>2. OwnerOf(id) <= cur.sec
      BY <3>1, CursorFields, SMT DEF LinkBefore, SecIndex
    <3>3. id[1] <= cur.rel \/ OwnerOf(id) < cur.sec
      BY <3>1, CursorFields, SMT DEF LinkBefore, CollectBefore, RelocIds, SecIndex
    <3>4. OwnerOf(id) < cur.sec \/ OwnerOf(id) = cur.sec
      BY <3>1, <3>2, CursorFields, SMT DEF SecIndex
    <3> QED
      BY <2>1, <3>1, <3>2, <3>3, <3>4, BeforeNext, Zenon
  <2> QED
    BY <1>0, <2>1, <2>2, QuietOnce DEF OnceInv
<1>4. CASE LinkEntry
  <2> DEFINE id == <<cur.rel, cur.ent>>
  <2>1. PICK ok \in BOOLEAN :
              /\ CallEffect(id, FALSE, ok)
              /\ IF ok THEN pc' = "link" /\ cur' = NextEntry ELSE pc' = "failed"
              /\ ForPass(id, FALSE)
              /\ OwnerOf(id) = cur.sec
              /\ pc = "link"
              /\ UNCHANGED <<file, imports>>
    BY <1>4, LinkEntryEffect
  <2>2. id \in RelocIds /\ OwnerOf(id) \in SecIndex
    BY <2>1 DEF ForPass, IsEntry
  <2>3. id \notin PatchedIds
    <3>1. ~ LinkBefore(id, cur)
      BY <2>1, CursorFields, SMT DEF LinkBefore, CollectBefore
    <3> QED
      BY <2>1, <3>1 DEF OnceInv
  <2>4. /\ PatchedIds' \subseteq PatchedIds \cup {id}
        /\ \A p \in Patched' : p \in Patched \/ p.import = FALSE
        /\ Distinct(patched')
    <3>1. CallEffect(id, FALSE, ok) /\ Distinct(patched)
      BY <2>1 DEF OnceInv
    <3> HIDE DEF id
    <3> QED
      BY <2>3, <3>1, EffectOnPatches
  <2>5. ASSUME cur' = NextEntry, NEW x \in PatchedIds'
        PROVE  LinkBefore(x, cur')
    BY <1>1, <2>1, <2>2, <2>4, <2>5, BeforeNext DEF OnceInv
  <2> QED
    BY <1>0, <2>1, <2>4, <2>5 DEF OnceInv
<1>5. CASE AllLinked
  <2>1. /\ pc = "link" /\ pc' = "collect" /\ UNCHANGED <<patched, imports>>
    BY <1>5 DEF AllLinked, linkVars, importVars
  <2>2. imports = <<>> /\ ListedIds = {}
    BY <2>1 DEF TracedInv, PassesInOrder, ListedIds
  <2> QED
    BY <2>1, <2>2, QuietOnce DEF OnceInv
<1> QED
  BY <1>2, <1>3, <1>4, <1>5 DEF LinkPass

\* Listing an import adds its entry.
LEMMA ListedNext ==
    ASSUME TypeOK, NEW m, imports' = Append(imports, m)
    PROVE  ListedIds' = ListedIds \cup {m.id}
<1>1. imports \in Seq(ImportRelocs)
  BY DEF TypeOK
<1>2. /\ Len(imports') = Len(imports) + 1
      /\ \A i \in 1 .. Len(imports') :
            \/ i = Len(imports) + 1 /\ imports'[i] = m
            \/ i \in 1 .. Len(imports) /\ imports'[i] = imports[i]
      /\ \A i \in 1 .. Len(imports) : imports'[i] = imports[i]
  BY <1>1, Appended
<1>3. Len(imports) \in Nat /\ Len(imports) + 1 \in 1 .. Len(imports')
  BY <1>1, <1>2
<1>4. \A i \in 1 .. Len(imports) : i \in 1 .. Len(imports')
  BY <1>2, <1>3, SMT
<1>5. imports'[Len(imports) + 1] = m
  BY <1>2, <1>3, SMT
<1> QED
  BY <1>2, <1>3, <1>4, <1>5, Zenon DEF ListedIds

\* The list of imports takes each entry once.
LEMMA CollectPassOnce ==
    ASSUME TypeOK, TracedInv, OnceInv, CollectPass, UNCHANGED file
    PROVE  OnceInv'
<1>0. \A id : CollectBefore(id, cur)' <=> CollectBefore(id, cur')
  BY EntriesKept
<1>1. \A id \in ListedIds : id \in RelocIds /\ OwnerOf(id) \in SecIndex
  BY KnownEntries DEF IsEntry
<1>2. CASE CollectNextSection \/ CollectSkipLocal \/ CollectBreak
  <2>1. /\ pc = "collect" /\ pc' = "collect" /\ UNCHANGED <<patched, imports>>
        /\ cur' \in {NextRelSection, NextEntry}
    BY <1>2 DEF CollectNextSection, CollectSkipLocal, CollectBreak, CollectingEntry,
       Collecting, linkVars, importVars
  <2>2. ASSUME NEW id \in ListedIds
        PROVE  CollectBefore(id, cur')
    <3>1. CollectBefore(id, cur) /\ id \in RelocIds /\ OwnerOf(id) \in SecIndex
      BY <1>1, <2>1 DEF OnceInv
    <3>2. id[1] <= cur.rel
      BY <3>1, CursorFields, SMT DEF CollectBefore, RelocIds, SecIndex
    <3> QED
      BY <2>1, <3>1, <3>2, BeforeNext, Zenon
  <2> QED
    BY <1>0, <2>1, <2>2, QuietOnce DEF OnceInv
<1>3. CASE CollectImport
  <2> DEFINE id == <<cur.rel, cur.ent>>
  <2>1. PICK m : imports' = Append(imports, m) /\ ImportTraced(m) /\ m.id = id
    BY <1>3, CollectTraced
  <2>2. /\ pc = "collect" /\ pc' = "collect" /\ cur' = NextEntry
        /\ patched' = patched
    BY <1>3 DEF CollectImport, CollectingEntry, Collecting, linkVars
  <2>3. id \in RelocIds /\ OwnerOf(id) \in SecIndex
    BY <2>1 DEF ImportTraced, ForPass, IsEntry
  <2>4. \A k \in 1 .. Len(imports) : imports[k].id \in ListedIds
    BY DEF ListedIds
  <2>5. ~ CollectBefore(id, cur)
    BY CursorFields, SMT DEF CollectBefore
  <2>6. \A k \in 1 .. Len(imports) : imports[k].id # id
    BY <2>2, <2>4, <2>5 DEF OnceInv
  <2>7. imports \in Seq(ImportRelocs) /\ Distinct(imports)
    BY DEF TypeOK, OnceInv
  <2>8. Distinct(imports')
    BY <2>1, <2>6, <2>7, DistinctAppend
  <2>9. ListedIds' \subseteq ListedIds \cup {id}
    BY <2>1, ListedNext
  <2>10. \A x \in ListedIds' : CollectBefore(x, cur')
    BY <1>1, <2>2, <2>3, <2>9, BeforeNext DEF OnceInv
  <2>11. PatchedIds' = PatchedIds /\ Patched' = Patched
    BY <2>2 DEF PatchedIds, Patched
  <2> QED
    BY <1>0, <2>2, <2>8, <2>10, <2>11 DEF OnceInv
<1>4. CASE LoadDone
  <2>1. /\ pc = "collect" /\ pc' = "reloc" /\ UNCHANGED <<patched, imports>>
    BY <1>4 DEF LoadDone, importVars
  <2>2. \A id \in PatchedIds : ~ IsImport(RelocOf(id).sym)
    BY <2>1, KnownEntries DEF OnceInv, PatchedIds, ForPass
  <2>3. \A k \in 1 .. Len(imports) : IsImport(RelocOf(imports[k].id).sym)
    BY KnownEntries DEF ForPass
  <2>4. \A k \in 1 .. Len(imports) : imports[k].id \notin PatchedIds
    BY <2>2, <2>3
  <2> QED
    BY <2>1, <2>4, QuietOnce DEF OnceInv
<1> QED
  BY <1>2, <1>3, <1>4 DEF CollectPass

\* And doRelocation goes through the list once.
LEMMA ImportPassOnce ==
    ASSUME TypeOK, TracedInv, OnceInv, ImportPass, UNCHANGED file
    PROVE  OnceInv'
<1>1. CASE AllResolved
  <2>1. pc' = "clear" /\ UNCHANGED <<patched, imports>>
    BY <1>1 DEF AllResolved, importVars
  <2> QED
    BY <2>1, QuietOnce DEF OnceInv
<1>2. CASE ResolveImport
  <2> DEFINE id == imports[cur.ent].id
  <2>1. PICK ok \in BOOLEAN :
              /\ CallEffect(id, TRUE, ok)
              /\ IF ok THEN pc' = "reloc" /\ cur' = NextEntry ELSE pc' = "fatal"
              /\ cur.ent \in 1 .. Len(imports)
              /\ pc = "reloc"
              /\ UNCHANGED <<file, imports>>
    BY <1>2, ResolveEffect
  <2>2. id \notin PatchedIds /\ Distinct(patched) /\ Distinct(imports)
    BY <2>1 DEF OnceInv
  <2>3. PatchedIds' \subseteq PatchedIds \cup {id} /\ Distinct(patched')
    <3>1. CallEffect(id, TRUE, ok) /\ id \notin PatchedIds
      BY <2>1, <2>2
    <3> HIDE DEF id
    <3> QED
      BY <2>2, <3>1, EffectOnPatches
  <2>4. ASSUME cur' = NextEntry, NEW k \in 1 .. Len(imports), cur'.ent <= k
        PROVE  imports[k].id \notin PatchedIds'
    <3>1. cur'.ent = cur.ent + 1 /\ cur.ent \in Nat
      BY <2>4, CursorFields
    <3>2. cur.ent <= k /\ k # cur.ent
      BY <2>4, <3>1, SMT
    <3>3. imports[k].id \notin PatchedIds
      BY <2>1, <3>2 DEF OnceInv
    <3>4. imports[k].id # id
      BY <2>1, <2>2, <3>2 DEF Distinct
    <3> QED
      BY <2>3, <3>3, <3>4
  <2> QED
    BY <2>1, <2>2, <2>3, <2>4 DEF OnceInv
<1> QED
  BY <1>1, <1>2 DEF ImportPass

\* Nothing else touches either list.
LEMMA StepOnce == ASSUME TypeOK, TracedInv, OnceInv, [Next]_vars PROVE OnceInv'
<1>1. UNCHANGED file
  BY LinkFrame
<1>2. CASE Aside
  <2>1. \A id : /\ LinkBefore(id, cur)' <=> LinkBefore(id, cur')
                /\ CollectBefore(id, cur)' <=> CollectBefore(id, cur')
    BY <1>1, EntriesKept
  <2> QED
    BY <1>2, <2>1, QuietOnce DEF Aside, OnceInv, Late
<1> QED
  BY <1>1, <1>2, PassFrame, LinkPassOnce, CollectPassOnce, ImportPassOnce

-----------------------------------------------------------------------------
(***************************************************************************)
(* And none is left out: behind the cursor of a pass over a tidy file, the *)
(* entries of that pass that write anything have been written, or listed.  *)
(***************************************************************************)
Pending(id) == id \in ToApply /\ id \notin PatchedIds
AllInv ==
    Tidy =>
      /\ pc = "link" => \A id \in ToApply :
             ~ IsImport(RelocOf(id).sym) /\ LinkBefore(id, cur) => id \in PatchedIds
      /\ pc \in {"collect", "reloc"} \cup Late => \A id \in ToApply :
             ~ IsImport(RelocOf(id).sym) => id \in PatchedIds
      /\ pc = "collect" => \A id \in ToApply :
             IsImport(RelocOf(id).sym) /\ CollectBefore(id, cur) => id \in ListedIds
      /\ pc \in {"reloc"} \cup Late => \A id \in ToApply :
             IsImport(RelocOf(id).sym) => id \in ListedIds
      /\ pc = "reloc" => \A k \in 1 .. Len(imports) :
             k < cur.ent => ~ Pending(imports[k].id)
      /\ pc \in Late => \A k \in 1 .. Len(imports) : ~ Pending(imports[k].id)

\* An entry that is to be applied.
LEMMA ToApplyEntry ==
    ASSUME file \in Files, Tidy, NEW id \in ToApply
    PROVE  /\ id \in RelocIds /\ IsEntry(id)
           /\ id[1] \in SecIndex /\ Sec[id[1]].type = "RELA"
           /\ OwnerOf(id) \in SecIndex /\ Loadable(OwnerOf(id))
           /\ RelocOf(id).sym.ok
           /\ IsImport(RelocOf(id).sym) => ImportInfo(RelocOf(id).sym).ok
           /\ Writing(RelocOf(id))
<1>1. PICK s \in SecIndex : id \in {s} \X (1 .. Len(Sec[s].rel))
  BY DEF ToApply
<1>2. id = <<s, id[2]>> /\ id[1] = s /\ id[2] \in 1 .. Len(Sec[s].rel)
  BY <1>1
<1>3. Sec[s].type = "RELA" /\ Writing(RelocOf(id))
  BY <1>2 DEF ToApply
<1>4. Sec[s].info \in SecIndex /\ Sec[s].rel \in Seq(Relocs)
  BY <1>3, FileTyped DEF Sections
<1>5. id \in RelocIds
  BY <1>2, <1>4 DEF RelocIds
<1>6. Loadable(Sec[s].info) /\ TidyReloc(Sec[s].info, Sec[s].rel[id[2]])
  BY <1>2, <1>3 DEF Tidy, TidyRelocs
<1>7. /\ RelocOf(id).sym.ok
      /\ IsImport(RelocOf(id).sym) => ImportInfo(RelocOf(id).sym).ok
  BY <1>2, <1>6 DEF TidyReloc, RelocOf
<1> QED
  BY <1>2, <1>3, <1>4, <1>5, <1>6, <1>7 DEF OwnerOf, IsEntry

\* linkSection leaves no internal relocation out.
LEMMA LinkPassAll ==
    ASSUME TypeOK, TracedInv, AllInv, LinkPass, UNCHANGED file, Tidy
    PROVE  AllInv'
<1>0. /\ \A id : RelocOf(id)' = RelocOf(id)
      /\ \A id : LinkBefore(id, cur)' <=> LinkBefore(id, cur')
      /\ \A id : CollectBefore(id, cur)' <=> CollectBefore(id, cur')
      /\ ToApply' = ToApply
  BY EntriesKept
<1> DEFINE Internal == {id \in ToApply : ~ IsImport(RelocOf(id).sym)}
<1>1. ASSUME NEW id \in Internal
      PROVE  /\ id \in RelocIds /\ OwnerOf(id) \in SecIndex
             /\ id[1] \in Nat /\ id[2] \in Nat /\ OwnerOf(id) \in Nat
             /\ id[1] < file.n /\ OwnerOf(id) < file.n
             /\ id[2] <= Len(Sec[id[1]].rel)
             /\ Loadable(OwnerOf(id)) /\ Sec[id[1]].type = "RELA"
  <2>1. /\ id \in RelocIds /\ IsEntry(id)
        /\ id[1] \in SecIndex /\ Sec[id[1]].type = "RELA"
        /\ OwnerOf(id) \in SecIndex /\ Loadable(OwnerOf(id))
    BY CursorFields, ToApplyEntry
  <2> QED
    BY <2>1, CursorFields DEF SecIndex, RelocIds, IsEntry
<1>2. ASSUME pc = "link", pc' = "link", UNCHANGED <<patched, imports>>,
             \A id \in Internal : LinkBefore(id, cur') => LinkBefore(id, cur)
      PROVE  AllInv'
  <2>1. \A id \in Internal : LinkBefore(id, cur') => id \in PatchedIds
    BY <1>2 DEF AllInv
  <2> QED
    BY <1>0, <1>2, <2>1, QuietOnce DEF AllInv, Late
<1>3. CASE AllPlaced
  <2>1. pc' = "link" /\ cur' = Start
    BY <1>3 DEF AllPlaced
  <2>2. \A id \in Internal : ~ LinkBefore(id, cur')
    BY <1>1, <2>1, BeforeNext
  <2> QED
    BY <1>0, <2>1, <2>2 DEF AllInv, Late
<1>4. CASE SectionLinked
  <2>1. /\ pc = "link" /\ pc' = "link" /\ UNCHANGED <<patched, imports>>
        /\ cur' = NextSection
        /\ ~ Loadable(cur.sec) \/ cur.rel = file.n
    BY <1>4 DEF SectionLinked, Linking, linkVars, importVars
  <2>2. ASSUME NEW id \in Internal, LinkBefore(id, cur')
        PROVE  LinkBefore(id, cur)
    <3>1. OwnerOf(id) <= cur.sec
      BY <1>1, <2>1, <2>2, BeforeNext
    <3>2. OwnerOf(id) = cur.sec => id[1] < cur.rel
      BY <1>1, <2>1
    <3> QED
      BY <1>1, <3>1, <3>2, CursorFields DEF LinkBefore, CollectBefore
  <2> QED
    BY <1>2, <2>1, <2>2
<1>5. CASE RelSectionDone
  <2>1. /\ pc = "link" /\ pc' = "link" /\ UNCHANGED <<patched, imports>>
        /\ cur' = NextRelSection
        /\ Loadable(cur.sec) /\ cur.rel < file.n /\ cur.sec < file.n
        /\ ~ (Sec[cur.rel].info = cur.sec /\ cur.ent <= Len(Sec[cur.rel].rel))
    BY <1>5 DEF RelSectionDone, LinkingEntry, Linking, linkVars, importVars
  <2>2. ASSUME NEW id \in Internal, LinkBefore(id, cur')
        PROVE  LinkBefore(id, cur)
    <3>1. OwnerOf(id) < cur.sec \/ (OwnerOf(id) = cur.sec /\ id[1] <= cur.rel)
      BY <1>1, <2>1, <2>2, BeforeNext
    <3>2. CASE OwnerOf(id) = cur.sec /\ id[1] = cur.rel
      <4>1. ~ (cur.ent <= Len(Sec[id[1]].rel))
        BY <2>1, <3>2 DEF OwnerOf
      <4>2. Sec[id[1]].rel \in Seq(Relocs)
        <5>1. id[1] \in SecIndex /\ Sec[id[1]] \in Sections
          BY CursorFields, ToApplyEntry, FileTyped
        <5> QED
          BY <5>1 DEF Sections
      <4>3. id[2] < cur.ent
        BY <1>1, <4>1, <4>2, CursorFields
      <4> QED
        BY <3>2, <4>3 DEF LinkBefore, CollectBefore
    <3>3. CASE ~ (OwnerOf(id) = cur.sec /\ id[1] = cur.rel)
      <4>1. OwnerOf(id) < cur.sec \/ (OwnerOf(id) = cur.sec /\ id[1] < cur.rel)
        BY <1>1, <3>1, <3>3, CursorFields
      <4> QED
        BY <4>1 DEF LinkBefore, CollectBefore
    <3> QED
      BY <3>2, <3>3
  <2> QED
    BY <1>2, <2>1, <2>2
<1>6. CASE LinkSkipImport
  <2>1. /\ pc = "link" /\ pc' = "link" /\ UNCHANGED <<patched, imports>>
        /\ cur' = NextEntry
        /\ IsImport(Entry.sym)
    BY <1>6 DEF LinkSkipImport, LinkingEntry, Linking, linkVars, importVars
  <2>2. <<cur.rel, cur.ent>> \notin Internal
    BY <2>1 DEF RelocOf, Entry
  <2>3. \A id \in Internal : LinkBefore(id, cur') => LinkBefore(id, cur)
    BY <1>1, <2>1, <2>2, BeforeNext
  <2> QED
    BY <1>2, <2>1, <2>3
<1>7. CASE LinkEntry
  <2> DEFINE e == <<cur.rel, cur.ent>>
  <2>1. PICK ok \in BOOLEAN :
              /\ CallEffect(e, FALSE, ok)
              /\ IF ok THEN pc' = "link" /\ cur' = NextEntry ELSE pc' = "failed"
              /\ pc = "link"
              /\ UNCHANGED <<file, imports>>
    BY <1>7, LinkEntryEffect
  <2>2. /\ PatchedIds \subseteq PatchedIds'
        /\ ok /\ Writing(RelocOf(e)) => e \in PatchedIds'
    <3>1. CallEffect(e, FALSE, ok)
      BY <2>1
    <3> HIDE DEF e
    <3> QED
      BY <3>1, EffectOnPatches
  <2>3. ASSUME ok, NEW id \in Internal, LinkBefore(id, cur')
        PROVE  id \in PatchedIds'
    <3>1. LinkBefore(id, cur) \/ id = e
      BY <1>1, <2>1, <2>3, BeforeNext
    <3>2. Writing(RelocOf(id))
      BY CursorFields, ToApplyEntry
    <3> QED
      BY <2>1, <2>2, <2>3, <3>1, <3>2 DEF AllInv
  <2> QED
    BY <1>0, <2>1, <2>3 DEF AllInv, Late
<1>8. CASE AllLinked
  <2>1. /\ pc = "link" /\ pc' = "collect" /\ UNCHANGED <<patched, imports>>
        /\ cur.sec = file.n /\ cur' = Start
    BY <1>8 DEF AllLinked, linkVars, importVars
  <2>2. \A id \in Internal : LinkBefore(id, cur)
    BY <1>1, <2>1 DEF LinkBefore
  <2>3. \A id \in Internal : id \in PatchedIds
    BY <2>1, <2>2 DEF AllInv
  <2>4. \A id \in ToApply : ~ CollectBefore(id, Start)
    BY CursorFields, ToApplyEntry, BeforeNext
  <2> QED
    BY <1>0, <2>1, <2>3, <2>4, QuietOnce DEF AllInv, Late
<1> QED
  BY <1>3, <1>4, <1>5, <1>6, <1>7, <1>8 DEF LinkPass

\* getImportRelocationData leaves no import of a tidy file out.
LEMMA CollectPassAll ==
    ASSUME TypeOK, TracedInv, AllInv, CollectPass, UNCHANGED file, Tidy
    PROVE  AllInv'
<1>0. /\ \A id : RelocOf(id)' = RelocOf(id)
      /\ \A id : CollectBefore(id, cur)' <=> CollectBefore(id, cur')
      /\ ToApply' = ToApply
  BY EntriesKept
<1> DEFINE External == {id \in ToApply : IsImport(RelocOf(id).sym)}
<1>1. ASSUME NEW id \in External
      PROVE  /\ id \in RelocIds /\ OwnerOf(id) \in SecIndex
             /\ id[1] \in Nat /\ id[2] \in Nat /\ id[1] < file.n
             /\ id[1] \in SecIndex
             /\ id[2] <= Len(Sec[id[1]].rel) /\ Len(Sec[id[1]].rel) \in Nat
             /\ Sec[id[1]].type = "RELA"
  <2>1. /\ id \in RelocIds /\ IsEntry(id) /\ OwnerOf(id) \in SecIndex
        /\ id[1] \in SecIndex /\ Sec[id[1]].type = "RELA"
    BY CursorFields, ToApplyEntry
  <2>2. Sec[id[1]] \in Sections
    BY <2>1, CursorFields, FileTyped
  <2>3. Len(Sec[id[1]].rel) \in Nat
    BY <2>2 DEF Sections
  <2> QED
    BY <2>1, <2>3, CursorFields DEF SecIndex, RelocIds, IsEntry
<1>2. ASSUME pc = "collect", pc' = "collect", UNCHANGED <<patched, imports>>,
             \A id \in External : CollectBefore(id, cur') => CollectBefore(id, cur)
      PROVE  AllInv'
  <2>1. \A id \in External : CollectBefore(id, cur') => id \in ListedIds
    BY <1>2 DEF AllInv
  <2> QED
    BY <1>0, <1>2, <2>1, QuietOnce DEF AllInv, Late
<1>3. CASE CollectNextSection
  <2>1. /\ pc = "collect" /\ pc' = "collect" /\ UNCHANGED <<patched, imports>>
        /\ cur' = NextRelSection
        /\ Sec[cur.rel].type = "RELA" => ~ (cur.ent <= Len(Sec[cur.rel].rel))
    BY <1>3 DEF CollectNextSection, CollectingEntry, Collecting, linkVars, importVars
  <2>2. ASSUME NEW id \in External, CollectBefore(id, cur')
        PROVE  CollectBefore(id, cur)
    <3>1. id[1] <= cur.rel
      BY <1>1, <2>1, <2>2, BeforeNext
    <3>2. id[1] = cur.rel => id[2] < cur.ent
      BY <1>1, <2>1, CursorFields
    <3> QED
      BY <1>1, <3>1, <3>2, CursorFields DEF CollectBefore
  <2> QED
    BY <1>2, <2>1, <2>2
<1>4. CASE CollectSkipLocal
  <2>1. /\ pc = "collect" /\ pc' = "collect" /\ UNCHANGED <<patched, imports>>
        /\ cur' = NextEntry
        /\ ~ IsImport(Entry.sym)
    BY <1>4 DEF CollectSkipLocal, CollectingEntry, Collecting, linkVars, importVars
  <2>2. <<cur.rel, cur.ent>> \notin External
    BY <2>1 DEF RelocOf, Entry
  <2>3. \A id \in External : CollectBefore(id, cur') => CollectBefore(id, cur)
    BY <1>1, <2>1, <2>2, BeforeNext
  <2> QED
    BY <1>2, <2>1, <2>3
<1>5. CASE CollectBreak
  <2>1. /\ cur.rel < file.n /\ Sec[cur.rel].type = "RELA"
        /\ cur.ent <= Len(Sec[cur.rel].rel)
        /\ IsImport(Entry.sym) /\ ~ ImportInfo(Entry.sym).ok
    BY <1>5 DEF CollectBreak, CollectingEntry, Collecting
  <2>2. cur.rel \in SecIndex
    BY <2>1, CursorFields DEF SecIndex
  <2>3. Sec[cur.rel] \in Sections
    BY <2>2, CursorFields, FileTyped
  <2>4. Len(Sec[cur.rel].rel) \in Nat
    BY <2>3 DEF Sections
  <2>5. cur.ent \in 1 .. Len(Sec[cur.rel].rel)
    BY <2>1, <2>4, CursorFields
  <2>6. TidyReloc(Sec[cur.rel].info, Entry)
    BY <2>1, <2>2, <2>5 DEF Tidy, TidyRelocs, Entry
  <2> QED
    BY <2>1, <2>6 DEF TidyReloc
<1>6. CASE CollectImport
  <2> DEFINE e == <<cur.rel, cur.ent>>
  <2>1. PICK m : imports' = Append(imports, m) /\ m.id = e
    BY <1>6, CollectTraced
  <2>2. /\ pc = "collect" /\ pc' = "collect" /\ cur' = NextEntry
        /\ patched' = patched
    BY <1>6 DEF CollectImport, CollectingEntry, Collecting, linkVars
  <2>3. ListedIds' = ListedIds \cup {e}
    BY <2>1, ListedNext
  <2>4. PatchedIds' = PatchedIds
    BY <2>2 DEF PatchedIds, Patched
  <2>5. \A id \in External : CollectBefore(id, cur') => id \in ListedIds'
    BY <1>1, <2>2, <2>3, BeforeNext DEF AllInv
  <2> QED
    BY <1>0, <2>2, <2>4, <2>5 DEF AllInv, Late
<1>7. CASE LoadDone
  <2>1. /\ pc = "collect" /\ pc' = "reloc" /\ UNCHANGED <<patched, imports>>
        /\ cur.rel = file.n /\ cur' = Start
    BY <1>7 DEF LoadDone, importVars
  <2>2. \A id \in External : CollectBefore(id, cur)
    BY <1>1, <2>1 DEF CollectBefore
  <2>3. \A id \in External : id \in ListedIds
    BY <2>1, <2>2 DEF AllInv
  <2>4. cur'.ent = 1
    BY <2>1, CursorFields
  <2> QED
    BY <1>0, <2>1, <2>3, <2>4, QuietOnce DEF AllInv, Late
<1> QED
  BY <1>3, <1>4, <1>5, <1>6, <1>7 DEF CollectPass

\* doRelocation leaves nothing of the list out.
LEMMA ImportPassAll ==
    ASSUME TypeOK, TracedInv, AllInv, ImportPass, UNCHANGED file, Tidy
    PROVE  AllInv'
<1>0. /\ \A id : RelocOf(id)' = RelocOf(id)
      /\ ToApply' = ToApply
  BY EntriesKept
<1>1. CASE ResolveImport
  <2> DEFINE e == imports[cur.ent].id
  <2>1. PICK ok \in BOOLEAN :
              /\ CallEffect(e, TRUE, ok)
              /\ IF ok THEN pc' = "reloc" /\ cur' = NextEntry ELSE pc' = "fatal"
              /\ cur.ent \in 1 .. Len(imports)
              /\ pc = "reloc"
              /\ UNCHANGED <<file, imports>>
    BY <1>1, ResolveEffect
  <2>2. /\ PatchedIds \subseteq PatchedIds'
        /\ ok /\ Writing(RelocOf(e)) => e \in PatchedIds'
    <3>1. CallEffect(e, TRUE, ok)
      BY <2>1
    <3> HIDE DEF e
    <3> QED
      BY <3>1, EffectOnPatches
  <2>3. ListedIds' = ListedIds
    BY <2>1 DEF ListedIds
  <2>4. \A id \in ToApply : Writing(RelocOf(id))
    BY CursorFields, ToApplyEntry
  <2>5. ASSUME ok, NEW k \in 1 .. Len(imports), k < cur'.ent
        PROVE  ~ Pending(imports[k].id)'
    <3>1. k < cur.ent \/ k = cur.ent
      BY <2>1, <2>5, CursorFields
    <3>2. CASE k < cur.ent
      <4>1. ~ Pending(imports[k].id)
        BY <2>1, <3>2 DEF AllInv
      <4> QED
        BY <1>0, <2>1, <2>2, <4>1 DEF Pending
    <3>3. CASE k = cur.ent
      BY <1>0, <2>1, <2>2, <2>4, <2>5, <3>3 DEF Pending
    <3> QED
      BY <3>1, <3>2, <3>3
  <2> QED
    BY <1>0, <2>1, <2>2, <2>3, <2>5 DEF AllInv, Late
<1>2. CASE AllResolved
  <2>1. /\ pc = "reloc" /\ pc' = "clear" /\ UNCHANGED <<patched, imports>>
        /\ cur.ent > Len(imports)
    BY <1>2 DEF AllResolved, importVars
  <2>2. ASSUME NEW k \in 1 .. Len(imports)
        PROVE  ~ Pending(imports[k].id)
    <3>1. Len(imports) \in Nat
      BY DEF TypeOK
    <3>2. k < cur.ent
      BY <2>1, <3>1, CursorFields
    <3> QED
      BY <2>1, <3>2 DEF AllInv
  <2> QED
    BY <1>0, <2>1, <2>2, QuietOnce DEF AllInv, Late, Pending
<1> QED
  BY <1>1, <1>2 DEF ImportPass

\* And nothing that was applied is undone.
LEMMA StepAll == ASSUME TypeOK, TracedInv, AllInv, [Next]_vars PROVE AllInv'
<1> SUFFICES ASSUME Tidy' PROVE AllInv'
  BY DEF AllInv
<1>1. UNCHANGED file /\ Tidy
  BY LinkFrame, FileKept
<1>2. CASE Aside
  <2>1. /\ \A id : /\ LinkBefore(id, cur)' <=> LinkBefore(id, cur')
                   /\ CollectBefore(id, cur)' <=> CollectBefore(id, cur')
                   /\ RelocOf(id)' = RelocOf(id)
        /\ ToApply' = ToApply
    BY <1>1, EntriesKept
  <2>2. /\ PatchedIds' = PatchedIds /\ ListedIds' = ListedIds
        /\ imports' = imports
        /\ \A id : Pending(id)' <=> Pending(id)
    BY <1>2, <2>1, QuietOnce DEF Aside, Pending
  <2>3. CASE UNCHANGED <<pc, cur>>
    BY <1>1, <2>1, <2>2, <2>3 DEF AllInv
  <2>4. CASE pc \in Late /\ pc' \in Late
    BY <1>1, <2>1, <2>2, <2>4 DEF AllInv, Late
  <2>5. CASE pc' \in {"size", "place", "failed", "fatal", "overrun"}
    BY <2>5 DEF AllInv, Late
  <2> QED
    BY <1>2, <2>3, <2>4, <2>5 DEF Aside
<1> QED
  BY <1>1, <1>2, PassFrame, LinkPassAll, CollectPassAll, ImportPassAll

\* What was applied is what was to be applied.
LEMMA AllApplied ==
    ASSUME LoadInv, OnceInv, AllInv
    PROVE  EachRelocationOnce
<1>1. TypeOK /\ TracedInv /\ file \in Files
  BY DEF LoadInv, ArenaInv, TypeOK
<1>2. Distinct(patched)
  BY DEF OnceInv
<1>3. ASSUME Tidy, pc = "entered"
      PROVE  PatchedIds = ToApply
  <2>1. ASSUME NEW id \in PatchedIds
        PROVE  id \in ToApply
    <3>1. PICK p \in Patched : p.id = id
      BY DEF PatchedIds
    <3>2. ForPass(id, p.import) /\ Writing(RelocOf(id))
      BY <1>1, <3>1, KnownEntries
    <3>3. /\ id[1] \in SecIndex
          /\ id[2] \in 1 .. Len(Sec[id[1]].rel)
          /\ Sec[id[1]].type = "RELA"
      BY <1>1, <1>3, <3>2, TidyEntry
    <3>4. id = <<id[1], id[2]>>
      BY <3>2 DEF ForPass, IsEntry, RelocIds
    <3> QED
      BY <3>2, <3>3, <3>4 DEF ToApply
  <2>2. ASSUME NEW id \in ToApply
        PROVE  id \in PatchedIds
    <3>1. CASE ~ IsImport(RelocOf(id).sym)
      BY <1>3, <3>1 DEF AllInv, Late
    <3>2. CASE IsImport(RelocOf(id).sym)
      <4>1. id \in ListedIds
        BY <1>3, <3>2 DEF AllInv, Late
      <4>2. \A k \in 1 .. Len(imports) : ~ Pending(imports[k].id)
        BY <1>3 DEF AllInv, Late
      <4> QED
        BY <2>2, <4>1, <4>2 DEF ListedIds, Pending
    <3> QED
      BY <3>1, <3>2
  <2> QED
    BY <2>1, <2>2
<1> QED
  BY <1>2, <1>3 DEF EachRelocationOnce, Distinct, PatchedIds

(***************************************************************************)
(* A tidy module is entered with each of its relocations applied once: the *)
(* two passes share them out, though each finds its own in its own way.    *)
(***************************************************************************)
THEOREM LoaderRelocatesOnce == Spec => []EachRelocationOnce
<1>1. Init => OnceInv /\ AllInv
  BY DEF Init, OnceInv, AllInv, Distinct, Late
<1>2. LoadInv => TypeOK /\ TracedInv
  BY DEF LoadInv, ArenaInv
<1>3. LoadInv /\ OnceInv /\ AllInv /\ [Next]_vars => OnceInv' /\ AllInv'
  BY <1>2, StepOnce, StepAll
<1> QED
  BY <1>1, <1>3, AllApplied, LoadInvAlways, PTL DEF Spec
=============================================================================
