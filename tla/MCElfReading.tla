---------------------------- MODULE MCElfReading ----------------------------
(***************************************************************************)
(* What reads a file through elfio, for TLC: loading it (ElfReader), and,  *)
(* of a file that was loaded, finding a symbol (Lookup), the notes of a    *)
(* section (Notes) and its attributes (Modinfo).  The accessors share no   *)
(* variable: a behaviour is about one of them, those of the others stay    *)
(* Unused.                                                                 *)
(***************************************************************************)
EXTENDS MCElfReader

VARIABLES
    part,       \* "reader", "lookup", "notes" or "modinfo"
    lNames, lValues, lHash, lKey, lPc, lY, lStr, lGot, lRet,
    nData, nStarts, nPc, nCurrent, nBefore, nWhole, nAdded,
    mData, mContent, mPc, mI, mKept, mClosed

lookup == <<lNames, lValues, lHash, lKey, lPc, lY, lStr, lGot, lRet>>
notes == <<nData, nStarts, nPc, nCurrent, nBefore, nWhole, nAdded>>
modinfo == <<mData, mContent, mPc, mI, mKept, mClosed>>
all == <<part, vars, lookup, notes, modinfo>>

LookupValues == INSTANCE MCElfLookup
Lookup == INSTANCE ElfLookup WITH
    Names <- LookupValues!Letters, Unreadable <- "?", ElfHash <- LookupValues!Hashes,
    GnuHash <- LookupValues!Hashes, MaskBits <- 4, Cases <- LookupValues!SomeCases,
    names <- lNames, values <- lValues, hash <- lHash, key <- lKey, pc <- lPc, y <- lY,
    str <- lStr, got <- lGot, ret <- lRet

NotesValues == INSTANCE MCElfNotes
Notes == INSTANCE ElfNotes WITH
    Sections <- NotesValues!SomeSections, Notes <- NotesValues!SomeNotes, MaxSize <- 68,
    data <- nData, starts <- nStarts, pc <- nPc, current <- nCurrent, before <- nBefore,
    whole <- nWhole, added <- nAdded

ModinfoValues == INSTANCE MCElfModinfo
Modinfo == INSTANCE ElfModinfo WITH
    Letters <- {"a", "b", "="}, NUL <- "0", EQ <- "=", Sections <- ModinfoValues!SomeSections,
    Attributes <- ModinfoValues!SomeAttributes, MaxSize <- 11,
    data <- mData, content <- mContent, pc <- mPc, i <- mI, kept <- mKept, closed <- mClosed

ASSUME PartsAssumption ==
    Lookup!LookupAssumption /\ Notes!NotesAssumption /\ Modinfo!ModinfoAssumption

Unused == "unused"
LookupUnused ==
    /\ lNames = Unused /\ lValues = Unused /\ lHash = Unused /\ lKey = Unused
    /\ lPc = Unused /\ lY = Unused /\ lStr = Unused /\ lGot = Unused /\ lRet = Unused
NotesUnused ==
    /\ nData = Unused /\ nStarts = Unused /\ nPc = Unused /\ nCurrent = Unused
    /\ nBefore = Unused /\ nWhole = Unused /\ nAdded = Unused
ModinfoUnused ==
    /\ mData = Unused /\ mContent = Unused /\ mPc = Unused /\ mI = Unused
    /\ mKept = Unused /\ mClosed = Unused

ReadingInit ==
    /\ part \in {"reader", "lookup", "notes", "modinfo"}
    /\ Init /\ (part # "reader" => image = Rpx)
    /\ IF part = "lookup" THEN Lookup!Init ELSE LookupUnused
    /\ IF part = "notes" THEN Notes!Init ELSE NotesUnused
    /\ IF part = "modinfo" THEN Modinfo!Init ELSE ModinfoUnused

ReaderStep  == part = "reader" /\ Step /\ UNCHANGED <<part, lookup, notes, modinfo>>
LookupStep  == part = "lookup" /\ Lookup!Step /\ UNCHANGED <<part, vars, notes, modinfo>>
NotesStep   == part = "notes" /\ Notes!Scanning /\ UNCHANGED <<part, vars, lookup, modinfo>>
ModinfoStep == part = "modinfo" /\ Modinfo!Scanning /\ UNCHANGED <<part, vars, lookup, notes>>

ReadingNext ==
    \/ ReaderStep \/ LookupStep \/ NotesStep \/ ModinfoStep
    \/ part = "reader" /\ Done /\ UNCHANGED <<part, lookup, notes, modinfo>>
    \/ part = "lookup" /\ Lookup!Done /\ UNCHANGED <<part, vars, notes, modinfo>>
    \/ /\ part = "notes" /\ (Notes!AddNote \/ Notes!Open)
       /\ UNCHANGED <<part, vars, lookup, modinfo>>
    \/ /\ part = "modinfo" /\ (Modinfo!AddAttribute \/ Modinfo!Open)
       /\ UNCHANGED <<part, vars, lookup, notes>>

ReadingSpec ==
    /\ ReadingInit /\ [][ReadingNext]_all
    /\ WF_all(ReaderStep) /\ WF_all(LookupStep) /\ WF_all(NotesStep) /\ WF_all(ModinfoStep)
-----------------------------------------------------------------------------
(***************************************************************************)
(* What is read is there.  load() copies from outside the file, or writes  *)
(* outside a block, only for the files NothingOutside names: 64 bit places *)
(* near the wrap, segments that do not lie in the file, and a declared     *)
(* length of the greatest word.  A section's data covers its size.  The    *)
(* search stays within the buckets, and within the chains as long as the   *)
(* chain it follows ends in them.  Notes and attributes lie in their       *)
(* section.                                                                *)
(***************************************************************************)
ReadingStaysInside ==
    /\ part = "reader" => TypeOK /\ NothingOutside /\ DataCovers
    /\ part = "lookup" => Lookup!TypeOK /\ Lookup!StaysInChains
    /\ part = "notes" => Notes!TypeOK /\ Notes!NotesInside
    /\ part = "modinfo" => Modinfo!TypeOK

(***************************************************************************)
(* A section that cannot be read leaves the others as they should be, and  *)
(* no section is in two segments that lie apart.                           *)
(***************************************************************************)
SectionsStandAlone == DamageStaysLocal /\ MembersOnce

(***************************************************************************)
(* When get_symbol returns it has found a symbol if and only if there is   *)
(* one, also through a hash section that does not fit the symbols (but has *)
(* buckets), and through the hash section alone when it fits.              *)
(***************************************************************************)
LookupsAgree == part = "lookup" => Lookup!FindsWhatIsThere /\ Lookup!HashSuffices

(***************************************************************************)
(* What was added to a section is read as it was given by the accessor     *)
(* that added it; and the next one finds it with all that was there        *)
(* before, if the notes that were there parse to the section's end, and    *)
(* the last attribute that was there has its 0.  A note behind one that    *)
(* does not parse is not found again, so of that nothing is promised.      *)
(***************************************************************************)
RecordsReadBack ==
    /\ part = "notes" => Notes!ReadsBack /\ Notes!FoundAgain
    /\ part = "modinfo" => Modinfo!ReadsTheSame /\ Modinfo!NothingSkipped

\* load() returns or crashes, a search along a chain that ends comes to an end,
\* and a scan is always over again.
ReadingEnds ==
    /\ <>(part = "reader" => Ended)
    /\ <>(part = "lookup" /\ Lookup!ChainEnds => lPc = "done")
    /\ []<>(part = "notes" => nPc = "ready")
    /\ []<>(part = "modinfo" => mPc = "ready")
=============================================================================
