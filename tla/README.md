# CustomRPXLoader in TLA+

A verification project for the loader in `src/`: a program without an operating system
around it that patches the Wii U's kernel, loads `payload.rpx` from the SD card below
0x00FD0000, links it and jumps into it, or gives up and hands the console back. Paths are
relative to the repository.

## The system

| part | code | state it keeps | how it meets the others |
|---|---|---|---|
| boot sequence | `src/main.cpp` `_start`, `do_start`; `src/crt.c`; `src/utils/logger.c` | runtime libraries, log channels, return value | calls everything else in order; hands over to the module or returns -1 |
| ProcUI loop | `src/main.cpp` `CheckRunning` | who owns the foreground | messages of the OS, only after a failed load |
| OS function pointers | `src/dynamic.c`, `src/imports.h`, `src/import_stub.S` | one pointer per OS function | every later OS call goes through one |
| kernel setup | `src/kernel.cpp`, `src/kernel_*.S`, `src/link.ld` | system call tables, patched kernel code, caches | other cores run the patched code meanwhile; `revertMainHook` uses the copy system call it installs |
| file loading | `src/utils/FileUtils.cpp`, `OnLeavingScope.h` | buffer, descriptor | `ModuleDataFactory::load` owns the buffer it returns |
| module loader | `src/module/*`, `src/main.cpp` `doRelocation` | destinations, import list, acquired RPLs | fills the arena, asks the OS for exports |
| relocations, trampolines | `src/ElfUtils.cpp` | trampoline table between the loader and the arena | shared by the two callers of `elfLinkOne`; survives the load |
| ELF reader | `src/elfio/elfio.hpp`, `elfio_header`, `_section`, `_segment`, `_strings`, `_symbols`, `_relocation` | sections, segments, the data of each | `ModuleDataFactory::load` calls `load` and reads sections, symbols and relocations |
| section inflation | `src/utils/wiiu_zlib.hpp` | none | `section_impl::load` calls it for compressed sections |
| ELF record accessors | `src/elfio/elfio_dynamic.hpp`, `_note`, `_modinfo`, `_versym`, `_array` | positions or counts of records | stand on the sections; the loader calls none of them |
| string tools | `src/utils/StringTools.cpp` | none | `strfmt` for one message |
| dump and version of elfio | `elfio_dump.hpp`, `elfio_version.hpp` | none | not called |

One thread runs all of it. What makes it hard to get right is not locking but: the caches
(the CPU does not keep instruction and data caches coherent, and other cores execute what
is being patched), 32-bit address arithmetic over values the file supplies, two passes and
two address computations that must agree, a trampoline table that is never initialised and
outlives the load, reads that come back short, libraries that do not open, and an OS that
takes the foreground whenever it likes. `PROJECT.json` lists each hazard at its line with
the properties that watch it.

## Modules

| module | models |
|---|---|
| `Machine` | unsigned words that wrap, signed readings, the two alignment masks |
| `ModuleLoader` | `ModuleDataFactory::load`, `linkSection`, `getImportRelocationData`, `ElfUtils::elfLinkOne`, `doRelocation` and the end of `do_start` |
| `MCModuleLoader` | the files, exports and bounds TLC uses for it |
| `ModuleLoaderProofs` | its theorems: types, places and acquired RPLs; what is linked, branches, and what the module is entered with |
| `RelocWrites`, `MCRelocWrites` | the bits `elfLinkOne` stores |
| `RelocWritesProofs` | its theorems: the halves of an address and where branches go |
| `KernelSetup` | `doKernelSetup`, `doKernelSetup2`, `revertMainHook` and the caches |
| `KernelPatches` | `KernelPatches` and `KernelPatchesFinal`, instruction by instruction |
| `KernelHook` | the stub and the hook function, on the core that runs into them |
| `KernelCode`, `MCKernelSetup` | the three together, and their addresses for TLC |
| `KernelSetupProofs` | the theorems of all three |
| `FileLoad` | `LoadFileToMem` and its caller's scope |
| `FileLoadSpec` | what that caller relies on; `FileLoad` implements it |
| `FileLoadProofs` | the theorems of `FileLoad`, the refinement among them |
| `FunctionPointers`, `MCFunctionPointers` | `InitFunctionPointers` |
| `FunctionPointersProofs` | its theorems |
| `Boot` | `_start` and `do_start` as a whole, with the ProcUI loop and the OS |
| `BootProofs` | its theorems |
| `ElfImage` | an ELF file as the reader looks at it, and what its sections hold |
| `ElfReaderSpec` | what `ModuleDataFactory::load` relies on when a file was loaded |
| `ElfReader`, `MCElfReader` | `elfio::load` with inflation; implements `ElfReaderSpec` |
| `ElfLookup`, `MCElfLookup` | `get_symbol` by name and by value, through hash sections |
| `ElfNotes`, `MCElfNotes` | the notes of a section |
| `ElfModinfo`, `MCElfModinfo` | the attributes of a section |
| `MCElfReading` | the readers above together, for TLC |
| `ByteString` | what the accessors take a section's data for |
| `SectionBuffer` | `set_data`, `insert_data`, `append_data`; implements `ByteString` |
| `ElfTables` | string, symbol and relocation tables as they are built and rearranged |
| `ElfTablesProofs` | its theorems |
| `ElfDynamic`, `MCElfDynamic` | `.dynamic` and the version requirements it counts |
| `StringTools`, `MCStringTools` | the functions that take a string apart or change it |
| `Editing`, `MCElfEditing` | what changes data in memory together |
| `EditingProofs` | its theorems, the refinement of `ByteString` among them |

Definitions have the names of the code where there is one. A definition `X_Suffix` is `X`
with a plausible bug in it; no action uses it, it serves to show that the properties can
fail. `PROJECT.json` maps each definition to the lines it stands for.

### ModuleLoader

The file is a constant record: sections in order, each with type, flags, link address,
size, `sh_info` and, for relocation sections, its entries with their symbols. Names and
contents are kept only where the code looks at them (`.bss`, `.sbss`,
`.wut_load_bounds`). Every address the code computes is there, with wrap-around.
One iteration of a loop is one action; `cur` holds the loop counters and `pc` the loop.
The sizes are any words, so the sums the code makes of them wrap: the total of the sizes,
which decides where the module goes, and `destination + sectionSize`, which decides
whether a section fits. A section whose end wraps passes that check; the copy, or the
clearing, then runs to the end of the address space. The model follows it up to there
(`Overrun`, `pc = "overrun"`) and claims nothing of such a section but where it starts;
`ArenaSafe` confines all others.
`linkSection` looks for its entries by `sh_info` alone, so the sections it visits may be
of any type; the "entries" elfio then finds in a symbol table are symbols that cannot be
read (`sym.ok`). `OSFatal` does not return: `pc = "fatal"`. `return {}` is
`pc = "failed"`.

`slots` is the trampoline table. It starts with any contents, because nothing initialises
it. `patched` and `at` are history: what was written and where sections went.
`dirty` is what has been stored and not flushed.

The signed subtraction of `elfLinkOne` can overflow for symbols above 0x80000000; both
results are out of reach of every branch and lead the code the same way, so `Distance`
is the plain difference.

A file is *tidy* (`Tidy`) when it is laid out the way the toolchain lays RPX files out:
one text section at 0x02000000 in front of all data sections, sections that do not
overlap and are not so large that a sum wraps (`SizesFit`), relocations within the section they are for, symbols within their section, RPL
names that parse. The code checks none of this. Properties about agreement
(`LinkedWherePlaced`, `SectionsApart`, `EachRelocationOnce`, `EntersCoherently`, and that
a branch inside the module takes no trampoline, `InternalBranchesDirect`) are about tidy
files; `TypeOK`, `ArenaSafe`, `RplsPinnedOnce`, `BranchesLand` and `Terminates` are about
all. Proving `BranchesLand` made its limits plain, and it states them: the addend is also
added to the address of the trampoline, so it has to be 0; and `elfLinkOne` fills a slot
before it finds out that the branch cannot be written, so it is about loads that have not
failed.

### KernelSetup

Memory by cache line, and of each line only who wrote its instructions. Stores go to the
data cache; `CacheOp` performs the code's `dcbf` and `icbi` one by one; `Hardware` evicts
modified lines, fetches lines that are executed and drops lines, at any time. The stub at
0xFFF1D624 takes ten instructions, hence two lines; the addresses in the cfg files are
those of the code less 0xFFE00000 for the kernel's own, which keeps their place in a line.
`icbi` reaches all cores, so one instruction cache stands for three.

What the two assembler functions do between their first and last instruction is one
step here and the subject of the next two modules.

### KernelPatches

The instructions of both functions in their order, with DBAT0 as the window through which
the kernel's code is written: a store, flush or invalidation that the window does not map
is what `PatchesLand` rules out, along with a window that is left behind and a nop that
is not visible in the end. One line is watched, any of them (lines do not disturb each
other), and holds the set of words patched in it. The two halves of DBAT0 are written
without an access in between and are one step; addresses are those of the code, less
0xFFE00000, so that TLC can hold them.

### KernelHook

Values by where they came from: a word of the context, a BAT value, the address behind
the stub. The stub destroys r7 and the link register and enters the hook; the hook makes
up for the ten instructions the stub replaced. `HookTransparent` compares what the kernel
finds behind the stub with what its own instructions would have left: r3, r5 to r11, the
segment register and the return address. CTR is not among them: the hook returns through
it (`src/kernel_asm.S:5-6`), so it is changed, and whether the kernel still needs it there
cannot be seen from the repository. The kernel's
function is called again and again, with the BATs the core was left with. The core finds
the whole stub or none of it; the window in between is a hazard no property covers, since
nothing in the repository says what other cores do meanwhile.

### FileLoad

A byte is identified by its offset. `read` returns any positive number of bytes up to
what it was asked for, stops anywhere (error), or meets the end of the file before
`st_size`. `st_size` is any word. `ROUNDUP` of the largest wraps to 0, `memalign` then
gives a block of no bytes and the first that arrive go behind it: `Overrun`, where the
model stops. `ReadsInPlace` says that nothing else leads there. `FileLoadSpec` says that the caller gets each byte in its place or a failure
that leaves nothing open or allocated; the refinement mapping takes `Outcome` from the
return value and `holding` from descriptor and buffer.

### Boot

`_start` with the load, the kernel setup and the function pointers as single steps.
`doProcUI` is the test of `argv[0]`; `linked` the weak symbol in `crt.c`. The OS asks for
the foreground, gives it back, or makes the program exit once it has it.

### FunctionPointers

The loop over `imports.h`. `handle` keeps its value, or becomes none, when a library
cannot be opened. Whether a failed lookup reaches `OSFatal` depends on the sign of
`OSDynLoad_Error`, an OS type that is not in the repository: `notices` is either
(the comment at `src/dynamic.c:47` suggests that it is not noticed). `ImportsAssumption`
is what `imports.h` is: no function twice, and those the code refers to by name
(`OSFatal`, `exit`, `__rplwrap_exit` and the three of `OSDynLoad`) under coreinit, which
comes first.

### RelocWrites

Instructions are sets of bits, so the code's masks are sets. TLC's integers end at
2^31, so half words have 2^14 values; branches have their real widths. Where a branch
goes is what the CPU makes of its bits: `Weight` adds them up, the top one negative.

### ElfImage, ElfReader

A file is its headers and, of each section, where its bytes are, what zlib makes of them
and where the last zero byte is. The contents of a buffer are `[kind, at, len, room]`, so a
section with another's bytes shows. Any allocation may fail (`new (nothrow)` in the
code): where the code uses the pointer all the same, and where it reads the declared size
of a compressed section that has no four bytes, `pc = "crashed"` stands for what follows.
32-bit sizes are scaled to `WordMax` = 1023 and 64-bit ones to `XwordMax` = 4095.

Where the code copies from outside the file, or writes outside a block, the model stops at
`pc = "outside"`. It gets there as the code does: the offset of a header is signed and its
sum with the header's size may be negative (`HeaderPasses`); a section's offset and size may
wrap in an ELF64 file (`DataPasses`); of a segment only the size is compared with the file's
(`SegmentFromOutside`); one byte is added to the declared size of a stream in 32 bits, so the
greatest word allocates nothing (`NoRoom`). `NothingOutside` says that there are no other
ways; that load() stays inside for every file is not so and is not claimed. A header or a
section in a 32-bit file cannot get there.

`ElfReaderSpec` promises the sections of a well-formed file in their order,
each with its decoded bytes and its name; a section that met a failed allocation may have
none or still be compressed, which the code reports as success. The refinement mapping is
`Outcome` (of `pc`) and `View` (of `sections`).

### SectionBuffer

`data_size` is the room for insertions: it is the size of the block after `set_data`, the
compressed size after an inflation, twice the size of the block after a failed insertion,
and 0 for a section that could not be read, though that keeps the size of its header.
`stale` records that; while it is false nothing may be written behind the block. While it
is true the next insertion may overrun the block, or read a tail that is not there: the
model does so (`Write` without `HasRoom` sets `overrun`), and stops. Sizes
are below 2^30, more than the console has memory, so that doubling one does not wrap.
`ByteString` forgets the block: bytes that are replaced and inserted, exactly, up to the
first overrun, which it allows only while the bookkeeping is wrong. An insertion without
memory changes no byte.

### ElfTables

Symbols are known by the order they were added in and relocations by the symbol they were
meant for, so the properties see whether `arrange_local_symbols` and its callback keep
them together. Each `append_data` may fail, that of a relocation too (one per behaviour in
the runs); what it leaves behind is the subject of `SectionBuffer`. Symbol numbers
are below 2^24, as `ELF32_R_INFO` requires.

### ElfLookup

`get_symbol` in the order of the code: the hash section, then one symbol after the other.
The two hash functions are any functions; a hash section may be one for other symbols, and
its chains may be circles, lead behind it, or lack a last entry. The code checks none of
that: it goes round a circle for ever, and the model with it; behind the section the model
stops (`ChainOutside`). That a search ends, and stays in the chains, is claimed of chains
that end in the section (`ChainEnds`) alone; what it returns, if it returns, of all. A hash
section has as many buckets as it says, and at least one. The name of the last step
is a variable, because the code compares it even if the next name could not be read.

### ElfNotes, ElfDynamic, ElfModinfo

Each accessor scans its section when it is opened (or, for `.dynamic`, counts it when it
is first asked) and keeps the result while entries are added. A second accessor may be
opened at any time. That the next accessor finds an added note is claimed where the notes
in front of it parse to the end of the section; behind one that does not parse it finds
none. The preconditions the code leaves to its caller are assumptions of
the modules: a note's description comes with a pointer if it has a size, an index is less
than the number of notes, appending to the section succeeds (its failure is in
`SectionBuffer`), a field has no `=` and no NUL. `ElfModinfo` reads the NUL that
`section_impl::load` puts behind the data (`DataCovers` of `ElfReader`).

### StringTools

Each function is its loop over characters; what it returns is compared with a definition
that has no loop. `sizeof(TokCopy)` is 4 instead of 512 in the runs. `stringSplit` and
`str_replace` are called with splitters that are not empty, and nothing is called with a
null pointer.

### Composition

`KernelCode`, `MCElfReading` and `Editing` put several modules in one run. The modules
share no variable, so a behaviour is about one of them (`side` or `part`, chosen in the
initial state) and the variables of the others keep one value. What one module relies on
in another is a property of the other: `KernelHook` on `InterimStubVisible` and
`PageReadyBeforeBranch`, `KernelSetup` on `PatchesLand`, `ElfTables` on `HoldsTheBytes`
(all four are proved), `ElfModinfo` on `DataCovers`, `ModuleLoader` on `LoadsWhole`.

## Runs

| run | result | shows | bounds, and why they are enough |
|---|---|---|---|
| `load` | passes | placement, linking, imports, coherence, termination of the loader | files with up to six sections and a few relocations, alone and combined; each kind of relocation, near and far, import and local; odd files with one deviation each; two trampolines, so that the table can be full and a slot reused; sizes whose sums wrap; a 2^30 word, the code's region addresses scaled with it |
| `two_far_imports` | violated | finding 1 | one file with two imports out of reach |
| `kernel_setup` | passes | patches are visible when the code says so, with any of the five tables; every access of the patch functions is mapped and the BAT given back; the stub is transparent to the kernel | the code's addresses; four lines for the setup, every patched line in turn for the patches; all contents of the BATs before |
| `final_patch` | violated | finding 2 | the same |
| `interim_hook` | violated | finding 3 | the same |
| `file_load` | passes | all or nothing, in place, returns or overruns its buffer | block 3, alignment 4, a word of 2^17: files of zero, one, several blocks, a cut last block, one too large, and three at the end of the word; short reads of each length |
| `reloc_writes` | passes | halves rejoin, branches reach | both ends of each reach, borders of the low half and of the address space, its sign border among them |
| `rel14_mask` | violated | finding 4 | the same |
| `boot` | passes | nested tear-down, clean hand-over, the ProcUI loop | all combinations of the inputs |
| `elf_reading` | passes | loading leaves the file only in the ways named and yields whole sections; lookups that return find what is there; notes and attributes read back | a small RPX and files that differ from it in one respect, every allocation failing, 64-bit places around the wrap, segments that leave the file; up to three symbols, hash sections with up to two buckets, fitting or for other symbols, with every chain of two or three entries, circles and open ends included; sections with one or two notes of any small sizes, cut or huge ones, and up to three more notes; every section of four characters and up to three more attributes |
| `elf_editing` | passes | section data is a string of bytes; symbols and relocations stay linked; `.dynamic` reads back; string functions return what their names say | sections of up to five bytes, loaded, inflated or unread, and every allocation failing; four symbols and one relocation, since a swap concerns two symbols and each relocation by itself; up to six words of `.dynamic`; strings of up to five characters over three |
| `function_pointers` | passes | no pointer from the wrong library goes unnoticed | four libraries, each export missing in turn, one exported by a foreign library |

Deadlock is checked in every run; a program that has ended stutters by an explicit action.

Fairness is weak fairness of the loader's own steps: one thread, nothing it waits for,
except that ProcUI blocks in the background. The OS, the caches and the SD card owe
nothing: `ReleaseAnswered` and `ExitObeyed` (in `AnswersTheOS`) say what the loader does
once it is asked, `EndsOrWaitsForOS` that it never hangs elsewhere. In
`elf_reading` and `elf_editing` each module has it for its own steps (`ReaderStep`,
`LookupStep`, `NotesStep`, `ModinfoStep`, `TablesStep`, `DynamicStep`, `StringsStep`): the
steps inside a call. Calls themselves, a new accessor or a new addition, owe nothing, and
so `ReadingEnds` and `EditingEnds` say that a scan or a count is always over again, and
`ReadingEnds` of a search that it ends if its chain does. `kernel_setup` has no liveness
property: the code there is a straight line.

## Findings

1. `src/ElfUtils.cpp:136` marks an import's trampoline reusable when it is written; the
   comment above (102-105) says it stays pending until all relocations are done. Two imports
   out of branch range share one trampoline, and calls of the first go to the second.
   Exports of the OS are normally in range, which is why this can go unseen.
   `BranchesLand` holds as long as all far branches go to one function, without an addend.
2. `src/kernel_asm_other.S:41` flushes a line that does not contain the instruction it
   replaced. Until the hardware evicts it, cores may keep the interim branch.
3. `src/kernel_asm.S:43` branches to 0x00808000; the hook function is linked at 0x00800000.
4. `src/ElfUtils.cpp:85` clears bit 0x00400000 of a conditional branch, a bit of its
   condition that `PPC_LOW14` (`src/ElfUtils.h:54`) leaves alone.

Not stated as runs, because the text leaves room: the comment at `src/main.cpp:94` says
that ProcUI is for success only when started as safe.rpx, and the code never runs it on
success; `src/main.cpp:184` says RPLs are released on exit, which is left to another
program; the assertion in `src/link.ld:27` counts neither the trampoline table nor the
rounding behind it, so that `maximum_size` could underflow for a loader that just fits
(an assumption of `ModuleLoader`). The overruns above are not stated either: nothing in the
repository says that a file may not lead there, but for the message "Tried to overflow
buffer" at `src/module/ModuleDataFactory.cpp:121`, whose check does not see a sum that has
wrapped.

## Proofs

`ModuleLoaderProofs` proves for every file, export table, memory layout and word size that
meets the assumptions of `Machine` and `ModuleLoader`:

* `LoaderTyped`: `TypeOK` always holds. One lemma per kind of step; `LinkTyped` treats
  `elfLinkOne` for its two callers. The type invariant is inductive as it stands.
* `LoaderArenaSafe`: no section starts below the end of the trampoline table, and each whose
  end does not wrap goes between there and the end of the arena. `ArenaSafe` alone is not inductive: the check in the code compares with
  `targetAddress`, so the invariant `ArenaInv` adds that `targetAddress` is in the arena
  while sections are placed (`PlacingInArena`), which follows from the size check and the
  rounding in `ChooseTarget`.

* `LoaderSectionsApart`: from `PlacedInv`, which is three things. `PlacedInOrder` and
  `RangesRecorded` hold for all files: a section is placed behind the cursor or not at
  all, and `.bss` and `.sbss` are ranges of placed sections. `BasesFollow` and
  `PlacedByRegion` hold for tidy ones: until the text section has been placed nothing
  has, from then on `baseOffset` and `offset_data` are the end of the text, and so each
  section is where its link address says, counted from one of two bases. The advancing
  of `baseOffset` is thereby reduced to what the text section does to it, and sections
  that are apart in the file are apart in the arena (`PlacedApart`).
* `LoaderPinsOnce`: from `PinInv`. `usedRPls` is what the imports before the cursor name,
  and `refs` counts 1 for each of them; it is the first part that carries the second.

The relocations go on from there, from `LoadInv`: `PlacedInv`; `TracedInv`, that
every patch that was written and every import that was listed comes from an entry of
the file, with the address and value `elfLinkOne` computed for it (`PatchTraced`,
`ImportTraced`), and that nothing is linked before placing is over; `PlacedBeforeLinked`.

* `LoaderLinksWherePlaced`: the address a patch was traced to uses the two bases, which
  `PlacedByRegion` says is where the section went; wrapping sums cancel
  (`SymbolInPlace` and the lemmas in front of it).
* `LoaderEntersCoherently`: `DirtyInv` says that what is dirty is a patch or one of the
  cleared ranges, and what a flush takes away; that `.bss` and `.sbss` hold no patch
  follows from `LinkedWherePlaced` and `SectionsApart`.
* `LoaderBranchesArrive`: `SlotsInv` says that the slot a far branch was sent to still
  jumps where the branch wants; writing another slot over it would need a second far
  function, which is its hypothesis. Direct branches inside a tidy module follow from
  the arena being shorter than a branch's reach.
* `LoaderRelocatesOnce`: `OnceInv`, no entry behind a pass's cursor is written or listed
  again, and `AllInv`, every entry behind it was. Both order the entries as the pass
  does (`LinkBefore`, by section and then by entry, `CollectBefore`). Each has one lemma
  per pass, and needs that the link pass writes no import and the collecting pass lists
  nothing else.

All these invariants hold on the files of `load`, too: TLC was asked before they were
proved.

The assumptions: the memory layout (`LayoutAssumption`; in particular that the arena has
room at all), what elfio decodes (`FilesAssumption`: `sh_info` of relocation sections
names a section; sizes are any words), exports are words. `TypeOK` and `ArenaSafe` are proved
with sums that wrap; that none does is part of `Tidy`.

`RelocWritesProofs` proves for every even half word, and words of two of them,
`HalvesAlwaysRejoin`: whatever address or distance is split, the plain and the adjusted
high half come back whole with the low one (`PlainRejoins`, `AdjustedRejoins`). The case
TLC cannot reach with its integers, 32-bit words, is an instance. The adjusted half of an
address in the last half block wraps to 0, and the sum wraps back.

`BranchesReach`: `BranchReaches` always holds. `BranchInv` adds that nothing has been
stored before the branch is. What it comes down to is `BitsWeigh`: the bits stored of a
distance `d` in reach, added up with their weights, are `d` again. For `d + 2^n`, which is
not negative, the first `m` bits add up to the remainder by `2^m` (`BitsAddUp`), and the
top bit, which counts as negative, takes the `2^n` away. There is no induction over an
operator in this: a least `m` at which it fails would not be 0, and does not fail one
earlier (`NextBit`). `DistanceReaches` adds the distance to the branch's address and wraps,
which is where a branch across an end of the address space arrives.

`FunctionPointersProofs` proves for every `imports.h` and every set of firmwares that
`ImportsAssumption` allows `PointersAreFound` and `MissingIsReported`. `PointersInv` adds
to what they state where the loops are (`LoopsOK`); that without a handle
the first heap lookup finds nothing, so the loader does not get past it (`HeapInv`); and that
the functions in front of the cursor have been found, in their own library if no other
exports them (`FoundInv`). `Advances` says that each step of the loop adds one function
to these, and that all have had their turn when it ends.

`FileLoadProofs` proves for every set of file sizes, heap, block size, alignment and word
size that meets the assumptions of `Machine` and `FileLoad`:

* `FileTyped` and `FileReadsInPlace`: `TypeOK` and `ReadsInPlace` always hold. Neither is
  inductive. `LoadInv` adds that the descriptor is read in step with `done`, that a block
  is never larger than `BlockSize`, that a file that was allocated fits the heap unless
  rounding its size wrapped (so the size returned is not a negative `int32_t`), and what
  is open and allocated at each point. `RoundUpBounds` and `BlockBounds` hold the
  arithmetic; there is one lemma per kind of step.
* `FileSumsExact`: `done + blocksize` never wraps, whatever `st_size` is, because what has
  been read fits the heap. `ROUNDUP`'s own sum may wrap, for the sizes `Wraps` names;
  `ReadsInPlace` and the next theorem hold for these too.
* `FileAllOrNothing`: `FileLoad` implements `FileLoadSpec`. `WorkMaps`, `FailMaps`,
  `LoadMaps` and `LeaveMaps` map the steps; `Load` needs from `LoadInv` that each byte is
  in its place, `Fail` that nothing is open or allocated any more.

The assumptions (`FileAssumption`): the alignment and the size of a file are words; the heap
is less than half the address space; a block and the heap together fit a word.

`KernelSetupProofs` proves for every number of tables and all addresses whose cache lines
lie as `LinesAssumption` says (the stub in two lines, the page and the main hook in lines
of their own):

* `SetupTyped`, `InterimStubIsVisible`, `PageIsReadyBeforeBranch`, `SetupWorks`,
  `MainHookIsGone`. The invariant is `SetupInv`: `TypeOK`; `TablesInv`, which tables have
  been patched at each `pc`; `TodoInv`, that the cache instructions still to come are the
  end of the list the step before began; `LinesInv`, what each line may hold in memory and
  in both caches at each `pc`, given what is left of that list. The hardware may evict,
  fetch and drop at any moment, so `LinesInv` names every mixture it can produce. The page is invalidated
  before it is flushed; that is harmless only because nothing branches there in between,
  which is the part of `LinesInv` about `PageLine`.

The same module proves of the other two sides `KernelCode` has, for every context, all
contents of the BATs, any number of nops and all addresses that meet `PatchesAssumption`
(the stub's ten words lie in two lines, no nop is set in it, everything is in its window):

* `HookIsTransparent`: a core runs through the kernel's instructions, the stub or the hook,
  and the invariant says for each instruction of each what it has done so far
  (`KernelInv`, `StubRuns`, `FunctionInv`). All three share `Reloaded`, which of the ten
  registers have their word: the hook gets r3 last because it loads the others through it.
  What the BATs held before is nowhere in the invariant, so `Again` just begins anew.
* `PatchesAlwaysLand`: the proof first takes the code apart. `PatchesCode` and `NopsCode`
  say which instruction is at which place of `KernelPatches`, whose length depends on the
  number of nops; from that follow the three things that make it right: `Windowed`, each
  access is in what DBAT0 then maps, `Tended`, behind each store come a flush and then an
  invalidation of its line, `OneWord`, no word is stored to twice. The invariant `PatchInv`
  only needs these: `BatInv`, DBAT0 and what was saved of it; `WordsInv`, what has been
  stored is in the data cache, behind a flush also in memory, and behind the invalidation
  after that nothing else is in the instruction cache (`Arrived`); `RestInv`, that
  `KernelPatchesFinal` takes nothing away but the branch. An invalidation in front of the
  flush would not do: `AgainBy` asks for their order.

`BootProofs` proves for every set of launchers `BootTyped`, `BootLibrariesNested`,
`BootCleanHandOver` and `BootHookMatchesOutcome`. `BootInv` says for each `pc` which
libraries are up and in which order (`LibraryPlaces`), which heap blocks and log channels
(`BlockPlaces`), and what the hook is (`HookPlaces`).

`EditingProofs` proves of `Editing`, the composition of `SectionBuffer`, `ElfTables`,
`ElfDynamic` and `StringTools`, three of the four invariants that `elf_editing` checks on a
small instance, for all values of the constants. `EditingInv` says that the part the
behaviour is about has the invariant of its own; each part has its section in the module.

*The section's data*, for every alphabet and every set of inputs and blocks that meets
`BufferAssumption` (sizes are numbers and blocks have bytes; a size may exceed its block, as that of an unread section
does):

* `BufferTyped` and `BufferStaysInBlock`, from `BufferInv` = `TypeOK /\ StaysInBlock`,
  which is inductive: an overrun needs a `data_size` that is wrong. Of a section with a wrong
  one nothing is claimed until `set_data`, or an insertion that moved it, sets it right. `MergedIsBlock` is the arithmetic of moving the tail.
* `BufferHoldsTheBytes`: `SectionBuffer` implements `ByteString`, an insertion in place
  and an insertion into a new block alike, and one that fails changes no byte; up to the
  first overrun, if there is one.

*The tables.* `TablesAlwaysKeepLinks` takes over what `ElfTablesProofs` (below) proves, so
like it this theorem assumes `Callback`: a caller that passes `swap_symbols` to
`arrange_local_symbols`; without it relocations keep the old numbers. `SameTables` and the lemmas
before it only say that the two instances of `ElfTables` are the same formulas.

*The dynamic section*, for all sections that were loaded with any words and any entry size, and
for all entries, numbers and strings that are added:

* `DynamicAlwaysReadsBack`: what was added reads back, an accessor that has counted shows
  a prefix of what a new one would, and `VersionCount` is that of the entry that says it.
  `DynamicInv` relates the words to what was added, place by place (`EntryHolds`), and to
  what the accessor has seen (`Counted`). Counted entries stay what they were when the
  section grows since they lie in front of what is added (`EntriesStay`, `CountedStays`);
  `WholeEntries` is the arithmetic of how many whole ones there are.
* `CountEndsWithNull`: the count is the first `DT_NULL` or all whole entries.

*The strings*, for all strings that meet `StringAssumption` (splitters are not empty):
`str_replace` counts occurrences in one pass, allocates, and finds them again in another.
`StringsInv` gives them names: `Marks` is the place each search began at, chosen when the
first pass steps over it. The second pass finds the same ones (`CopiedMarks`), so the size of
the result is known at each of them and what is left fits (`RoomLeft`); when it is copied
too, the block is full to its last byte. That is `ReplacementFits`; with it and the type
invariants of all four parts follows `EverythingStaysInside`. A replacement may be shorter
than what it replaces; the size of the result is still a natural number since matches do
not overlap, which is the fourth line of `Marks`.

`ElfTablesProofs` proves for every set of names, types, offsets and addends that meets
`TablesAssumption` (a name has no NUL, a type fits its byte), for tables of any length,
`TablesTyped`, `SymbolsAreKept` and `LocalsComeFirst`, and for a caller that passes
`swap_symbols` also `RelocationsAreFollowed`: the three parts of `TablesKeepLinks`. The
first three do not need the callback. The invariant is `TablesInv`:

* `SymbolsInv`: each symbol has the binding and value it was added with, and its name is in
  the string table with its terminator (`StringStored`). A table that grows behind a name
  leaves it there (`StoredStays`), and `get_string` then stops at just that terminator
  (`StoredReads`). Every number of a symbol is still in the table, so exchanging two loses
  none.
* `RelocsInv`: the index in `r_info` is that of the symbol that was meant, and the type the
  one that was given (`InfoParts` takes `r_info` apart). `SwapMoves` and `SwapTyped` put the
  two sides of `swap_symbols` together: the relocations are renamed as the symbols move.
* `ArrangeInv`: what lies in front of the cursor is local. It is needed for `LocalsFirst`
  when the loop ends, and `LocalsFirst` in turn says that symbols which are arranged are not
  exchanged again.

The loops of `arrange_local_symbols` stop where `Seek` says because every set of numbers
has a least (`LeastNumber`, from the well-foundedness of `<`; no induction over an
operator is needed). TLC was asked for `TablesInv` with and without the callback.

The type invariants and `StaysInBlock` are parts of what the runs check under other
names, since these compose several modules (`EditingStaysInside`, for instance).

Only model-checked: the four invariants of `elf_reading` (`ReadingStaysInside`,
`SectionsStandAlone`, `LookupsAgree`, `RecordsReadBack`), since the ELF reader, the lookups
and the scans follow offsets, chains and sizes that the file supplies, and what they find
is defined by recursion over them; and `StringsAsSpecified`, which compares the loops of
the string functions with folds over their strings. Both need induction over data, which
is out of the provers' reach, as are the liveness properties, which need `ENABLED`.

## Not modelled

`elfio_dump.hpp` (names and formatting) and `elfio_version.hpp`; elfio's writing side,
`save`, the layout of sections and segments and the setters of header fields, which the
loader never calls; the entries of the version sections and the pointer arrays, read one
by one and never added to; `strfmt` and its relatives, which hand their arguments to
`vsprintf`; the table of `common/dynamic_linking_defines.h` but for its length; debug
output; `OSFatal`'s screen; the splash screen's pixels; what a core does that finds one
line of the stub new and the other old.

## Plan

1. `ModuleLoad`: an abstract load (place, link and resolve in one step or fail) that
   `ModuleLoader` implements for tidy files.
2. `ElfReader` composed with `ModuleLoader`: what the loader does with a section that
   could not be read. `LoadsWhole` says what the loader may rely on.
3. Proofs: the parts of `ReadingStaysInside` that no loop over data is needed for.
4. The writing side of elfio, if the loader should ever use it.
