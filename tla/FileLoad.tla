------------------------------ MODULE FileLoad ------------------------------
(***************************************************************************)
(* LoadFileToMem, and the scope of ModuleDataFactory::load that owns the   *)
(* buffer it returns.  read() may return fewer bytes than asked for, fail  *)
(* at any time (the card may be pulled), or meet the end of the file       *)
(* before st_size; a byte is identified by its offset in the file.         *)
(***************************************************************************)
EXTENDS Machine

CONSTANTS
    FileSizes,      \* st_size of the files that may be found
    HeapFree,       \* the largest block memalign can return
    BlockSize,      \* bytes asked for at a time
    Align           \* alignment of the buffer, and of its size

(***************************************************************************)
(* The heap is much smaller than half the address space, so the int32_t    *)
(* that is returned for a file that fits is not negative.  st_size may be  *)
(* any word: the sums the code makes of it wrap.                           *)
(***************************************************************************)
ASSUME FileAssumption ==
    /\ FileSizes \subseteq Words
    /\ {HeapFree, BlockSize, Align} \subseteq Nat \ {0}
    /\ 2 * HeapFree < Word
    /\ BlockSize < Word - HeapFree
    /\ Align <= Word

VARIABLES
    pc,
    filesize,
    blocksize,
    done,
    fd,         \* the descriptor: is it open?
    pos,        \* its file offset,
    eof,        \* and where read() meets the end of the file
    buffer,     \* the allocated buffer: where each of its bytes comes from
    allocated,
    result      \* the return value

vars == <<pc, filesize, blocksize, done, fd, pos, eof, buffer, allocated, result>>

Garbage == -1
NoBytes == [i \in {} |-> Garbage]

\* ROUNDUP(filesize, Align), 0 for the largest sizes: its sum wraps.
RoundUp(n) == LET m == Wrap(n + (Align - 1)) IN m - (m % Align)
Wraps(n)   == n + (Align - 1) >= Word

Init ==
    /\ pc = "open"
    /\ filesize = 0
    /\ blocksize = 0
    /\ done = 0
    /\ fd = FALSE
    /\ pos = 0
    /\ eof = 0
    /\ buffer = NoBytes
    /\ allocated = FALSE
    /\ result = 0

Return(r) == pc' = "returned" /\ result' = r

OpenFails ==
    /\ pc = "open"
    /\ Return(-1)
    /\ UNCHANGED <<filesize, blocksize, done, fd, pos, eof, buffer, allocated>>

Open ==
    /\ pc = "open"
    /\ fd' = TRUE
    /\ pos' = 0
    /\ pc' = "stat"
    /\ UNCHANGED <<filesize, blocksize, done, eof, buffer, allocated, result>>

StatFails ==
    /\ pc = "stat"
    /\ fd' = FALSE
    /\ Return(-4)
    /\ UNCHANGED <<filesize, blocksize, done, pos, eof, buffer, allocated>>

Stat ==
    /\ pc = "stat"
    /\ filesize' \in FileSizes
    /\ eof' \in {filesize', filesize' \div 2}
    /\ pc' = "alloc"
    /\ UNCHANGED <<blocksize, done, fd, pos, buffer, allocated, result>>

AllocFails ==
    /\ pc = "alloc"
    /\ fd' = FALSE
    /\ Return(-2)
    /\ UNCHANGED <<filesize, blocksize, done, pos, eof, buffer, allocated>>

Alloc ==
    /\ pc = "alloc"
    /\ RoundUp(filesize) <= HeapFree
    /\ buffer' = [i \in 0 .. (RoundUp(filesize) - 1) |-> Garbage]
    /\ allocated' = TRUE
    /\ blocksize' = BlockSize
    /\ done' = 0
    /\ pc' = "read"
    /\ UNCHANGED <<filesize, fd, pos, eof, result>>

\* (X_Suffix is X with a bug, here and below; no action uses it.)
\* The last block is shortened to the end of the file.
NextBlock == IF Add(done, blocksize) > filesize THEN filesize - done ELSE blocksize

Advance_ByBlock(n) == Add(done, blocksize')
Advance(n) == Add(done, n)

\* The bytes read() is about to store have room in the buffer.
InBuffer(n) == done .. (done + n - 1) \subseteq DOMAIN buffer

ReadBlock ==
    /\ pc = "read"
    /\ done < filesize
    /\ blocksize' = NextBlock
    /\ \E n \in 1 .. blocksize' :
          /\ pos + n <= eof
          /\ InBuffer(n)
          /\ buffer' = [i \in DOMAIN buffer |->
                           IF done <= i /\ i < done + n THEN pos + (i - done)
                                                        ELSE buffer[i]]
          /\ done' = Advance(n)
          /\ pos' = pos + n
    /\ UNCHANGED <<pc, filesize, fd, eof, allocated, result>>

(***************************************************************************)
(* read() stores bytes behind the buffer, over whatever the heap keeps     *)
(* there.  What the program does after that is not modelled.               *)
(***************************************************************************)
Overrun ==
    /\ pc = "read"
    /\ done < filesize
    /\ blocksize' = NextBlock
    /\ \E n \in 1 .. blocksize' : pos + n <= eof /\ ~ InBuffer(n)
    /\ pc' = "overrun"
    /\ UNCHANGED <<filesize, done, fd, pos, eof, buffer, allocated, result>>

\* read() returns 0 or an error: the loop is left early.
AfterStop_Retry == "read"
AfterStop == "close"

ReadStops ==
    /\ pc = "read"
    /\ done < filesize
    /\ blocksize' = NextBlock
    /\ pc' = AfterStop
    /\ UNCHANGED <<filesize, done, fd, pos, eof, buffer, allocated, result>>

ReadAll ==
    /\ pc = "read"
    /\ done >= filesize
    /\ pc' = "close"
    /\ UNCHANGED <<filesize, blocksize, done, fd, pos, eof, buffer, allocated, result>>

Complete_IfAny == done > 0
Complete == done = filesize

\* close, then either the buffer is handed out or it is freed.
Finish ==
    /\ pc = "close"
    /\ fd' = FALSE
    /\ IF Complete
         THEN /\ Return(Signed(filesize))
              /\ UNCHANGED <<buffer, allocated>>
         ELSE /\ Return(-3)
              /\ buffer' = NoBytes
              /\ allocated' = FALSE
    /\ UNCHANGED <<filesize, blocksize, done, pos, eof>>

\* load returns at once, or decodes the file and frees it on leaving the scope.
GiveUp ==
    /\ pc = "returned"
    /\ result < 0
    /\ pc' = "left"
    /\ UNCHANGED <<filesize, blocksize, done, fd, pos, eof, buffer, allocated, result>>

LeaveScope ==
    /\ pc = "returned"
    /\ result >= 0
    /\ buffer' = NoBytes
    /\ allocated' = FALSE
    /\ pc' = "left"
    /\ UNCHANGED <<filesize, blocksize, done, fd, pos, eof, result>>

Done == pc \in {"left", "overrun"} /\ UNCHANGED vars

Next ==
    \/ OpenFails \/ Open \/ StatFails \/ Stat \/ AllocFails \/ Alloc
    \/ ReadBlock \/ Overrun \/ ReadStops \/ ReadAll \/ Finish \/ GiveUp \/ LeaveScope \/ Done

\* A call that is made returns; read() makes progress or stops.
Spec == Init /\ [][Next]_vars /\ WF_vars(Next)
-----------------------------------------------------------------------------
PCs == {"open", "stat", "alloc", "read", "close", "returned", "left",
        "overrun"}

TypeOK ==
    /\ pc \in PCs
    /\ filesize \in Words
    /\ blocksize \in Words
    /\ done \in Words
    /\ fd \in BOOLEAN
    /\ pos \in Nat
    /\ eof \in Words
    /\ \A i \in DOMAIN buffer : buffer[i] \in Nat \cup {Garbage}
    /\ allocated \in BOOLEAN
    /\ result \in -4 .. HeapFree

(***************************************************************************)
(* The loop never skips or repeats a byte of the file, however short the   *)
(* reads are, and the buffer has room for the whole file, so nothing is    *)
(* written behind it - unless rounding st_size up wraps: then memalign was *)
(* asked for 0 bytes and the first byte that arrives goes behind them.     *)
(***************************************************************************)
ReadsInPlace ==
    /\ pc \in {"read", "close"} =>
          /\ Wraps(filesize) \/ 0 .. (filesize - 1) \subseteq DOMAIN buffer
          /\ done <= filesize
          /\ \A i \in 0 .. (done - 1) : i \in DOMAIN buffer /\ buffer[i] = i
    /\ pc = "overrun" => Wraps(filesize)

\* The loop's own sums are exact, whatever st_size is.
SumsExact == pc = "read" => done + blocksize < Word

\* Every call returns and the scope that owns the buffer is left, or it is overrun.
Returns == <>(pc \in {"left", "overrun"})

\* What the caller has been told, and done.
Outcome ==
    IF pc \notin {"returned", "left"} THEN "none"
    ELSE IF result < 0 THEN "failed"
    ELSE IF pc = "returned" THEN "loaded" ELSE "released"

(***************************************************************************)
(* The caller's view: LoadFileToMem implements the all-or-nothing contract *)
(* of FileLoadSpec: no call returns anything else.  (One that overruns its *)
(* buffer is not followed to its return.)                                  *)
(***************************************************************************)
Contract == INSTANCE FileLoadSpec WITH
    outcome  <- Outcome,
    contents <- IF Outcome = "loaded" THEN [i \in 0 .. (filesize - 1) |-> buffer[i]]
                                      ELSE [i \in {} |-> 0],
    holding  <- fd \/ allocated

AllOrNothing == Contract!Spec
=============================================================================
