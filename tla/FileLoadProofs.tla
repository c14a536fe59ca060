--------------------------- MODULE FileLoadProofs ---------------------------
(***************************************************************************)
(* What FileLoad promises, for every file size, heap, block size and       *)
(* alignment.                                                              *)
(***************************************************************************)
EXTENDS FileLoad, TLAPS

\* Rounding up never loses a byte unless it wraps, and then it leaves none.
LEMMA RoundUpBounds ==
    ASSUME NEW n \in FileSizes
    PROVE  /\ RoundUp(n) \in Nat
           /\ ~ Wraps(n) => n <= RoundUp(n)
           /\ Wraps(n) => RoundUp(n) = 0
<1>1. /\ n \in Nat /\ n < Word /\ Word \in Nat
      /\ Align \in Nat \ {0} /\ Align <= Word
  BY FileAssumption, WordAssumption DEF Words
<1> DEFINE m == Wrap(n + (Align - 1))
<1>2. m \in Nat
  BY <1>1 DEF Wrap
<1>3. m % Align \in 0 .. (Align - 1)
  BY <1>1, <1>2
<1>4. ~ Wraps(n) => m = n + (Align - 1)
  BY <1>1 DEF Wraps, Wrap
<1>5. Wraps(n) => m < Align
  BY <1>1 DEF Wraps, Wrap
<1>6. m < Align => m % Align = m
  BY <1>1, <1>2
<1>7. RoundUp(n) = m - (m % Align)
  BY DEF RoundUp
<1>8. m >= m % Align
  BY <1>1, <1>2
<1> HIDE DEF m
<1> QED
  BY <1>1, <1>2, <1>3, <1>4, <1>5, <1>6, <1>7, <1>8

(***************************************************************************)
(* TypeOK and ReadsInPlace are not inductive.  The descriptor is read in   *)
(* step with done; a block never is larger than BlockSize, so done +       *)
(* blocksize does not wrap; and the file fits the heap once it has been    *)
(* allocated, so its size is not a negative int32_t - or rounding it up    *)
(* wrapped, and no byte of it can be stored.                               *)
(***************************************************************************)
Fitting ==
    pc \in {"read", "close"} =>
        /\ filesize \in FileSizes
        /\ filesize <= HeapFree \/ (Wraps(filesize) /\ DOMAIN buffer = {})
        /\ Wraps(filesize) => done = 0 /\ filesize > 0

Reading ==
    /\ pc \in {"stat", "alloc"} => pos = 0
    /\ pc \in {"read", "close"} => pos = done /\ blocksize <= BlockSize

Buffered ==
    /\ DOMAIN buffer \subseteq Nat
    /\ pc \notin {"read", "close", "returned", "overrun"} => buffer = NoBytes
    /\ pc = "returned" /\ result < 0 => buffer = NoBytes

\* What is open and allocated at each point.
Opened ==
    /\ pc = "open" => ~ fd /\ ~ allocated
    /\ pc = "stat" => fd /\ ~ allocated
    /\ pc = "alloc" => fd /\ ~ allocated /\ filesize \in FileSizes
    /\ pc \in {"read", "close"} => fd /\ allocated
    /\ pc = "returned" => ~ fd /\ (allocated <=> result >= 0)
    /\ pc = "left" => ~ fd /\ ~ allocated

\* What has been handed out is a file, whole and in order.
Contents == Outcome = "loaded" =>
    /\ filesize \in FileSizes
    /\ \A i \in 0 .. (filesize - 1) : buffer[i] = i

LoadInv ==
    TypeOK /\ ReadsInPlace /\ Fitting /\ Reading /\ Buffered /\ Opened /\ Contents

\* Words, the heap and the files of the console, as the provers need them.
LEMMA Sizes ==
    /\ Word \in Nat /\ Word > 65536
    /\ HeapFree \in Nat \ {0} /\ BlockSize \in Nat \ {0} /\ Align \in Nat \ {0}
    /\ 2 * HeapFree < Word
    /\ BlockSize + HeapFree < Word
    /\ \A n \in FileSizes : n \in Nat /\ n < Word
    /\ \A n \in Words : n \in Nat /\ n < Word
    /\ \A n \in Nat : n < Word => n \in Words
    /\ \A r \in {-1, -2, -3, -4} : r \in -4 .. HeapFree
    /\ \A n \in Nat : n <= HeapFree => n \in -4 .. HeapFree
BY WordAssumption, FileAssumption DEF Words

\* Nothing has been opened yet.
LEMMA InitLoadInv == Init => LoadInv
<1> SUFFICES ASSUME Init PROVE LoadInv
  OBVIOUS
<1>1. DOMAIN NoBytes = {}
  BY DEF NoBytes
<1>2. TypeOK
  <2>1. 0 \in Words /\ 0 \in -4 .. HeapFree
    BY Sizes
  <2>2. \A i \in DOMAIN buffer : buffer[i] \in Nat \cup {Garbage}
    BY <1>1 DEF Init
  <2>3. pc \in PCs
    BY DEF Init, PCs
  <2> QED
    BY <2>1, <2>2, <2>3 DEF Init, TypeOK
<1>3. ReadsInPlace /\ Fitting /\ Reading
  BY DEF Init, ReadsInPlace, Fitting, Reading
<1>4. Buffered /\ Opened /\ Contents
  BY <1>1 DEF Init, Buffered, Opened, Contents, Outcome
<1> QED
  BY <1>2, <1>3, <1>4 DEF LoadInv

\* Opening, and giving up before anything was allocated.
LEMMA EarlyLoadInv ==
    ASSUME LoadInv, OpenFails \/ Open \/ StatFails \/ AllocFails
    PROVE  LoadInv'
<1>1. TypeOK'
  <2>1. result' \in -4 .. HeapFree
    <3>1. {-1, -2, -4} \subseteq -4 .. HeapFree
      BY Sizes
    <3> QED
      BY <3>1 DEF LoadInv, TypeOK, OpenFails, Open, StatFails, AllocFails, Return
  <2>2. pc' \in PCs /\ fd' \in BOOLEAN
    BY DEF LoadInv, TypeOK, PCs, OpenFails, Open, StatFails, AllocFails, Return
  <2>3. pos' \in Nat
    BY DEF LoadInv, TypeOK, OpenFails, Open, StatFails, AllocFails, Return
  <2>4. UNCHANGED <<filesize, blocksize, done, eof, buffer, allocated>>
    BY DEF OpenFails, Open, StatFails, AllocFails
  <2> QED
    BY <2>1, <2>2, <2>3, <2>4 DEF LoadInv, TypeOK
<1>2. (ReadsInPlace /\ Fitting /\ Reading)'
  BY DEF OpenFails, Open, StatFails, AllocFails, Return, ReadsInPlace, Fitting, Reading
<1>3. Buffered'
  BY DEF LoadInv, Buffered, OpenFails, Open, StatFails, AllocFails, Return
<1>4. Opened'
  BY DEF LoadInv, Opened, OpenFails, Open, StatFails, AllocFails, Return
<1>5. Contents'
  BY DEF Contents, Outcome, OpenFails, Open, StatFails, AllocFails, Return
<1> QED
  BY <1>1, <1>2, <1>3, <1>4, <1>5 DEF LoadInv

\* The end read() will meet lies in the file.
LEMMA StatLoadInv ==
    ASSUME LoadInv, Stat
    PROVE  LoadInv'
<1>1. filesize' \in FileSizes /\ filesize' \in Words /\ eof' \in Words
  BY Sizes DEF Stat
<1>2. TypeOK'
  BY <1>1 DEF LoadInv, TypeOK, Stat, PCs
<1>3. (ReadsInPlace /\ Fitting /\ Reading)'
  BY DEF LoadInv, Stat, ReadsInPlace, Fitting, Reading
<1>4. (Buffered /\ Opened)'
  BY <1>1 DEF LoadInv, Buffered, Opened, Stat
<1>5. Contents'
  BY DEF Contents, Outcome, Stat
<1> QED
  BY <1>2, <1>3, <1>4, <1>5 DEF LoadInv

\* The buffer has room for the file, unless rounding its size up wrapped.
LEMMA AllocLoadInv ==
    ASSUME LoadInv, Alloc
    PROVE  LoadInv'
<1>1. filesize \in FileSizes /\ pc = "alloc"
  BY DEF LoadInv, Opened, Alloc
<1>2. /\ filesize \in Nat /\ RoundUp(filesize) \in Nat
      /\ RoundUp(filesize) <= HeapFree
      /\ ~ Wraps(filesize) => filesize <= RoundUp(filesize)
      /\ Wraps(filesize) => RoundUp(filesize) = 0
  BY <1>1, RoundUpBounds, Sizes DEF Alloc
<1>3. DOMAIN buffer' = 0 .. (RoundUp(filesize) - 1)
  BY DEF Alloc
<1>4. \A i \in DOMAIN buffer' : buffer'[i] = Garbage
  BY DEF Alloc
<1>5. pos = 0
  BY DEF LoadInv, Reading, Alloc
<1>6. TypeOK'
  BY <1>4, Sizes DEF LoadInv, TypeOK, Alloc, PCs
<1>7. pc' = "read" /\ filesize' = filesize /\ done' = 0 /\ pos' = pos
      /\ blocksize' = BlockSize
  BY DEF Alloc
<1>9. ReadsInPlace'
  <2>1. Wraps(filesize) \/ 0 .. (filesize - 1) \subseteq DOMAIN buffer'
    BY <1>2, <1>3
  <2> QED
    BY <1>2, <1>7, <2>1 DEF ReadsInPlace, Wraps
<1>10. Fitting'
  <2>1. Wraps(filesize) => filesize > 0
    BY <1>2, Sizes, FileAssumption DEF Wraps
  <2>2. Wraps(filesize) => DOMAIN buffer' = {}
    BY <1>2, <1>3
  <2>3. filesize <= HeapFree \/ Wraps(filesize)
    BY <1>2, Sizes
  <2> QED
    BY <1>1, <1>7, <2>1, <2>2, <2>3 DEF Fitting, Wraps
<1>11. Reading'
  BY <1>5, <1>7, Sizes DEF Reading
<1>8. (Buffered /\ Opened /\ Contents)'
  BY <1>2, <1>3 DEF LoadInv, Buffered, Opened, Contents, Outcome, Alloc
<1> QED
  BY <1>6, <1>8, <1>9, <1>10, <1>11 DEF LoadInv

\* A block does not end behind the file.
LEMMA BlockBounds ==
    ASSUME LoadInv, pc = "read", done < filesize
    PROVE  /\ NextBlock \in Nat
           /\ NextBlock <= BlockSize
           /\ done + NextBlock <= filesize
           /\ \A n \in 1 .. NextBlock : Advance(n) = done + n
<1>1. done \in Nat /\ filesize \in Nat /\ blocksize \in Nat
  BY Sizes DEF LoadInv, TypeOK
<1>2. done <= HeapFree /\ blocksize <= BlockSize
  BY <1>1, Sizes DEF LoadInv, Fitting, Reading
<1>3. Add(done, blocksize) = done + blocksize
  BY <1>1, <1>2, Sizes DEF Add, Wrap
<1>4. NextBlock \in Nat /\ NextBlock <= BlockSize /\ done + NextBlock <= filesize
  BY <1>1, <1>2, <1>3, Sizes DEF NextBlock
<1>5. filesize < Word
  BY Sizes DEF LoadInv, TypeOK
<1>6. \A n \in 1 .. NextBlock : Advance(n) = done + n
  BY <1>1, <1>4, <1>5, Sizes DEF Advance, Add, Wrap
<1> QED
  BY <1>4, <1>6

\* The bytes that arrive are the next ones of the file, in their place.
LEMMA ReadBlockLoadInv ==
    ASSUME LoadInv, ReadBlock
    PROVE  LoadInv'
<1>1. /\ pc = "read" /\ done < filesize
      /\ blocksize' = NextBlock
      /\ UNCHANGED <<pc, filesize, fd, eof, allocated, result>>
  BY DEF ReadBlock
<1>2. PICK n \in 1 .. NextBlock :
        /\ InBuffer(n)
        /\ buffer' = [i \in DOMAIN buffer |->
                         IF done <= i /\ i < done + n THEN pos + (i - done)
                                                      ELSE buffer[i]]
        /\ done' = Advance(n)
        /\ pos' = pos + n
  BY <1>1 DEF ReadBlock
<1>3. /\ done \in Nat /\ filesize \in Nat /\ filesize < Word
      /\ pos = done /\ filesize \in FileSizes
  BY <1>1, Sizes DEF LoadInv, TypeOK, Fitting, Reading
<1>4. /\ NextBlock \in Nat /\ NextBlock <= BlockSize
      /\ n \in Nat /\ done + n <= filesize /\ done' = done + n
  BY <1>1, <1>2, <1>3, BlockBounds
<1>5. DOMAIN buffer' = DOMAIN buffer /\ DOMAIN buffer \subseteq Nat
  BY <1>2 DEF LoadInv, Buffered
<1>6. \A i \in DOMAIN buffer :
        buffer'[i] = IF done <= i /\ i < done + n THEN i ELSE buffer[i]
  BY <1>2, <1>3, <1>4, <1>5
<1>10. done \in DOMAIN buffer /\ ~ Wraps(filesize) /\ filesize <= HeapFree
  <2>1. done \in DOMAIN buffer
    BY <1>2, <1>3, <1>4 DEF InBuffer
  <2> QED
    BY <1>1, <2>1 DEF LoadInv, Fitting
<1>7. TypeOK'
  <2>1. \A i \in DOMAIN buffer' : buffer'[i] \in Nat \cup {Garbage}
    BY <1>5, <1>6 DEF LoadInv, TypeOK
  <2>2. blocksize' \in Words /\ done' \in Words /\ pos' \in Nat
    BY <1>1, <1>2, <1>3, <1>4, Sizes
  <2> QED
    BY <1>1, <2>1, <2>2 DEF LoadInv, TypeOK
<1>8. ReadsInPlace'
  <2>1. 0 .. (filesize - 1) \subseteq DOMAIN buffer
    BY <1>1, <1>10 DEF LoadInv, ReadsInPlace
  <2>2. \A i \in 0 .. (done - 1) : buffer[i] = i
    BY <1>1 DEF LoadInv, ReadsInPlace
  <2>3. \A i \in 0 .. (done' - 1) : buffer'[i] = i
    BY <1>3, <1>4, <1>6, <2>1, <2>2
  <2> QED
    BY <1>1, <1>3, <1>4, <1>5, <2>1, <2>3 DEF ReadsInPlace
<1>9. (Fitting /\ Reading /\ Buffered /\ Opened /\ Contents)'
  BY <1>1, <1>2, <1>3, <1>4, <1>5, <1>10
     DEF LoadInv, Wraps, Fitting, Reading, Buffered, Opened, Contents, Outcome
<1> QED
  BY <1>7, <1>8, <1>9 DEF LoadInv

\* Only a file whose rounded size wrapped overruns its buffer.
LEMMA OverrunLoadInv ==
    ASSUME LoadInv, Overrun
    PROVE  LoadInv'
<1>1. /\ pc = "read" /\ done < filesize /\ pc' = "overrun"
      /\ blocksize' = NextBlock
      /\ UNCHANGED <<filesize, done, fd, pos, eof, buffer, allocated, result>>
  BY DEF Overrun
<1>2. PICK n \in 1 .. NextBlock : ~ InBuffer(n)
  BY <1>1 DEF Overrun
<1>3. /\ NextBlock \in Nat /\ NextBlock <= BlockSize /\ done + NextBlock <= filesize
      /\ done \in Nat /\ filesize \in Nat
  BY <1>1, BlockBounds, Sizes DEF LoadInv, TypeOK
<1>4. Wraps(filesize)
  <2>1. done .. (done + n - 1) \subseteq 0 .. (filesize - 1)
    BY <1>3
  <2> QED
    BY <1>1, <1>2, <2>1 DEF LoadInv, ReadsInPlace, InBuffer
<1>5. blocksize' \in Words
  BY <1>1, <1>3, Sizes
<1>6. TypeOK'
  BY <1>1, <1>5 DEF LoadInv, TypeOK, PCs
<1>7. (ReadsInPlace /\ Fitting /\ Reading)'
  BY <1>1, <1>4 DEF ReadsInPlace, Fitting, Reading, Wraps
<1>8. (Buffered /\ Opened /\ Contents)'
  BY <1>1 DEF LoadInv, Buffered, Opened, Contents, Outcome
<1> QED
  BY <1>6, <1>7, <1>8 DEF LoadInv

\* The loop ends, at the end of the file or before.
LEMMA StopLoadInv ==
    ASSUME LoadInv, ReadStops \/ ReadAll
    PROVE  LoadInv'
<1>1. /\ pc = "read" /\ pc' = "close"
      /\ UNCHANGED <<filesize, done, fd, pos, eof, buffer, allocated, result>>
  BY DEF ReadStops, ReadAll, AfterStop
<1>2. blocksize' \in Words /\ blocksize' <= BlockSize
  <2>1. CASE ReadStops
    <3>1. blocksize' = NextBlock /\ NextBlock \in Nat /\ NextBlock <= BlockSize
      BY <2>1, BlockBounds DEF ReadStops
    <3> QED
      BY <3>1, Sizes
  <2>2. CASE ReadAll
    BY <2>2 DEF ReadAll, LoadInv, TypeOK, Reading
  <2> QED
    BY <2>1, <2>2
<1>3. TypeOK'
  BY <1>1, <1>2 DEF LoadInv, TypeOK, PCs
<1>4. (ReadsInPlace /\ Fitting /\ Reading)'
  BY <1>1, <1>2 DEF LoadInv, ReadsInPlace, Fitting, Reading, Wraps
<1>5. (Buffered /\ Opened /\ Contents)'
  BY <1>1 DEF LoadInv, Buffered, Opened, Contents, Outcome
<1> QED
  BY <1>3, <1>4, <1>5 DEF LoadInv

\* Only a whole file is handed out, and its size is not negative.
LEMMA FinishLoadInv ==
    ASSUME LoadInv, Finish
    PROVE  LoadInv'
<1>1. /\ pc = "close" /\ pc' = "returned" /\ fd' = FALSE
      /\ UNCHANGED <<filesize, blocksize, done, pos, eof>>
  BY DEF Finish, Return
<1>2. /\ filesize \in FileSizes /\ filesize \in Nat
      /\ filesize <= HeapFree \/ (Wraps(filesize) /\ done = 0 /\ filesize > 0)
      /\ allocated
  BY <1>1, Sizes DEF LoadInv, Fitting, Opened
<1>3. CASE Complete
  <2>0. filesize <= HeapFree /\ ~ Wraps(filesize)
    BY <1>1, <1>2, <1>3 DEF Complete, LoadInv, Fitting
  <2>1. result' = filesize /\ UNCHANGED <<buffer, allocated>>
    BY <1>2, <1>3, <2>0, Sizes DEF Finish, Return, Signed
  <2>2. TypeOK'
    <3>1. result' \in -4 .. HeapFree
      BY <1>2, <2>0, <2>1, Sizes
    <3> QED
      BY <1>1, <2>1, <3>1 DEF LoadInv, TypeOK, PCs
  <2>3. Contents'
    BY <1>1, <1>2, <1>3, <2>1 DEF Complete, LoadInv, ReadsInPlace, Contents, Outcome
  <2>4. (ReadsInPlace /\ Fitting /\ Reading /\ Buffered /\ Opened)'
    BY <1>1, <1>2, <2>1 DEF LoadInv, ReadsInPlace, Fitting, Reading, Buffered, Opened
  <2> QED
    BY <2>2, <2>3, <2>4 DEF LoadInv
<1>4. CASE ~ Complete
  <2>1. result' = -3 /\ buffer' = NoBytes /\ ~ allocated'
    BY <1>4 DEF Finish, Return
  <2>2. DOMAIN buffer' = {}
    BY <2>1 DEF NoBytes
  <2>3. TypeOK'
    <3>1. result' \in -4 .. HeapFree
      BY <2>1, Sizes
    <3> QED
      BY <1>1, <2>1, <2>2, <3>1 DEF LoadInv, TypeOK, PCs, Finish
  <2>4. (ReadsInPlace /\ Fitting /\ Reading /\ Buffered /\ Opened /\ Contents)'
    BY <1>1, <2>1, <2>2
       DEF ReadsInPlace, Fitting, Reading, Buffered, Opened, Contents, Outcome
  <2> QED
    BY <2>3, <2>4 DEF LoadInv
<1> QED
  BY <1>3, <1>4

\* The caller gives up, or leaves the scope that owns the buffer.
LEMMA LeaveLoadInv ==
    ASSUME LoadInv, GiveUp \/ LeaveScope
    PROVE  LoadInv'
<1>1. /\ pc = "returned" /\ pc' = "left" /\ ~ fd
      /\ UNCHANGED <<filesize, blocksize, done, fd, pos, eof, result>>
  BY DEF LoadInv, Opened, GiveUp, LeaveScope
<1>2. result \in Int
  BY Sizes DEF LoadInv, TypeOK
<1>3. ~ allocated' /\ allocated' \in BOOLEAN /\ buffer' = NoBytes
  <2>1. CASE GiveUp
    <3>1. result < 0 /\ UNCHANGED <<buffer, allocated>>
      BY <2>1 DEF GiveUp
    <3>2. ~ allocated
      BY <1>1, <1>2, <3>1 DEF LoadInv, Opened
    <3> QED
      BY <1>1, <3>1, <3>2 DEF LoadInv, TypeOK, Buffered
  <2>2. CASE LeaveScope
    BY <2>2 DEF LeaveScope
  <2> QED
    BY <2>1, <2>2
<1>4. DOMAIN buffer' = {}
  BY <1>3 DEF NoBytes
<1>5. TypeOK'
  BY <1>1, <1>3, <1>4 DEF LoadInv, TypeOK, PCs
<1>6. (ReadsInPlace /\ Fitting /\ Reading /\ Buffered /\ Opened /\ Contents)'
  BY <1>1, <1>3, <1>4
     DEF ReadsInPlace, Fitting, Reading, Buffered, Opened, Contents, Outcome
<1> QED
  BY <1>5, <1>6 DEF LoadInv

\* Every step of the call and of its caller's scope keeps the invariant.
LEMMA NextLoadInv == LoadInv /\ [Next]_vars => LoadInv'
<1> SUFFICES ASSUME LoadInv, [Next]_vars PROVE LoadInv'
  OBVIOUS
<1>1. CASE OpenFails \/ Open \/ StatFails \/ AllocFails
  BY <1>1, EarlyLoadInv
<1>2. CASE Stat
  BY <1>2, StatLoadInv
<1>3. CASE Alloc
  BY <1>3, AllocLoadInv
<1>4. CASE ReadBlock
  BY <1>4, ReadBlockLoadInv
<1>5. CASE ReadStops \/ ReadAll
  BY <1>5, StopLoadInv
<1>9. CASE Overrun
  BY <1>9, OverrunLoadInv
<1>6. CASE Finish
  BY <1>6, FinishLoadInv
<1>7. CASE GiveUp \/ LeaveScope
  BY <1>7, LeaveLoadInv
<1>8. CASE UNCHANGED vars
  BY <1>8 DEF vars, LoadInv, TypeOK, ReadsInPlace, Fitting, Reading, Buffered,
              Opened, Contents, Outcome, Wraps
<1> QED
  BY <1>1, <1>2, <1>3, <1>4, <1>5, <1>6, <1>7, <1>8, <1>9 DEF Next, Done

\* Every reachable state of the loop satisfies the invariant.
LEMMA LoadInvHolds == Spec => []LoadInv
BY InitLoadInv, NextLoadInv, PTL DEF Spec

(***************************************************************************)
(* The variables of LoadFileToMem keep their types: what it returns is the *)
(* size of a file that fits the heap or an error.                          *)
(***************************************************************************)
THEOREM FileTyped == Spec => []TypeOK
<1>1. LoadInv => TypeOK
  BY DEF LoadInv
<1> QED
  BY <1>1, LoadInvHolds, PTL

(***************************************************************************)
(* While LoadFileToMem reads, done + blocksize does not wrap, although it  *)
(* is computed for files of any size and with the whole block size once    *)
(* more at the end: done never gets further than the heap is large.        *)
(***************************************************************************)
THEOREM FileSumsExact == Spec => []SumsExact
<1>1. LoadInv => SumsExact
  <2> SUFFICES ASSUME LoadInv, pc = "read" PROVE done + blocksize < Word
    BY DEF SumsExact
  <2>1. done \in Nat /\ filesize \in Nat /\ blocksize \in Nat
    BY Sizes DEF LoadInv, TypeOK
  <2>2. done <= HeapFree /\ blocksize <= BlockSize
    BY <2>1, Sizes DEF LoadInv, ReadsInPlace, Fitting, Reading
  <2> QED
    BY <2>1, <2>2, Sizes
<1> QED
  BY <1>1, LoadInvHolds, PTL

(***************************************************************************)
(* However short the reads are, the loop of LoadFileToMem writes every     *)
(* byte of the file at its place in the buffer, and none behind it, unless *)
(* ROUNDUP(st_size, 0x40) wraps: then it never writes inside it.           *)
(***************************************************************************)
THEOREM FileReadsInPlace == Spec => []ReadsInPlace
<1>1. LoadInv => ReadsInPlace
  BY DEF LoadInv
<1> QED
  BY <1>1, LoadInvHolds, PTL

(***************************************************************************)
(* The contract.  Holding and Handed are the values the refinement mapping *)
(* gives the variables of FileLoadSpec.                                    *)
(***************************************************************************)
Holding == fd \/ allocated

Handed == IF Outcome = "loaded" THEN [i \in 0 .. (filesize - 1) |-> buffer[i]]
                                ELSE [i \in {} |-> 0]

AbstractVars == <<Outcome, Handed, Holding>>

\* Nothing is told to the caller before LoadFileToMem returns.
LEMMA WorkMaps ==
    ASSUME LoadInv, LoadInv', pc \notin {"returned", "left"},
           pc' \notin {"returned", "left"}
    PROVE  Contract!Work
<1>1. Outcome = "none" /\ Outcome' = "none"
  BY DEF Outcome
<1>2. Handed = [i \in {} |-> 0] /\ Handed' = [i \in {} |-> 0]
  BY <1>1 DEF Handed
<1>3. Holding' \in BOOLEAN
  BY DEF LoadInv, TypeOK, Holding
<1> QED
  BY <1>1, <1>2, <1>3 DEF Contract!Work, Handed, Holding

\* An error is told with nothing open or allocated.
LEMMA FailMaps ==
    ASSUME LoadInv', pc \notin {"returned", "left"}, pc' = "returned", result' < 0
    PROVE  Contract!Fail
<1>1. Outcome = "none" /\ Outcome' = "failed"
  BY DEF Outcome
<1>2. Handed = [i \in {} |-> 0] /\ Handed' = [i \in {} |-> 0]
  BY <1>1 DEF Handed
<1>3. result' \in Int
  BY Sizes DEF LoadInv, TypeOK
<1>4. fd' = FALSE /\ allocated' = FALSE
  BY <1>3 DEF LoadInv, TypeOK, Opened
<1>5. Holding' = FALSE
  BY <1>4 DEF Holding
<1> QED
  BY <1>1, <1>2, <1>5 DEF Contract!Fail, Handed, Holding

\* A size is returned with the whole file.
LEMMA LoadMaps ==
    ASSUME LoadInv', pc \notin {"returned", "left"}, pc' = "returned", result' >= 0
    PROVE  Contract!Load
<1>0. result' \in Int
  BY Sizes DEF LoadInv, TypeOK
<1>1. Outcome = "none" /\ Outcome' = "loaded"
  BY <1>0 DEF Outcome
<1>2. /\ Handed = [i \in {} |-> 0]
      /\ Handed' = [i \in 0 .. (filesize' - 1) |-> buffer'[i]]
  BY <1>1 DEF Handed
<1>3. filesize' \in FileSizes /\ \A i \in 0 .. (filesize' - 1) : buffer'[i] = i
  BY <1>1 DEF LoadInv, Contents
<1>4. Handed' = [i \in 0 .. (filesize' - 1) |-> i]
  BY <1>2, <1>3
<1>5. allocated' = TRUE
  BY <1>0 DEF LoadInv, TypeOK, Opened
<1>6. Holding' = TRUE
  BY <1>5 DEF Holding
<1> QED
  BY <1>1, <1>3, <1>4, <1>6 DEF Contract!Load, Handed, Holding

\* Leaving the scope releases what was handed out, or changes nothing.
LEMMA LeaveMaps ==
    ASSUME LoadInv, LoadInv', GiveUp \/ LeaveScope
    PROVE  Contract!Release \/ UNCHANGED AbstractVars
<1>1. pc = "returned" /\ pc' = "left" /\ result' = result /\ result \in Int
  BY Sizes DEF LoadInv, TypeOK, GiveUp, LeaveScope
<1>2. CASE GiveUp
  <2>1. result < 0 /\ fd' = fd /\ allocated' = allocated
    BY <1>2 DEF GiveUp
  <2>2. Outcome = "failed" /\ Outcome' = "failed"
    BY <1>1, <2>1 DEF Outcome
  <2> QED
    BY <2>1, <2>2 DEF AbstractVars, Handed, Holding
<1>3. CASE LeaveScope
  <2>1. result >= 0
    BY <1>3 DEF LeaveScope
  <2>2. Outcome = "loaded" /\ Outcome' = "released"
    BY <1>1, <2>1 DEF Outcome
  <2>3. fd' = FALSE /\ allocated' = FALSE
    BY <1>1 DEF LoadInv, TypeOK, Opened
  <2>4. Holding' = FALSE /\ Handed' = [i \in {} |-> 0]
    BY <2>2, <2>3 DEF Holding, Handed
  <2> QED
    BY <2>2, <2>4 DEF Contract!Release, Contract!Empty, Handed, Holding
<1> QED
  BY <1>2, <1>3, GiveUp \/ LeaveScope

\* Every step is one of the contract's, or the caller cannot tell it.
LEMMA StepMaps ==
    ASSUME LoadInv, LoadInv', [Next]_vars
    PROVE  Contract!Next \/ UNCHANGED AbstractVars
<1>1. CASE OpenFails \/ StatFails \/ AllocFails \/ Finish
  <2>1. pc \notin {"returned", "left"} /\ pc' = "returned"
    BY <1>1 DEF OpenFails, StatFails, AllocFails, Finish, Return
  <2>2. result' < 0 \/ result' >= 0
    BY Sizes DEF LoadInv, TypeOK
  <2> QED
    BY <2>1, <2>2, FailMaps, LoadMaps DEF Contract!Next
<1>2. CASE Open \/ Stat \/ Alloc \/ ReadBlock \/ Overrun \/ ReadStops \/ ReadAll
  <2>1. pc \notin {"returned", "left"} /\ pc' \notin {"returned", "left"}
    BY <1>2 DEF Open, Stat, Alloc, ReadBlock, Overrun, ReadStops, ReadAll, AfterStop
  <2> QED
    BY <2>1, WorkMaps DEF Contract!Next
<1>3. CASE GiveUp \/ LeaveScope
  BY <1>3, LeaveMaps DEF Contract!Next
<1>4. CASE UNCHANGED vars
  BY <1>4 DEF vars, AbstractVars, Outcome, Handed, Holding
<1> QED
  BY <1>1, <1>2, <1>3, <1>4 DEF Next, Done

(***************************************************************************)
(* A call of LoadFileToMem that returns gives its caller every byte of the *)
(* file in its place, or an error with no descriptor open and no buffer    *)
(* allocated: it implements FileLoadSpec for every file, heap, block and   *)
(* alignment.                                                              *)
(***************************************************************************)
THEOREM FileAllOrNothing == Spec => AllOrNothing
<1>1. Init => Contract!Init
  <2> SUFFICES ASSUME Init PROVE Contract!Init
    OBVIOUS
  <2>1. Outcome = "none"
    BY DEF Init, Outcome
  <2>2. (fd \/ allocated) = FALSE
    BY DEF Init
  <2> QED
    BY <2>1, <2>2 DEF Contract!Init, Contract!Empty
<1>2. LoadInv /\ LoadInv' /\ [Next]_vars => [Contract!Next]_(Contract!vars)
  BY StepMaps DEF Contract!vars, AbstractVars, Handed, Holding
<1> QED
  BY <1>1, <1>2, LoadInvHolds, PTL DEF Spec, AllOrNothing, Contract!Spec
=============================================================================
