---------------------------- MODULE EditingProofs ----------------------------
(***************************************************************************)
(* What the parts of Editing promise for all values of the constants: the  *)
(* section's bytes first, then the tables, whose proofs are those of       *)
(* ElfTablesProofs, .dynamic and str_replace, and all of them together.    *)
(***************************************************************************)
EXTENDS Editing, Sequences, TLAPS

TablesProofs == INSTANCE ElfTablesProofs WITH
    Strings <- TableStrings,
    strtab <- tStrtab, symtab <- tSymtab, info <- tInfo, relocs <- tRelocs, pc <- tPc,
    first <- tFirst, result <- tResult, added <- tAdded, meant <- tMeant,
    failures <- tFailures, arranged <- tArranged

(***************************************************************************)
(* StaysInBlock is inductive once the types are known.                     *)
(***************************************************************************)
BufferInv == TypeOK /\ StaysInBlock

\* The inputs and sections, as the provers need them.
LEMMA Parts ==
    /\ \A raw \in Inputs : raw.len \in Nat /\ raw.byte \in [1 .. raw.len -> Byte]
    /\ (CHOOSE b \in Byte : TRUE) \in Byte
    /\ MaxSize \in Nat
BY BufferAssumption

\* A new section has no block.
LEMMA InitBufferInv == Init => BufferInv
<1> SUFFICES ASSUME Init PROVE BufferInv
  OBVIOUS
<1>1. PICK b \in Blocks :
        /\ nobits => b.room = 0 /\ b.dataSize = 0
        /\ IF nobits THEN size \in 0 .. MaxSize ELSE size = b.size
        /\ dataSize = b.dataSize /\ room = b.room /\ block = b.block
        /\ stale = ~(b.size <= b.dataSize /\ b.dataSize <= b.room)
  BY DEF Init
<1>2. /\ b.size \in Nat /\ b.room \in Nat /\ b.dataSize \in Nat
      /\ b.block \in [1 .. b.room -> Byte]
  BY BufferAssumption
<1>3. nobits \in BOOLEAN /\ overrun = FALSE
  BY DEF Init
<1>4. stale \in BOOLEAN
  BY <1>1
<1>5. size \in Nat
  BY <1>1, <1>2, Parts
<1>6. TypeOK
  BY <1>1, <1>2, <1>3, <1>4, <1>5 DEF TypeOK
<1>7. StaysInBlock
  BY <1>1, <1>2, <1>3 DEF StaysInBlock
<1> QED
  BY <1>6, <1>7 DEF BufferInv

\* What is written is a block of bytes, when it is large enough.
LEMMA MergedIsBlock ==
    ASSUME TypeOK, size <= room, NEW raw \in Inputs, NEW pos \in 0 .. size, NEW newRoom \in Nat
    PROVE  Merged(raw, pos, newRoom) \in [1 .. newRoom -> Byte]
<1>1. /\ raw.len \in Nat /\ raw.byte \in [1 .. raw.len -> Byte]
      /\ (CHOOSE b \in Byte : TRUE) \in Byte
  BY Parts
<1>2. size \in Nat /\ room \in Nat /\ block \in [1 .. room -> Byte] /\ pos \in Nat
      /\ pos <= size
  BY DEF TypeOK
<1> DEFINE At(i) ==
        IF i <= pos THEN block[i]
        ELSE IF i <= pos + raw.len THEN raw.byte[i - pos]
        ELSE IF i <= size + raw.len THEN block[i - raw.len]
        ELSE IF i <= room THEN block[i] ELSE CHOOSE b \in Byte : TRUE
<1>3. ASSUME NEW i \in 1 .. newRoom PROVE At(i) \in Byte
  <2>1. CASE i <= pos
    <3>1. i \in 1 .. room
      BY <1>2, <2>1
    <3> QED
      BY <1>2, <2>1, <3>1
  <2>2. CASE i > pos /\ i <= pos + raw.len
    <3>1. i - pos \in 1 .. raw.len
      BY <1>1, <1>2, <2>2
    <3>2. raw.byte[i - pos] \in Byte
      BY <1>1, <3>1
    <3> QED
      BY <1>1, <1>2, <2>2, <3>2
  <2>3. CASE i > pos + raw.len /\ i <= size + raw.len
    <3>1. i - raw.len \in 1 .. room
      BY <1>1, <1>2, <2>3
    <3>2. block[i - raw.len] \in Byte
      BY <1>2, <3>1
    <3> QED
      BY <1>1, <1>2, <2>3, <3>2
  <2>4. CASE i > size + raw.len
    <3>1. i <= room => block[i] \in Byte
      BY <1>2
    <3> QED
      BY <1>1, <1>2, <2>4, <3>1
  <2> QED
    BY <1>1, <1>2, <2>1, <2>2, <2>3, <2>4
<1>4. Merged(raw, pos, newRoom) = [i \in 1 .. newRoom |-> At(i)]
  BY DEF Merged
<1> HIDE DEF At
<1> QED
  BY <1>3, <1>4

\* Writing into a block of newRoom bytes.
LEMMA WriteKeeps ==
    ASSUME BufferInv, ~nobits, ~overrun, nobits' = nobits, stale' \in BOOLEAN,
          dataSize' \in Nat,
           NEW raw \in Inputs, NEW pos \in 0 .. size, NEW newRoom \in Nat,
           Write(raw, pos, newRoom)
    PROVE  TypeOK' /\ (HasRoom(raw, newRoom) => size' <= room')
<1>2. /\ nobits \in BOOLEAN /\ stale \in BOOLEAN /\ overrun \in BOOLEAN
      /\ size \in Nat /\ dataSize \in Nat /\ room \in Nat /\ block \in [1 .. room -> Byte]
  BY DEF BufferInv, TypeOK
<1>3. raw.len \in Nat
  BY Parts
<1>4. CASE HasRoom(raw, newRoom)
  <2>0. size <= room /\ size + raw.len <= newRoom
    BY <1>4 DEF HasRoom
  <2>1. /\ block' = Merged(raw, pos, newRoom)
        /\ room' = newRoom /\ size' = size + raw.len /\ overrun' = overrun
    BY <1>4 DEF Write
  <2>2. block' \in [1 .. newRoom -> Byte]
    BY <2>0, <2>1, MergedIsBlock DEF BufferInv
  <2> QED
    BY <1>2, <1>3, <2>0, <2>1, <2>2 DEF TypeOK
<1>5. CASE ~HasRoom(raw, newRoom)
  <2>1. overrun' = TRUE /\ block' = block /\ room' = room /\ size' = size
    BY <1>5 DEF Write
  <2> QED
    BY <1>2, <1>5, <2>1 DEF TypeOK
<1> QED
  BY <1>4, <1>5

\* Data that fits is inserted where it belongs and moves what is behind it.
LEMMA InPlaceKeeps ==
    ASSUME BufferInv, ~nobits, ~overrun, nobits' = nobits,
           NEW raw \in Inputs, NEW pos \in 0 .. size, InsertInPlace(raw, pos)
    PROVE  BufferInv'
<1>1. /\ size + raw.len < dataSize
      /\ Write(raw, pos, room)
      /\ dataSize' = dataSize /\ stale' = stale
  BY DEF InsertInPlace, Fits
<1>2. stale \in BOOLEAN /\ dataSize \in Nat /\ size \in Nat /\ room \in Nat /\ raw.len \in Nat
  BY Parts DEF BufferInv, TypeOK
<1>3. TypeOK'
  BY <1>1, <1>2, WriteKeeps
<1>4. ~stale => /\ overrun' = overrun /\ size' = size + raw.len /\ room' = room
                /\ dataSize <= room
  BY <1>1, <1>2 DEF Write, HasRoom, BufferInv, StaysInBlock
<1>5. StaysInBlock'
  BY <1>1, <1>2, <1>3, <1>4 DEF StaysInBlock
<1> QED
  BY <1>3, <1>5 DEF BufferInv

\* Data that does not fit is inserted into a larger block.
LEMMA MovedKeeps ==
    ASSUME BufferInv, ~nobits, ~overrun, nobits' = nobits,
           NEW raw \in Inputs, NEW pos \in 0 .. size, InsertMoved(raw, pos)
    PROVE  BufferInv'
<1> DEFINE new == 2 * (dataSize + raw.len)
<1>1. /\ dataSize' = new
      /\ Write(raw, pos, new)
      /\ stale' = (overrun' /\ stale)
  BY DEF InsertMoved, NewSize
<1>2. stale \in BOOLEAN /\ dataSize \in Nat /\ size \in Nat /\ room \in Nat /\ raw.len \in Nat
  BY Parts DEF BufferInv, TypeOK
<1>3. new \in Nat /\ stale' \in BOOLEAN
  BY <1>1, <1>2
<1>4. TypeOK'
  BY <1>1, <1>3, WriteKeeps
<1>5. CASE HasRoom(raw, new)
  <2>1. overrun' = overrun /\ size' = size + raw.len /\ room' = new
    BY <1>1, <1>5 DEF Write
  <2> QED
    BY <1>1, <1>2, <1>3, <1>4, <1>5, <2>1 DEF HasRoom, BufferInv, StaysInBlock
<1>6. CASE ~HasRoom(raw, new)
  <2>1. overrun' = TRUE
    BY <1>1, <1>6 DEF Write
  <2>2. stale
    BY <1>2, <1>6 DEF HasRoom, BufferInv, StaysInBlock
  <2> QED
    BY <1>1, <1>4, <2>1, <2>2 DEF BufferInv, StaysInBlock
<1> QED
  BY <1>5, <1>6

\* When no block can be allocated the bytes stay, though data_size has grown.
LEMMA StarvedKeeps ==
    ASSUME BufferInv, ~nobits, nobits' = nobits, NEW raw \in Inputs, InsertStarved(raw)
    PROVE  BufferInv'
<1>1. raw.len \in Nat /\ dataSize \in Nat
  BY Parts DEF BufferInv, TypeOK
<1>2. dataSize' \in Nat
  BY <1>1 DEF InsertStarved, NewSize
<1> QED
  BY <1>2 DEF InsertStarved, BufferInv, TypeOK, StaysInBlock

\* The types after a step, one by one.
LEMMA TypedFrom ==
    ASSUME nobits' \in BOOLEAN, stale' \in BOOLEAN, overrun' \in BOOLEAN,
           size' \in Nat, dataSize' \in Nat, room' \in Nat, block' \in [1 .. room' -> Byte]
    PROVE  TypeOK'
BY DEF TypeOK

\* Every call keeps the bookkeeping in step with the block.
LEMMA NextBufferInv == BufferInv /\ [Next]_vars => BufferInv'
<1> SUFFICES ASSUME BufferInv, [Next]_vars PROVE BufferInv'
  OBVIOUS
<1>0. nobits \in BOOLEAN /\ overrun \in BOOLEAN
  BY DEF BufferInv, TypeOK
<1>1. CASE SetData
  <2>1. PICK raw \in Inputs :
          /\ size' = raw.len /\ dataSize' = raw.len
          /\ room' = raw.len /\ block' = raw.byte
    BY <1>1 DEF SetData
  <2>2. stale' = FALSE /\ nobits' = nobits /\ overrun' = overrun /\ ~overrun
    BY <1>1 DEF SetData
  <2>3. raw.len \in Nat /\ raw.byte \in [1 .. raw.len -> Byte]
    BY Parts
  <2>4. TypeOK'
    BY <1>0, <2>1, <2>2, <2>3, TypedFrom
  <2>5. StaysInBlock'
    BY <2>1, <2>2, <2>3 DEF StaysInBlock
  <2> QED
    BY <2>4, <2>5 DEF BufferInv
<1>2. CASE SetNothing
  <2>1. PICK raw \in Inputs : room' \in {0, raw.len} /\ block' \in [1 .. room' -> Byte]
    BY <1>2 DEF SetNothing
  <2>2. /\ size' = 0 /\ dataSize' = 0
        /\ stale' = FALSE /\ nobits' = nobits /\ overrun' = overrun /\ ~overrun
    BY <1>2 DEF SetNothing
  <2>3. room' \in Nat
    BY <2>1, Parts
  <2>4. TypeOK'
    BY <1>0, <2>1, <2>2, <2>3, TypedFrom
  <2>5. StaysInBlock'
    BY <2>2, <2>3 DEF StaysInBlock
  <2> QED
    BY <2>4, <2>5 DEF BufferInv
<1>3. CASE SetNoBits
  <2>1. /\ nobits' = nobits /\ nobits /\ size' = dataSize /\ dataSize' = dataSize
             /\ room' = room
        /\ block' = block /\ stale' = stale /\ overrun' = overrun
    BY <1>3 DEF SetNoBits
  <2>2. TypeOK'
    BY <2>1 DEF BufferInv, TypeOK
  <2>3. StaysInBlock'
    BY <2>1 DEF BufferInv, StaysInBlock
  <2> QED
    BY <2>2, <2>3 DEF BufferInv
<1>4. CASE InsertData
  <2>1. ~overrun /\ ~nobits /\ nobits' = nobits
    BY <1>4 DEF InsertData
  <2>2. PICK raw \in Inputs, pos \in 0 .. size :
          InsertInPlace(raw, pos) \/ InsertMoved(raw, pos) \/ InsertStarved(raw)
    BY <1>4 DEF InsertData
  <2> QED
    BY <2>1, <2>2, InPlaceKeeps, MovedKeeps, StarvedKeeps
<1>5. CASE Stop \/ UNCHANGED vars
  BY <1>5 DEF Stop, vars, BufferInv, TypeOK, StaysInBlock
<1> QED
  BY <1>1, <1>2, <1>3, <1>4, <1>5 DEF Next

\* So it always is.
LEMMA BufferInvHolds == Spec => []BufferInv
BY InitBufferInv, NextBufferInv, PTL DEF Spec

(***************************************************************************)
(* Every variable keeps its type: get_data() is always a block of bytes.   *)
(***************************************************************************)
THEOREM BufferTyped == Spec => []TypeOK
<1>1. BufferInv => TypeOK
  BY DEF BufferInv
<1> QED
  BY <1>1, BufferInvHolds, PTL

(***************************************************************************)
(* insert_data overruns its block only while data_size is already wrong    *)
(* (inflated, unreadable, or an insertion has failed), and get_size()        *)
(* is more than the block only then: for every input and every section     *)
(* that set_data, load_data or inflation leave.                            *)
(***************************************************************************)
THEOREM BufferStaysInBlock == Spec => []StaysInBlock
<1>1. BufferInv => StaysInBlock
  BY DEF BufferInv
<1> QED
  BY <1>1, BufferInvHolds, PTL

-----------------------------------------------------------------------------
(***************************************************************************)
(* The refinement.  A section of SHT_NOBITS or without a block has no      *)
(* bytes.                                                                  *)
(***************************************************************************)
Mapped == <<Shown, Text, stale, overrun>>

\* The bytes of another are those its block begins with.
LEMMA TextOf ==
    /\ nobits \/ room < size => Shown = 0 /\ Text = [i \in 1 .. 0 |-> block[i]]
    /\ ~(nobits \/ room < size) => Shown = size /\ Text = [i \in 1 .. size |-> block[i]]
BY DEF Text, Shown

\* The bytes are a string of the type the specification has.
LEMMA TextIsBytes ==
    ASSUME BufferInv, ~nobits, ~(room < size)
    PROVE  Text \in [1 .. size -> Byte]
<1>1. size \in Nat /\ room \in Nat /\ size <= room /\ block \in [1 .. room -> Byte]
  BY DEF BufferInv, TypeOK
<1>2. \A i \in 1 .. size : i \in 1 .. room
  BY <1>1
<1>3. Text = [i \in 1 .. size |-> block[i]]
  BY TextOf
<1> QED
  BY <1>1, <1>2, <1>3

\* Writing without an overrun inserts.
LEMMA WriteInserts ==
    ASSUME BufferInv, ~nobits, nobits' = nobits,
           NEW raw \in Inputs, NEW pos \in 0 .. size, NEW newRoom \in Nat,
           HasRoom(raw, newRoom), Write(raw, pos, newRoom)
    PROVE  /\ Shown = size /\ Shown' = size + raw.len /\ overrun' = overrun
           /\ Text' = Bytes!Inserted(Text, size, pos, raw)
<1>1. /\ block' = Merged(raw, pos, newRoom)
      /\ room' = newRoom /\ size' = size + raw.len /\ overrun' = overrun
  BY DEF Write
<1>2. /\ size \in Nat /\ raw.len \in Nat /\ pos \in Nat /\ pos <= size
      /\ room \in Nat /\ size <= room /\ size + raw.len <= newRoom
  BY Parts DEF BufferInv, TypeOK, HasRoom
<1>3. Shown = size /\ Text = [i \in 1 .. size |-> block[i]]
  BY <1>2, TextOf
<1>4. Shown' = size + raw.len
  BY <1>1, <1>2 DEF Shown
<1>7. Text' = [i \in 1 .. (size + raw.len) |-> Merged(raw, pos, newRoom)[i]]
  BY <1>1, <1>4 DEF Text
<1>5. ASSUME NEW i \in 1 .. (size + raw.len)
      PROVE  Merged(raw, pos, newRoom)[i] =
                IF i <= pos THEN Text[i]
                ELSE IF i <= pos + raw.len THEN raw.byte[i - pos] ELSE Text[i - raw.len]
  <2>1. i \in 1 .. newRoom
    BY <1>2
  <2>2. Merged(raw, pos, newRoom)[i] =
            IF i <= pos THEN block[i]
            ELSE IF i <= pos + raw.len THEN raw.byte[i - pos] ELSE block[i - raw.len]
    BY <2>1 DEF Merged
  <2>3. CASE i <= pos
    <3>1. i \in 1 .. size
      BY <1>2, <2>3
    <3> QED
      BY <1>3, <2>2, <2>3, <3>1
  <2>4. CASE i > pos /\ i <= pos + raw.len
    BY <1>2, <2>2, <2>4
  <2>5. CASE i > pos + raw.len
    <3>1. i - raw.len \in 1 .. size
      BY <1>2, <2>5
    <3>2. Text[i - raw.len] = block[i - raw.len]
      BY <1>3, <3>1
    <3> QED
      BY <1>2, <2>2, <2>5, <3>2
  <2> QED
    BY <1>2, <2>3, <2>4, <2>5
<1>6. Text' = Bytes!Inserted(Text, size, pos, raw)
  BY <1>5, <1>7 DEF Bytes!Inserted
<1> QED
  BY <1>1, <1>3, <1>4, <1>6

\* A new section is an empty string.
LEMMA InitMaps == Init => Bytes!Init
<1> SUFFICES ASSUME Init PROVE Bytes!Init
  OBVIOUS
<1>1. BufferInv
  BY InitBufferInv
<1>2. /\ size \in Nat /\ room \in Nat /\ Shown \in Nat
      /\ stale \in BOOLEAN /\ overrun = FALSE
  BY <1>1 DEF BufferInv, TypeOK, Init, Shown
<1>3. Text \in [1 .. Shown -> Byte]
  <2>1. CASE nobits \/ room < size
    <3>1. Shown = 0 /\ Text = [i \in 1 .. 0 |-> block[i]]
      BY <2>1, TextOf
    <3>2. 1 .. 0 = {}
      OBVIOUS
    <3> QED
      BY <3>1, <3>2
  <2>2. CASE ~(nobits \/ room < size)
    <3>1. Shown = size /\ Text \in [1 .. size -> Byte]
      BY <1>1, <2>2, TextIsBytes, TextOf
    <3> QED
      BY <3>1
  <2> QED
    BY <2>1, <2>2
<1> QED
  BY <1>2, <1>3 DEF Bytes!Init

\* set_data sets the string.
LEMMA SetMaps ==
    ASSUME BufferInv, SetData \/ SetNothing
    PROVE  Bytes!Set \/ Bytes!Clear
<1>1. ~overrun /\ ~nobits /\ nobits' = nobits /\ overrun' = overrun /\ stale' = FALSE
  BY DEF SetData, SetNothing
<1>2. CASE SetData
  <2>1. PICK raw \in Inputs : size' = raw.len /\ room' = raw.len /\ block' = raw.byte
    BY <1>2 DEF SetData
  <2>4. Shown' = raw.len
    BY <1>1, <2>1, Parts DEF Shown
  <2>2. Text' = [i \in 1 .. raw.len |-> raw.byte[i]]
    BY <1>1, <2>1, <2>4 DEF Text
  <2>3. Text' = raw.byte
    BY <2>2, Parts
  <2> QED
    BY <1>1, <2>3, <2>4 DEF Bytes!Set
<1>3. CASE SetNothing
  <2>1. Shown' = 0
    BY <1>3 DEF SetNothing, Shown
  <2>2. Text' = [i \in 1 .. 0 |-> block'[i]]
    BY <1>1, <2>1 DEF Text
  <2>3. 1 .. 0 = {}
    OBVIOUS
  <2>4. Text' = Bytes!Empty
    BY <2>2, <2>3 DEF Bytes!Empty
  <2> QED
    BY <1>1, <2>1, <2>4 DEF Bytes!Clear
<1> QED
  BY <1>2, <1>3

\* insert_data inserts into it, does nothing without memory, and overruns only
\* behind a wrong size.
LEMMA InsertMaps ==
    ASSUME BufferInv, InsertData
    PROVE  Bytes!Insert \/ Bytes!InsertWithoutMemory \/ Bytes!InsertOverruns
<1>1. ~overrun /\ ~nobits /\ nobits' = nobits
  BY DEF InsertData
<1>2. PICK raw \in Inputs, pos \in 0 .. size :
        InsertInPlace(raw, pos) \/ InsertMoved(raw, pos) \/ InsertStarved(raw)
  BY DEF InsertData
<1>3. /\ size \in Nat /\ room \in Nat /\ dataSize \in Nat /\ raw.len \in Nat
      /\ stale \in BOOLEAN /\ NewSize(raw) \in Nat
  BY Parts DEF BufferInv, TypeOK, NewSize
<1>4. CASE InsertStarved(raw)
  <2>1. /\ size' = size /\ room' = room /\ block' = block /\ overrun' = overrun
        /\ stale' = TRUE
    BY <1>4 DEF InsertStarved
  <2>2. Shown' = Shown /\ Text' = Text
    BY <1>1, <2>1 DEF Text, Shown
  <2> QED
    BY <1>1, <2>1, <2>2 DEF Bytes!InsertWithoutMemory
<1>5. ASSUME NEW newRoom \in Nat, Write(raw, pos, newRoom), HasRoom(raw, newRoom),
             stale' \in {stale, FALSE}
      PROVE  Bytes!Insert
  BY <1>1, <1>5, WriteInserts DEF Bytes!Insert
<1>6. CASE InsertInPlace(raw, pos)
  <2>1. Write(raw, pos, room) /\ stale' = stale /\ size + raw.len < dataSize
    BY <1>6 DEF InsertInPlace, Fits
  <2>2. CASE HasRoom(raw, room)
    BY <1>3, <1>5, <2>1, <2>2
  <2>3. CASE ~HasRoom(raw, room)
    <3>1. overrun' = TRUE
      BY <2>1, <2>3 DEF Write
    <3>2. stale
      BY <1>1, <1>3, <2>1, <2>3 DEF HasRoom, BufferInv, StaysInBlock
    <3> QED
      BY <1>1, <2>1, <3>1, <3>2 DEF Bytes!InsertOverruns
  <2> QED
    BY <2>2, <2>3
<1>7. CASE InsertMoved(raw, pos)
  <2>1. Write(raw, pos, NewSize(raw)) /\ stale' = (overrun' /\ stale)
    BY <1>7 DEF InsertMoved
  <2>2. CASE HasRoom(raw, NewSize(raw))
    <3>1. overrun' = overrun
      BY <2>1, <2>2 DEF Write
    <3>2. stale' = FALSE
      BY <1>1, <2>1, <3>1
    <3> QED
      BY <1>3, <1>5, <2>1, <2>2, <3>2
  <2>3. CASE ~HasRoom(raw, NewSize(raw))
    <3>1. overrun' = TRUE
      BY <2>1, <2>3 DEF Write
    <3>2. stale
      BY <1>1, <1>3, <2>3 DEF HasRoom, BufferInv, StaysInBlock, NewSize
    <3>3. stale' = stale
      BY <1>3, <2>1, <3>1, <3>2
    <3> QED
      BY <1>1, <3>1, <3>2, <3>3 DEF Bytes!InsertOverruns
  <2> QED
    BY <2>2, <2>3
<1> QED
  BY <1>2, <1>4, <1>6, <1>7

\* The rest cannot be told from nothing.
LEMMA NoBitsMaps ==
    ASSUME SetNoBits \/ Stop \/ UNCHANGED vars
    PROVE  UNCHANGED Mapped
<1>1. /\ nobits' = nobits /\ block' = block /\ room' = room
      /\ stale' = stale /\ overrun' = overrun
      /\ ~nobits => size' = size
  BY DEF SetNoBits, Stop, vars
<1>2. Shown' = Shown /\ Text' = Text
  BY <1>1 DEF Text, Shown
<1> QED
  BY <1>1, <1>2 DEF Mapped

(***************************************************************************)
(* Up to the first overrun the section holds exactly what was set and      *)
(* inserted, and an overrun needs a section whose data_size is wrong; an   *)
(* insertion without memory changes no byte, but makes it wrong.  So the   *)
(* section implements ByteString, for all bytes, inputs, sections, sizes.  *)
(***************************************************************************)
THEOREM BufferHoldsTheBytes == Spec => HoldsTheBytes
<1>1. BufferInv /\ [Next]_vars => [Bytes!Next]_(Bytes!vars)
  <2> SUFFICES ASSUME BufferInv, [Next]_vars PROVE Bytes!Next \/ UNCHANGED Mapped
    BY DEF Bytes!vars, Mapped
  <2>1. CASE SetData \/ SetNothing
    BY <2>1, SetMaps DEF Bytes!Next
  <2>2. CASE InsertData
    BY <2>2, InsertMaps DEF Bytes!Next
  <2>3. CASE SetNoBits \/ Stop \/ UNCHANGED vars
    BY <2>3, NoBitsMaps
  <2> QED
    BY <2>1, <2>2, <2>3 DEF Next
<1> QED
  BY <1>1, InitMaps, BufferInvHolds, PTL DEF Spec, HoldsTheBytes, Bytes!Spec

-----------------------------------------------------------------------------
(***************************************************************************)
(* The tables: ElfTablesProofs is about the ElfTables it extends.  What it *)
(* says of that module is said here of Tables, definition by definition.   *)
(***************************************************************************)
LEMMA SameCursor ==
    /\ TablesProofs!FirstNotLocal = Tables!FirstNotLocal
    /\ TablesProofs!NextLocal = Tables!NextLocal
    /\ TablesProofs!CanSwap <=> Tables!CanSwap
<1>1. \A from, local : TablesProofs!Seek(from, local) = Tables!Seek(from, local)
  BY
  DEF TablesProofs!Seek, Tables!Seek, TablesProofs!Stops, Tables!Stops,
      TablesProofs!IsLocal, Tables!IsLocal, TablesProofs!Count, Tables!Count
<1> QED
  BY <1>1
  DEF TablesProofs!FirstNotLocal, Tables!FirstNotLocal, TablesProofs!NextLocal,
      Tables!NextLocal, TablesProofs!CanSwap, Tables!CanSwap, TablesProofs!Count,
      Tables!Count

\* SwapSymbols and its callback.
LEMMA SameExchange == TablesProofs!Exchange <=> Tables!Exchange
<1>1. \A p, q : /\ TablesProofs!SwapSymbols(p, q) <=> Tables!SwapSymbols(p, q)
                /\ TablesProofs!Swapped(p, q) = Tables!Swapped(p, q)
  BY
  DEF TablesProofs!SwapSymbols, Tables!SwapSymbols, TablesProofs!Swapped,
      Tables!Swapped, TablesProofs!Renamed, Tables!Renamed, TablesProofs!R_INFO,
      Tables!R_INFO, TablesProofs!R_SYM, Tables!R_SYM, TablesProofs!R_TYPE,
      Tables!R_TYPE
<1> QED
  BY <1>1, SameCursor
  DEF TablesProofs!Exchange, Tables!Exchange, TablesProofs!history, Tables!history

\* The last round of arrange_local_symbols.
LEMMA SameArranged == TablesProofs!Arranged <=> Tables!Arranged
  BY SameCursor
  DEF TablesProofs!Arranged, Tables!Arranged, TablesProofs!tables, Tables!tables,
      TablesProofs!history, Tables!history

\* add_symbol with a string.
LEMMA SameAddSymbol ==
    \A str, bind, value, lack :
        TablesProofs!AddSymbolWith(str, bind, value, lack)
            <=> Tables!AddSymbolWith(str, bind, value, lack)
<1> SUFFICES ASSUME NEW str, NEW bind, NEW value, NEW lack
             PROVE  TablesProofs!AddSymbolWith(str, bind, value, lack)
                        <=> Tables!AddSymbolWith(str, bind, value, lack)
  OBVIOUS
<1> DEFINE symbol == [name |-> Tables!StringIndex, bind |-> bind, value |-> value,
                      born |-> Len(tAdded) + 1]
<1>1. TablesProofs!NewString(str, lack) = Tables!NewString(str, lack)
  BY
  DEF TablesProofs!NewString, Tables!NewString, TablesProofs!Appended, Tables!Appended
<1>2. TablesProofs!StringIndex = Tables!StringIndex
  BY
  DEF TablesProofs!StringIndex, Tables!StringIndex
<1>3. TablesProofs!NewSymbols(symbol, lack) = Tables!NewSymbols(symbol, lack)
  BY
  DEF TablesProofs!NewSymbols, Tables!NewSymbols, TablesProofs!Appended,
      Tables!Appended, TablesProofs!NullSymbol, Tables!NullSymbol
<1>4. TablesProofs!NewSymbols([name |-> TablesProofs!StringIndex, bind |-> bind,
      value |-> value,
                               born |-> Len(tAdded) + 1], lack)
                                     = Tables!NewSymbols(symbol, lack)
  BY <1>2, <1>3
<1>5. TablesProofs!Cardinality(lack) = Tables!Cardinality(lack)
  BY
  DEF TablesProofs!Cardinality, Tables!Cardinality
<1> QED
  BY <1>1, <1>4, <1>5
  DEF TablesProofs!AddSymbolWith, Tables!AddSymbolWith

\* What a caller may do between two rounds.
LEMMA SameCalls == TablesProofs!Calls <=> Tables!Calls
<1>1. \A str, bind, value, lack :
        TablesProofs!AddSymbol(str, bind, value, lack)
              <=> Tables!AddSymbol(str, bind, value, lack)
  BY SameAddSymbol
  DEF TablesProofs!AddSymbol, Tables!AddSymbol
<1>2. \A str, bind, value, offset, type, lack :
        TablesProofs!AddAll(str, bind, value, offset, type, lack)
            <=> Tables!AddAll(str, bind, value, offset, type, lack)
  BY SameAddSymbol
  DEF TablesProofs!AddAll, Tables!AddAll, TablesProofs!Entry, Tables!Entry,
      TablesProofs!Meaning, Tables!Meaning, TablesProofs!R_INFO, Tables!R_INFO
<1>3. \A index, offset, type, addend :
        TablesProofs!AddEntry(index, offset, type, addend)
            <=> Tables!AddEntry(index, offset, type, addend)
  BY
  DEF TablesProofs!AddEntry, Tables!AddEntry, TablesProofs!Entry, Tables!Entry,
      TablesProofs!Meaning, Tables!Meaning, TablesProofs!R_INFO, Tables!R_INFO,
      TablesProofs!Born, Tables!Born, TablesProofs!tables, Tables!tables,
      TablesProofs!history, Tables!history
<1>4. \A k, index, offset, type, addend :
        TablesProofs!SetEntry(k, index, offset, type, addend)
            <=> Tables!SetEntry(k, index, offset, type, addend)
  BY
  DEF TablesProofs!SetEntry, Tables!SetEntry, TablesProofs!Entry, Tables!Entry,
      TablesProofs!Meaning, Tables!Meaning, TablesProofs!R_INFO, Tables!R_INFO,
      TablesProofs!Born, Tables!Born, TablesProofs!tables, Tables!tables,
      TablesProofs!history, Tables!history
<1>5. /\ TablesProofs!StartArrange <=> Tables!StartArrange
      /\ TablesProofs!Full <=> Tables!Full
  BY
  DEF TablesProofs!StartArrange, Tables!StartArrange, TablesProofs!Full, Tables!Full,
      TablesProofs!tables, Tables!tables, TablesProofs!history, Tables!history,
      TablesProofs!vars, Tables!vars
<1>6. TablesProofs!AddEntryStarved <=> Tables!AddEntryStarved
  BY
  DEF TablesProofs!AddEntryStarved, Tables!AddEntryStarved, TablesProofs!tables, Tables!tables
<1> QED
  BY <1>1, <1>2, <1>3, <1>4, <1>5, <1>6
  DEF TablesProofs!Calls, Tables!Calls, TablesProofs!Binds, Tables!Binds,
      TablesProofs!Appends, Tables!Appends, TablesProofs!Count, Tables!Count,
      TablesProofs!AppendsOfEntry, Tables!AppendsOfEntry

\* So all of the two instances is the same.
LEMMA SameTables ==
    /\ Tables!TablesAssumption => TablesProofs!TablesAssumption
    /\ TablesProofs!Init <=> Tables!Init
    /\ TablesProofs!TypeOK <=> Tables!TypeOK
    /\ TablesProofs!SymbolsKept <=> Tables!SymbolsKept
    /\ TablesProofs!RelocationsFollow <=> Tables!RelocationsFollow
    /\ TablesProofs!LocalsFirst <=> Tables!LocalsFirst
<1>1. Tables!TablesAssumption => TablesProofs!TablesAssumption
  BY
  DEF TablesProofs!TablesAssumption, Tables!TablesAssumption
<1>2. TablesProofs!Init <=> Tables!Init
  BY
  DEF TablesProofs!Init, Tables!Init
<1>3. TablesProofs!TypeOK <=> Tables!TypeOK
  BY
  DEF TablesProofs!TypeOK, Tables!TypeOK, TablesProofs!Symbols, Tables!Symbols,
      TablesProofs!Entries, Tables!Entries, TablesProofs!Meanings, Tables!Meanings,
      TablesProofs!Binds, Tables!Binds
<1>4. TablesProofs!SymbolsKept <=> Tables!SymbolsKept
  BY
  DEF TablesProofs!SymbolsKept, Tables!SymbolsKept, TablesProofs!StringAt,
      Tables!StringAt, TablesProofs!Count, Tables!Count, TablesProofs!NullSymbol,
      Tables!NullSymbol
<1>5. TablesProofs!RelocationsFollow <=> Tables!RelocationsFollow
  BY
  DEF TablesProofs!RelocationsFollow, Tables!RelocationsFollow, TablesProofs!Born,
      Tables!Born, TablesProofs!CalcValue, Tables!CalcValue, TablesProofs!R_SYM,
      Tables!R_SYM, TablesProofs!R_TYPE, Tables!R_TYPE, TablesProofs!Count, Tables!Count
<1>6. TablesProofs!LocalsFirst <=> Tables!LocalsFirst
  BY
  DEF TablesProofs!LocalsFirst, Tables!LocalsFirst, TablesProofs!IsLocal,
      Tables!IsLocal, TablesProofs!Count, Tables!Count
<1> QED
  BY <1>1, <1>2, <1>3, <1>4, <1>5, <1>6

\* A step of the tables keeps what ElfTablesProofs knows, and leaving them alone does.
LEMMA TablesKept ==
    ASSUME TablesProofs!TablesInv,
           Tables!Exchange \/ Tables!Arranged \/ Tables!Calls \/ UNCHANGED symbols
    PROVE  TablesProofs!TablesInv'
<1>1. TablesProofs!TablesAssumption
  BY PartsAssumption, SameTables
<1>2. CASE Tables!Exchange \/ Tables!Arranged \/ Tables!Calls
  <2>1. TablesProofs!Exchange \/ TablesProofs!Arranged \/ TablesProofs!Calls
    BY <1>2, SameExchange, SameArranged, SameCalls
  <2>2. TablesProofs!Next
    BY <2>1 DEF TablesProofs!Next
  <2> QED
    BY <1>1, <2>2, TablesProofs!TablesStep
<1>3. CASE UNCHANGED symbols
  <2>1. UNCHANGED TablesProofs!vars
    BY <1>3 DEF symbols, TablesProofs!vars
  <2> QED
    BY <1>1, <2>1, TablesProofs!TablesStep
<1> QED
  BY <1>2, <1>3

-----------------------------------------------------------------------------
\* Two words behind the others.
LEMMA TwoMore ==
    ASSUME NEW s \in Seq(Nat), NEW a \in Nat, NEW b \in Nat
    PROVE  /\ s \o <<a, b>> \in Seq(Nat)
           /\ Len(s \o <<a, b>>) = Len(s) + 2
           /\ \A j \in 1 .. Len(s) : (s \o <<a, b>>)[j] = s[j]
           /\ (s \o <<a, b>>)[Len(s) + 1] = a /\ (s \o <<a, b>>)[Len(s) + 2] = b
<1>1. PICK t : t = <<a, b>>
  OBVIOUS
<1>3. t \in Seq(Nat) /\ Len(t) = 2 /\ t[1] = a /\ t[2] = b
  BY <1>1
<1>2. /\ s \o t \in Seq(Nat)
      /\ Len(s \o t) = Len(s) + 2
      /\ \A j \in 1 .. Len(s) : (s \o t)[j] = s[j]
      /\ (s \o t)[Len(s) + 1] = t[1] /\ (s \o t)[Len(s) + 2] = t[2]
  <2>1. t \in Seq(Nat)
    BY <1>3
  <2>2. /\ s \o t \in Seq(Nat)
        /\ Len(s \o t) = Len(s) + Len(t)
        /\ \A j \in 1 .. Len(s) : (s \o t)[j] = s[j]
        /\ \A j \in 1 .. Len(t) : (s \o t)[Len(s) + j] = t[j]
    BY <2>1
  <2>3. 1 \in 1 .. Len(t) /\ 2 \in 1 .. Len(t)
    BY <1>3
  <2> QED
    BY <1>3, <2>2, <2>3
<1> QED
  BY <1>1, <1>2, <1>3
(***************************************************************************)
(* What has been counted, by the loop so far or by the accessor, has no    *)
(* DT_NULL before its end and lies in the section,                         *)
(***************************************************************************)
Counted ==
    /\ dI \in Nat
    /\ dPc = "count" =>
         /\ Dynamic!Countable /\ dNum = 0
         /\ \A k \in Nat : k < dI => Dynamic!Tag(k) # Dynamic!DT_NULL
    /\ dNum # 0 =>
         /\ Dynamic!Countable /\ dNum <= Dynamic!Total
         /\ \A k \in Nat : k + 1 < dNum => Dynamic!Tag(k) # Dynamic!DT_NULL
    /\ DOMAIN dSeen = 1 .. dNum
    /\ \A k \in DOMAIN dSeen :
         Dynamic!Tag(k - 1) = dSeen[k].tag /\ Dynamic!Value(k - 1) = dSeen[k].value

\* and in a section that add_entry built every entry is where it was put.
EntryHolds(k) ==
    /\ dAdded[k].tag \in Nat /\ dAdded[k].value \in Nat
    /\ dWords[2 * k - 1] = dAdded[k].tag
    /\ dWords[2 * k] = IF dAdded[k].tag \in Dynamic!Valueless THEN 0 ELSE dAdded[k].value
    /\ dAdded[k].str # Dynamic!NoString =>
         /\ dAdded[k].tag \in Dynamic!NamesString
         /\ dAdded[k].value \in DOMAIN dNames
         /\ dNames[dAdded[k].value] = dAdded[k].str
BuiltInv ==
    dFitting =>
        /\ dEntsize = Dynamic!EntryWords
        /\ Len(dAdded) \in Nat /\ DOMAIN dAdded = 1 .. Len(dAdded)
        /\ Len(dWords) = 2 * Len(dAdded)
        /\ \A k \in DOMAIN dAdded : EntryHolds(k)

Given == Names \cup {Dynamic!NoString}

DynamicInv ==
    /\ Dynamic!TypeOK
    /\ Counted
    /\ dAdded \in Seq([tag : Nat, value : Nat, str : Given])
    /\ BuiltInv

\* The entries that end within n words are those before the quotient.
LEMMA WholeEntries ==
    ASSUME NEW n \in Nat, NEW e \in Nat, e > 0, NEW k \in Nat
    PROVE  /\ n \div e \in Nat
           /\ k < n \div e <=> (k + 1) * e <= n
<1> DEFINE q == n \div e
<1>1. q \in Nat /\ q * e <= n /\ n < (q + 1) * e
  OBVIOUS
<1> HIDE DEF q
<1>2. ASSUME k < q PROVE (k + 1) * e <= n
  <2>1. (k + 1) * e <= q * e
    BY <1>1, <1>2
  <2> QED
    BY <1>1, <2>1
<1>3. ASSUME ~ (k < q) PROVE ~ ((k + 1) * e <= n)
  <2>1. (q + 1) * e <= (k + 1) * e
    BY <1>1, <1>3
  <2>2. (k + 1) * e \in Nat
    OBVIOUS
  <2> QED
    BY <1>1, <2>1, <2>2
<1> QED
  BY <1>1, <1>2, <1>3 DEF q

\* What is read of an entry depends on the section alone, and appending to the
\* section leaves its entries where they are.
LEMMA EntriesStay ==
    ASSUME dWords \in Seq(Nat), dEntsize \in Nat, dEntsize' = dEntsize,
           NEW more \in Seq(Nat), dWords' = dWords \o more,
           NEW k \in Nat, Dynamic!InSection(k)
    PROVE  Dynamic!InSection(k)' /\ Dynamic!Tag(k)' = Dynamic!Tag(k)
          /\ Dynamic!Value(k)' = Dynamic!Value(k)
<1>1. /\ (k + 1) * dEntsize <= Len(dWords) /\ dEntsize >= 2 /\ dWords # <<>>
      /\ Len(dWords) \in Nat /\ Len(more) \in Nat
  BY DEF Dynamic!InSection, Dynamic!EntryWords
<1>2. Len(dWords') = Len(dWords) + Len(more) /\ \A j \in 1 .. Len(dWords) :
      dWords'[j] = dWords[j]
  OBVIOUS
<1>3. k * dEntsize \in Nat /\ (k + 1) * dEntsize = k * dEntsize + dEntsize
  OBVIOUS
<1>4. k * dEntsize + 1 \in 1 .. Len(dWords) /\ k * dEntsize + 2 \in 1 .. Len(dWords)
  <2>1. PICK at \in Nat : at = k * dEntsize
    BY <1>3
  <2>2. at + dEntsize <= Len(dWords)
    BY <1>1, <1>3, <2>1
  <2>3. at + 2 <= Len(dWords) /\ Len(dWords) \in Nat
    <3>1. dEntsize >= 2 /\ Len(dWords) \in Nat
      BY <1>1
    <3> QED
      BY <2>2, <3>1
  <2>4. at + 1 \in 1 .. Len(dWords) /\ at + 2 \in 1 .. Len(dWords)
    BY <2>3
  <2> QED
    BY <2>1, <2>4
<1>5. dWords' # <<>> /\ (k + 1) * dEntsize' <= Len(dWords')
  BY <1>1, <1>2, <1>3
<1>6. Dynamic!InSection(k)'
  BY <1>1, <1>5 DEF Dynamic!InSection, Dynamic!EntryWords
<1>7. Dynamic!Tag(k)' = Dynamic!Tag(k)
  BY <1>2, <1>4, <1>6 DEF Dynamic!Tag
<1>8. Dynamic!Value(k)' = Dynamic!Value(k)
  BY <1>2, <1>4, <1>6, <1>7 DEF Dynamic!Value
<1> QED
  BY <1>6, <1>7, <1>8

\* The whole entries of a section are in it.
LEMMA TotalInSection ==
    ASSUME dWords \in Seq(Nat), dEntsize \in Nat, Dynamic!Countable
    PROVE  /\ Dynamic!Total \in Nat
           /\ \A k \in Nat : k < Dynamic!Total <=> Dynamic!InSection(k)
<1>1. dEntsize > 0 /\ dEntsize >= Dynamic!EntryWords /\ Len(dWords) \in Nat
  BY DEF Dynamic!Countable
<1>2. Dynamic!Total \in Nat
  BY <1>1, WholeEntries DEF Dynamic!Total
<1>3. ASSUME NEW k \in Nat PROVE k < Dynamic!Total <=> Dynamic!InSection(k)
  <2>1. k < Dynamic!Total <=> (k + 1) * dEntsize <= Len(dWords)
    BY <1>1, WholeEntries DEF Dynamic!Total
  <2>2. (k + 1) * dEntsize <= Len(dWords) => dWords # <<>>
    <3>1. (k + 1) * dEntsize >= 1
      BY <1>1
    <3>2. dWords = <<>> => Len(dWords) = 0
      OBVIOUS
    <3> QED
      BY <3>1, <3>2, <1>1
  <2> QED
    BY <1>1, <2>1, <2>2 DEF Dynamic!InSection
<1> QED
  BY <1>2, <1>3

\* A section that grows keeps its whole entries.
LEMMA TotalGrows ==
    ASSUME dWords \in Seq(Nat), dEntsize \in Nat, Dynamic!Countable, dEntsize' = dEntsize,
           NEW more \in Seq(Nat), dWords' = dWords \o more
    PROVE  Dynamic!Countable' /\ Dynamic!Total' \in Nat /\ Dynamic!Total <= Dynamic!Total'
<1>1. Dynamic!Countable'
  BY DEF Dynamic!Countable
<1>2. dWords' \in Seq(Nat) /\ dEntsize' \in Nat
  OBVIOUS
<1>3. Dynamic!Total \in Nat /\ \A k \in Nat : k < Dynamic!Total <=> Dynamic!InSection(k)
  BY TotalInSection
<1>4. Dynamic!Total' \in Nat /\ \A k \in Nat : k < Dynamic!Total' <=> Dynamic!InSection(k)'
  <2>1. dEntsize' > 0 /\ dEntsize' >= Dynamic!EntryWords /\ Len(dWords') \in Nat
    BY <1>1, <1>2 DEF Dynamic!Countable
  <2>2. Dynamic!Total' \in Nat
    BY <1>2, <2>1, WholeEntries DEF Dynamic!Total
  <2>3. ASSUME NEW k \in Nat PROVE k < Dynamic!Total' <=> Dynamic!InSection(k)'
    <3>1. k < Dynamic!Total' <=> (k + 1) * dEntsize' <= Len(dWords')
      BY <1>2, <2>1, WholeEntries DEF Dynamic!Total
    <3>2. (k + 1) * dEntsize' <= Len(dWords') => dWords' # <<>>
      <4>1. (k + 1) * dEntsize' >= 1
        BY <1>2, <2>1 DEF Dynamic!EntryWords
      <4>2. dWords' = <<>> => Len(dWords') = 0
        OBVIOUS
      <4> QED
        BY <4>1, <4>2, <2>1
    <3> QED
      BY <2>1, <3>1, <3>2 DEF Dynamic!InSection
  <2> QED
    BY <2>2, <2>3
<1>5. ASSUME Dynamic!Total' < Dynamic!Total PROVE FALSE
  <2>1. Dynamic!InSection(Dynamic!Total')
    BY <1>3, <1>4, <1>5
  <2>2. PICK k \in Nat : k = Dynamic!Total'
    BY <1>4
  <2>3. Dynamic!InSection(k)'
    BY <2>1, <2>2, EntriesStay
  <2> QED
    BY <1>4, <2>2, <2>3
<1> QED
  BY <1>1, <1>3, <1>4, <1>5

\* What the accessor knows is true of a section that grows.
LEMMA CountedStays ==
    ASSUME Dynamic!TypeOK, Counted, dEntsize' = dEntsize, dPc = "idle",
           NEW more \in Seq(Nat), dWords' = dWords \o more,
           UNCHANGED <<dNum, dPc, dI, dSeen>>
    PROVE  Counted'
<1>1. dWords \in Seq(Nat) /\ dEntsize \in Nat /\ dNum \in Nat /\ DOMAIN dSeen = 1 .. dNum
  BY DEF Dynamic!TypeOK, Counted
<1>2. ASSUME dNum # 0
      PROVE  /\ Dynamic!Countable' /\ dNum <= Dynamic!Total'
             /\ \A k \in Nat : k + 1 < dNum => Dynamic!Tag(k)' # Dynamic!DT_NULL
             /\ \A k \in DOMAIN dSeen : Dynamic!Tag(k - 1)' = dSeen[k].tag
                  /\ Dynamic!Value(k - 1)' = dSeen[k].value
  <2>1. /\ Dynamic!Countable /\ dNum <= Dynamic!Total
        /\ \A k \in Nat : k + 1 < dNum => Dynamic!Tag(k) # Dynamic!DT_NULL
        /\ \A k \in DOMAIN dSeen : Dynamic!Tag(k - 1) = dSeen[k].tag
             /\ Dynamic!Value(k - 1) = dSeen[k].value
    BY <1>2 DEF Counted
  <2>2. Dynamic!Total \in Nat /\ \A k \in Nat : k < Dynamic!Total <=> Dynamic!InSection(k)
    BY <1>1, <2>1, TotalInSection
  <2>3. Dynamic!Countable' /\ Dynamic!Total' \in Nat /\ Dynamic!Total <= Dynamic!Total'
    BY <1>1, <2>1, TotalGrows
  <2>4. \A k \in Nat : k < dNum => Dynamic!Tag(k)' = Dynamic!Tag(k)
        /\ Dynamic!Value(k)' = Dynamic!Value(k)
    BY <1>1, <2>1, <2>2, EntriesStay
  <2>5. \A k \in Nat : k + 1 < dNum => Dynamic!Tag(k)' # Dynamic!DT_NULL
    BY <1>1, <2>1, <2>4
  <2>6. DOMAIN dSeen = 1 .. dNum
    BY <1>1
  <2> QED
    BY <1>1, <2>1, <2>2, <2>3, <2>4, <2>5, <2>6
<1>3. dNum = 0 => DOMAIN dSeen = {}
  BY <1>1
<1> QED
  BY <1>1, <1>2, <1>3 DEF Counted

-----------------------------------------------------------------------------
\* A section that is new or was loaded.
LEMMA DynamicStart == Dynamic!DynamicAssumption /\ Dynamic!Init => DynamicInv
<1> SUFFICES ASSUME Dynamic!DynamicAssumption, Dynamic!Init PROVE DynamicInv
  OBVIOUS
<1>1. PICK s \in Sections :
        /\ dWords = s.words /\ dEntsize = s.entsize
        /\ dFitting = (s.entsize = Dynamic!EntryWords /\ s.words = <<>>)
  BY DEF Dynamic!Init
<1>2. dWords \in Seq(Nat) /\ dEntsize \in Nat
  BY <1>1 DEF Dynamic!DynamicAssumption
<1>3. /\ dNames = <<>> /\ dNum = 0 /\ dPc = "idle" /\ dI = 0 /\ dSeen = <<>> /\ dAdded = <<>>
  BY DEF Dynamic!Init
<1>4. \A S : <<>> \in Seq(S)
  OBVIOUS
<1>5. Len(dSeen) = 0 /\ DOMAIN dSeen = {} /\ DOMAIN dAdded = {} /\ Len(dAdded) = 0
  BY <1>3
<1>6. Dynamic!TypeOK
  BY <1>2, <1>3, <1>4, <1>5 DEF Dynamic!TypeOK
<1>7. Counted
  <2>1. 1 .. dNum = {}
    BY <1>3
  <2> QED
    BY <1>3, <1>5, <2>1 DEF Counted
<1>8. BuiltInv
  <2>1. dFitting => dEntsize = Dynamic!EntryWords /\ Len(dWords) = 0
    BY <1>1
  <2>2. DOMAIN dAdded = 1 .. Len(dAdded)
    BY <1>5
  <2> QED
    BY <1>5, <2>1, <2>2 DEF BuiltInv
<1> QED
  BY <1>3, <1>4, <1>6, <1>7, <1>8 DEF DynamicInv

\* Counting begins at the first entry.
LEMMA GetEntriesNumStep == DynamicInv /\ Dynamic!GetEntriesNum => DynamicInv'
<1> SUFFICES ASSUME DynamicInv, Dynamic!GetEntriesNum PROVE DynamicInv'
  OBVIOUS
<1>1. /\ dPc = "idle" /\ dNum = 0 /\ Dynamic!Countable /\ Dynamic!Total # 0 /\ dPc' = "count"
           /\ dI' = 0
      /\ UNCHANGED <<dWords, dEntsize, dNames, dNum, dSeen, dFitting, dAdded>>
  BY DEF Dynamic!GetEntriesNum
<1>2. Dynamic!TypeOK /\ Counted /\ BuiltInv
      /\ dAdded \in Seq([tag : Nat, value : Nat, str : Given])
  BY DEF DynamicInv
<1>3. Dynamic!Total \in Nat /\ Dynamic!Total' = Dynamic!Total
  BY <1>1, <1>2, TotalInSection DEF Dynamic!TypeOK, Dynamic!Total
<1>4. Dynamic!TypeOK'
  BY <1>1, <1>2, <1>3 DEF Dynamic!TypeOK
<1>5. Counted'
  <2>1. \A k : Dynamic!Tag(k)' = Dynamic!Tag(k) /\ Dynamic!Value(k)' = Dynamic!Value(k)
    BY <1>1 DEF Dynamic!Tag, Dynamic!Value, Dynamic!InSection
  <2>2. Dynamic!Countable'
    BY <1>1 DEF Dynamic!Countable
  <2>3. \A k \in Nat : ~ (k < 0)
    OBVIOUS
  <2> QED
    BY <1>1, <1>2, <2>1, <2>2, <2>3 DEF Counted
<1>6. BuiltInv'
  BY <1>1, <1>2 DEF BuiltInv, EntryHolds
<1> QED
  BY <1>1, <1>2, <1>4, <1>5, <1>6 DEF DynamicInv

\* The loop goes on, or it has found what it counts.
LEMMA CountEntryStep ==
    ASSUME DynamicInv, Dynamic!CountEntry
    PROVE  DynamicInv' /\ (dNum' # dNum => dNum' = Dynamic!EntriesNum)
<1>1. /\ dPc = "count" /\ UNCHANGED <<dWords, dEntsize, dNames, dFitting, dAdded>>
  BY DEF Dynamic!CountEntry
<1>2. Dynamic!TypeOK /\ Counted /\ BuiltInv
      /\ dAdded \in Seq([tag : Nat, value : Nat, str : Given])
  BY DEF DynamicInv
<1>3. /\ dI \in Nat /\ Dynamic!Countable /\ dNum = 0 /\ dI <= Dynamic!Total
      /\ \A k \in Nat : k < dI => Dynamic!Tag(k) # Dynamic!DT_NULL
  BY <1>1, <1>2 DEF Counted, Dynamic!TypeOK
<1>4. dWords \in Seq(Nat) /\ dEntsize \in Nat /\ dNames \in Seq(Names)
  BY <1>2 DEF Dynamic!TypeOK
<1>5. /\ Dynamic!Total \in Nat /\ Dynamic!Total' = Dynamic!Total /\ Dynamic!Countable'
      /\ \A k : Dynamic!Tag(k)' = Dynamic!Tag(k) /\ Dynamic!Value(k)' = Dynamic!Value(k)
  <2>1. Dynamic!Total \in Nat
    BY <1>3, <1>4, TotalInSection
  <2> QED
    BY <1>1, <1>3, <2>1 DEF Dynamic!Total, Dynamic!Countable, Dynamic!Tag, Dynamic!Value,
          Dynamic!InSection
<1>6. BuiltInv'
  BY <1>1, <1>2 DEF BuiltInv, EntryHolds
<1>7. CASE dI < Dynamic!Total /\ Dynamic!Tag(dI) # Dynamic!DT_NULL
  <2>1. dI' = dI + 1 /\ UNCHANGED <<dPc, dNum, dSeen>>
    BY <1>7 DEF Dynamic!CountEntry
  <2>2. Dynamic!TypeOK'
    BY <1>1, <1>2, <1>3, <1>5, <1>7, <2>1 DEF Dynamic!TypeOK
  <2>3. \A k \in Nat : k < dI + 1 => Dynamic!Tag(k)' # Dynamic!DT_NULL
    <3>1. \A k \in Nat : k < dI + 1 => k < dI \/ k = dI
      BY <1>3
    <3> QED
      BY <1>3, <1>5, <1>7, <3>1
  <2>4. Counted'
    BY <1>1, <1>2, <1>3, <1>5, <2>1, <2>3 DEF Counted
  <2> QED
    BY <1>1, <1>2, <1>6, <2>1, <2>2, <2>4 DEF DynamicInv
<1>8. CASE ~ (dI < Dynamic!Total /\ Dynamic!Tag(dI) # Dynamic!DT_NULL)
  <2> DEFINE n == IF dI + 1 < Dynamic!Total THEN dI + 1 ELSE Dynamic!Total
  <2>1. dNum' = n /\ dSeen' = [k \in 1 .. n |-> Dynamic!GetEntry(k - 1)] /\ dPc' = "idle"
        /\ dI' = dI
    BY <1>8 DEF Dynamic!CountEntry, Dynamic!Cached
  <2>2. n \in Nat /\ n <= Dynamic!Total /\ n <= dI + 1
    BY <1>3, <1>5
  <2> HIDE DEF n
  <2>3. Len(dSeen') = n /\ DOMAIN dSeen' = 1 .. n
    BY <2>1, <2>2
  <2>4. Dynamic!TypeOK'
    BY <1>1, <1>2, <1>3, <2>1, <2>2, <2>3 DEF Dynamic!TypeOK
  <2>5. \A k \in DOMAIN dSeen' : Dynamic!Tag(k - 1)' = dSeen'[k].tag
        /\ Dynamic!Value(k - 1)' = dSeen'[k].value
    BY <1>5, <2>1, <2>3 DEF Dynamic!GetEntry
  <2>6. \A k \in Nat : k + 1 < n => Dynamic!Tag(k)' # Dynamic!DT_NULL
    BY <1>3, <1>5, <2>2
  <2>7. Counted'
    BY <1>3, <1>5, <2>1, <2>2, <2>3, <2>5, <2>6 DEF Counted
  <2>8. n = Dynamic!EntriesNum
    <3>1. \A k \in Dynamic!Nulls : k \in Nat /\ k < Dynamic!Total
          /\ Dynamic!Tag(k) = Dynamic!DT_NULL
      BY <1>5 DEF Dynamic!Nulls
    <3>2. CASE dI < Dynamic!Total
      <4>1. Dynamic!Tag(dI) = Dynamic!DT_NULL /\ dI \in Dynamic!Nulls
        BY <1>3, <1>5, <1>8, <3>2 DEF Dynamic!Nulls
      <4>2. \A k \in Dynamic!Nulls : dI <= k
        BY <1>3, <3>1
      <4>3. \A k \in Dynamic!Nulls : (\A j \in Dynamic!Nulls : k <= j) => k = dI
        BY <1>3, <3>1, <4>1, <4>2
      <4>4. Dynamic!FirstNull = dI
        BY <4>1, <4>2, <4>3 DEF Dynamic!FirstNull
      <4>5. n = dI + 1
        BY <1>3, <1>5, <3>2 DEF n
      <4> QED
        BY <1>3, <4>1, <4>4, <4>5 DEF Dynamic!EntriesNum
    <3>3. CASE dI = Dynamic!Total
      <4>1. Dynamic!Nulls = {}
        BY <1>3, <3>1, <3>3
      <4>2. n = Dynamic!Total
        BY <1>3, <1>5, <3>3 DEF n
      <4> QED
        BY <1>3, <4>1, <4>2 DEF Dynamic!EntriesNum
    <3> QED
      BY <1>3, <1>5, <3>2, <3>3
  <2> QED
    BY <1>1, <1>2, <1>6, <2>1, <2>4, <2>7, <2>8 DEF DynamicInv
<1> QED
  BY <1>7, <1>8

\* An entry behind the others.
LEMMA Append2Step ==
    ASSUME DynamicInv, dPc = "idle", NEW tag \in Nat, NEW value \in Nat, NEW str \in Given,
           Dynamic!Append2(tag, value, str), dNames' \in Seq(Names),
           Len(dNames) <= Len(dNames'), \A m \in DOMAIN dNames : dNames'[m] = dNames[m],
           str # Dynamic!NoString => tag \in Dynamic!NamesString /\ value \in DOMAIN dNames'
                 /\ dNames'[value] = str
    PROVE  DynamicInv'
<1>1. /\ dWords' = dWords \o Dynamic!Stored(tag, value)
      /\ dAdded' = Append(dAdded, [tag |-> tag, value |-> value, str |-> str])
      /\ UNCHANGED <<dEntsize, dNum, dPc, dI, dSeen, dFitting>>
  BY DEF Dynamic!Append2
<1>2. Dynamic!TypeOK /\ Counted /\ BuiltInv
      /\ dAdded \in Seq([tag : Nat, value : Nat, str : Given])
  BY DEF DynamicInv
<1>3. /\ dWords \in Seq(Nat) /\ dEntsize \in Nat /\ dNames \in Seq(Names)
      /\ dNum \in Nat /\ Len(dSeen) = dNum
  BY <1>2 DEF Dynamic!TypeOK
<1>4. PICK x \in Nat : x = IF tag \in Dynamic!Valueless THEN 0 ELSE value
  OBVIOUS
<1>5. Dynamic!Stored(tag, value) = <<tag, x>> /\ <<tag, x>> \in Seq(Nat) /\ Len(<<tag, x>>) = 2
  BY <1>4 DEF Dynamic!Stored
<1>6. Dynamic!TypeOK'
  <2>1. dWords' \in Seq(Nat)
    BY <1>1, <1>3, <1>5
  <2> QED
    BY <1>1, <1>2, <2>1 DEF Dynamic!TypeOK
<1>7. Counted'
  BY <1>1, <1>2, <1>5, CountedStays
<1>8. dAdded' \in Seq([tag : Nat, value : Nat, str : Given])
  BY <1>1, <1>2
<1>9. BuiltInv'
  <2> SUFFICES ASSUME dFitting
               PROVE  /\ dEntsize = Dynamic!EntryWords
                      /\ Len(dAdded') \in Nat /\ DOMAIN dAdded' = 1 .. Len(dAdded')
                      /\ Len(dWords') = 2 * Len(dAdded')
                      /\ \A k \in DOMAIN dAdded' : EntryHolds(k)'
    BY <1>1 DEF BuiltInv
  <2>1. /\ dEntsize = Dynamic!EntryWords
        /\ Len(dAdded) \in Nat /\ DOMAIN dAdded = 1 .. Len(dAdded)
        /\ Len(dWords) = 2 * Len(dAdded)
        /\ \A k \in DOMAIN dAdded : EntryHolds(k)
    BY <1>2 DEF BuiltInv
  <2>0. PICK l \in Nat : l = Len(dAdded)
    BY <2>1
  <2> DEFINE e == [tag |-> tag, value |-> value, str |-> str]
  <2>2. /\ Len(dAdded') = l + 1 /\ DOMAIN dAdded' = 1 .. (l + 1)
        /\ dAdded'[l + 1] = e /\ \A k \in 1 .. l : dAdded'[k] = dAdded[k]
    BY <1>1, <1>2, <2>0
  <2>3. /\ Len(dWords') = 2 * l + 2
        /\ \A j \in 1 .. (2 * l) : dWords'[j] = dWords[j]
        /\ dWords'[2 * l + 1] = tag /\ dWords'[2 * l + 2] = x
    <3>1. dWords' = dWords \o <<tag, x>> /\ dWords \in Seq(Nat)
      BY <1>1, <1>3, <1>5
    <3>2. /\ Len(dWords') = Len(dWords) + 2
          /\ \A j \in 1 .. Len(dWords) : dWords'[j] = dWords[j]
          /\ dWords'[Len(dWords) + 1] = tag /\ dWords'[Len(dWords) + 2] = x
      BY <3>1, TwoMore
    <3> QED
      BY <2>0, <2>1, <3>2
  <2>4. ASSUME NEW k \in 1 .. l PROVE EntryHolds(k)'
    <3>1. EntryHolds(k) /\ dAdded'[k] = dAdded[k] /\ k \in Nat
      BY <2>0, <2>1, <2>2
    <3>2. 2 * k - 1 \in 1 .. (2 * l) /\ 2 * k \in 1 .. (2 * l)
      BY <2>1
    <3>3. dWords'[2 * k - 1] = dWords[2 * k - 1] /\ dWords'[2 * k] = dWords[2 * k]
      BY <2>3, <3>2
    <3>4. dAdded[k].value \in DOMAIN dNames =>
            /\ dAdded[k].value \in DOMAIN dNames'
            /\ dNames'[dAdded[k].value] = dNames[dAdded[k].value]
      BY <1>3
    <3> QED
      BY <3>1, <3>3, <3>4 DEF EntryHolds
  <2>5. EntryHolds(l + 1)'
    <3>1. 2 * (l + 1) - 1 = 2 * l + 1 /\ 2 * (l + 1) = 2 * l + 2
      BY <2>1
    <3>2. dAdded'[l + 1].tag = tag /\ dAdded'[l + 1].value = value /\ dAdded'[l + 1].str = str
      BY <2>2
    <3> HIDE DEF e
    <3>3. dWords'[2 * (l + 1) - 1] = tag /\ dWords'[2 * (l + 1)] = x
      BY <2>3, <3>1
    <3>4. dAdded'[l + 1].tag \in Nat /\ dAdded'[l + 1].value \in Nat
      BY <3>2
    <3>5. dWords'[2 * (l + 1)] = IF dAdded'[l + 1].tag \in Dynamic!Valueless THEN 0
          ELSE dAdded'[l + 1].value
      BY <1>4, <3>2, <3>3
    <3>6. dAdded'[l + 1].str # Dynamic!NoString =>
            /\ dAdded'[l + 1].tag \in Dynamic!NamesString
            /\ dAdded'[l + 1].value \in DOMAIN dNames'
            /\ dNames'[dAdded'[l + 1].value] = dAdded'[l + 1].str
      BY <3>2
    <3> QED
      BY <3>2, <3>3, <3>4, <3>5, <3>6 DEF EntryHolds
  <2>6. \A k \in 1 .. (l + 1) : k \in 1 .. l \/ k = l + 1
    BY <2>1
  <2>7. \A k \in 1 .. (l + 1) : EntryHolds(k)'
    <3> SUFFICES ASSUME NEW k \in 1 .. (l + 1) PROVE EntryHolds(k)'
      OBVIOUS
    <3>1. CASE k \in 1 .. l
      BY <2>4, <3>1
    <3>2. CASE k = l + 1
      BY <2>5, <3>2 DEF EntryHolds
    <3> QED
      BY <2>6, <3>1, <3>2
  <2> QED
    BY <2>0, <2>1, <2>2, <2>3, <2>7
<1> QED
  BY <1>6, <1>7, <1>8, <1>9 DEF DynamicInv

\* add_entry with a value and with a string.
LEMMA AddEntryStep == Dynamic!DynamicAssumption /\ DynamicInv /\ Dynamic!AddEntry => DynamicInv'
<1> SUFFICES ASSUME Dynamic!DynamicAssumption, DynamicInv, Dynamic!AddEntry PROVE DynamicInv'
  OBVIOUS
<1>1. PICK entry \in DynamicEntries : Dynamic!Append2(entry[1], entry[2], Dynamic!NoString)
  BY DEF Dynamic!AddEntry
<1>2. entry[1] \in Nat /\ entry[2] \in Nat
  BY DEF Dynamic!DynamicAssumption
<1>3. dPc = "idle" /\ dNames' = dNames
  BY DEF Dynamic!AddEntry
<1>4. dNames \in Seq(Names) /\ Len(dNames) \in Nat
  BY DEF DynamicInv, Dynamic!TypeOK
<1>5. Dynamic!NoString \in Given
  BY DEF Given
<1> QED
  BY <1>1, <1>2, <1>3, <1>4, <1>5, Append2Step

\* A string that another accessor adds moves no name.
LEMMA AddNameStep == DynamicInv /\ Dynamic!AddName => DynamicInv'
<1> SUFFICES ASSUME DynamicInv, Dynamic!AddName PROVE DynamicInv'
  OBVIOUS
<1>1. PICK tag \in Dynamic!NamesString, name \in Names :
        /\ dNames' = Append(dNames, name)
        /\ Dynamic!Append2(tag, Len(dNames) + 1, name)
  BY DEF Dynamic!AddName
<1>2. dPc = "idle" /\ dNames \in Seq(Names) /\ Len(dNames) \in Nat
  BY DEF Dynamic!AddName, DynamicInv, Dynamic!TypeOK
<1>3. tag \in Nat /\ name \in Given
  BY DEF Dynamic!NamesString, Given
<1>4. /\ dNames' \in Seq(Names) /\ Len(dNames') = Len(dNames) + 1
      /\ \A m \in DOMAIN dNames : dNames'[m] = dNames[m]
      /\ Len(dNames) + 1 \in DOMAIN dNames' /\ dNames'[Len(dNames) + 1] = name
  BY <1>1, <1>2
<1> QED
  BY <1>1, <1>2, <1>3, <1>4, Append2Step

\* A new accessor knows nothing.
LEMMA OpenStep == DynamicInv /\ Dynamic!Open => DynamicInv'
<1> SUFFICES ASSUME DynamicInv, Dynamic!Open PROVE DynamicInv'
  OBVIOUS
<1>1. /\ dPc = "idle" /\ dNum' = 0 /\ dI' = 0 /\ dSeen' = <<>>
      /\ UNCHANGED <<dWords, dEntsize, dNames, dPc, dFitting, dAdded>>
  BY DEF Dynamic!Open
<1>2. Dynamic!TypeOK /\ Counted /\ BuiltInv
      /\ dAdded \in Seq([tag : Nat, value : Nat, str : Given])
  BY DEF DynamicInv
<1>3. Len(dSeen') = 0 /\ DOMAIN dSeen' = {}
  BY <1>1
<1>4. Dynamic!TypeOK'
  BY <1>1, <1>2, <1>3 DEF Dynamic!TypeOK
<1>5. Counted'
  BY <1>1, <1>3 DEF Counted
<1>6. BuiltInv'
  BY <1>1, <1>2 DEF BuiltInv, EntryHolds
<1> QED
  BY <1>1, <1>2, <1>4, <1>5, <1>6 DEF DynamicInv

\* A step that is not of .dynamic.
LEMMA DynamicStutters == DynamicInv /\ UNCHANGED Dynamic!vars => DynamicInv'
<1> SUFFICES ASSUME DynamicInv, UNCHANGED Dynamic!vars PROVE DynamicInv'
  OBVIOUS
<1>1. UNCHANGED <<dWords, dEntsize, dNames, dNum, dPc, dI, dSeen, dFitting, dAdded>>
  BY DEF Dynamic!vars
<1>2. Dynamic!TypeOK'
  BY <1>1 DEF DynamicInv, Dynamic!TypeOK, Dynamic!Total
<1>3. Counted'
  <2>1. /\ \A k : Dynamic!Tag(k)' = Dynamic!Tag(k) /\ Dynamic!Value(k)' = Dynamic!Value(k)
        /\ Dynamic!Countable' = Dynamic!Countable /\ Dynamic!Total' = Dynamic!Total
    BY <1>1 DEF Dynamic!Tag, Dynamic!Value, Dynamic!InSection, Dynamic!Countable, Dynamic!Total
  <2> QED
    BY <1>1, <2>1 DEF DynamicInv, Counted
<1>4. BuiltInv'
  BY <1>1 DEF DynamicInv, BuiltInv, EntryHolds
<1> QED
  BY <1>1, <1>2, <1>3, <1>4 DEF DynamicInv

\* Every step of .dynamic keeps it.
LEMMA DynamicKept == Dynamic!DynamicAssumption /\ DynamicInv /\ [Dynamic!Next]_Dynamic!vars
      => DynamicInv'
BY CountEntryStep, GetEntriesNumStep, AddEntryStep, AddNameStep, OpenStep, DynamicStutters
   DEF Dynamic!Next, Dynamic!Calls

-----------------------------------------------------------------------------
\* The entries that are counted end with the first DT_NULL.
LEMMA CountBounds ==
    ASSUME DynamicInv
    PROVE  /\ Dynamic!EntriesNum \in Nat
           /\ Dynamic!EntriesNum # 0 => Dynamic!Countable
           /\ Dynamic!Countable => Dynamic!EntriesNum <= Dynamic!Total
           /\ \A k \in Nat : k + 1 < Dynamic!EntriesNum => Dynamic!Tag(k) # Dynamic!DT_NULL
           /\ \A m \in Nat : Dynamic!Countable /\ m <= Dynamic!Total
                /\ (\A k \in Nat : k + 1 < m => Dynamic!Tag(k) # Dynamic!DT_NULL)
                => m <= Dynamic!EntriesNum
<1>1. dWords \in Seq(Nat) /\ dEntsize \in Nat
  BY DEF DynamicInv, Dynamic!TypeOK
<1>2. CASE ~ Dynamic!Countable
  <2>1. Dynamic!EntriesNum = 0
    BY <1>2 DEF Dynamic!EntriesNum
  <2> QED
    BY <1>2, <2>1
<1>3. CASE Dynamic!Countable
  <2>1. Dynamic!Total \in Nat
    BY <1>1, <1>3, TotalInSection
  <2>2. \A k : k \in Dynamic!Nulls <=> k \in Nat /\ k < Dynamic!Total
        /\ Dynamic!Tag(k) = Dynamic!DT_NULL
    BY <2>1 DEF Dynamic!Nulls
  <2>3. CASE Dynamic!Nulls = {}
    <3>1. Dynamic!EntriesNum = Dynamic!Total
      BY <1>3, <2>3 DEF Dynamic!EntriesNum
    <3> QED
      BY <1>3, <2>1, <2>2, <2>3, <3>1
  <2>4. CASE Dynamic!Nulls # {}
    <3>1. PICK f \in Dynamic!Nulls : \A k \in Dynamic!Nulls : f <= k
      BY <2>2, <2>4, TablesProofs!LeastNumber
    <3>2. \A k \in Dynamic!Nulls : (\A j \in Dynamic!Nulls : k <= j) => k = f
      BY <2>2, <3>1
    <3>3. Dynamic!FirstNull = f
      BY <3>1, <3>2 DEF Dynamic!FirstNull
    <3>4. Dynamic!EntriesNum = f + 1 /\ f \in Nat /\ f < Dynamic!Total
          /\ Dynamic!Tag(f) = Dynamic!DT_NULL
      BY <1>3, <2>2, <2>4, <3>3 DEF Dynamic!EntriesNum
    <3>5. ASSUME NEW k \in Nat, k + 1 < Dynamic!EntriesNum
          PROVE Dynamic!Tag(k) # Dynamic!DT_NULL
      BY <2>1, <2>2, <3>1, <3>4, <3>5
    <3>6. ASSUME NEW m \in Nat, m <= Dynamic!Total, \A k \in Nat : k + 1 < m
          => Dynamic!Tag(k) # Dynamic!DT_NULL
          PROVE  m <= Dynamic!EntriesNum
      BY <3>4, <3>6
    <3> QED
      BY <1>3, <2>1, <3>4, <3>5, <3>6
  <2> QED
    BY <2>3, <2>4
<1> QED
  BY <1>2, <1>3

\* An accessor that counted earlier never counted too many.
LEMMA StalePrefix == DynamicInv => Dynamic!StaleIsPrefix
<1> SUFFICES ASSUME DynamicInv PROVE Dynamic!StaleIsPrefix
  OBVIOUS
<1>1. Counted /\ dNum \in Nat
  BY DEF DynamicInv, Dynamic!TypeOK
<1>2. dNum <= Dynamic!EntriesNum
  <2>1. CASE dNum = 0
    BY <2>1, CountBounds
  <2>2. CASE dNum # 0
    BY <1>1, <2>2, CountBounds DEF Counted
  <2> QED
    BY <2>1, <2>2
<1> QED
  BY <1>1, <1>2 DEF Dynamic!StaleIsPrefix, Counted

\* What add_entry put into a new section is read there.
LEMMA BuiltReads ==
    ASSUME DynamicInv, dFitting, NEW k \in DOMAIN dAdded
    PROVE  /\ k \in Nat /\ k - 1 \in Nat /\ k <= Len(dAdded)
           /\ Dynamic!Tag(k - 1) = dAdded[k].tag
           /\ Dynamic!Value(k - 1) = IF dAdded[k].tag \in Dynamic!Valueless THEN 0
                ELSE dAdded[k].value
           /\ dAdded[k].str # Dynamic!NoString => Dynamic!GetEntry(k - 1).found
                /\ Dynamic!Name(k - 1) = dAdded[k].str
<1>1. /\ dEntsize = 2 /\ Len(dAdded) \in Nat /\ k \in 1 .. Len(dAdded)
      /\ Len(dWords) = 2 * Len(dAdded) /\ EntryHolds(k)
  BY DEF DynamicInv, BuiltInv, Dynamic!EntryWords
<1>2. /\ k \in Nat /\ k - 1 \in Nat /\ k <= Len(dAdded)
      /\ ((k - 1) + 1) * 2 <= Len(dWords)
      /\ (k - 1) * 2 + 1 = 2 * k - 1 /\ (k - 1) * 2 + 2 = 2 * k
  BY <1>1
<1>3. dWords # <<>>
  <2>1. Len(dWords) # 0
    BY <1>1
  <2>2. dWords = <<>> => Len(dWords) = 0
    OBVIOUS
  <2> QED
    BY <2>1, <2>2
<1>4. Dynamic!InSection(k - 1)
  BY <1>1, <1>2, <1>3 DEF Dynamic!InSection, Dynamic!EntryWords
<1>5. Dynamic!Tag(k - 1) = dAdded[k].tag
  BY <1>1, <1>2, <1>4 DEF Dynamic!Tag, EntryHolds
<1>6. Dynamic!Value(k - 1) = IF dAdded[k].tag \in Dynamic!Valueless THEN 0 ELSE dAdded[k].value
  BY <1>1, <1>2, <1>4, <1>5 DEF Dynamic!Value, EntryHolds
<1>7. ASSUME dAdded[k].str # Dynamic!NoString
      PROVE  Dynamic!GetEntry(k - 1).found /\ Dynamic!Name(k - 1) = dAdded[k].str
  <2>1. /\ dAdded[k].tag \in Dynamic!NamesString
        /\ dAdded[k].value \in DOMAIN dNames
        /\ dNames[dAdded[k].value] = dAdded[k].str
    BY <1>1, <1>7 DEF EntryHolds
  <2>2. dAdded[k].tag \notin Dynamic!Valueless
    BY <2>1 DEF Dynamic!NamesString, Dynamic!Valueless
  <2>3. Dynamic!Value(k - 1) = dAdded[k].value
    BY <1>6, <2>2
  <2> QED
    BY <1>5, <2>1, <2>3 DEF Dynamic!GetEntry, Dynamic!Name
<1> QED
  BY <1>2, <1>5, <1>6, <1>7

\* Hence all of it reads back.
LEMMA BuiltReadsBack == DynamicInv => Dynamic!ReadsBack
BY BuiltReads DEF Dynamic!ReadsBack

\* The first DT_VERNEEDNUM before the first DT_NULL is the one that is found.
LEMMA VersionsAreCounted == DynamicInv => Dynamic!VersionsCounted
<1> SUFFICES ASSUME DynamicInv, dFitting
             PROVE  LET given == {k \in DOMAIN dAdded :
                            /\ dAdded[k].tag = Dynamic!DT_VERNEEDNUM
                            /\ \A j \in 1 .. k - 1 :
                                 dAdded[j].tag \notin {Dynamic!DT_NULL, Dynamic!DT_VERNEEDNUM}}
                    IN Dynamic!VersionCount = IF given = {} THEN 0
                          ELSE dAdded[CHOOSE k \in given : TRUE].value
  BY DEF Dynamic!VersionsCounted
<1> DEFINE given == {k \in DOMAIN dAdded :
                /\ dAdded[k].tag = Dynamic!DT_VERNEEDNUM
                /\ \A j \in 1 .. k - 1 :
                     dAdded[j].tag \notin {Dynamic!DT_NULL, Dynamic!DT_VERNEEDNUM}}
<1>1. /\ dEntsize = Dynamic!EntryWords /\ Len(dAdded) \in Nat
           /\ DOMAIN dAdded = 1 .. Len(dAdded)
      /\ Len(dWords) = 2 * Len(dAdded) /\ dWords \in Seq(Nat)
  BY DEF DynamicInv, BuiltInv, Dynamic!TypeOK
<1>2. Dynamic!Countable /\ Dynamic!Total = Len(dAdded)
  <2>1. \A m \in Nat : (2 * m) \div 2 = m
    OBVIOUS
  <2>2. Dynamic!Countable
    BY <1>1 DEF Dynamic!Countable, Dynamic!EntryWords
  <2>3. Dynamic!Total = (2 * Len(dAdded)) \div 2
    <3>1. dEntsize = 2 /\ Len(dWords) = 2 * Len(dAdded)
      BY <1>1 DEF Dynamic!EntryWords
    <3> QED
      BY <3>1 DEF Dynamic!Total
  <2> QED
    BY <1>1, <2>1, <2>2, <2>3
<1>3. Dynamic!EntriesNum \in Nat /\ Dynamic!EntriesNum <= Len(dAdded)
  BY <1>2, CountBounds
<1>4. /\ Dynamic!DT_VERNEEDNUM \notin Dynamic!NamesString \cup Dynamic!Valueless
      /\ Dynamic!DT_VERNEEDNUM # Dynamic!DT_NULL
  BY DEF Dynamic!DT_VERNEEDNUM, Dynamic!NamesString, Dynamic!Valueless, Dynamic!DT_NULL
<1>5. ASSUME NEW k \in Nat, k < Len(dAdded)
      PROVE  /\ k + 1 \in DOMAIN dAdded /\ Dynamic!Tag(k) = dAdded[k + 1].tag
             /\ Dynamic!Value(k) = IF dAdded[k + 1].tag \in Dynamic!Valueless THEN 0
                  ELSE dAdded[k + 1].value
  <2>1. k + 1 \in DOMAIN dAdded /\ (k + 1) - 1 = k
    BY <1>1, <1>5
  <2> QED
    BY <2>1, BuiltReads
<1>6. \A k : k \in Dynamic!Versions <=> k \in Nat /\ k < Dynamic!EntriesNum
      /\ Dynamic!Tag(k) = Dynamic!DT_VERNEEDNUM
  <2>1. \A k : Dynamic!GetEntry(k).found
        <=> (Dynamic!Tag(k) \in Dynamic!NamesString => Dynamic!Value(k) \in DOMAIN dNames)
    BY DEF Dynamic!GetEntry
  <2>2. \A k : Dynamic!Tag(k) = Dynamic!DT_VERNEEDNUM => Dynamic!GetEntry(k).found
    BY <1>4, <2>1
  <2>3. \A k : k \in 0 .. Dynamic!EntriesNum - 1 <=> k \in Nat /\ k < Dynamic!EntriesNum
    BY <1>3
  <2> QED
    BY <2>2, <2>3 DEF Dynamic!Versions
<1>7. \A k \in Nat : k + 1 < Dynamic!EntriesNum => Dynamic!Tag(k) # Dynamic!DT_NULL
  BY CountBounds
<1>8. ASSUME NEW v \in Dynamic!Versions, \A j \in Dynamic!Versions : v <= j
      PROVE  v + 1 \in given
  <2>1. v \in Nat /\ v < Dynamic!EntriesNum /\ v < Len(dAdded)
        /\ Dynamic!Tag(v) = Dynamic!DT_VERNEEDNUM
    BY <1>3, <1>6
  <2>2. v + 1 \in DOMAIN dAdded /\ dAdded[v + 1].tag = Dynamic!DT_VERNEEDNUM
    BY <1>5, <2>1
  <2>3. ASSUME NEW j \in 1 .. (v + 1) - 1
        PROVE  dAdded[j].tag \notin {Dynamic!DT_NULL, Dynamic!DT_VERNEEDNUM}
    <3>1. PICK p \in Nat : p = j - 1
      BY <2>1
    <3>2. p < v /\ p + 1 < Dynamic!EntriesNum /\ p < Len(dAdded) /\ p + 1 = j
      BY <1>3, <2>1, <3>1
    <3>3. Dynamic!Tag(p) # Dynamic!DT_NULL
      BY <1>7, <3>2
    <3>4. p \notin Dynamic!Versions
      BY <1>8, <2>1, <3>2
    <3>5. Dynamic!Tag(p) # Dynamic!DT_VERNEEDNUM
      BY <1>3, <1>6, <3>2, <3>4
    <3> QED
      BY <1>5, <3>2, <3>3, <3>5
  <2> QED
    BY <2>2, <2>3
<1>9. ASSUME NEW g \in given
      PROVE  g - 1 \in Dynamic!Versions /\ \A j \in Dynamic!Versions : g - 1 <= j
  <2>1. /\ g \in Nat /\ g >= 1 /\ g <= Len(dAdded) /\ dAdded[g].tag = Dynamic!DT_VERNEEDNUM
        /\ \A j \in 1 .. g - 1 : dAdded[j].tag \notin {Dynamic!DT_NULL, Dynamic!DT_VERNEEDNUM}
    BY <1>1
  <2>2. PICK p \in Nat : p = g - 1
    BY <2>1
  <2>3. \A k \in Nat : k < p => Dynamic!Tag(k) \notin {Dynamic!DT_NULL, Dynamic!DT_VERNEEDNUM}
    <3> SUFFICES ASSUME NEW k \in Nat, k < p
          PROVE Dynamic!Tag(k) \notin {Dynamic!DT_NULL, Dynamic!DT_VERNEEDNUM}
      OBVIOUS
    <3>1. k + 1 \in 1 .. g - 1 /\ k < Len(dAdded)
      BY <1>1, <2>1, <2>2
    <3> QED
      BY <1>5, <2>1, <3>1
  <2>4. p + 1 <= Dynamic!EntriesNum
    <3>1. \A k \in Nat : k + 1 < p + 1 => Dynamic!Tag(k) # Dynamic!DT_NULL
      BY <2>3
    <3>2. p + 1 <= Dynamic!Total /\ p + 1 \in Nat
      BY <1>2, <2>1, <2>2
    <3> QED
      BY <1>2, <3>1, <3>2, CountBounds
  <2>5. Dynamic!Tag(p) = Dynamic!DT_VERNEEDNUM
    <3>1. p < Len(dAdded) /\ p + 1 = g
      BY <1>1, <2>1, <2>2
    <3> QED
      BY <1>5, <2>1, <3>1
  <2>6. p \in Dynamic!Versions
    BY <1>3, <1>6, <2>4, <2>5
  <2>7. \A j \in Dynamic!Versions : p <= j
    BY <1>6, <2>3
  <2> QED
    BY <2>2, <2>6, <2>7
<1>10. CASE given = {}
  <2>1. Dynamic!Versions = {}
    <3> SUFFICES ASSUME Dynamic!Versions # {} PROVE FALSE
      OBVIOUS
    <3>1. Dynamic!Versions \subseteq Nat
      BY <1>6
    <3>2. PICK v \in Dynamic!Versions : \A j \in Dynamic!Versions : v <= j
      BY <3>1, TablesProofs!LeastNumber
    <3> QED
      BY <1>8, <1>10, <3>2
  <2>2. Dynamic!VersionCount = 0
    BY <2>1 DEF Dynamic!VersionCount
  <2> QED
    BY <1>10, <2>2
<1>11. CASE given # {}
  <2>1. PICK g : g \in given /\ g = CHOOSE k \in given : TRUE
    BY <1>11
  <2>2. g \in Nat /\ g - 1 \in Nat /\ g - 1 < Len(dAdded) /\ g \in DOMAIN dAdded
        /\ dAdded[g].tag = Dynamic!DT_VERNEEDNUM
    BY <1>1, <2>1
  <2>3. g - 1 \in Dynamic!Versions /\ \A j \in Dynamic!Versions : g - 1 <= j
    BY <1>9, <2>1
  <2>4. \A k \in Dynamic!Versions : (\A j \in Dynamic!Versions : k <= j) => k = g - 1
    BY <1>6, <2>2, <2>3
  <2>5. (CHOOSE k \in Dynamic!Versions : \A j \in Dynamic!Versions : k <= j) = g - 1
    BY <2>3, <2>4
  <2>6. Dynamic!VersionCount = Dynamic!Value(g - 1)
    BY <2>3, <2>5 DEF Dynamic!VersionCount
  <2>7. Dynamic!Value(g - 1) = dAdded[g].value
    BY <1>4, <2>2, BuiltReads
  <2>8. Dynamic!VersionCount = dAdded[CHOOSE k \in given : TRUE].value
    <3> HIDE DEF given
    <3> QED
      BY <2>1, <2>6, <2>7
  <2> QED
    BY <1>11, <2>8
<1> QED
  BY <1>10, <1>11

-----------------------------------------------------------------------------
\* What is left of a string from a position on.
LEMMA FromTyped ==
    ASSUME NEW S, NEW s \in Seq(S), NEW k \in Nat
    PROVE  /\ Texts!From(s, k) \in Seq(S)
           /\ k <= Len(s) => Len(Texts!From(s, k)) = Len(s) - k
           /\ k <= Len(s) => \A j \in 1 .. Len(s) - k : Texts!From(s, k)[j] = s[k + j]
BY DEF Texts!From

\* substr( 0, k ).
LEMMA ToTyped ==
    ASSUME NEW S, NEW s \in Seq(S), NEW k \in 0 .. Len(s)
    PROVE  Texts!To(s, k) \in Seq(S) /\ Len(Texts!To(s, k)) = k
BY DEF Texts!To

\* Nothing left out.
LEMMA FromZero == ASSUME NEW S, NEW s \in Seq(S) PROVE Texts!From(s, 0) = s
BY DEF Texts!From

\* Leaving out twice.
LEMMA FromFrom ==
    ASSUME NEW S, NEW s \in Seq(S), NEW k \in Nat, NEW j \in Nat, k + j <= Len(s)
    PROVE  Texts!From(Texts!From(s, k), j) = Texts!From(s, k + j)
<1>1. k <= Len(s) /\ Len(s) \in Nat /\ k + j \in Nat
  OBVIOUS
<1>2. PICK t : t = Texts!From(s, k)
  OBVIOUS
<1>3. t \in Seq(S) /\ Len(t) = Len(s) - k /\ \A x \in 1 .. Len(s) - k : t[x] = s[k + x]
  BY <1>1, <1>2, FromTyped
<1>4. /\ Texts!From(t, j) \in Seq(S) /\ Len(Texts!From(t, j)) = Len(t) - j
      /\ \A x \in 1 .. Len(t) - j : Texts!From(t, j)[x] = t[j + x]
  <2>1. j <= Len(t) /\ t \in Seq(S)
    BY <1>1, <1>3
  <2> QED
    BY <2>1, FromTyped
<1>5. /\ Texts!From(s, k + j) \in Seq(S) /\ Len(Texts!From(s, k + j)) = Len(s) - (k + j)
      /\ \A x \in 1 .. Len(s) - (k + j) : Texts!From(s, k + j)[x] = s[(k + j) + x]
  BY <1>1, FromTyped
<1>6. Len(Texts!From(t, j)) = Len(Texts!From(s, k + j))
  <2>1. Len(t) - j = Len(s) - (k + j)
    BY <1>1, <1>3
  <2> QED
    BY <1>4, <1>5, <2>1
<1>7. ASSUME NEW x \in 1 .. Len(Texts!From(t, j))
      PROVE Texts!From(t, j)[x] = Texts!From(s, k + j)[x]
  <2>1. /\ x \in 1 .. Len(t) - j /\ j + x \in 1 .. Len(s) - k /\ x \in 1 .. Len(s) - (k + j)
        /\ (k + j) + x = k + (j + x)
    BY <1>1, <1>3, <1>4
  <2> QED
    BY <1>3, <1>4, <1>5, <2>1
<1>8. \A a, b \in Seq(S) : Len(a) = Len(b) /\ (\A x \in 1 .. Len(a) : a[x] = b[x]) => a = b
  OBVIOUS
<1> QED
  BY <1>2, <1>4, <1>5, <1>6, <1>7, <1>8

\* find and strstr return a place where the pattern fits.
LEMMA FindFits ==
    ASSUME NEW S, NEW s \in Seq(S), NEW P, NEW p \in Seq(P)
    PROVE  Texts!Find(p, s) = -1 \/ (Texts!Find(p, s) \in Nat
          /\ Texts!Find(p, s) + Len(p) <= Len(s))
<1>1. Texts!Occurrences(p, s) \subseteq 0 .. Len(s) - Len(p) /\ Len(s) \in Nat /\ Len(p) \in Nat
  BY DEF Texts!Occurrences
<1>2. CASE Texts!Occurrences(p, s) = {}
  BY <1>2 DEF Texts!Find
<1>3. CASE Texts!Occurrences(p, s) # {}
  <2>1. \E m \in Texts!Occurrences(p, s) : \A j \in Texts!Occurrences(p, s) : m <= j
    BY <1>1, <1>3, TablesProofs!LeastNumber
  <2>2. Texts!Find(p, s) = CHOOSE k \in Texts!Occurrences(p, s) :
        \A j \in Texts!Occurrences(p, s) : k <= j
    BY <1>3 DEF Texts!Find
  <2>3. Texts!Find(p, s) \in Texts!Occurrences(p, s)
    BY <2>1, <2>2
  <2> QED
    BY <1>1, <2>3
<1> QED
  BY <1>2, <1>3

\* A character fewer.
LEMMA EraseTyped ==
    ASSUME NEW S, NEW s \in Seq(S), NEW k \in Nat, k < Len(s)
    PROVE  Texts!Erase(s, k) \in Seq(S) /\ Len(Texts!Erase(s, k)) = Len(s) - 1
<1>1. Texts!Erase(s, k) = Texts!To(s, k) \o Texts!From(s, k + 1)
  <2>1. (k + 1) - 1 = k
    OBVIOUS
  <2> QED
    BY <2>1 DEF Texts!Erase, Texts!RemoveAt, Texts!To, Texts!From
<1>2. k \in 0 .. Len(s) /\ k + 1 \in Nat /\ k + 1 <= Len(s) /\ Len(s) \in Nat
  OBVIOUS
<1>3. Texts!To(s, k) \in Seq(S) /\ Len(Texts!To(s, k)) = k
  BY <1>2, ToTyped
<1>4. Texts!From(s, k + 1) \in Seq(S) /\ Len(Texts!From(s, k + 1)) = Len(s) - (k + 1)
  BY <1>2, FromTyped
<1>5. PICK a, b : a = Texts!To(s, k) /\ b = Texts!From(s, k + 1)
  OBVIOUS
<1>6. a \in Seq(S) /\ b \in Seq(S) /\ Len(a) + Len(b) = Len(s) - 1
  BY <1>2, <1>3, <1>4, <1>5
<1>7. a \o b \in Seq(S) /\ Len(a \o b) = Len(a) + Len(b)
  BY <1>6
<1> QED
  BY <1>1, <1>5, <1>6, <1>7

\* strtok finds the beginning and the end of a token in the list.
LEMMA FirstIn ==
    ASSUME NEW m \in Nat, NEW I, I \subseteq 1 .. m
    PROVE  (IF I # {} THEN CHOOSE x \in I : \A y \in I : x <= y ELSE 0) \in 0 .. m
<1>1. CASE I = {}
  BY <1>1
<1>2. CASE I # {}
  <2>1. \E x \in I : \A y \in I : x <= y
    <3>1. I \subseteq Nat
      OBVIOUS
    <3> QED
      BY <1>2, <3>1, TablesProofs!LeastNumber
  <2>2. (CHOOSE x \in I : \A y \in I : x <= y) \in I
    BY <2>1
  <2>3. \A x \in I : x \in 0 .. m
    OBVIOUS
  <2> QED
    BY <1>2, <2>2, <2>3
<1> QED
  BY <1>1, <1>2

\* What strtok_r returns is part of the string.
LEMMA TokenTyped ==
    ASSUME NEW S, NEW s \in Seq(S)
    PROVE  /\ Texts!TokenStart(s) \in Nat
           /\ Texts!TokenStart(s) # 0 => Texts!Token(s) \in Seq(S)
<1>1. Texts!TokenStart(s) \in 0 .. Len(s)
  <2> DEFINE I == {x \in 1 .. Len(s) : s[x] \notin sCall.separator}
  <2>1. Texts!TokenStart(s) = IF I # {} THEN CHOOSE x \in I : \A y \in I : x <= y ELSE 0
    BY DEF Texts!TokenStart, Texts!SelectInSeq, Texts!Min
  <2>2. I \subseteq 1 .. Len(s) /\ Len(s) \in Nat
    OBVIOUS
  <2> HIDE DEF I
  <2> QED
    BY <2>1, <2>2, FirstIn
<1>2. ASSUME Texts!TokenStart(s) # 0 PROVE Texts!Token(s) \in Seq(S)
  <2> DEFINE t == Texts!From(s, Texts!TokenStart(s) - 1)
             stop == Texts!SelectInSeq(t, LAMBDA c : c \in sCall.separator)
  <2>1. Texts!TokenStart(s) - 1 \in Nat
    BY <1>1, <1>2
  <2>2. t \in Seq(S)
    BY <2>1, FromTyped
  <2>3. stop \in 0 .. Len(t)
    <3> DEFINE I == {x \in 1 .. Len(t) : t[x] \in sCall.separator}
    <3>1. stop = IF I # {} THEN CHOOSE x \in I : \A y \in I : x <= y ELSE 0
      BY DEF Texts!SelectInSeq, Texts!Min
    <3>2. I \subseteq 1 .. Len(t) /\ Len(t) \in Nat
      BY <2>2
    <3> HIDE DEF I, stop, t
    <3> QED
      BY <3>1, <3>2, FirstIn
  <2>4. Texts!Token(s) = IF stop = 0 THEN t ELSE Texts!To(t, stop - 1)
    BY DEF Texts!Token
  <2> HIDE DEF t, stop
  <2>5. stop # 0 => Texts!To(t, stop - 1) \in Seq(S)
    <3>1. stop # 0 => stop - 1 \in 0 .. Len(t)
      BY <2>2, <2>3
    <3> QED
      BY <2>2, <3>1, ToTyped
  <2> QED
    BY <2>2, <2>4, <2>5
<1> QED
  BY <1>1, <1>2

-----------------------------------------------------------------------------
(***************************************************************************)
(* The occurrences str_replace counts: the mark before the k'th is where   *)
(* the search for it begins, the one behind it where the next one's does.  *)
(* Each takes at least the room of what is replaced.                       *)
(***************************************************************************)
Marks(mark, total) ==
    /\ total \in Nat /\ mark \in [0 .. total -> Nat]
    /\ mark[0] = 0 /\ mark[total] <= Len(sCall.text)
    /\ \A k \in 0 .. total : mark[k] + Len(sCall.by) * (total - k) <= mark[total]
    /\ \A k \in Nat : k < total =>
         LET at == Texts!Find(sCall.by, Texts!From(sCall.text, mark[k]))
         IN  at # -1 /\ mark[k + 1] = mark[k] + at + Len(sCall.by)

\* The first pass has counted as many as it passed,
CountedMarks ==
    sPc = "str_replace" =>
        /\ sRest = sCall.text /\ sOut = <<>> /\ sRoom = 0
        /\ \E mark : Marks(mark, sN) /\ mark[sN] = sI

\* and the second finds them again and has written what it skipped.
Copied(mark, total) ==
    LET k == total - sN
    IN  /\ sN <= total /\ Marks(mark, total)
        /\ Texts!Find(sCall.by, Texts!From(sCall.text, mark[total])) = -1
        /\ sRest = Texts!From(sCall.text, mark[k])
        /\ Len(sOut) = mark[k] + (Len(sCall.with) - Len(sCall.by)) * k
        /\ sRoom = Len(sCall.text) + (Len(sCall.with) - Len(sCall.by)) * total + 1
CopiedMarks ==
    sPc = "replace" =>
        /\ sOut \in Seq(DOMAIN Lower)
        /\ \E total \in Nat : \E mark : Copied(mark, total)

ReplaceInv ==
    /\ sPc = "replace" => sCall.fn = "str_replace"
    /\ sPc = "token" => sCall.fn = "strtokcmp"
    /\ sCall.fn = "str_replace" =>
         /\ CountedMarks
         /\ CopiedMarks
         /\ sPc = "done" => sRoom = 0 \/ Len(sOut) + 1 = sRoom

OthersInv ==
    /\ sPc = "stringSplit" => sOut \in Seq(Seq(DOMAIN Lower))
    /\ sPc = "RemoveDoubleSlashs" => sN = Len(sRest) /\ sI >= 1

StringsInv == Texts!TypeOK /\ ReplaceInv /\ OthersInv

\* The arguments are strings.
LEMMA Arguments ==
    ASSUME Texts!StringAssumption, sCall \in StringCalls
    PROVE  /\ sCall.fn \in Texts!Functions
           /\ sCall.fn # "byte_to_binary" => sCall.text \in Seq(DOMAIN Lower)
           /\ sCall.fn = "stringSplit" => sCall.by \in Seq(DOMAIN Lower)
           /\ sCall.fn = "str_replace" =>
                /\ sCall.text \in Seq(DOMAIN Lower)
                /\ sCall.by \in Seq(DOMAIN Lower) /\ sCall.with \in Seq(DOMAIN Lower)
                /\ Len(sCall.text) \in Nat /\ Len(sCall.by) \in Nat /\ Len(sCall.with) \in Nat
BY DEF Texts!StringAssumption

\* One occurrence more, or one less, takes its room more or less.
LEMMA OneMore ==
    ASSUME NEW b \in Int, NEW x \in Int
    PROVE  b * (x + 1) = b * x + b /\ b * x \in Int /\ b * 0 = 0
OBVIOUS

\* Arithmetic with a product, which the solvers only follow without one.
LEMMA Numbers ==
    /\ \A a, b \in Nat : a - b \in Int /\ a * b \in Nat
    /\ \A m, x, at, w, b, g \in Int : g = w - b => m + x + at + w = m + at + b + (x + g)
OBVIOUS

\* append.
LEMMA Joint ==
    ASSUME NEW S, NEW s \in Seq(S), NEW t \in Seq(S)
    PROVE  s \o t \in Seq(S) /\ Len(s \o t) = Len(s) + Len(t)
OBVIOUS

\* Before the first pass nothing was counted and nothing allocated.
LEMMA StringsStart == Texts!StringAssumption /\ Texts!Init => StringsInv
<1> SUFFICES ASSUME Texts!StringAssumption, Texts!Init PROVE StringsInv
  OBVIOUS
<1>1. /\ sCall \in StringCalls /\ sPc = sCall.fn /\ sOut = <<>> /\ sRoom = 0 /\ sRet = 0
      /\ sRest = IF sCall.fn = "byte_to_binary" THEN <<>> ELSE sCall.text
      /\ sI = IF sCall.fn = "RemoveDoubleSlashs" THEN 1 ELSE 0
      /\ sN = CASE sCall.fn = "RemoveDoubleSlashs" -> Len(sCall.text)
               [] sCall.fn = "byte_to_binary" -> 128
               [] OTHER -> 0
  BY DEF Texts!Init
<1>2. /\ sCall.fn \in Texts!Functions
      /\ sCall.fn # "byte_to_binary" => sCall.text \in Seq(DOMAIN Lower)
  BY <1>1, Arguments
<1>3. sRest \in Seq(DOMAIN Lower)
  <2>1. <<>> \in Seq(DOMAIN Lower)
    OBVIOUS
  <2> QED
    BY <1>1, <1>2, <2>1
<1>4. sI \in Nat /\ sN \in Nat
  BY <1>1, <1>2
<1>5. Texts!TypeOK
  <2>1. \A k \in DOMAIN sOut : sOut[k] \in Seq(DOMAIN Lower)
    BY <1>1
  <2> QED
    BY <1>1, <1>3, <1>4, <2>1 DEF Texts!TypeOK
<1>6. OthersInv
  <2>1. sOut \in Seq(Seq(DOMAIN Lower))
    BY <1>1
  <2>2. sCall.fn = "RemoveDoubleSlashs" => sN = Len(sRest) /\ sI >= 1
    BY <1>1
  <2> QED
    BY <1>1, <2>1, <2>2 DEF OthersInv
<1>7. ReplaceInv
  <2>1. sPc # "replace" /\ sPc # "done" /\ sPc # "token"
    BY <1>1, <1>2 DEF Texts!Functions
  <2>2. ASSUME sCall.fn = "str_replace" PROVE CountedMarks
    <3>1. sRest = sCall.text /\ sN = 0 /\ sI = 0 /\ Len(sCall.text) \in Nat
          /\ Len(sCall.by) \in Nat
      BY <1>1, <2>2, Arguments
    <3>2. PICK mark : mark = [k \in 0 .. 0 |-> 0]
      OBVIOUS
    <3>3. mark \in [0 .. 0 -> Nat] /\ mark[0] = 0
      BY <3>2
    <3>4. \A k \in 0 .. 0 : mark[k] + Len(sCall.by) * (0 - k) <= mark[0]
      BY <3>1, <3>3
    <3>5. \A k \in Nat : ~ (k < 0)
      OBVIOUS
    <3>6. Marks(mark, 0)
      BY <3>1, <3>3, <3>4, <3>5 DEF Marks
    <3> QED
      BY <1>1, <3>1, <3>3, <3>6 DEF CountedMarks
  <2> QED
    BY <2>1, <2>2 DEF ReplaceInv, CopiedMarks
<1> QED
  BY <1>5, <1>6, <1>7 DEF StringsInv

-----------------------------------------------------------------------------
\* Within the block as long as occurrences are left to be replaced.
LEMMA RoomLeft ==
    ASSUME NEW text \in Nat, NEW by \in Nat, NEW with \in Nat,
           NEW total \in Nat, NEW k \in 0 .. total, NEW from \in Nat, NEW to \in Nat,
           from + by * (total - k) <= to, to <= text
    PROVE  from + (with - by) * k <= text + (with - by) * total
<1>1. PICK left \in Nat : left = total - k
  OBVIOUS
<1>2. total = k + left
  BY <1>1
<1>3. (with - by) * total = (with - by) * k + (with * left - by * left)
  BY <1>2
<1>4. from + by * left <= text
  BY <1>1
<1>5. with * left \in Nat /\ by * left \in Nat /\ (with - by) * k \in Int
  OBVIOUS
<1> QED
  BY <1>3, <1>4, <1>5

\* The second pass stays in the block, and ends at its last byte.
LEMMA ReplacementFits == Texts!StringAssumption /\ StringsInv => Texts!ReplaceFits
<1> SUFFICES ASSUME Texts!StringAssumption, StringsInv, sCall.fn = "str_replace", sRoom # 0
             PROVE  Len(sOut) + 1 <= sRoom /\ (sPc = "done" => Len(sOut) + 1 = sRoom)
  BY DEF Texts!ReplaceFits
<1>1. /\ sCall \in StringCalls /\ sPc \in {sCall.fn, "replace", "token", "done"}
      /\ CountedMarks /\ CopiedMarks /\ (sPc = "done" => Len(sOut) + 1 = sRoom) /\ sRoom \in Nat
  BY DEF StringsInv, Texts!TypeOK, ReplaceInv
<1>2. /\ Len(sCall.text) \in Nat /\ Len(sCall.by) \in Nat /\ Len(sCall.with) \in Nat
  BY <1>1, Arguments
<1>3. CASE sPc = "str_replace"
  BY <1>1, <1>3 DEF CountedMarks
<1>4. CASE sPc = "done"
  BY <1>1, <1>4
<1>5. CASE sPc = "replace"
  <2>1a. PICK total \in Nat : \E mark : Copied(mark, total)
    BY <1>1, <1>5 DEF CopiedMarks
  <2>1b. PICK mark : Copied(mark, total)
    BY <2>1a
  <2>1. /\ sN <= total /\ Marks(mark, total)
        /\ Len(sOut) = mark[total - sN] + (Len(sCall.with) - Len(sCall.by)) * (total - sN)
        /\ sRoom = Len(sCall.text) + (Len(sCall.with) - Len(sCall.by)) * total + 1
    BY <2>1b DEF Copied
  <2>2. PICK k \in 0 .. total : k = total - sN
    BY <2>1 DEF StringsInv, Texts!TypeOK
  <2>3. /\ mark[k] \in Nat /\ mark[total] \in Nat /\ mark[total] <= Len(sCall.text)
        /\ mark[k] + Len(sCall.by) * (total - k) <= mark[total]
    <3>1. /\ mark \in [0 .. total -> Nat] /\ mark[total] <= Len(sCall.text)
          /\ \A j \in 0 .. total : mark[j] + Len(sCall.by) * (total - j) <= mark[total]
      BY <2>1 DEF Marks
    <3>2. total \in 0 .. total
      OBVIOUS
    <3> QED
      BY <2>2, <3>1, <3>2
  <2>5. /\ Len(sOut) = mark[k] + (Len(sCall.with) - Len(sCall.by)) * k
        /\ sRoom = Len(sCall.text) + (Len(sCall.with) - Len(sCall.by)) * total + 1
    BY <2>1, <2>2
  <2>6. /\ (Len(sCall.with) - Len(sCall.by)) * k \in Int
        /\ (Len(sCall.with) - Len(sCall.by)) * total \in Int
    BY <1>2
  <2>4. mark[k] + (Len(sCall.with) - Len(sCall.by)) * k
          <= Len(sCall.text) + (Len(sCall.with) - Len(sCall.by)) * total
    BY <1>2, <2>3, RoomLeft
  <2> QED
    <3>1. PICK a \in Int, b \in Int :
            /\ a = (Len(sCall.with) - Len(sCall.by)) * k
            /\ b = (Len(sCall.with) - Len(sCall.by)) * total
      BY <2>6
    <3>2. /\ Len(sOut) = mark[k] + a /\ sRoom = Len(sCall.text) + b + 1
          /\ mark[k] + a <= Len(sCall.text) + b
      BY <2>4, <2>5, <3>1
    <3>3. Len(sOut) + 1 <= sRoom
      BY <1>2, <2>3, <3>2
    <3> QED
      BY <1>5, <3>3
<1>6. sPc # "token"
  BY DEF StringsInv, ReplaceInv
<1> QED
  BY <1>1, <1>3, <1>4, <1>5, <1>6

-----------------------------------------------------------------------------
\* An occurrence more: the mark behind it is the next.
LEMMA NextMark ==
    ASSUME NEW mark, NEW total, NEW next \in Nat, Marks(mark, total),
           sCall.text \in Seq(DOMAIN Lower), sCall.by \in Seq(DOMAIN Lower),
           Texts!Find(sCall.by, Texts!From(sCall.text, mark[total])) # -1,
           next = mark[total] + Texts!Find(sCall.by,
                 Texts!From(sCall.text, mark[total])) + Len(sCall.by)
    PROVE  \E longer : Marks(longer, total + 1) /\ longer[total + 1] = next
<1> DEFINE longer == [k \in 0 .. total + 1 |-> IF k <= total THEN mark[k] ELSE next]
           b == Len(sCall.by)
<1>1. /\ total \in Nat /\ mark \in [0 .. total -> Nat] /\ mark[0] = 0
      /\ mark[total] <= Len(sCall.text)
      /\ \A k \in 0 .. total : mark[k] + b * (total - k) <= mark[total]
      /\ \A k \in Nat : k < total =>
           LET at == Texts!Find(sCall.by, Texts!From(sCall.text, mark[k]))
           IN  at # -1 /\ mark[k + 1] = mark[k] + at + b
  BY DEF Marks
<1>2. /\ longer \in [0 .. total + 1 -> Nat]
      /\ \A k \in 0 .. total : longer[k] = mark[k]
      /\ longer[total + 1] = next
  BY <1>1
<1>3. mark[total] \in Nat /\ b \in Nat /\ Len(sCall.text) \in Nat
  BY <1>1
<1>4. PICK rem \in Seq(DOMAIN Lower) :
        rem = Texts!From(sCall.text, mark[total]) /\ Len(rem) = Len(sCall.text) - mark[total]
  <2>1. Texts!From(sCall.text, mark[total]) \in Seq(DOMAIN Lower)
    BY <1>3, FromTyped
  <2>2. Len(Texts!From(sCall.text, mark[total])) = Len(sCall.text) - mark[total]
    BY <1>1, <1>3, FromTyped
  <2> QED
    BY <2>1, <2>2
<1>5. Texts!Find(sCall.by, rem) \in Nat /\ Texts!Find(sCall.by, rem) + b <= Len(rem)
  BY <1>4, FindFits
<1>6. next <= Len(sCall.text) /\ mark[total] + b <= next
  BY <1>3, <1>4, <1>5
<1> HIDE DEF longer, b
<1>7. ASSUME NEW k \in 0 .. total + 1
      PROVE  longer[k] + b * ((total + 1) - k) <= longer[total + 1]
  <2>1. CASE k = total + 1
    <3>1. b * ((total + 1) - k) = 0
      BY <1>1, <1>3, <2>1
    <3> QED
      BY <1>2, <2>1, <3>1
  <2>2. CASE k \in 0 .. total
    <3>1. PICK left \in Nat : left = total - k
      BY <1>1, <2>2
    <3>2. (total + 1) - k = left + 1
      BY <1>1, <2>2, <3>1
    <3>3. mark[k] \in Nat /\ mark[k] + b * left <= mark[total]
      BY <1>1, <2>2, <3>1
    <3>4. b * (left + 1) = b * left + b /\ b * left \in Int
      BY <1>3, OneMore
    <3>5. mark[k] + b * (left + 1) <= next
      BY <1>3, <1>6, <3>3, <3>4
    <3> QED
      BY <1>2, <2>2, <3>2, <3>5
  <2> QED
    BY <1>1, <2>1, <2>2
<1>8. ASSUME NEW k \in Nat, k < total + 1
      PROVE  /\ Texts!Find(sCall.by, Texts!From(sCall.text, longer[k])) # -1
             /\ longer[k + 1] = longer[k] + Texts!Find(sCall.by,
                  Texts!From(sCall.text, longer[k])) + b
  <2>1. CASE k = total
    BY <1>1, <1>2, <2>1 DEF b
  <2>2. CASE k < total
    <3>1. k \in 0 .. total /\ k + 1 \in 0 .. total
      BY <1>1, <2>2
    <3>2. longer[k] = mark[k] /\ longer[k + 1] = mark[k + 1]
      BY <1>2, <3>1
    <3> QED
      BY <1>1, <2>2, <3>2
  <2> QED
    BY <1>1, <1>8, <2>1, <2>2
<1>9. longer[0] = 0 /\ total + 1 \in Nat
  BY <1>1, <1>2
<1> QED
  BY <1>2, <1>6, <1>7, <1>8, <1>9 DEF Marks, b


\* How the second pass stands, from the number of marks and how many it passed.
LEMMA CopiedHolds ==
    ASSUME NEW total \in Nat, NEW mark, NEW k, sN' <= total, total - sN' = k,
           Marks(mark, total)', Texts!Find(sCall'.by, Texts!From(sCall'.text, mark[total]))
                 = -1,
           sRest' = Texts!From(sCall'.text, mark[k]),
           Len(sOut') = mark[k] + (Len(sCall'.with) - Len(sCall'.by)) * k,
           sRoom' = Len(sCall'.text) + (Len(sCall'.with) - Len(sCall'.by)) * total + 1,
           sOut' \in Seq(DOMAIN Lower)
    PROVE  CopiedMarks'
BY DEF CopiedMarks, Copied, Texts!From, Marks, Texts!Find, Texts!Occurrences

\* The first pass: one more match, at the next mark, or all of them.
LEMMA CountOneStep == Texts!StringAssumption /\ StringsInv /\ Texts!CountOne => StringsInv'
<1> SUFFICES ASSUME Texts!StringAssumption, StringsInv, Texts!CountOne PROVE StringsInv'
  OBVIOUS
<1> DEFINE at == Texts!Find(sCall.by, Texts!From(sRest, sI))
<1>1. /\ sPc = "str_replace" /\ at # -1 /\ sI' = sI + at + Len(sCall.by) /\ sN' = sN + 1
      /\ UNCHANGED <<sCall, sPc, sRest, sOut, sRoom, sRet>>
  BY DEF Texts!CountOne
<1>2. Texts!TypeOK /\ ReplaceInv /\ OthersInv
  BY DEF StringsInv
<1>3. sCall \in StringCalls /\ sCall.fn = "str_replace" /\ sN \in Nat /\ sI \in Nat
  BY <1>1, <1>2 DEF Texts!TypeOK
<1>4. /\ sCall.text \in Seq(DOMAIN Lower) /\ sCall.by \in Seq(DOMAIN Lower)
      /\ Len(sCall.text) \in Nat /\ Len(sCall.by) \in Nat
  BY <1>3, Arguments
<1>5. PICK mark : Marks(mark, sN) /\ mark[sN] = sI /\ sRest = sCall.text /\ sOut = <<>>
      /\ sRoom = 0
  BY <1>1, <1>2, <1>3 DEF ReplaceInv, CountedMarks
<1>6. sI \in Nat /\ sI <= Len(sCall.text)
  BY <1>3, <1>5 DEF Marks
<1>7. at \in Nat
  <2>1. Texts!From(sCall.text, sI) \in Seq(DOMAIN Lower)
    BY <1>4, <1>6, FromTyped
  <2> QED
    BY <1>1, <1>4, <1>5, <2>1, FindFits
<1>8. sI' \in Nat /\ sN' \in Nat
  BY <1>1, <1>3, <1>4, <1>7
<1>9. PICK longer : Marks(longer, sN + 1) /\ longer[sN + 1] = sI'
  BY <1>1, <1>4, <1>5, <1>8, NextMark
<1>10. Texts!TypeOK'
  BY <1>1, <1>2, <1>8 DEF Texts!TypeOK
<1>11. OthersInv'
  BY <1>1 DEF OthersInv
<1>12. CountedMarks'
  <2>1. PICK more \in Nat : more = sN'
    BY <1>8
  <2>2. Marks(longer, more)' /\ longer[more] = sI'
    BY <1>1, <1>9, <2>1 DEF Marks
  <2>3. Marks(longer, sN)' /\ longer[sN'] = sI'
    BY <2>1, <2>2 DEF Marks
  <2> QED
    BY <1>1, <1>5, <2>3 DEF CountedMarks
<1>13. ReplaceInv'
  BY <1>1, <1>3, <1>12 DEF ReplaceInv, CopiedMarks
<1> QED
  BY <1>10, <1>11, <1>13 DEF StringsInv

\* Nothing more is found: memory for what was counted, or none.
LEMMA AllocateStep == Texts!StringAssumption /\ StringsInv /\ Texts!Allocate => StringsInv'
<1> SUFFICES ASSUME Texts!StringAssumption, StringsInv, Texts!Allocate PROVE StringsInv'
  OBVIOUS
<1>1. /\ sPc = "str_replace" /\ Texts!Find(sCall.by, Texts!From(sRest, sI)) = -1
      /\ UNCHANGED <<sCall, sRest, sOut, sI, sN>>
      /\ \/ sRoom' = Texts!ResultSize /\ sPc' = "replace" /\ sRet' = sRet
         \/ sPc' = "done" /\ sRet' = -1 /\ sRoom' = sRoom
  BY DEF Texts!Allocate, Texts!Return
<1>2. Texts!TypeOK /\ ReplaceInv /\ OthersInv
  BY DEF StringsInv
<1>3. sCall \in StringCalls /\ sCall.fn = "str_replace" /\ sN \in Nat /\ sI \in Nat
  BY <1>1, <1>2 DEF Texts!TypeOK
<1>4. /\ sCall.text \in Seq(DOMAIN Lower) /\ sCall.by \in Seq(DOMAIN Lower)
      /\ Len(sCall.text) \in Nat /\ Len(sCall.by) \in Nat /\ Len(sCall.with) \in Nat
  BY <1>3, Arguments
<1>5. PICK mark : Marks(mark, sN) /\ mark[sN] = sI /\ sRest = sCall.text /\ sOut = <<>>
      /\ sRoom = 0
  BY <1>1, <1>2, <1>3 DEF ReplaceInv, CountedMarks
<1>6. OthersInv'
  BY <1>1 DEF OthersInv
<1>7. CASE sPc' = "done" /\ sRet' = -1 /\ sRoom' = sRoom
  <2>1. Texts!TypeOK'
    BY <1>1, <1>2, <1>7 DEF Texts!TypeOK
  <2>2. ReplaceInv'
    BY <1>5, <1>7 DEF ReplaceInv, CountedMarks, CopiedMarks
  <2> QED
    BY <1>6, <2>1, <2>2 DEF StringsInv
<1>8. CASE sRoom' = Texts!ResultSize /\ sPc' = "replace" /\ sRet' = sRet
  <2>0. PICK grow : grow \in Int /\ grow = Len(sCall.with) - Len(sCall.by)
    <3>1. \A a, b \in Nat : a - b \in Int
      OBVIOUS
    <3>2. Len(sCall.with) - Len(sCall.by) \in Int
      BY <1>4, <3>1
    <3> QED
      BY <3>2, Zenon
  <2>1. /\ mark \in [0 .. sN -> Nat] /\ mark[0] = 0 /\ mark[sN] <= Len(sCall.text)
        /\ mark[0] + Len(sCall.by) * (sN - 0) <= mark[sN]
    <3>1. /\ mark \in [0 .. sN -> Nat] /\ mark[0] = 0 /\ mark[sN] <= Len(sCall.text)
          /\ \A k \in 0 .. sN : mark[k] + Len(sCall.by) * (sN - k) <= mark[sN]
      BY <1>5 DEF Marks
    <3>2. 0 \in 0 .. sN
      BY <1>3
    <3> QED
      BY <3>1, <3>2
  <2>2. /\ sRoom' = Len(sCall.text) + grow * sN + 1
        /\ sRoom' \in Nat
    <3>1. sRoom' = Len(sCall.text) + grow * sN + 1
      BY <1>5, <1>8, <2>0 DEF Texts!ResultSize
    <3>2. 0 + grow * 0 <= Len(sCall.text) + grow * sN
      <4>1. 0 \in 0 .. sN /\ mark[sN] \in Nat /\ 0 + Len(sCall.by) * (sN - 0) <= mark[sN]
        BY <1>3, <2>1
      <4> QED
        BY <1>3, <1>4, <2>0, <2>1, <4>1, RoomLeft
    <3>3. grow * sN \in Int /\ grow * 0 = 0
      <4>1. grow \in Int /\ sN \in Int
        BY <1>3, <2>0
      <4> QED
        BY <4>1, OneMore
    <3> QED
      BY <1>4, <3>1, <3>2, <3>3
  <2>3. Texts!TypeOK'
    BY <1>1, <1>2, <1>8, <2>2 DEF Texts!TypeOK
  <2>4. CopiedMarks'
    <3>1. PICK total \in Nat : total = sN
      BY <1>3
    <3>2. sN' <= total /\ total - sN' = 0
      BY <1>1, <3>1
    <3>3. Marks(mark, total)'
      BY <1>1, <1>5, <3>1 DEF Marks
    <3>4. Texts!Find(sCall'.by, Texts!From(sCall'.text, mark[total])) = -1
      BY <1>1, <1>5, <3>1
    <3>5. sRest' = Texts!From(sCall'.text, mark[0])
      BY <1>1, <1>4, <1>5, <2>1, FromZero
    <3>6. Len(sOut') = mark[0] + (Len(sCall'.with) - Len(sCall'.by)) * 0
      <4>1. Len(sOut') = 0
        BY <1>1, <1>5
      <4>2. grow * 0 = 0 /\ grow \in Int /\ sN \in Int
        <5>1. grow \in Int /\ sN \in Int
          BY <1>3, <2>0
        <5> QED
          BY <5>1, OneMore
      <4>4. Len(sOut') = mark[0] + grow * 0
        BY <2>1, <4>1, <4>2
      <4>3. Len(sOut') = mark[0] + (Len(sCall.with) - Len(sCall.by)) * 0
        BY <2>0, <4>4, Zenon
      <4> QED
        BY <1>1, <4>3
    <3>7. sRoom' = Len(sCall'.text) + (Len(sCall'.with) - Len(sCall'.by)) * total + 1
      BY <1>1, <2>0, <2>2, <3>1
    <3>8. sOut' \in Seq(DOMAIN Lower)
      BY <1>1, <1>5
    <3> QED
      BY <3>2, <3>3, <3>4, <3>5, <3>6, <3>7, <3>8, CopiedHolds
  <2>5. ReplaceInv'
    BY <1>1, <1>3, <1>8, <2>4 DEF ReplaceInv, CountedMarks
  <2> QED
    BY <1>6, <2>3, <2>5 DEF StringsInv
<1> QED
  BY <1>1, <1>7, <1>8

\* The next mark is where the occurrence found in the copy ends.
LEMMA ReplaceOneStep == Texts!StringAssumption /\ StringsInv /\ Texts!ReplaceOne => StringsInv'
<1> SUFFICES ASSUME Texts!StringAssumption, StringsInv, Texts!ReplaceOne PROVE StringsInv'
  OBVIOUS
<1>1. /\ sPc = "replace" /\ sN > 0 /\ sN' = sN - 1
      /\ sOut' = sOut \o Texts!To(sRest, Texts!Find(sCall.by, sRest)) \o sCall.with
      /\ sRest' = Texts!From(sRest, Texts!Find(sCall.by, sRest) + Len(sCall.by))
      /\ UNCHANGED <<sCall, sPc, sI, sRoom, sRet>>
  BY DEF Texts!ReplaceOne
<1>2. Texts!TypeOK /\ ReplaceInv /\ OthersInv
  BY DEF StringsInv
<1>3. sCall \in StringCalls /\ sCall.fn = "str_replace" /\ sN \in Nat
  BY <1>1, <1>2 DEF Texts!TypeOK, ReplaceInv
<1>4. /\ sCall.text \in Seq(DOMAIN Lower) /\ sCall.by \in Seq(DOMAIN Lower)
      /\ sCall.with \in Seq(DOMAIN Lower)
      /\ Len(sCall.text) \in Nat /\ Len(sCall.by) \in Nat /\ Len(sCall.with) \in Nat
  BY <1>3, Arguments
<1>5. /\ CopiedMarks /\ sOut \in Seq(DOMAIN Lower)
  BY <1>1, <1>2, <1>3 DEF ReplaceInv, CopiedMarks
<1>6a. PICK total \in Nat : \E mark : Copied(mark, total)
  BY <1>1, <1>5 DEF CopiedMarks
<1>6b. PICK mark : Copied(mark, total)
  BY <1>6a
<1>6. /\ sN <= total /\ Marks(mark, total)
      /\ Texts!Find(sCall.by, Texts!From(sCall.text, mark[total])) = -1
      /\ sRest = Texts!From(sCall.text, mark[total - sN])
      /\ Len(sOut) = mark[total - sN] + (Len(sCall.with) - Len(sCall.by)) * (total - sN)
      /\ sRoom = Len(sCall.text) + (Len(sCall.with) - Len(sCall.by)) * total + 1
  BY <1>6b DEF Copied
<1>7. PICK k \in Nat : k = total - sN /\ k < total /\ sN' <= total /\ total - sN' = k + 1
  BY <1>1, <1>3, <1>6
<1>8. /\ sRest = Texts!From(sCall.text, mark[k])
      /\ Len(sOut) = mark[k] + (Len(sCall.with) - Len(sCall.by)) * k
  BY <1>6, <1>7
<1>9. /\ mark \in [0 .. total -> Nat] /\ mark[total] <= Len(sCall.text)
      /\ \A j \in 0 .. total : mark[j] + Len(sCall.by) * (total - j) <= mark[total]
      /\ Texts!Find(sCall.by, Texts!From(sCall.text, mark[k])) # -1
      /\ mark[k + 1] = mark[k] + Texts!Find(sCall.by,
           Texts!From(sCall.text, mark[k])) + Len(sCall.by)
  BY <1>6, <1>7 DEF Marks
<1>10. /\ mark[k] \in Nat /\ mark[k + 1] \in Nat /\ k + 1 \in 0 .. total /\ k \in 0 .. total
       /\ mark[k + 1] <= Len(sCall.text)
  <2>1. k + 1 \in 0 .. total /\ k \in 0 .. total /\ total - (k + 1) \in Nat
    BY <1>7
  <2>2. /\ mark[k] \in Nat /\ mark[k + 1] \in Nat /\ mark[total] \in Nat
    BY <1>9, <2>1
  <2>3. mark[k + 1] + Len(sCall.by) * (total - (k + 1)) <= mark[total]
    BY <1>9, <2>1
  <2>4. Len(sCall.by) * (total - (k + 1)) \in Nat
    BY <1>4, <2>1, Numbers, Zenon
  <2>5. mark[k + 1] <= mark[total]
    <3>1. PICK x \in Nat : x = Len(sCall.by) * (total - (k + 1))
      BY <2>4
    <3>2. mark[k + 1] + x <= mark[total]
      BY <2>3, <3>1, Zenon
    <3> QED
      BY <2>2, <3>2
  <2> QED
    BY <1>4, <1>9, <2>1, <2>2, <2>5
<1>11. PICK at \in Nat : at = Texts!Find(sCall.by, sRest)
      /\ mark[k + 1] = mark[k] + at + Len(sCall.by)
  <2>1. sRest \in Seq(DOMAIN Lower)
    BY <1>2 DEF Texts!TypeOK
  <2>2. Texts!Find(sCall.by, sRest) # -1
    BY <1>8, <1>9
  <2>3. Texts!Find(sCall.by, sRest) \in Nat
    BY <1>4, <2>1, <2>2, FindFits
  <2> QED
    BY <1>8, <1>9, <2>3
<1>12. sRest \in Seq(DOMAIN Lower) /\ Len(sRest) = Len(sCall.text) - mark[k]
  <2>1. mark[k] <= Len(sCall.text)
    BY <1>4, <1>10, <1>11
  <2> QED
    BY <1>4, <1>8, <1>10, <2>1, FromTyped
<1>13. at \in 0 .. Len(sRest)
  BY <1>4, <1>10, <1>11, <1>12
<1>14. Texts!To(sRest, at) \in Seq(DOMAIN Lower) /\ Len(Texts!To(sRest, at)) = at
  BY <1>12, <1>13, ToTyped
<1>15. sOut' \in Seq(DOMAIN Lower) /\ Len(sOut') = Len(sOut) + at + Len(sCall.with)
  <2>1. PICK t : t = Texts!To(sRest, at)
    OBVIOUS
  <2>2. t \in Seq(DOMAIN Lower) /\ Len(t) = at
    BY <1>14, <2>1
  <2>3. PICK u : u = sOut \o t
    OBVIOUS
  <2>4. u \in Seq(DOMAIN Lower) /\ Len(u) = Len(sOut) + at
    BY <1>5, <2>2, <2>3, Joint
  <2>5. sOut' = u \o sCall.with
    BY <1>1, <1>11, <2>1, <2>3
  <2>6. u \o sCall.with \in Seq(DOMAIN Lower) /\ Len(u \o sCall.with) = Len(u) + Len(sCall.with)
    BY <1>4, <2>4, Joint
  <2> QED
    BY <2>4, <2>5, <2>6
<1>16. sRest' = Texts!From(sCall.text, mark[k + 1]) /\ sRest' \in Seq(DOMAIN Lower)
  <2>1. PICK step \in Nat : step = at + Len(sCall.by)
    BY <1>4
  <2>2. mark[k + 1] = mark[k] + step /\ mark[k] + step <= Len(sCall.text)
    BY <1>4, <1>10, <1>11, <2>1
  <2>3. Texts!From(Texts!From(sCall.text, mark[k]), step)
        = Texts!From(sCall.text, mark[k] + step)
    BY <1>4, <1>10, <2>2, FromFrom
  <2>4. sRest' = Texts!From(sCall.text, mark[k + 1])
    BY <1>1, <1>8, <1>11, <2>1, <2>2, <2>3
  <2> QED
    BY <1>4, <1>10, <2>4, FromTyped
<1>17. Len(sOut') = mark[k + 1] + (Len(sCall.with) - Len(sCall.by)) * (k + 1)
  <2>1. PICK w \in Int, b \in Int : w = Len(sCall.with) /\ b = Len(sCall.by)
    BY <1>4
  <2>2. PICK g \in Int : g = w - b
    BY <2>1
  <2>3. g * (k + 1) = g * k + g /\ g * k \in Int
    <3>1. g \in Int /\ k \in Int
      BY <1>7
    <3> QED
      BY <3>1, OneMore, Zenon
  <2>4. Len(sOut) = mark[k] + g * k
    BY <1>8, <2>1, <2>2
  <2>5. PICK x \in Int : x = g * k
    BY <2>3
  <2>6. mark[k] + x + at + w = mark[k] + at + b + (x + g)
    <3>1. mark[k] \in Int /\ at \in Int
      BY <1>10
    <3> QED
      BY <2>2, <3>1, Numbers
  <2>7. Len(sOut') = mark[k + 1] + g * (k + 1)
    BY <1>11, <1>15, <2>1, <2>3, <2>4, <2>5, <2>6
  <2> QED
    BY <2>1, <2>2, <2>7
<1>18. Texts!TypeOK'
  <2>1. sN' \in Nat
    BY <1>1, <1>3
  <2> QED
    BY <1>1, <1>2, <1>16, <2>1 DEF Texts!TypeOK
<1>19. CopiedMarks'
  <2>1. Marks(mark, total)'
    BY <1>1, <1>6 DEF Marks
  <2>2. /\ Texts!Find(sCall'.by, Texts!From(sCall'.text, mark[total])) = -1
        /\ sRest' = Texts!From(sCall'.text, mark[k + 1])
        /\ sRoom' = Len(sCall'.text) + (Len(sCall'.with) - Len(sCall'.by)) * total + 1
        /\ Len(sOut') = mark[k + 1] + (Len(sCall'.with) - Len(sCall'.by)) * (k + 1)
    BY <1>1, <1>6, <1>16, <1>17
  <2> QED
    BY <1>7, <1>15, <2>1, <2>2, CopiedHolds
<1>20. ReplaceInv' /\ OthersInv'
  BY <1>1, <1>3, <1>19 DEF ReplaceInv, CountedMarks, OthersInv
<1> QED
  BY <1>18, <1>20 DEF StringsInv

\* What follows the last occurrence fills the block.
LEMMA CopyRestStep == Texts!StringAssumption /\ StringsInv /\ Texts!CopyRest => StringsInv'
<1> SUFFICES ASSUME Texts!StringAssumption, StringsInv, Texts!CopyRest PROVE StringsInv'
  OBVIOUS
<1>1. /\ sPc = "replace" /\ sN = 0 /\ sOut' = sOut \o sRest /\ sPc' = "done" /\ sRet' = 0
      /\ UNCHANGED <<sCall, sRest, sI, sN, sRoom>>
  BY DEF Texts!CopyRest, Texts!Return
<1>2. Texts!TypeOK /\ ReplaceInv /\ OthersInv
  BY DEF StringsInv
<1>3. sCall \in StringCalls /\ sCall.fn = "str_replace"
  BY <1>1, <1>2 DEF Texts!TypeOK, ReplaceInv
<1>4. /\ sCall.text \in Seq(DOMAIN Lower)
      /\ Len(sCall.text) \in Nat /\ Len(sCall.by) \in Nat /\ Len(sCall.with) \in Nat
  BY <1>3, Arguments
<1>5. /\ CopiedMarks /\ sOut \in Seq(DOMAIN Lower)
  BY <1>1, <1>2, <1>3 DEF ReplaceInv, CopiedMarks
<1>6a. PICK total \in Nat : \E mark : Copied(mark, total)
  BY <1>1, <1>5 DEF CopiedMarks
<1>6b. PICK mark : Copied(mark, total)
  BY <1>6a
<1>6. /\ Marks(mark, total)
      /\ sRest = Texts!From(sCall.text, mark[total - sN])
      /\ Len(sOut) = mark[total - sN] + (Len(sCall.with) - Len(sCall.by)) * (total - sN)
      /\ sRoom = Len(sCall.text) + (Len(sCall.with) - Len(sCall.by)) * total + 1
  BY <1>6b DEF Copied
<1>7. total - sN = total
  BY <1>1, <1>6
<1>8. mark[total] \in Nat /\ mark[total] <= Len(sCall.text)
  <2>1. mark \in [0 .. total -> Nat] /\ mark[total] <= Len(sCall.text)
    BY <1>6 DEF Marks
  <2> QED
    BY <1>6, <2>1
<1>9. sRest \in Seq(DOMAIN Lower) /\ Len(sRest) = Len(sCall.text) - mark[total]
  BY <1>4, <1>6, <1>7, <1>8, FromTyped
<1>10. Len(sOut') = Len(sOut) + Len(sRest)
  BY <1>1, <1>5, <1>9
<1>11. Len(sOut') + 1 = sRoom'
  <2>1. PICK g \in Int : g = Len(sCall.with) - Len(sCall.by)
    BY <1>4, Numbers, Zenon
  <2>2. PICK x \in Int : x = g * total
    BY OneMore
  <2>3. Len(sOut) = mark[total] + x /\ sRoom = Len(sCall.text) + x + 1
    BY <1>6, <1>7, <2>1, <2>2, Zenon
  <2>4. \A m, l \in Nat, y \in Int : ((m + y) + (l - m)) + 1 = (l + y) + 1
    OBVIOUS
  <2>5. PICK m \in Nat : m = mark[total]
    BY <1>8
  <2>6. PICK l \in Nat : l = Len(sCall.text)
    BY <1>4
  <2>7. Len(sOut) = m + x /\ sRoom = l + x + 1 /\ Len(sRest) = l - m
    BY <1>9, <2>3, <2>5, <2>6, Zenon
  <2>8. Len(sOut') = (m + x) + (l - m)
    BY <1>10, <2>7
  <2>9. ((m + x) + (l - m)) + 1 = (l + x) + 1
    BY <2>2, <2>4, <2>5, <2>6, Zenon
  <2>10. Len(sOut') + 1 = sRoom
    BY <2>7, <2>8, <2>9, Zenon
  <2> QED
    BY <1>1, <2>10
<1>12. Texts!TypeOK'
  BY <1>1, <1>2 DEF Texts!TypeOK
<1>13. ReplaceInv' /\ OthersInv'
  BY <1>1, <1>3, <1>11 DEF ReplaceInv, CountedMarks, CopiedMarks, OthersInv
<1> QED
  BY <1>12, <1>13 DEF StringsInv

-----------------------------------------------------------------------------
\* The other functions have no second pass.
LEMMA OtherFunction ==
    ASSUME sCall.fn # "str_replace", sCall' = sCall,
           sPc' # "replace", sPc' = "token" => sCall.fn = "strtokcmp"
    PROVE  ReplaceInv'
BY DEF ReplaceInv

\* stringSplit.
LEMMA SplitStep == Texts!StringAssumption /\ StringsInv /\ Texts!Split => StringsInv'
<1> SUFFICES ASSUME Texts!StringAssumption, StringsInv, Texts!Split PROVE StringsInv'
  OBVIOUS
<1> DEFINE at == Texts!Find(sCall.by, sRest)
           next == at + Len(sCall.by)
<1>1. /\ sPc = "stringSplit" /\ UNCHANGED <<sCall, sI, sN, sRoom>>
      /\ \/ sPc' = "done" /\ sRet' = 0 /\ sRest' = sRest
         \/ /\ at # -1 /\ sOut' = Append(sOut, Texts!To(sRest, at))
                 /\ sRest' = Texts!From(sRest, next)
            /\ UNCHANGED <<sPc, sRet>>
  BY DEF Texts!Split, Texts!Return
<1>2. Texts!TypeOK /\ OthersInv
  BY DEF StringsInv
<1>3. sCall \in StringCalls /\ sCall.fn = "stringSplit" /\ sRest \in Seq(DOMAIN Lower)
  BY <1>1, <1>2 DEF Texts!TypeOK
<1>4. ReplaceInv'
  BY <1>1, <1>3, OtherFunction
<1>5. CASE sPc' = "done" /\ sRet' = 0 /\ sRest' = sRest
  <2>1. Texts!TypeOK'
    BY <1>1, <1>2, <1>5 DEF Texts!TypeOK
  <2> QED
    BY <1>4, <1>5, <2>1 DEF StringsInv, OthersInv
<1>6. CASE /\ at # -1 /\ sOut' = Append(sOut, Texts!To(sRest, at))
      /\ sRest' = Texts!From(sRest, next)
           /\ UNCHANGED <<sPc, sRet>>
  <2>1. sCall.by \in Seq(DOMAIN Lower)
    BY <1>3, Arguments
  <2>2. at \in Nat /\ at + Len(sCall.by) <= Len(sRest) /\ Len(sCall.by) \in Nat
        /\ Len(sRest) \in Nat
    BY <1>3, <1>6, <2>1, FindFits
  <2>3. at \in 0 .. Len(sRest) /\ next \in Nat
    BY <2>2
  <2> HIDE DEF at, next
  <2>4. Texts!To(sRest, at) \in Seq(DOMAIN Lower) /\ sRest' \in Seq(DOMAIN Lower)
    BY <1>3, <1>6, <2>3, ToTyped, FromTyped
  <2>5. sOut \in Seq(Seq(DOMAIN Lower))
    BY <1>1, <1>2 DEF OthersInv
  <2>6. sOut' \in Seq(Seq(DOMAIN Lower))
    BY <1>6, <2>4, <2>5
  <2>7. \A j \in DOMAIN sOut' : sOut'[j] \in Seq(DOMAIN Lower)
    BY <2>6
  <2>8. Texts!TypeOK'
    BY <1>1, <1>2, <1>6, <2>4, <2>7 DEF Texts!TypeOK
  <2> QED
    BY <1>1, <1>4, <1>6, <2>6, <2>8 DEF StringsInv, OthersInv
<1> QED
  BY <1>1, <1>5, <1>6

\* RemoveDoubleSlashs.
LEMMA RemoveSlashStep == Texts!StringAssumption /\ StringsInv /\ Texts!RemoveSlash
      => StringsInv'
<1> SUFFICES ASSUME Texts!StringAssumption, StringsInv, Texts!RemoveSlash PROVE StringsInv'
  OBVIOUS
<1>1. /\ sPc = "RemoveDoubleSlashs" /\ UNCHANGED <<sCall, sOut, sRoom>>
      /\ \/ sPc' = "done" /\ sRet' = 0 /\ UNCHANGED <<sRest, sI, sN>>
         \/ sI < sN /\ sRest' = Texts!Erase(sRest, sI) /\ sN' = sN - 1 /\ sI' = sI
              /\ UNCHANGED <<sPc, sRet>>
         \/ sI' = sI + 1 /\ UNCHANGED <<sRest, sN, sPc, sRet>>
  <2>1. sPc = "RemoveDoubleSlashs" /\ UNCHANGED <<sCall, sOut, sRoom>>
    BY DEF Texts!RemoveSlash
  <2>2. sI \in Nat /\ sN \in Nat
    BY DEF StringsInv, Texts!TypeOK
  <2>3. sI >= sN \/ sI < sN
    BY <2>2
  <2> QED
    BY <2>1, <2>3 DEF Texts!RemoveSlash, Texts!Return
<1>2. Texts!TypeOK /\ OthersInv
  BY DEF StringsInv
<1>3. /\ sCall \in StringCalls /\ sCall.fn = "RemoveDoubleSlashs" /\ sRest \in Seq(DOMAIN Lower)
      /\ sN = Len(sRest) /\ sI >= 1 /\ sI \in Nat /\ sN \in Nat
  BY <1>1, <1>2 DEF Texts!TypeOK, OthersInv
<1>4. ReplaceInv'
  BY <1>1, <1>3, OtherFunction
<1>5. CASE sPc' = "done" /\ sRet' = 0 /\ UNCHANGED <<sRest, sI, sN>>
  <2>1. Texts!TypeOK'
    BY <1>1, <1>2, <1>5 DEF Texts!TypeOK
  <2> QED
    BY <1>4, <1>5, <2>1 DEF StringsInv, OthersInv
<1>6. CASE sI < sN /\ sRest' = Texts!Erase(sRest, sI) /\ sN' = sN - 1 /\ sI' = sI
      /\ UNCHANGED <<sPc, sRet>>
  <2>1. sRest' \in Seq(DOMAIN Lower) /\ Len(sRest') = Len(sRest) - 1
    BY <1>3, <1>6, EraseTyped
  <2>2. sN' \in Nat /\ sN' = Len(sRest')
    BY <1>3, <1>6, <2>1
  <2>3. Texts!TypeOK'
    BY <1>1, <1>2, <1>6, <2>1, <2>2 DEF Texts!TypeOK
  <2> QED
    BY <1>1, <1>3, <1>4, <1>6, <2>2, <2>3 DEF StringsInv, OthersInv
<1>7. CASE sI' = sI + 1 /\ UNCHANGED <<sRest, sN, sPc, sRet>>
  <2>1. sI' \in Nat /\ sI' >= 1
    BY <1>3, <1>7
  <2>2. Texts!TypeOK'
    BY <1>1, <1>2, <1>7, <2>1 DEF Texts!TypeOK
  <2> QED
    BY <1>1, <1>3, <1>4, <1>7, <2>1, <2>2 DEF StringsInv, OthersInv
<1> QED
  BY <1>1, <1>5, <1>6, <1>7

\* removeCharFromString.
LEMMA RemoveCharStep == Texts!StringAssumption /\ StringsInv /\ Texts!RemoveChar => StringsInv'
<1> SUFFICES ASSUME Texts!StringAssumption, StringsInv, Texts!RemoveChar PROVE StringsInv'
  OBVIOUS
<1> DEFINE position == Texts!Find(<<sCall.toBeRemoved>>, sRest)
<1>1. /\ sPc = "removeCharFromString" /\ UNCHANGED <<sCall, sOut, sI, sN, sRoom>>
      /\ \/ sPc' = "done" /\ sRet' = 0 /\ sRest' = sRest
         \/ position # -1 /\ sRest' = Texts!Erase(sRest, position) /\ UNCHANGED <<sPc, sRet>>
  BY DEF Texts!RemoveChar, Texts!Return
<1>2. Texts!TypeOK
  BY DEF StringsInv
<1>3. sCall \in StringCalls /\ sCall.fn = "removeCharFromString" /\ sRest \in Seq(DOMAIN Lower)
  BY <1>1, <1>2 DEF Texts!TypeOK
<1>4. ReplaceInv' /\ OthersInv'
  BY <1>1, <1>3, OtherFunction DEF OthersInv
<1>5. sRest' \in Seq(DOMAIN Lower)
  <2>1. CASE sRest' = sRest
    BY <1>3, <2>1
  <2>2. CASE position # -1 /\ sRest' = Texts!Erase(sRest, position)
    <3>1. PICK p : p = <<sCall.toBeRemoved>>
      OBVIOUS
    <3>2. p \in Seq({sCall.toBeRemoved}) /\ Len(p) = 1
      BY <3>1
    <3>3. Texts!Find(p, sRest) = -1 \/ (Texts!Find(p, sRest) \in Nat
          /\ Texts!Find(p, sRest) + Len(p) <= Len(sRest))
      BY <1>3, <3>2, FindFits
    <3>4. position \in Nat /\ position < Len(sRest)
      BY <1>3, <2>2, <3>1, <3>2, <3>3
    <3> QED
      BY <1>3, <2>2, <3>4, EraseTyped
  <2> QED
    BY <1>1, <2>1, <2>2
<1>6. Texts!TypeOK'
  BY <1>1, <1>2, <1>5 DEF Texts!TypeOK
<1> QED
  BY <1>4, <1>6 DEF StringsInv

\* The tokens of strtokcmp.
LEMMA NextTokenStep == Texts!StringAssumption /\ StringsInv /\ Texts!NextToken => StringsInv'
<1> SUFFICES ASSUME Texts!StringAssumption, StringsInv, Texts!NextToken PROVE StringsInv'
  OBVIOUS
<1>1. /\ sPc = "token" /\ UNCHANGED <<sCall, sOut, sI, sN, sRoom>>
      /\ \/ sPc' = "done" /\ sRet' \in {-1, 0} /\ sRest' = sRest
         \/ /\ Texts!TokenStart(sRest) # 0
                 /\ sRest' = Texts!From(sRest,
                      Texts!TokenStart(sRest) + Len(Texts!Token(sRest)))
            /\ UNCHANGED <<sPc, sRet>>
  BY DEF Texts!NextToken, Texts!Return
<1>2. Texts!TypeOK /\ sCall.fn = "strtokcmp"
  BY <1>1 DEF StringsInv, ReplaceInv
<1>3. sRest \in Seq(DOMAIN Lower)
  BY <1>2 DEF Texts!TypeOK
<1>4. ReplaceInv' /\ OthersInv'
  BY <1>1, <1>2, OtherFunction DEF OthersInv
<1>5. sRest' \in Seq(DOMAIN Lower)
  <2>1. CASE Texts!TokenStart(sRest) # 0
        /\ sRest' = Texts!From(sRest, Texts!TokenStart(sRest) + Len(Texts!Token(sRest)))
    <3>1. Texts!TokenStart(sRest) \in Nat /\ Texts!Token(sRest) \in Seq(DOMAIN Lower)
      BY <1>3, <2>1, TokenTyped
    <3>2. Texts!TokenStart(sRest) + Len(Texts!Token(sRest)) \in Nat
      <4>1. Len(Texts!Token(sRest)) \in Nat
        BY <3>1
      <4> QED
        BY <3>1, <4>1
    <3> QED
      BY <1>3, <2>1, <3>2, FromTyped
  <2> QED
    BY <1>1, <1>3, <2>1
<1>6. Texts!TypeOK'
  BY <1>1, <1>2, <1>5 DEF Texts!TypeOK
<1> QED
  BY <1>4, <1>6 DEF StringsInv

\* The copy that strtokcmp searches.
LEMMA TokCopyStep == Texts!StringAssumption /\ StringsInv /\ Texts!TokCopy => StringsInv'
<1> SUFFICES ASSUME Texts!StringAssumption, StringsInv, Texts!TokCopy PROVE StringsInv'
  OBVIOUS
<1> DEFINE m == IF Len(sCall.text) < Room THEN Len(sCall.text) ELSE Room - 1
<1>1. /\ sPc = "strtokcmp" /\ sPc' = "token" /\ sRest' = Texts!To(sCall.text, m)
      /\ UNCHANGED <<sCall, sOut, sI, sN, sRoom, sRet>>
  BY DEF Texts!TokCopy
<1>2. Texts!TypeOK
  BY DEF StringsInv
<1>3. sCall \in StringCalls /\ sCall.fn = "strtokcmp"
  BY <1>1, <1>2 DEF Texts!TypeOK
<1>4. sCall.text \in Seq(DOMAIN Lower) /\ Room \in Nat \ {0}
  BY <1>3, Arguments DEF Texts!StringAssumption
<1>5. m \in 0 .. Len(sCall.text)
  <2>1. Len(sCall.text) \in Nat
    BY <1>4
  <2> QED
    BY <1>4, <2>1
<1> HIDE DEF m
<1>6. sRest' \in Seq(DOMAIN Lower)
  BY <1>1, <1>4, <1>5, ToTyped
<1>7. Texts!TypeOK'
  BY <1>1, <1>2, <1>6 DEF Texts!TypeOK
<1>8. ReplaceInv' /\ OthersInv'
  BY <1>1, <1>3, OtherFunction DEF OthersInv
<1> QED
  BY <1>7, <1>8 DEF StringsInv

\* The loops and comparisons that leave the string alone.
LEMMA ReadingStep ==
    ASSUME Texts!StringAssumption, StringsInv,
           Texts!NextName \/ Texts!StrExtCmp \/ Texts!EndsWith \/ Texts!BinaryDigit
    PROVE  StringsInv'
<1>1. /\ sPc \in {"FullpathToFilename", "strextcmp", "EndsWith", "byte_to_binary"}
      /\ UNCHANGED <<sCall, sRest, sRoom>>
      /\ (sPc' = "done" /\ sRet' \in {-1, 0, 1}) \/ UNCHANGED <<sPc, sRet>>
  BY DEF Texts!NextName, Texts!StrExtCmp, Texts!EndsWith, Texts!BinaryDigit, Texts!Return
<1>2. Texts!TypeOK
  BY DEF StringsInv
<1>3. /\ sCall.fn \in {"FullpathToFilename", "strextcmp", "EndsWith", "byte_to_binary"}
      /\ sI \in Nat /\ sN \in Nat
  BY <1>1, <1>2 DEF Texts!TypeOK
<1>4. sI' \in Nat /\ sN' \in Nat
  <2>1. CASE Texts!NextName
    BY <1>3, <2>1 DEF Texts!NextName
  <2>2. CASE Texts!BinaryDigit
    BY <1>3, <2>2 DEF Texts!BinaryDigit
  <2>3. CASE Texts!StrExtCmp \/ Texts!EndsWith
    BY <1>3, <2>3 DEF Texts!StrExtCmp, Texts!EndsWith
  <2> QED
    BY <2>1, <2>2, <2>3
<1>5. Texts!TypeOK'
  BY <1>1, <1>2, <1>3, <1>4 DEF Texts!TypeOK
<1>6. ReplaceInv' /\ OthersInv'
  BY <1>1, <1>3, OtherFunction DEF OthersInv
<1> QED
  BY <1>5, <1>6 DEF StringsInv

\* A step that is not of the strings.
LEMMA StringsStutter == StringsInv /\ UNCHANGED Texts!vars => StringsInv'
<1> SUFFICES ASSUME StringsInv, UNCHANGED Texts!vars PROVE StringsInv'
  OBVIOUS
<1>1. UNCHANGED <<sCall, sPc, sRest, sOut, sI, sN, sRoom, sRet>>
  BY DEF Texts!vars
<1>2. Texts!TypeOK' /\ OthersInv'
  BY <1>1 DEF StringsInv, Texts!TypeOK, OthersInv
<1>3. ReplaceInv'
  BY <1>1 DEF StringsInv, ReplaceInv, CountedMarks, CopiedMarks, Copied, Marks
<1> QED
  BY <1>2, <1>3 DEF StringsInv

\* Every step of a string function keeps it.
LEMMA StringsKept == Texts!StringAssumption /\ StringsInv /\ [Texts!Next]_Texts!vars
      => StringsInv'
BY SplitStep, RemoveSlashStep, RemoveCharStep, CountOneStep, AllocateStep, ReplaceOneStep,
   CopyRestStep, TokCopyStep, NextTokenStep, ReadingStep, StringsStutter
   DEF Texts!Next, Texts!Step, Texts!Done

-----------------------------------------------------------------------------
(***************************************************************************)
(* All parts together: a behaviour is about one of them, and what is known *)
(* of that one holds in all its states.                                    *)
(***************************************************************************)
EditingInv ==
    /\ BufferInv
    /\ part = "tables" => TablesProofs!TablesInv
    /\ part = "dynamic" => DynamicInv
    /\ part = "strings" => StringsInv

\* Whichever part the behaviour is about.
LEMMA EditingStart == EditingInit => EditingInv
<1> SUFFICES ASSUME EditingInit PROVE EditingInv
  OBVIOUS
<1>1. BufferInv
  BY InitBufferInv DEF EditingInit
<1>2. ASSUME part = "tables" PROVE TablesProofs!TablesInv
  BY <1>2, PartsAssumption, SameTables, TablesProofs!TablesStart DEF EditingInit
<1>3. ASSUME part = "dynamic" PROVE DynamicInv
  BY <1>3, PartsAssumption, DynamicStart DEF EditingInit
<1>4. ASSUME part = "strings" PROVE StringsInv
  BY <1>4, PartsAssumption, StringsStart DEF EditingInit
<1> QED
  BY <1>1, <1>2, <1>3, <1>4 DEF EditingInv

\* Every step is one of the part's, and leaves the others alone.
LEMMA StepOfPart ==
    ASSUME [EditingNext]_all
    PROVE  /\ part' = part
           /\ [Next]_vars
           /\ part = "tables" =>
                Tables!Exchange \/ Tables!Arranged \/ Tables!Calls \/ UNCHANGED symbols
           /\ part = "dynamic" => [Dynamic!Next]_Dynamic!vars
           /\ part = "strings" => [Texts!Next]_Texts!vars
<1>1. CASE TablesStep
  BY <1>1 DEF TablesStep
<1>2. CASE DynamicStep
  BY <1>2 DEF DynamicStep, Dynamic!Next
<1>3. CASE StringsStep
  BY <1>3 DEF StringsStep, Texts!Next
<1>4. CASE part = "buffer" /\ Next /\ UNCHANGED <<part, symbols, dynamic, strings>>
  BY <1>4
<1>5. CASE part = "tables" /\ Tables!Calls /\ UNCHANGED <<part, vars, dynamic, strings>>
  BY <1>5
<1>6. CASE part = "dynamic" /\ Dynamic!Calls /\ UNCHANGED <<part, vars, symbols, strings>>
  BY <1>6 DEF Dynamic!Next
<1>7. CASE part = "strings" /\ Texts!Done /\ UNCHANGED <<part, vars, symbols, dynamic>>
  BY <1>7 DEF Texts!Next
<1>8. CASE UNCHANGED all
  BY <1>8 DEF all, dynamic, strings, Dynamic!vars, Texts!vars
<1> QED
  BY <1>1, <1>2, <1>3, <1>4, <1>5, <1>6, <1>7, <1>8 DEF EditingNext

\* A part that is not stepping has no invariant to lose.
LEMMA EditingKept == EditingInv /\ [EditingNext]_all => EditingInv'
<1> SUFFICES ASSUME EditingInv, [EditingNext]_all PROVE EditingInv'
  OBVIOUS
<1>1. part' = part
  BY StepOfPart
<1>2. BufferInv'
  BY StepOfPart, NextBufferInv DEF EditingInv
<1>3. ASSUME part = "tables" PROVE TablesProofs!TablesInv'
  BY <1>3, StepOfPart, TablesKept DEF EditingInv
<1>4. ASSUME part = "dynamic" PROVE DynamicInv'
  BY <1>4, PartsAssumption, StepOfPart, DynamicKept DEF EditingInv
<1>5. ASSUME part = "strings" PROVE StringsInv'
  BY <1>5, PartsAssumption, StepOfPart, StringsKept DEF EditingInv
<1> QED
  BY <1>1, <1>2, <1>3, <1>4, <1>5 DEF EditingInv

\* Hence in all states.
LEMMA EditingAlways == EditingSpec => []EditingInv
BY EditingStart, EditingKept, PTL DEF EditingSpec

(***************************************************************************)
(* insert_data stays in its block as long as data_size is right, and of a  *)
(* section whose data_size is wrong nothing is claimed; indexes into the   *)
(* tables, .dynamic and strings stay within them; and str_replace's second *)
(* pass fills exactly the block its first pass asked for, for all strings. *)
(***************************************************************************)
THEOREM EverythingStaysInside == EditingSpec => []EditingStaysInside
<1>1. EditingInv => EditingStaysInside
  <2> SUFFICES ASSUME EditingInv PROVE EditingStaysInside
    OBVIOUS
  <2>1. TypeOK /\ StaysInBlock
    BY DEF EditingInv, BufferInv
  <2>2. part = "tables" => Tables!TypeOK
    BY SameTables DEF EditingInv, TablesProofs!TablesInv
  <2>3. part = "dynamic" => Dynamic!TypeOK
    BY DEF EditingInv, DynamicInv
  <2>4. part = "strings" => Texts!TypeOK /\ Texts!ReplaceFits
    BY PartsAssumption, ReplacementFits DEF EditingInv, StringsInv
  <2> QED
    BY <2>1, <2>2, <2>3, <2>4 DEF EditingStaysInside
<1> QED
  BY <1>1, EditingAlways, PTL

(***************************************************************************)
(* With swap_symbols as its callback arrange_local_symbols leaves every    *)
(* relocation at the symbol it was made for, whatever was added before, in *)
(* whatever order; symbols keep their names, and sh_info divides them.     *)
(***************************************************************************)
THEOREM TablesAlwaysKeepLinks ==
    ASSUME Callback
    PROVE  EditingSpec => []TablesKeepLinks
<1>1. EditingInv => TablesKeepLinks
  <2> SUFFICES ASSUME EditingInv, part = "tables"
               PROVE  Tables!SymbolsKept /\ Tables!RelocationsFollow /\ Tables!LocalsFirst
    BY DEF TablesKeepLinks
  <2>1. TablesProofs!TablesInv /\ TablesProofs!TablesAssumption
    BY PartsAssumption, SameTables DEF EditingInv
  <2>2. TablesProofs!SymbolsKept
    BY <2>1, TablesProofs!InvSymbolsKept
  <2>3. TablesProofs!RelocationsFollow
    BY <2>1, TablesProofs!InvRelocationsFollow
  <2>4. TablesProofs!LocalsFirst
    BY <2>1 DEF TablesProofs!TablesInv, TablesProofs!ArrangeInv
  <2> QED
    BY <2>2, <2>3, <2>4, SameTables
<1> QED
  BY <1>1, EditingAlways, PTL

(***************************************************************************)
(* What was added to .dynamic reads back up to the first DT_NULL, an       *)
(* accessor that counted earlier shows a prefix of it, and the version     *)
(* requirements are those of the first DT_VERNEEDNUM: for all sections     *)
(* that were loaded and all entries.                                       *)
(***************************************************************************)
THEOREM DynamicAlwaysReadsBack == EditingSpec => []DynamicReadsBack
<1>1. EditingInv => DynamicReadsBack
  BY StalePrefix, BuiltReadsBack, VersionsAreCounted DEF EditingInv, DynamicReadsBack
<1> QED
  BY <1>1, EditingAlways, PTL

(***************************************************************************)
(* get_entries_num remembers the entries up to the first DT_NULL, or all   *)
(* whole ones, also when a name on the way cannot be found.                *)
(***************************************************************************)
THEOREM CountEndsWithNull == EditingSpec => [][part = "dynamic" => Dynamic!EndsWithNull]_all
<1>1. EditingInv /\ [EditingNext]_all => (part = "dynamic" => Dynamic!EndsWithNull)
  <2> SUFFICES ASSUME EditingInv, [EditingNext]_all, part = "dynamic"
               PROVE  Dynamic!EndsWithNull
    OBVIOUS
  <2>1. [Dynamic!Next]_Dynamic!vars
    BY StepOfPart
  <2>2. CASE Dynamic!CountEntry
    BY <2>2, CountEntryStep DEF EditingInv, Dynamic!EndsWithNull
  <2>3. ASSUME dNum' = dNum \/ dNum' = 0 PROVE Dynamic!EndsWithNull
    BY <2>3 DEF Dynamic!EndsWithNull
  <2>4. CASE Dynamic!Calls \/ UNCHANGED Dynamic!vars
    BY <2>3, <2>4
       DEF Dynamic!Calls, Dynamic!GetEntriesNum, Dynamic!AddEntry, Dynamic!AddName,
           Dynamic!Open, Dynamic!Append2, Dynamic!vars
  <2> QED
    BY <2>1, <2>2, <2>4 DEF Dynamic!Next
<1> QED
  BY <1>1, EditingAlways, PTL DEF EditingSpec
=============================================================================
