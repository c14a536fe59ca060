--------------------------- MODULE SectionBuffer ----------------------------
(***************************************************************************)
(* The data of one section (section_impl in src/elfio/elfio_section.hpp):  *)
(* set_data, insert_data and append_data, which is insert_data at the end. *)
(* data_size is meant to be the size of the block; inflation, a failed     *)
(* allocation and data that could not be read leave it with another value. *)
(***************************************************************************)
EXTENDS Integers

CONSTANTS
    Byte,
    Inputs,     \* raw_data and its size: records of len and byte
    Blocks,     \* the sections set_data and insert_data may find: see Init
    MaxSize     \* the bound on get_size() for the runs

(***************************************************************************)
(* A new section, one loaded from a file, one that was inflated (whose     *)
(* data_size is that of the compressed bytes), one whose bytes could not   *)
(* be read (which keeps the size its header states).  Sizes stay below     *)
(* 2^30, so doubling never wraps: the console has less memory than that.   *)
(***************************************************************************)
ASSUME BufferAssumption ==
    /\ Byte # {}
    /\ MaxSize \in Nat
    /\ \A raw \in Inputs : raw.len \in Nat /\ raw.byte \in [1 .. raw.len -> Byte]
    /\ \A b \in Blocks :
         /\ b.size \in Nat /\ b.room \in Nat /\ b.dataSize \in Nat
         /\ b.block \in [1 .. b.room -> Byte]

VARIABLES
    nobits,     \* get_type() = SHT_NOBITS
    size,       \* get_size()
    dataSize,   \* data_size
    room,       \* the bytes allocated at data: 0 for nullptr
    block,      \* and what they are
    stale,      \* history: data_size is not the size of the block
    overrun     \* history: bytes outside the block were written or copied

vars == <<nobits, size, dataSize, room, block, stale, overrun>>

Init ==
    /\ nobits \in BOOLEAN
    /\ \E b \in Blocks :
         /\ nobits => b.room = 0 /\ b.dataSize = 0
         /\ IF nobits THEN size \in 0 .. MaxSize ELSE size = b.size
         /\ dataSize = b.dataSize /\ room = b.room /\ block = b.block
         /\ stale = ~(b.size <= b.dataSize /\ b.dataSize <= b.room)
    /\ overrun = FALSE

\* new char[size] is not initialised; raw_data overwrites all of it.
SetData ==
    /\ ~overrun /\ ~nobits
    /\ \E raw \in Inputs :
         /\ raw.len <= MaxSize
         /\ size' = raw.len /\ dataSize' = raw.len
         /\ room' = raw.len /\ block' = raw.byte
    /\ stale' = FALSE
    /\ UNCHANGED <<nobits, overrun>>

\* No memory, or no raw_data.
SetNothing ==
    /\ ~overrun /\ ~nobits
    /\ \E raw \in Inputs :
         /\ raw.len <= MaxSize
         /\ room' \in {0, raw.len}
         /\ block' \in [1 .. room' -> Byte]
    /\ size' = 0 /\ dataSize' = 0
    /\ stale' = FALSE
    /\ UNCHANGED <<nobits, overrun>>

\* set_size( data_size ), whatever the size was.
SetNoBits ==
    /\ ~overrun /\ nobits
    /\ size' = dataSize
    /\ UNCHANGED <<nobits, dataSize, room, block, stale, overrun>>

Fits_NoSize(raw) == raw.len < dataSize

Fits(raw) == size + raw.len < dataSize

Merged_NoShift(raw, pos, newRoom) ==
    [i \in 1 .. newRoom |->
        IF i <= pos THEN block[i]
        ELSE IF i <= pos + raw.len THEN raw.byte[i - pos]
        ELSE IF i <= room THEN block[i] ELSE CHOOSE b \in Byte : TRUE]

\* What the block holds after copy_backward and copy, or the three copies; the
\* bytes behind get_size() are never looked at, so any will do.
Merged(raw, pos, newRoom) ==
    [i \in 1 .. newRoom |->
        IF i <= pos THEN block[i]
        ELSE IF i <= pos + raw.len THEN raw.byte[i - pos]
        ELSE IF i <= size + raw.len THEN block[i - raw.len]
        ELSE IF i <= room THEN block[i] ELSE CHOOSE b \in Byte : TRUE]

\* The size bytes that are kept, and what is inserted, are in their blocks.
HasRoom(raw, newRoom) == size <= room /\ size + raw.len <= newRoom

Write(raw, pos, newRoom) ==
    IF HasRoom(raw, newRoom)
    THEN /\ block' = Merged(raw, pos, newRoom)
         /\ room' = newRoom
         /\ size' = size + raw.len
         /\ UNCHANGED overrun
    ELSE overrun' = TRUE /\ UNCHANGED <<block, room, size>>

InsertInPlace(raw, pos) ==
    /\ Fits(raw)
    /\ Write(raw, pos, room)
    /\ UNCHANGED <<dataSize, stale>>

NewSize(raw) == 2 * (dataSize + raw.len)

InsertMoved(raw, pos) ==
    /\ ~Fits(raw)
    /\ dataSize' = NewSize(raw)
    /\ Write(raw, pos, NewSize(raw))
    /\ stale' = (overrun' /\ stale)

InsertStarved(raw) ==
    /\ ~Fits(raw)
    /\ dataSize' = NewSize(raw)
    /\ stale' = TRUE
    /\ UNCHANGED <<size, room, block, overrun>>

\* A section of SHT_NOBITS is left alone.
InsertData ==
    /\ ~overrun /\ ~nobits
    /\ \E raw \in Inputs, pos \in 0 .. size :
         /\ size + raw.len <= MaxSize
         /\ InsertInPlace(raw, pos) \/ InsertMoved(raw, pos) \/ InsertStarved(raw)
    /\ UNCHANGED nobits

Stop == (overrun \/ nobits) /\ UNCHANGED vars

Next == SetData \/ SetNothing \/ SetNoBits \/ InsertData \/ Stop

Spec == Init /\ [][Next]_vars

-----------------------------------------------------------------------------
\* Every variable keeps its type; get_data() is a block of room bytes.
TypeOK ==
    /\ {nobits, stale, overrun} \subseteq BOOLEAN
    /\ {size, dataSize, room} \subseteq Nat
    /\ block \in [1 .. room -> Byte]

\* While data_size is right, insert_data stays within its block and get_size()
\* never exceeds it: neither the room it finds in place nor the one it
\* allocates is too small.  It is right again after the next set_data, or an
\* insertion that moved the data.  Until then an insertion may overrun: that is
\* possible here as it is in the code, and nothing is promised of it.
StaysInBlock ==
    /\ overrun => stale
    /\ ~nobits /\ ~stale => size <= dataSize /\ dataSize <= room

\* The bytes the section has; of one that could not be read, none.
Shown == IF nobits \/ room < size THEN 0 ELSE size
Text == [i \in 1 .. Shown |-> block[i]]

Bytes == INSTANCE ByteString WITH
    size <- Shown, text <- Text, strained <- stale, lost <- overrun

\* Data holds exactly the bytes that were set and inserted, by moving or by
\* copying backwards, up to the first overrun; and only an insertion into a
\* section whose data_size is wrong can be one.  A failed insertion changes no
\* byte itself, but leaves data_size wrong for the next.
HoldsTheBytes == Bytes!Spec

=============================================================================
