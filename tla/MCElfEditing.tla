---------------------------- MODULE MCElfEditing ----------------------------
(***************************************************************************)
(* Editing for TLC.  Up to three bytes at a time, of two values, into a    *)
(* section that is new, was loaded (one more byte allocated than data_size *)
(* says), inflated from more or from fewer bytes, or could not be read.    *)
(* Up to three symbols of two names behind the null symbol, with one       *)
(* relocation and one allocation that fails.                               *)
(***************************************************************************)
EXTENDS Editing

Raw(n, f) == [len |-> n, byte |-> f]
SomeInputs == {Raw(0, <<>>), Raw(1, <<"b">>), Raw(2, <<"a", "b">>), Raw(3, <<"b", "a", "b">>)}

Section(n, data_size, allocated) ==
    [size |-> n, dataSize |-> data_size, room |-> allocated,
     block |-> [i \in 1 .. allocated |-> "a"]]
SomeBlocks ==
    {Section(0, 0, 0), Section(0, 0, 1), Section(2, 2, 3), Section(1, 4, 2), Section(4, 1, 5),
     Section(2, 0, 0)}

SomeStrings == {<<>>, <<7, 8>>}
Down == {-1}

DynamicValues == INSTANCE MCElfDynamic
SomeSections == DynamicValues!SomeSections
SomeEntries == DynamicValues!SomeEntries

StringValues == INSTANCE MCStringTools
ToLower == StringValues!ToLower
SomeCalls == StringValues!SomeCalls
=============================================================================
