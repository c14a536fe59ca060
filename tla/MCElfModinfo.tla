---------------------------- MODULE MCElfModinfo ----------------------------
(***************************************************************************)
(* Every section of up to four characters, NULs, signs and letters, and    *)
(* three attributes to add.                                                *)
(***************************************************************************)
EXTENDS SequencesExt

SomeSections == BoundedSeq({"a", "=", "0"}, 4)
SomeAttributes == {<<<<>>, <<>> >>, <<<<"a">>, <<"b">> >>, <<<<"b">>, <<"=", "a">> >>}
=============================================================================
