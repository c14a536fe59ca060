----------------------------- MODULE MCElfNotes -----------------------------
(***************************************************************************)
(* Sections with one or two notes' headers of any small size, and some     *)
(* odd, cut or huge ones; three notes to add.                              *)
(***************************************************************************)
EXTENDS Integers, Sequences

Word(n) == <<n \div 16777216, (n \div 65536) % 256, (n \div 256) % 256, n % 256>>

Header(namesz, descsz) == Word(namesz) \o Word(descsz) \o Word(7)
Bytes(n) == [k \in 1 .. n |-> 1]
OneNote == {Header(namesz, descsz) \o Bytes(n) : namesz \in 0 .. 6, descsz \in {0, 1, 4, 5, 9}, n \in 0 .. 9}
TwoNotes ==
    {Header(4, 4) \o Bytes(8) \o Header(namesz, descsz) \o Bytes(n) :
        namesz \in {0, 1, 4, 100}, descsz \in {0, 3, 4, 8}, n \in {0, 4, 7, 8}}
Odd ==
    {<<>>, Bytes(5), Word(0) \o Word(0), [k \in 1 .. 24 |-> 0],
     Header(127 * 16777216, 0) \o Bytes(4), Header(1, 127 * 16777216) \o Bytes(4)}
SomeSections == OneNote \cup TwoNotes \cup Odd

Note(type, name, desc) == [type |-> type, name |-> name, desc |-> desc]
SomeNotes == {Note(0, <<>>, <<>>), Note(1, <<65, 66, 67>>, <<0, 9, 8, 7>>), Note(300, <<65, 66, 67, 68>>, <<5>>)}
=============================================================================
