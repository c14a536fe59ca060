--------------------------- MODULE MCStringTools ----------------------------
(***************************************************************************)
(* Every string of up to five slashes, letters and capitals for the loops  *)
(* over one string, shorter ones where there are two or three; strtokcmp's *)
(* copy holds three characters, so that longer lists are cut.              *)
(***************************************************************************)
EXTENDS Integers, SequencesExt

Chars == {"/", "a", "A"}
ToLower == [c \in Chars |-> IF c = "A" THEN "a" ELSE c]

Strings(k) == BoundedSeq(Chars, k)
Patterns == Strings(2) \ {<<>>}

SomeCalls ==
    [fn : {"stringSplit"}, text : Strings(4), by : Patterns]
    \cup [fn : {"RemoveDoubleSlashs", "FullpathToFilename"}, text : Strings(5)]
    \cup [fn : {"removeCharFromString"}, text : Strings(4), toBeRemoved : Chars]
    \cup [fn : {"str_replace"}, text : Strings(4), by : Patterns, with : {<<>>, <<"a">>, <<"/", "/", "a">>}]
    \cup [fn : {"strtokcmp"}, string : Strings(1) \cup {<<"a", "A">>}, text : Strings(4), separator : {{"/"}, {"/", "A"}}]
    \cup [fn : {"strextcmp"}, text : Strings(4), extension : Strings(2), separator : {"/"}]
    \cup [fn : {"EndsWith"}, text : Strings(3), b : Strings(3)]
    \cup [fn : {"byte_to_binary"}, x : {-2147483647, -129, -1, 0, 1, 85, 128, 255, 256, 1000, 2147483647}]
=============================================================================
