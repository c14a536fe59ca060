---------------------------- MODULE MCElfDynamic ----------------------------
(***************************************************************************)
(* A new section, loaded ones whose entries have, have not and have more   *)
(* than the size of an Elf32_Dyn, with and without a DT_NULL, and one that *)
(* ends within an entry; then up to three entries.                          *)
(***************************************************************************)
EXTENDS Integers, Sequences

DT_VERNEEDNUM == 1879048191

Section(w, n) == [words |-> w, entsize |-> n]
SomeSections ==
    {Section(<<>>, 2), Section(<<5, 8>>, 0), Section(<<5, 8>>, 1),
     Section(<<1, 99, 5, 8>>, 2), Section(<<1, 1, 0, 0, 5, 8>>, 2), Section(<<5, 8, 6>>, 2),
     Section(<<5, 8, 7, 1, 1, 7>>, 3), Section(<<DT_VERNEEDNUM, 4>>, 2)}
SomeEntries == {<<0, 6>>, <<1, 99>>, <<16, 7>>, <<DT_VERNEEDNUM, 3>>, <<DT_VERNEEDNUM, 1>>}
=============================================================================
