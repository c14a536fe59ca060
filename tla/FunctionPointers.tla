-------------------------- MODULE FunctionPointers --------------------------
(***************************************************************************)
(* InitFunctionPointers: every OS function the loader calls goes through a *)
(* pointer that an import stub reads.  Three of them are known by address; *)
(* the others are looked up, library by library in the order of imports.h. *)
(*                                                                         *)
(* The result of OSDynLoad_Acquire is ignored: a library that cannot be    *)
(* acquired leaves the handle of the one before it, or none.  Whether a    *)
(* failed lookup is noticed depends on the sign of OSDynLoad_Error; it is  *)
(* taken to leave the pointer as it was.                                   *)
(***************************************************************************)
EXTENDS Naturals, Sequences

CONSTANTS
    Libraries,      \* the libraries of imports.h, in order
    ImportsOf,      \* library -> the functions looked up in it, in order
    HeapFunctions,  \* the three data exports of coreinit, in order
    Firmwares       \* what may be exported: sets of <<library, name>>

Known == {"OSDynLoad_Acquire", "OSDynLoad_FindExport", "OSDynLoad_IsModuleLoaded"}
Core  == Libraries[1]
Names == UNION {{ImportsOf[l][i] : i \in 1 .. Len(ImportsOf[l])} :
                   l \in {Libraries[j] : j \in 1 .. Len(Libraries)}}
HomeOf(name) == CHOOSE l \in DOMAIN ImportsOf :
                    \E i \in 1 .. Len(ImportsOf[l]) : ImportsOf[l][i] = name

Unset == "unset"
None  == "none"

(***************************************************************************)
(* imports.h names each function once, and those the code refers to by     *)
(* name under coreinit, which comes first.                                 *)
(***************************************************************************)
ASSUME ImportsAssumption ==
    /\ Libraries \in Seq(DOMAIN ImportsOf) /\ Len(Libraries) > 0
    /\ DOMAIN ImportsOf = {Libraries[j] : j \in 1 .. Len(Libraries)}
    /\ {Unset, None} \cap DOMAIN ImportsOf = {}
    /\ \A l \in DOMAIN ImportsOf : ImportsOf[l] \in Seq(Names) /\ Len(ImportsOf[l]) > 0
    /\ \A l, m \in DOMAIN ImportsOf :
          \A i \in 1 .. Len(ImportsOf[l]), j \in 1 .. Len(ImportsOf[m]) :
             ImportsOf[l][i] = ImportsOf[m][j] => l = m /\ i = j
    /\ Known \cup {"OSFatal", "exit", "__rplwrap_exit"} \subseteq
          {ImportsOf[Core][i] : i \in 1 .. Len(ImportsOf[Core])}
    /\ HeapFunctions \in Seq(STRING) /\ Len(HeapFunctions) > 0
    /\ \A h \in 1 .. Len(HeapFunctions) : HeapFunctions[h] \notin {Unset, None}
    /\ \A fw \in Firmwares : \A e \in fw : e[1] \in DOMAIN ImportsOf

VARIABLES
    pc,
    firmware,
    notices,    \* is an OSDynLoad_Error less than 0?
    lib,        \* loop position in imports.h: library,
    imp,        \* and function
    handle,     \* the library the handle is for
    value,      \* the out parameter of the data lookups
    heapFn,     \* what each heap function variable was read from
    ptr         \* what each pointer points to: the library that exports it

vars == <<pc, firmware, notices, lib, imp, handle, value, heapFn, ptr>>

Init ==
    /\ pc = "bootstrap"
    /\ firmware \in Firmwares
    /\ notices \in BOOLEAN
    /\ lib = 1
    /\ imp = 1
    /\ handle = None
    /\ value = None
    /\ heapFn = [h \in 1 .. Len(HeapFunctions) |-> Unset]
    /\ ptr = [f \in Names |-> Unset]

\* OSDynLoad_Acquire(l, &handle): the handle is l's, or it is what it was, or none.
Acquire(l) == handle' \in {l, handle, None}

Bootstrap ==
    /\ pc = "bootstrap"
    /\ ptr' = [f \in Names |-> IF f \in Known THEN Core ELSE ptr[f]]
    /\ Acquire(Core)
    /\ pc' = "heap"
    /\ UNCHANGED <<firmware, notices, lib, imp, value, heapFn>>

(***************************************************************************)
(* The heap functions are variables of coreinit.  The lookups share one    *)
(* out parameter, which is dereferenced whether or not it was found.       *)
(* (X_Suffix is X with a bug, here and below; no action uses it.)          *)
(***************************************************************************)
HeapFunction == HeapFunctions[imp]

FindHeapFunction ==
    /\ pc = "heap"
    /\ IF <<handle, HeapFunction>> \in firmware
         THEN value' = HeapFunction
         ELSE value' \in {value, None}
    /\ IF value' = None
         THEN pc' = "crashed" /\ UNCHANGED <<imp, heapFn>>
         ELSE /\ heapFn' = [heapFn EXCEPT ![imp] = value']
              /\ IF imp < Len(HeapFunctions)
                   THEN imp' = imp + 1 /\ UNCHANGED pc
                   ELSE imp' = 1 /\ pc' = "begin"
    /\ UNCHANGED <<firmware, notices, lib, handle, ptr>>

\* IMPORT_BEGIN.
BeginLibrary ==
    /\ pc = "begin"
    /\ Acquire(Libraries[lib])
    /\ pc' = "import"
    /\ UNCHANGED <<firmware, notices, lib, imp, value, heapFn, ptr>>

Name == ImportsOf[Libraries[lib]][imp]

LastImport_OneEarly == imp + 1 >= Len(ImportsOf[Libraries[lib]])
LastImport == imp = Len(ImportsOf[Libraries[lib]])
NextImport_Skips ==
    \/ imp + 1 < Len(ImportsOf[Libraries[lib]]) /\ imp' = imp + 2 /\ UNCHANGED <<lib, pc>>
    \/ imp + 1 >= Len(ImportsOf[Libraries[lib]]) /\ pc' = "override" /\ UNCHANGED <<lib, imp>>
NextImport ==
    \/ ~ LastImport /\ imp' = imp + 1 /\ UNCHANGED <<lib, pc>>
    \/ LastImport /\ lib < Len(Libraries) /\ lib' = lib + 1 /\ imp' = 1 /\ pc' = "begin"
    \/ LastImport /\ lib = Len(Libraries) /\ pc' = "override" /\ UNCHANGED <<lib, imp>>

\* IMPORT: the pointer is set, or a failure is noticed, or it is not.
FindFunction ==
    /\ pc = "import"
    /\ <<handle, Name>> \in firmware
    /\ ptr' = [ptr EXCEPT ![Name] = handle]
    /\ NextImport
    /\ UNCHANGED <<firmware, notices, handle, value, heapFn>>

\* OSFatal is called through its own pointer.
Fatal == IF ptr["OSFatal"] = Unset THEN "crashed" ELSE "fatal"

FunctionMissing ==
    /\ pc = "import"
    /\ <<handle, Name>> \notin firmware
    /\ IF notices THEN pc' = Fatal /\ UNCHANGED <<lib, imp>> ELSE NextImport
    /\ UNCHANGED <<firmware, notices, handle, value, heapFn, ptr>>

\* "override failed __rplwrap_exit find export"
Override ==
    /\ pc = "override"
    /\ handle' \in {Core, handle}
    /\ ptr' = [ptr EXCEPT !["__rplwrap_exit"] =
                   IF <<handle', "exit">> \in firmware THEN handle' ELSE @]
    /\ pc' = "done"
    /\ UNCHANGED <<firmware, notices, lib, imp, value, heapFn>>

Over == pc \in {"done", "fatal", "crashed"}
Stopped == Over /\ UNCHANGED vars

Next ==
    \/ Bootstrap \/ FindHeapFunction \/ BeginLibrary \/ FindFunction
    \/ FunctionMissing \/ Override \/ Stopped

Spec == Init /\ [][Next]_vars /\ WF_vars(Next)
-----------------------------------------------------------------------------
TypeOK ==
    /\ pc \in {"bootstrap", "heap", "begin", "import", "override",
               "done", "fatal", "crashed"}
    /\ firmware \in Firmwares
    /\ notices \in BOOLEAN
    /\ lib \in 1 .. Len(Libraries)
    /\ imp \in Nat \ {0}
    /\ handle \in DOMAIN ImportsOf \cup {None}
    /\ value \in {HeapFunctions[h] : h \in 1 .. Len(HeapFunctions)} \cup {None}
    /\ heapFn \in [1 .. Len(HeapFunctions) ->
                     {HeapFunctions[h] : h \in 1 .. Len(HeapFunctions)} \cup {Unset}]
    /\ ptr \in [Names -> DOMAIN ImportsOf \cup {Unset}]

(***************************************************************************)
(* No library of a firmware exports a function of another.                 *)
(***************************************************************************)
Disjoint == \A e \in firmware : e[2] \in Names => e[1] = HomeOf(e[2])

(***************************************************************************)
(* Nobody looks at the result of OSDynLoad_Acquire.  A library that could  *)
(* not be acquired is still noticed, at its first function: if the lookups *)
(* report their failures, InitFunctionPointers only returns when each      *)
(* pointer has been found in its own library.                              *)
(***************************************************************************)
PointersComplete ==
    pc = "done" /\ notices /\ Disjoint => \A f \in Names : ptr[f] = HomeOf(f)

(***************************************************************************)
(* The heap variables share one out parameter, so one that is missing gets *)
(* the address of another or crashes the loader; one that coreinit exports *)
(* is never mixed up.                                                      *)
(***************************************************************************)
HeapFunctionsApart ==
    pc = "done" => \A h \in 1 .. Len(HeapFunctions) :
        <<Core, HeapFunctions[h]>> \in firmware => heapFn[h] = HeapFunctions[h]

(***************************************************************************)
(* OSFatal is looked up like the others.  The message that a function is   *)
(* missing can be shown unless that function comes before OSFatal itself,  *)
(* or coreinit could not be opened at all: nothing else makes the loader   *)
(* crash.  (Where lookups do not report their failures a missing function  *)
(* is not reported either, and of that nothing is said.)                   *)
(***************************************************************************)
MissingFunctionIsReported ==
    pc = "crashed" =>
        \/ handle # Core
        \/ \E i \in 1 .. Len(ImportsOf[Core]) :
              /\ <<Core, ImportsOf[Core][i]>> \notin firmware
              /\ \A j \in 1 .. (i - 1) : ImportsOf[Core][j] # "OSFatal"
        \/ \E h \in 1 .. Len(HeapFunctions) : <<Core, HeapFunctions[h]>> \notin firmware

\* What the pointers and the heap variables hold when the function returns is
\* what their names say, as far as the lookups report their failures.
PointersFound == TypeOK /\ PointersComplete /\ HeapFunctionsApart
=============================================================================
