----------------------- MODULE FunctionPointersProofs -----------------------
(***************************************************************************)
(* Proofs about FunctionPointers, for every imports.h in which no function *)
(* is named twice and every firmware.                                      *)
(***************************************************************************)
EXTENDS FunctionPointers, TLAPS

\* Where the loops are.
LoopsOK ==
    /\ pc \in {"bootstrap", "heap"} => lib = 1
    /\ pc \in {"bootstrap", "begin"} => imp = 1
    /\ pc = "heap" => imp \in 1 .. Len(HeapFunctions)
    /\ pc = "import" => imp \in 1 .. Len(ImportsOf[Libraries[lib]])

\* Before coreinit has been opened there is no handle.  A lookup without one
\* finds nothing.
HeapInv ==
    /\ pc = "bootstrap" => handle = None /\ value = None
    /\ pc = "heap" => /\ handle \in {Core, None}
                      /\ handle = None => imp = 1 /\ value = None
    /\ \A h \in 1 .. Len(HeapFunctions) :
          /\ pc \notin {"bootstrap", "crashed"}
          /\ pc = "heap" => h < imp
          /\ <<Core, HeapFunctions[h]>> \in firmware
          => heapFn[h] = HeapFunctions[h]

\* The functions in front of the cursor.
Passed(f) ==
    \E j \in 1 .. Len(Libraries) : \E i \in 1 .. Len(ImportsOf[Libraries[j]]) :
        /\ ImportsOf[Libraries[j]][i] = f
        /\ j < lib \/ (j = lib /\ i < imp)

\* If failures are noticed, what was looked up has been found.
FoundInv ==
    notices =>
        /\ pc \in {"begin", "import"} => \A f \in Names : Passed(f) =>
              ptr[f] # Unset /\ (Disjoint => ptr[f] = HomeOf(f))
        /\ pc \in {"override", "done"} => \A f \in Names : Disjoint => ptr[f] = HomeOf(f)

PointersInv == TypeOK /\ LoopsOK /\ HeapInv /\ FoundInv /\ MissingFunctionIsReported
-----------------------------------------------------------------------------
\* What imports.h is.
LEMMA ImportsFacts ==
    /\ Len(Libraries) \in Nat /\ Len(Libraries) > 0
    /\ \A j \in 1 .. Len(Libraries) :
          /\ Libraries[j] \in DOMAIN ImportsOf
          /\ Len(ImportsOf[Libraries[j]]) \in Nat /\ Len(ImportsOf[Libraries[j]]) > 0
          /\ \A i \in 1 .. Len(ImportsOf[Libraries[j]]) :
                ImportsOf[Libraries[j]][i] \in Names
    /\ Core \in DOMAIN ImportsOf /\ Core # None /\ Core # Unset /\ None # Unset
    /\ Len(HeapFunctions) \in Nat /\ Len(HeapFunctions) > 0
<1>1. /\ Libraries \in Seq(DOMAIN ImportsOf) /\ Len(Libraries) > 0
      /\ {Unset, None} \cap DOMAIN ImportsOf = {}
      /\ \A l \in DOMAIN ImportsOf : ImportsOf[l] \in Seq(Names) /\ Len(ImportsOf[l]) > 0
      /\ HeapFunctions \in Seq(STRING) /\ Len(HeapFunctions) > 0
  BY ImportsAssumption DEF ImportsAssumption
<1>2. Len(Libraries) \in Nat /\ \A j \in 1 .. Len(Libraries) : Libraries[j] \in DOMAIN ImportsOf
  BY <1>1
<1>3. Core \in DOMAIN ImportsOf
  BY <1>1, <1>2 DEF Core
<1>4. None # Unset
  BY DEF None, Unset
<1>5. \A l \in DOMAIN ImportsOf : /\ Len(ImportsOf[l]) \in Nat
                                  /\ \A i \in 1 .. Len(ImportsOf[l]) : ImportsOf[l][i] \in Names
  BY <1>1
<1> QED
  BY <1>1, <1>2, <1>3, <1>4, <1>5

\* A function is at home in the library it is listed under.
LEMMA Home ==
    ASSUME NEW l \in DOMAIN ImportsOf, NEW i \in 1 .. Len(ImportsOf[l])
    PROVE  HomeOf(ImportsOf[l][i]) = l
<1> DEFINE Lists(m) == \E j \in 1 .. Len(ImportsOf[m]) : ImportsOf[m][j] = ImportsOf[l][i]
<1>1. Lists(l)
  OBVIOUS
<1>2. \A m \in DOMAIN ImportsOf : Lists(m) => m = l
  BY ImportsAssumption, Zenon DEF ImportsAssumption
<1>3. HomeOf(ImportsOf[l][i]) = CHOOSE m \in DOMAIN ImportsOf : Lists(m)
  BY DEF HomeOf
<1> HIDE DEF Lists
<1> QED
  BY <1>1, <1>2, <1>3

\* The functions the code names are coreinit's.
LEMMA CoreFunctions ==
    /\ Known \subseteq Names
    /\ {"OSFatal", "exit", "__rplwrap_exit"} \subseteq Names
    /\ HomeOf("exit") = Core /\ HomeOf("__rplwrap_exit") = Core
    /\ \E i \in 1 .. Len(ImportsOf[Core]) : ImportsOf[Core][i] = "OSFatal"
<1>1. Known \cup {"OSFatal", "exit", "__rplwrap_exit"} \subseteq
          {ImportsOf[Core][i] : i \in 1 .. Len(ImportsOf[Core])}
  BY ImportsAssumption DEF ImportsAssumption
<1>2. \A i \in 1 .. Len(ImportsOf[Core]) :
         ImportsOf[Core][i] \in Names /\ HomeOf(ImportsOf[Core][i]) = Core
  <2>1. Core = Libraries[1] /\ 1 \in 1 .. Len(Libraries) /\ Core \in DOMAIN ImportsOf
    BY ImportsFacts DEF Core
  <2> QED
    BY <2>1, ImportsFacts, Home
<1> QED
  BY <1>1, <1>2
-----------------------------------------------------------------------------
\* The state InitFunctionPointers begins in.
LEMMA InitPointersInv == Init => PointersInv
<1> SUFFICES ASSUME Init PROVE PointersInv
  OBVIOUS
<1>1. TypeOK
  BY ImportsFacts DEF Init, TypeOK
<1>2. LoopsOK /\ HeapInv /\ FoundInv /\ MissingFunctionIsReported
  BY DEF Init, LoopsOK, HeapInv, FoundInv, MissingFunctionIsReported
<1> QED
  BY <1>1, <1>2 DEF PointersInv

\* What Disjoint and Passed say depends on the firmware and the cursor.
LEMMA FirmwareKept ==
    ASSUME UNCHANGED firmware
    PROVE  Disjoint' <=> Disjoint
BY DEF Disjoint, Names

\* The three known addresses, and coreinit's handle.
LEMMA BootstrapStep == ASSUME PointersInv, Bootstrap PROVE PointersInv'
<1>1. /\ pc = "bootstrap" /\ pc' = "heap" /\ lib = 1 /\ imp = 1
      /\ handle = None /\ value = None
      /\ handle' \in {Core, None}
      /\ UNCHANGED <<firmware, notices, lib, imp, value, heapFn>>
      /\ ptr' = [f \in Names |-> IF f \in Known THEN Core ELSE ptr[f]]
  BY DEF PointersInv, LoopsOK, HeapInv, Bootstrap, Acquire
<1>2. TypeOK'
  BY <1>1, ImportsFacts DEF PointersInv, TypeOK
<1>3. LoopsOK' /\ FoundInv' /\ MissingFunctionIsReported'
  BY <1>1, ImportsFacts DEF LoopsOK, FoundInv, MissingFunctionIsReported
<1>4. HeapInv'
  BY <1>1, ImportsFacts DEF HeapInv
<1> QED
  BY <1>2, <1>3, <1>4 DEF PointersInv

\* A heap function that coreinit exports is found; one that is not is read
\* from where the one before it was, or nowhere.
LEMMA HeapStep == ASSUME PointersInv, FindHeapFunction PROVE PointersInv'
<1>1. /\ pc = "heap" /\ lib = 1 /\ imp \in 1 .. Len(HeapFunctions)
      /\ handle \in {Core, None} /\ (handle = None => imp = 1 /\ value = None)
      /\ UNCHANGED <<firmware, notices, lib, handle, ptr>>
      /\ firmware \in Firmwares /\ Len(HeapFunctions) \in Nat
      /\ heapFn \in [1 .. Len(HeapFunctions) ->
                        {HeapFunctions[h] : h \in 1 .. Len(HeapFunctions)} \cup {Unset}]
  BY ImportsFacts DEF PointersInv, LoopsOK, HeapInv, TypeOK, FindHeapFunction
<1>2. \A h \in 1 .. Len(HeapFunctions) :
         /\ HeapFunctions[h] # None
         /\ h < imp /\ <<Core, HeapFunctions[h]>> \in firmware => heapFn[h] = HeapFunctions[h]
  BY <1>1, ImportsAssumption DEF PointersInv, HeapInv, ImportsAssumption
<1>3. handle = None => <<handle, HeapFunction>> \notin firmware
  <2>1. \A e \in firmware : e[1] \in DOMAIN ImportsOf
    BY <1>1, ImportsAssumption DEF ImportsAssumption
  <2>2. None \notin DOMAIN ImportsOf
    BY ImportsAssumption DEF ImportsAssumption
  <2> QED
    BY <2>1, <2>2
<1>4. value' \in {HeapFunctions[h] : h \in 1 .. Len(HeapFunctions)} \cup {None}
  BY <1>1 DEF FindHeapFunction, HeapFunction, PointersInv, TypeOK
<1>5. <<handle, HeapFunction>> \in firmware => value' = HeapFunctions[imp]
  BY DEF FindHeapFunction, HeapFunction
<1>6. CASE value' = None
  <2>1. pc' = "crashed" /\ UNCHANGED <<imp, heapFn>>
    BY <1>6 DEF FindHeapFunction
  <2>2. <<handle, HeapFunctions[imp]>> \notin firmware
    BY <1>1, <1>2, <1>5, <1>6 DEF HeapFunction
  <2>3. TypeOK'
    BY <1>1, <1>4, <2>1 DEF PointersInv, TypeOK
  <2>4. MissingFunctionIsReported'
    BY <1>1, <2>1, <2>2 DEF MissingFunctionIsReported
  <2>5. LoopsOK' /\ HeapInv' /\ FoundInv'
    BY <2>1 DEF LoopsOK, HeapInv, FoundInv
  <2> QED
    BY <2>3, <2>4, <2>5 DEF PointersInv
<1>7. CASE value' # None
  <2>1. heapFn' = [heapFn EXCEPT ![imp] = value']
    BY <1>7 DEF FindHeapFunction
  <2>2. handle = Core
    BY <1>1, <1>3, <1>7 DEF FindHeapFunction
  <2>3. \/ imp < Len(HeapFunctions) /\ imp' = imp + 1 /\ pc' = pc
        \/ ~ (imp < Len(HeapFunctions)) /\ imp' = 1 /\ pc' = "begin"
    BY <1>7 DEF FindHeapFunction
  <2>4. TypeOK'
    BY <1>1, <1>4, <1>7, <2>1, <2>3 DEF PointersInv, TypeOK
  <2>5. ASSUME NEW h \in 1 .. Len(HeapFunctions), h <= imp,
               <<Core, HeapFunctions[h]>> \in firmware
        PROVE  heapFn'[h] = HeapFunctions[h]
    <3>1. CASE h = imp
      BY <1>1, <1>5, <2>1, <2>2, <2>5, <3>1 DEF HeapFunction
    <3>2. CASE h # imp
      <4>1. h < imp
        BY <1>1, <2>5, <3>2
      <4> QED
        BY <1>1, <1>2, <2>1, <2>5, <3>2, <4>1
    <3> QED
      BY <3>1, <3>2
  <2>6. HeapInv'
    <3>1. ASSUME NEW h \in 1 .. Len(HeapFunctions), pc' = "heap" => h < imp'
          PROVE  h <= imp
      BY <1>1, <2>3, <3>1
    <3>2. pc' # "bootstrap" /\ handle' = Core /\ Core # None
      BY <1>1, <2>2, <2>3, ImportsFacts
    <3> QED
      BY <1>1, <2>5, <3>1, <3>2 DEF HeapInv
  <2>7. LoopsOK'
    BY <1>1, <2>3 DEF LoopsOK
  <2>8. MissingFunctionIsReported'
    BY <1>1, <2>3 DEF MissingFunctionIsReported
  <2>9. FoundInv'
    <3>1. ASSUME pc' = "begin", NEW f
          PROVE  ~ Passed(f)'
      BY <1>1, <2>3, <3>1, ImportsFacts DEF Passed
    <3> QED
      BY <1>1, <2>3, <3>1 DEF FoundInv
  <2> QED
    BY <2>4, <2>6, <2>7, <2>8, <2>9 DEF PointersInv
<1> QED
  BY <1>6, <1>7

\* Opening a library changes the handle alone.
LEMMA BeginStep == ASSUME PointersInv, BeginLibrary PROVE PointersInv'
<1>1. /\ pc = "begin" /\ pc' = "import"
      /\ handle' \in DOMAIN ImportsOf \cup {None}
      /\ UNCHANGED <<firmware, notices, lib, imp, value, heapFn, ptr>>
      /\ lib \in 1 .. Len(Libraries)
  BY ImportsFacts DEF BeginLibrary, Acquire, PointersInv, TypeOK
<1>2. TypeOK'
  BY <1>1 DEF PointersInv, TypeOK
<1>3. LoopsOK'
  BY <1>1, ImportsFacts DEF PointersInv, LoopsOK
<1>4. HeapInv' /\ MissingFunctionIsReported'
  BY <1>1 DEF PointersInv, HeapInv, MissingFunctionIsReported
<1>5. FoundInv'
  <2>1. \A f : Passed(f)' <=> Passed(f)
    BY <1>1 DEF Passed
  <2> QED
    BY <1>1, <2>1, FirmwareKept DEF PointersInv, FoundInv
<1> QED
  BY <1>2, <1>3, <1>4, <1>5 DEF PointersInv

\* The loops reach the next function of imports.h, and every one in the end.
LEMMA Advances ==
    ASSUME TypeOK, LoopsOK, pc = "import", NextImport
    PROVE  /\ pc' \in {"import", "begin", "override"}
           /\ lib' \in 1 .. Len(Libraries)
           /\ pc' = "begin" => imp' = 1
           /\ pc' = "import" => imp' \in 1 .. Len(ImportsOf[Libraries[lib']])
           /\ imp' \in Nat \ {0}
           /\ pc' # "override" => \A f : Passed(f)' => Passed(f) \/ f = Name
           /\ pc' = "override" => \A f \in Names : Passed(f) \/ f = Name
<1>1. /\ lib \in 1 .. Len(Libraries) /\ Len(Libraries) \in Nat
      /\ imp \in 1 .. Len(ImportsOf[Libraries[lib]])
      /\ Len(ImportsOf[Libraries[lib]]) \in Nat
  BY ImportsFacts DEF TypeOK, LoopsOK
<1>2. CASE imp # Len(ImportsOf[Libraries[lib]])
  <2>1. imp' = imp + 1 /\ lib' = lib /\ pc' = pc
    BY <1>2 DEF NextImport, LastImport
  <2>2. ASSUME NEW f, Passed(f)'
        PROVE  Passed(f) \/ f = Name
    <3>0. PICK j \in 1 .. Len(Libraries) : \E i \in 1 .. Len(ImportsOf[Libraries[j]]) :
            /\ ImportsOf[Libraries[j]][i] = f
            /\ j < lib \/ (j = lib /\ i < imp + 1)
      BY <2>1, <2>2 DEF Passed
    <3>1. PICK i \in 1 .. Len(ImportsOf[Libraries[j]]) :
            /\ ImportsOf[Libraries[j]][i] = f
            /\ j < lib \/ (j = lib /\ i < imp + 1)
      BY <3>0
    <3>2. CASE j = lib /\ i = imp
      BY <3>1, <3>2 DEF Name
    <3>3. CASE ~ (j = lib /\ i = imp)
      <4>1. j < lib \/ (j = lib /\ i < imp)
        BY <1>1, <3>1, <3>3
      <4> QED
        BY <3>1, <4>1 DEF Passed
    <3> QED
      BY <3>2, <3>3
  <2>3. imp + 1 \in 1 .. Len(ImportsOf[Libraries[lib]])
    BY <1>1, <1>2
  <2> QED
    BY <1>1, <2>1, <2>2, <2>3
<1>3. CASE imp = Len(ImportsOf[Libraries[lib]])
  <2> DEFINE Seen(f) == \E j \in 1 .. Len(Libraries) :
                            j <= lib /\ \E i \in 1 .. Len(ImportsOf[Libraries[j]]) :
                                            ImportsOf[Libraries[j]][i] = f
  <2>1. ASSUME NEW f, Seen(f)
        PROVE  Passed(f) \/ f = Name
    <3>1. PICK j \in 1 .. Len(Libraries) :
             j <= lib /\ \E i \in 1 .. Len(ImportsOf[Libraries[j]]) :
                             ImportsOf[Libraries[j]][i] = f
      BY <2>1
    <3>2. PICK i \in 1 .. Len(ImportsOf[Libraries[j]]) : ImportsOf[Libraries[j]][i] = f
      BY <3>1
    <3>3. CASE j = lib /\ i = imp
      BY <3>2, <3>3 DEF Name
    <3>4. CASE ~ (j = lib /\ i = imp)
      <4>1. j < lib \/ (j = lib /\ i < imp)
        BY <1>1, <1>3, <3>1, <3>4
      <4> QED
        BY <3>2, <4>1 DEF Passed
    <3> QED
      BY <3>3, <3>4
  <2>2. CASE lib < Len(Libraries)
    <3>1. lib' = lib + 1 /\ imp' = 1 /\ pc' = "begin"
      BY <1>1, <1>3, <2>2 DEF NextImport, LastImport
    <3>2. ASSUME NEW f, Passed(f)'
          PROVE  Seen(f)
      <4>0. PICK j \in 1 .. Len(Libraries) : \E i \in 1 .. Len(ImportsOf[Libraries[j]]) :
              /\ ImportsOf[Libraries[j]][i] = f
              /\ j < lib + 1 \/ (j = lib + 1 /\ i < 1)
        BY <3>1, <3>2 DEF Passed
      <4>1. PICK i \in 1 .. Len(ImportsOf[Libraries[j]]) :
              /\ ImportsOf[Libraries[j]][i] = f
              /\ j < lib + 1 \/ (j = lib + 1 /\ i < 1)
        BY <4>0
      <4>2. j <= lib
        BY <1>1, <4>1, ImportsFacts
      <4> QED
        BY <4>1, <4>2
    <3>3. lib + 1 \in 1 .. Len(Libraries)
      BY <1>1, <2>2
    <3> HIDE DEF Seen
    <3> QED
      BY <2>1, <3>1, <3>2, <3>3
  <2>3. CASE ~ (lib < Len(Libraries))
    <3>1. lib' = lib /\ imp' = imp /\ pc' = "override" /\ lib = Len(Libraries)
      BY <1>1, <1>3, <2>3 DEF NextImport, LastImport
    <3>2. ASSUME NEW f \in Names
          PROVE  Seen(f)
      <4>1. PICK j \in 1 .. Len(Libraries) :
              \E i \in 1 .. Len(ImportsOf[Libraries[j]]) : ImportsOf[Libraries[j]][i] = f
        BY DEF Names
      <4> QED
        BY <1>1, <3>1, <4>1
    <3> HIDE DEF Seen
    <3> QED
      BY <1>1, <2>1, <3>1, <3>2
  <2> QED
    BY <2>2, <2>3
<1> QED
  BY <1>2, <1>3

\* What the import loop leaves alone.
LEMMA ImportLoopKeeps ==
    ASSUME PointersInv, pc = "import", NextImport, UNCHANGED <<firmware, heapFn>>
    PROVE  LoopsOK' /\ HeapInv' /\ MissingFunctionIsReported'
<1>1. /\ pc' \in {"import", "begin", "override"}
      /\ pc' = "begin" => imp' = 1
      /\ pc' = "import" => imp' \in 1 .. Len(ImportsOf[Libraries[lib']])
  BY Advances DEF PointersInv
<1>2. Libraries' = Libraries /\ ImportsOf' = ImportsOf
  OBVIOUS
<1>3. LoopsOK'
  BY <1>1 DEF LoopsOK
<1>4. HeapInv'
  BY <1>1 DEF PointersInv, HeapInv
<1>5. MissingFunctionIsReported'
  BY <1>1 DEF MissingFunctionIsReported
<1> QED
  BY <1>3, <1>4, <1>5

\* A function that is found is found in its own library.
LEMMA FoundStep == ASSUME PointersInv, FindFunction PROVE PointersInv'
<1>1. /\ pc = "import" /\ NextImport
      /\ <<handle, Name>> \in firmware
      /\ ptr' = [ptr EXCEPT ![Name] = handle]
      /\ UNCHANGED <<firmware, notices, handle, value, heapFn>>
  BY DEF FindFunction
<1>2. /\ firmware \in Firmwares /\ ptr \in [Names -> DOMAIN ImportsOf \cup {Unset}]
      /\ lib \in 1 .. Len(Libraries)
      /\ imp \in 1 .. Len(ImportsOf[Libraries[lib]])
  BY <1>1 DEF PointersInv, TypeOK, LoopsOK
<1>3. handle \in DOMAIN ImportsOf /\ handle # Unset
  <2>1. \A e \in firmware : e[1] \in DOMAIN ImportsOf
    BY <1>2, ImportsAssumption DEF ImportsAssumption
  <2>2. Unset \notin DOMAIN ImportsOf
    BY ImportsAssumption DEF ImportsAssumption
  <2> QED
    BY <1>1, <2>1, <2>2
<1>4. Name \in Names
  BY <1>2, ImportsFacts DEF Name
<1>5. TypeOK'
  BY <1>1, <1>3, <1>4, Advances DEF PointersInv, TypeOK
<1>6. Disjoint => handle = HomeOf(Name)
  BY <1>1, <1>4 DEF Disjoint
<1>7. ASSUME NEW f \in Names, notices, Passed(f) \/ f = Name
      PROVE  ptr'[f] # Unset /\ (Disjoint => ptr'[f] = HomeOf(f))
  BY <1>1, <1>2, <1>3, <1>4, <1>6, <1>7 DEF PointersInv, FoundInv
<1>8. FoundInv'
  <2>1. /\ pc' \in {"import", "begin", "override"}
        /\ pc' # "override" => \A f : Passed(f)' => Passed(f) \/ f = Name
        /\ pc' = "override" => \A f \in Names : Passed(f) \/ f = Name
    BY <1>1, Advances DEF PointersInv
  <2> QED
    BY <1>1, <1>7, <2>1, FirmwareKept DEF FoundInv
<1> QED
  BY <1>1, <1>5, <1>8, ImportLoopKeeps DEF PointersInv

\* One that is not found ends the program, or nobody will know.
LEMMA MissingStep == ASSUME PointersInv, FunctionMissing PROVE PointersInv'
<1>1. /\ pc = "import" /\ <<handle, Name>> \notin firmware
      /\ UNCHANGED <<firmware, notices, handle, value, heapFn, ptr>>
  BY DEF FunctionMissing
<1>2. CASE ~ notices
  <2>1. NextImport
    BY <1>2 DEF FunctionMissing
  <2>2. TypeOK'
    BY <1>1, <2>1, Advances DEF PointersInv, TypeOK
  <2>3. FoundInv'
    BY <1>1, <1>2 DEF FoundInv
  <2> QED
    BY <1>1, <2>1, <2>2, <2>3, ImportLoopKeeps DEF PointersInv
<1>3. CASE notices
  <2>1. pc' = Fatal /\ UNCHANGED <<lib, imp>>
    BY <1>3 DEF FunctionMissing
  <2>2. pc' \in {"crashed", "fatal"} /\ (pc' = "crashed" => ptr["OSFatal"] = Unset)
    BY <2>1 DEF Fatal
  <2>3. TypeOK' /\ LoopsOK' /\ HeapInv' /\ FoundInv'
    BY <1>1, <2>1, <2>2 DEF PointersInv, TypeOK, LoopsOK, HeapInv, FoundInv
  <2>4. ASSUME pc' = "crashed"
        PROVE  \E i \in 1 .. Len(ImportsOf[Core]) :
                  /\ <<handle, ImportsOf[Core][i]>> \notin firmware
                  /\ \A j \in 1 .. (i - 1) : ImportsOf[Core][j] # "OSFatal"
    <3>1. ~ Passed("OSFatal")
      BY <1>1, <1>3, <2>2, <2>4, CoreFunctions DEF PointersInv, FoundInv
    <3>2. /\ lib \in 1 .. Len(Libraries) /\ Len(Libraries) \in Nat
          /\ imp \in 1 .. Len(ImportsOf[Libraries[lib]])
          /\ Len(ImportsOf[Core]) \in Nat
      BY <1>1, ImportsFacts DEF PointersInv, TypeOK, LoopsOK, Core
    <3>3. \A i \in 1 .. Len(ImportsOf[Core]) :
             ImportsOf[Core][i] = "OSFatal" => ~ (1 < lib) /\ ~ (lib = 1 /\ i < imp)
      BY <3>1, <3>2 DEF Passed, Core
    <3>4. lib = 1
      BY <3>2, <3>3, CoreFunctions
    <3>5. Name = ImportsOf[Core][imp] /\ imp \in 1 .. Len(ImportsOf[Core])
      BY <3>2, <3>4 DEF Name, Core
    <3>6. \A j \in 1 .. (imp - 1) : ImportsOf[Core][j] # "OSFatal"
      BY <3>2, <3>3, <3>4, <3>5
    <3> QED
      BY <1>1, <3>5, <3>6
  <2>5. MissingFunctionIsReported'
    BY <1>1, <2>4 DEF MissingFunctionIsReported
  <2> QED
    BY <2>3, <2>5 DEF PointersInv
<1> QED
  BY <1>2, <1>3

\* __rplwrap_exit becomes coreinit's exit, if anything.
LEMMA OverrideStep == ASSUME PointersInv, Override PROVE PointersInv'
<1>1. /\ pc = "override" /\ pc' = "done"
      /\ handle' \in {Core, handle}
      /\ ptr' = [ptr EXCEPT !["__rplwrap_exit"] =
                    IF <<handle', "exit">> \in firmware THEN handle' ELSE @]
      /\ UNCHANGED <<firmware, notices, lib, imp, value, heapFn>>
  BY DEF Override
<1>2. /\ ptr \in [Names -> DOMAIN ImportsOf \cup {Unset}]
      /\ "__rplwrap_exit" \in Names /\ "exit" \in Names
      /\ handle' \in DOMAIN ImportsOf \cup {None}
      /\ firmware \in Firmwares
  BY <1>1, CoreFunctions, ImportsFacts DEF PointersInv, TypeOK
<1>3. <<handle', "exit">> \in firmware => handle' \in DOMAIN ImportsOf
  BY <1>2, ImportsAssumption DEF ImportsAssumption
<1>4. ptr' \in [Names -> DOMAIN ImportsOf \cup {Unset}]
  BY <1>1, <1>2, <1>3
<1>5. TypeOK'
  BY <1>1, <1>2, <1>4 DEF PointersInv, TypeOK
<1>6. LoopsOK' /\ HeapInv' /\ MissingFunctionIsReported'
  BY <1>1 DEF PointersInv, LoopsOK, HeapInv, MissingFunctionIsReported
<1>7. Disjoint /\ <<handle', "exit">> \in firmware => handle' = HomeOf("__rplwrap_exit")
  BY <1>2, CoreFunctions DEF Disjoint
<1>8. FoundInv'
  BY <1>1, <1>2, <1>7, FirmwareKept DEF PointersInv, FoundInv
<1> QED
  BY <1>5, <1>6, <1>8 DEF PointersInv

\* PointersInv always holds.
LEMMA PointersInvHolds == Spec => []PointersInv
<1>1. PointersInv /\ [Next]_vars => PointersInv'
  <2> SUFFICES ASSUME PointersInv, [Next]_vars PROVE PointersInv'
    OBVIOUS
  <2>1. CASE UNCHANGED vars
    <3>1. /\ UNCHANGED <<pc, firmware, notices, lib, imp, handle, value, heapFn, ptr>>
      BY <2>1 DEF vars
    <3>2. TypeOK' /\ LoopsOK' /\ HeapInv' /\ MissingFunctionIsReported'
      BY <3>1 DEF PointersInv, TypeOK, LoopsOK, HeapInv, MissingFunctionIsReported
    <3>3. \A f : Passed(f)' <=> Passed(f)
      BY <3>1 DEF Passed
    <3>4. FoundInv'
      BY <3>1, <3>3, FirmwareKept DEF PointersInv, FoundInv
    <3> QED
      BY <3>2, <3>4 DEF PointersInv
  <2> QED
    BY <2>1, BootstrapStep, HeapStep, BeginStep, FoundStep, MissingStep, OverrideStep
    DEF Next, Stopped
<1> QED
  BY <1>1, InitPointersInv, PTL DEF Spec

(***************************************************************************)
(* When InitFunctionPointers returns, and the lookups report failures,     *)
(* every pointer has been found in its own library, though nobody looks at *)
(* what OSDynLoad_Acquire returned; and no heap variable that coreinit     *)
(* exports is mixed up with another.                                       *)
(***************************************************************************)
THEOREM PointersAreFound == Spec => []PointersFound
<1>1. PointersInv => PointersFound
  BY DEF PointersInv, PointersFound, PointersComplete, HeapFunctionsApart, FoundInv, HeapInv
<1> QED
  BY <1>1, PointersInvHolds, PTL

(***************************************************************************)
(* That a function is missing can be said, unless coreinit was not opened, *)
(* lacks a heap function, or lacks one that is looked up before OSFatal.   *)
(***************************************************************************)
THEOREM MissingIsReported == Spec => []MissingFunctionIsReported
<1>1. PointersInv => MissingFunctionIsReported
  BY DEF PointersInv
<1> QED
  BY <1>1, PointersInvHolds, PTL
=============================================================================
