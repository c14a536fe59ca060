----------------------------- MODULE BootProofs -----------------------------
(***************************************************************************)
(* What a whole run of the loader promises, for all entry points.          *)
(***************************************************************************)
EXTENDS Boot, TLAPS

Base == {"malloc", "newlib", "stdcpp", "devoptab"}

Early   == {"setup1", "pointers", "setup2"}
Failed  == {"splash", "splashed", "launch", "loop", "shutdown"}
Running == {"log", "load", "relocate", "deinit"} \cup Failed
Handed  == {"deinit", "fini", "leave", "entered", "returned"}

(***************************************************************************)
(* None of the properties is inductive: each needs to know how far the     *)
(* libraries have come at every place of the program,                      *)
(***************************************************************************)
LibraryPlaces ==
    /\ pc \in Early => libs = {} /\ k = 1
    /\ pc = "init" =>
         /\ k <= Len(InitOrder)
         /\ "malloc" \in libs <=> k > 1
         /\ "newlib" \in libs <=> k > 2
         /\ "stdcpp" \in libs <=> k > 3
         /\ "devoptab" \in libs <=> k > 4
    /\ pc \in Running => Base \subseteq libs /\ k = 1
    /\ pc = "fini" =>
         /\ k <= 4
         /\ "devoptab" \in libs <=> k < 2
         /\ "stdcpp" \in libs <=> k < 3
         /\ "newlib" \in libs <=> k < 4
         /\ "malloc" \in libs
    /\ pc \in {"leave", "entered", "returned"} => libs \subseteq {"socket"}
    /\ pc = "fatal" => Base \subseteq libs \/ libs = {}

\* where blocks are allocated and channels open, and where ProcUI runs,
BlockPlaces ==
    /\ heap # {} => pc \in {"relocate", "splashed", "fatal"} /\ Base \subseteq libs
    /\ pc = "relocate" => heap = {"moduleData"}
    /\ pc = "splashed" => heap \subseteq {"screenBuffer"}
    /\ logs # {} => pc \in Running \cup {"fatal"} /\ Base \subseteq libs
    /\ ui = "running" => pc \in {"loop", "shutdown"}

\* and that the hook and the entry point say the same.
HookPlaces ==
    /\ pc \notin Failed \cup Handed => hook = "installed" /\ entry = 0
    /\ pc \in Failed => hook = "reverted" /\ entry = 0
    /\ pc \in Handed =>
         \/ hook = "installed" /\ entry \in Entries
         \/ hook = "reverted" /\ entry = 0
    /\ pc = "entered" => entry > 0
    /\ pc = "returned" => entry = 0

BootInv == TypeOK /\ LibraryPlaces /\ BlockPlaces /\ HookPlaces

\* The two orders, one by one.
LEMMA Orders ==
    /\ InitOrder[1] = "malloc" /\ InitOrder[2] = "newlib"
    /\ InitOrder[3] = "stdcpp" /\ InitOrder[4] = "devoptab"
    /\ Len(InitOrder) = IF linked THEN 5 ELSE 4
    /\ linked => InitOrder[5] = "socket"
    /\ FiniOrder[1] = "devoptab" /\ FiniOrder[2] = "stdcpp"
    /\ FiniOrder[3] = "newlib" /\ FiniOrder[4] = "malloc" /\ Len(FiniOrder) = 4
BY DEF InitOrder, FiniOrder

\* BootInv holds when the program is started.
LEMMA InitBootInv == Init => BootInv
BY Orders DEF Init, BootInv, TypeOK, LibraryPlaces, BlockPlaces, HookPlaces,
              Early, Failed, Running, Handed

\* One library comes up.
LEMMA InitLibraryKeeps == BootInv /\ InitLibrary => BootInv'
<1> SUFFICES ASSUME BootInv, InitLibrary PROVE BootInv'
  OBVIOUS
<1>1. /\ pc = "init" /\ libs' = libs \cup {InitOrder[k]}
      /\ linked' = linked /\ doProcUI' = doProcUI /\ logs' = logs /\ heap' = heap
      /\ hook' = hook /\ entry' = entry /\ ui' = ui /\ screen' = screen /\ message' = message
  BY DEF InitLibrary, args, foreground
<1>2. k \in 1 .. 5 /\ k <= Len(InitOrder)
  BY <1>1 DEF BootInv, TypeOK, LibraryPlaces
<1>3. InitOrder' = InitOrder
  BY <1>1 DEF InitOrder
<1>4. IF k < Len(InitOrder) THEN k' = k + 1 /\ pc' = "init" ELSE k' = 1 /\ pc' = "log"
  BY <1>1 DEF InitLibrary, NextLib
<1>5. TypeOK'
  <2>1. k = 1 \/ k = 2 \/ k = 3 \/ k = 4 \/ (k = 5 /\ linked)
    BY <1>2, Orders
  <2>2. InitOrder[k] \in Base \cup {"socket"}
    BY <2>1, Orders DEF Base
  <2>3. libs' \subseteq {"malloc", "newlib", "stdcpp", "devoptab", "socket"}
    BY <1>1, <2>2 DEF BootInv, TypeOK, Base
  <2>4. k' \in 1 .. 5 /\ pc' \in {"init", "log"}
    BY <1>2, <1>4, Orders
  <2> QED
    BY <1>1, <2>3, <2>4 DEF BootInv, TypeOK
<1>6. LibraryPlaces'
  <2>1. CASE k = 1
    BY <1>1, <1>2, <1>3, <1>4, <2>1, Orders DEF BootInv, LibraryPlaces, Early, Failed, Running, Base
  <2>2. CASE k = 2
    BY <1>1, <1>2, <1>3, <1>4, <2>2, Orders DEF BootInv, LibraryPlaces, Early, Failed, Running, Base
  <2>3. CASE k = 3
    BY <1>1, <1>2, <1>3, <1>4, <2>3, Orders DEF BootInv, LibraryPlaces, Early, Failed, Running, Base
  <2>4. CASE k = 4
    BY <1>1, <1>2, <1>3, <1>4, <2>4, Orders DEF BootInv, LibraryPlaces, Early, Failed, Running, Base
  <2>5. CASE k = 5
    BY <1>1, <1>2, <1>3, <1>4, <2>5, Orders DEF BootInv, LibraryPlaces, Early, Failed, Running, Base
  <2> QED
    BY <1>2, <2>1, <2>2, <2>3, <2>4, <2>5
<1>7. BlockPlaces' /\ HookPlaces'
  BY <1>1, <1>4 DEF BootInv, BlockPlaces, HookPlaces, Failed, Running, Handed
<1> QED
  BY <1>5, <1>6, <1>7 DEF BootInv

\* One library goes.
LEMMA FiniLibraryKeeps == BootInv /\ FiniLibrary => BootInv'
<1> SUFFICES ASSUME BootInv, FiniLibrary PROVE BootInv'
  OBVIOUS
<1>1. /\ pc = "fini" /\ libs' = libs \ {FiniOrder[k]}
      /\ linked' = linked /\ doProcUI' = doProcUI /\ logs' = logs /\ heap' = heap
      /\ hook' = hook /\ entry' = entry /\ ui' = ui /\ screen' = screen /\ message' = message
  BY DEF FiniLibrary, args, foreground
<1>2. k \in 1 .. 4 /\ heap = {} /\ logs = {}
  BY <1>1 DEF BootInv, TypeOK, LibraryPlaces, BlockPlaces, Running, Failed
<1>3. IF k < 4 THEN k' = k + 1 /\ pc' = "fini" ELSE k' = 1 /\ pc' = "leave"
  BY <1>1, Orders DEF FiniLibrary, NextLib
<1>4. TypeOK'
  <2>1. libs' \subseteq {"malloc", "newlib", "stdcpp", "devoptab", "socket"}
    BY <1>1 DEF BootInv, TypeOK
  <2>2. k' \in 1 .. 5 /\ pc' \in {"fini", "leave"}
    BY <1>2, <1>3
  <2> QED
    BY <1>1, <2>1, <2>2 DEF BootInv, TypeOK
<1>5. LibraryPlaces'
  <2>1. CASE k = 1
    BY <1>1, <1>2, <1>3, <2>1, Orders DEF BootInv, LibraryPlaces, Early, Failed, Running, Base
  <2>2. CASE k = 2
    BY <1>1, <1>2, <1>3, <2>2, Orders DEF BootInv, LibraryPlaces, Early, Failed, Running, Base
  <2>3. CASE k = 3
    BY <1>1, <1>2, <1>3, <2>3, Orders DEF BootInv, LibraryPlaces, Early, Failed, Running, Base
  <2>4. CASE k = 4
    BY <1>1, <1>2, <1>3, <2>4, Orders DEF BootInv, TypeOK, LibraryPlaces, Early, Failed, Running, Base
  <2> QED
    BY <1>2, <2>1, <2>2, <2>3, <2>4
<1>6. BlockPlaces' /\ HookPlaces'
  BY <1>1, <1>2, <1>3 DEF BootInv, BlockPlaces, HookPlaces, Failed, Running, Handed
<1> QED
  BY <1>4, <1>5, <1>6 DEF BootInv

\* Every step of the boot sequence keeps it.
LEMMA NextBootInv == BootInv /\ [Next]_vars => BootInv'
<1> USE DEF Step, args, runtime, foreground
<1> SUFFICES ASSUME BootInv, [Next]_vars PROVE BootInv'
  OBVIOUS
<1>1. CASE InitLibrary
  BY <1>1, InitLibraryKeeps
<1>2. CASE FiniLibrary
  BY <1>2, FiniLibraryKeeps
<1>3. CASE SetUpKernel \/ InitFunctionPointers \/ SetUpKernel2
  <2>1. TypeOK'
    BY <1>3 DEF BootInv, TypeOK, SetUpKernel, InitFunctionPointers, SetUpKernel2
  <2>2. LibraryPlaces'
    BY <1>3, Orders DEF BootInv, LibraryPlaces, SetUpKernel, InitFunctionPointers, SetUpKernel2,
       Early, Failed, Running, InitOrder
  <2>3. BlockPlaces' /\ HookPlaces'
    BY <1>3 DEF BootInv, LibraryPlaces, BlockPlaces, HookPlaces, SetUpKernel, InitFunctionPointers,
       SetUpKernel2, Early, Failed, Running, Handed
  <2> QED
    BY <2>1, <2>2, <2>3 DEF BootInv
<1>4. CASE InitLogging \/ Load \/ LoadFatal \/ RelocateFails \/ Relocate \/ LoadFails
  <2>1. TypeOK'
    BY <1>4 DEF BootInv, TypeOK, InitLogging, Load, LoadFatal, RelocateFails, Relocate, LoadFails, Reverted
  <2>2. LibraryPlaces'
    BY <1>4 DEF BootInv, LibraryPlaces, InitLogging, Load, LoadFatal, RelocateFails, Relocate, LoadFails,
       Early, Failed, Running
  <2>3. BlockPlaces'
    BY <1>4 DEF BootInv, LibraryPlaces, BlockPlaces, InitLogging, Load, LoadFatal, RelocateFails, Relocate,
       LoadFails, Failed, Running
  <2>4. HookPlaces'
    BY <1>4 DEF BootInv, HookPlaces, InitLogging, Load, LoadFatal, RelocateFails, Relocate, LoadFails,
       Reverted, Failed, Handed
  <2> QED
    BY <2>1, <2>2, <2>3, <2>4 DEF BootInv
<1>5. CASE ShowSplashScreen \/ FreeSplashScreen \/ LaunchMenu \/ ReleaseForeground
           \/ AcquireForeground \/ Exiting \/ ShutDownProcUI \/ DeinitLogging
  <2> USE DEF ShowSplashScreen, FreeSplashScreen, LaunchMenu, ReleaseForeground, DrawDone,
       AcquireForeground, Exiting, AfterExiting, ShutDownProcUI, ShutDown, DeinitLogging
  <2>1. TypeOK'
    BY <1>5 DEF BootInv, TypeOK
  <2>2. LibraryPlaces'
    BY <1>5 DEF BootInv, LibraryPlaces, Early, Failed, Running, Base
  <2>3. BlockPlaces'
    BY <1>5 DEF BootInv, LibraryPlaces, BlockPlaces, Failed, Running
  <2>4. HookPlaces'
    BY <1>5 DEF BootInv, HookPlaces, Failed, Handed
  <2> QED
    BY <2>1, <2>2, <2>3, <2>4 DEF BootInv
<1>6. CASE Leave
  <2>1. TypeOK' /\ LibraryPlaces' /\ BlockPlaces'
    BY <1>6 DEF BootInv, TypeOK, LibraryPlaces, BlockPlaces, Leave, Early, Failed, Running
  <2>2. entry \in Nat
    BY <1>6, BootAssumption DEF BootInv, TypeOK
  <2>3. HookPlaces'
    BY <1>6, <2>2 DEF BootInv, HookPlaces, Leave, Failed, Handed
  <2> QED
    BY <2>1, <2>3 DEF BootInv
<1>7. CASE AskRelease \/ AskAcquire \/ AskExit \/ Stopped \/ UNCHANGED vars
  <2>1. /\ pc' = pc /\ doProcUI' = doProcUI /\ linked' = linked /\ libs' = libs /\ k' = k
        /\ logs' = logs /\ heap' = heap /\ hook' = hook /\ entry' = entry
        /\ ui' = ui /\ screen' = screen /\ message' \in {message, "release", "acquire", "exit"}
    BY <1>7 DEF AskRelease, AskAcquire, AskExit, Ask, Stopped, vars
  <2>2. InitOrder' = InitOrder
    BY <2>1 DEF InitOrder
  <2>3. TypeOK'
    BY <2>1 DEF BootInv, TypeOK
  <2>4. LibraryPlaces'
    BY <2>1, <2>2 DEF BootInv, LibraryPlaces
  <2>5. BlockPlaces' /\ HookPlaces'
    BY <2>1 DEF BootInv, BlockPlaces, HookPlaces
  <2> QED
    BY <2>3, <2>4, <2>5 DEF BootInv
<1> QED
  BY <1>1, <1>2, <1>3, <1>4, <1>5, <1>6, <1>7 DEF Next, Loader

\* So it always holds.
LEMMA BootInvHolds == Spec => []BootInv
BY InitBootInv, NextBootInv, PTL DEF Spec

(***************************************************************************)
(* Every variable of the run keeps its type.                               *)
(***************************************************************************)
THEOREM BootTyped == Spec => []TypeOK
<1>1. BootInv => TypeOK
  BY DEF BootInv
<1> QED
  BY <1>1, BootInvHolds, PTL

(***************************************************************************)
(* The libraries come up and go in nested order on every path, and what    *)
(* is allocated or logged stands on them.                                  *)
(***************************************************************************)
THEOREM BootLibrariesNested == Spec => []LibrariesNested
<1>1. BootInv => LibrariesNested
  <2> SUFFICES ASSUME BootInv PROVE LibrariesNested
    OBVIOUS
  <2>1. k \in 1 .. 5 /\ pc \in Early \cup Running \cup {"init", "fini", "leave", "entered", "returned", "fatal"}
    BY DEF BootInv, TypeOK, Early, Running, Failed
  <2>2. /\ "devoptab" \in libs => "stdcpp" \in libs
        /\ "stdcpp" \in libs => "newlib" \in libs
        /\ "newlib" \in libs => "malloc" \in libs
    BY <2>1 DEF BootInv, LibraryPlaces, Base
  <2>3. /\ heap # {} => "malloc" \in libs
        /\ logs # {} => "devoptab" \in libs
    BY DEF BootInv, BlockPlaces, Base
  <2>4. ASSUME NEW i \in 1 .. 4, NEW j \in 1 .. 4, i < j,
               <<"malloc", "newlib", "stdcpp", "devoptab">>[j] \in libs
        PROVE  <<"malloc", "newlib", "stdcpp", "devoptab">>[i] \in libs
    BY <2>2, <2>4
  <2> QED
    BY <2>3, <2>4 DEF LibrariesNested
<1> QED
  BY <1>1, BootInvHolds, PTL

(***************************************************************************)
(* Nothing of the loader is left running for whoever runs next.            *)
(***************************************************************************)
THEOREM BootCleanHandOver == Spec => []CleanHandOver
<1>1. BootInv => CleanHandOver
  BY DEF BootInv, TypeOK, LibraryPlaces, BlockPlaces, CleanHandOver, Running, Failed
<1> QED
  BY <1>1, BootInvHolds, PTL

(***************************************************************************)
(* The loader stays hooked exactly when it hands over to a module.         *)
(***************************************************************************)
THEOREM BootHookMatchesOutcome == Spec => []HookMatchesOutcome
<1>1. BootInv => HookMatchesOutcome
  BY DEF BootInv, HookPlaces, HookMatchesOutcome, Handed
<1> QED
  BY <1>1, BootInvHolds, PTL
=============================================================================
