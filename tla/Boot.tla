-------------------------------- MODULE Boot --------------------------------
(***************************************************************************)
(* The whole run of the loader, _start and do_start: kernel setup, OS      *)
(* function pointers, the runtime libraries, logging, the load, and then   *)
(* either the jump into the module or, when there is none, the way back to *)
(* the OS: unhook, splash screen, ProcUI until the OS makes us exit.       *)
(*                                                                         *)
(* The load itself is ModuleLoader, the kernel patches are KernelSetup and *)
(* InitFunctionPointers is FunctionPointers; here they are single steps.   *)
(***************************************************************************)
EXTENDS Naturals, Sequences

CONSTANT Entries    \* what getEntrypoint may return for a module that is loaded

ASSUME BootAssumption == Entries \subseteq Nat

VARIABLES
    pc,
    doProcUI,   \* argc >= 1 and argv[0] is not safe.rpx
    linked,     \* is the weak __init_wut_socket linked in?
    libs,       \* the runtime libraries that are up
    k,          \* and the one init_wut or fini_wut is at
    logs,       \* the log channels that are up
    heap,       \* the blocks allocated from the default heap
    hook,       \* the main hook that starts the loader
    entry,      \* do_start's return value
    ui,         \* ProcUI
    screen,     \* who owns the foreground
    message     \* the OS message ProcUI has not processed

args    == <<doProcUI, linked>>
runtime == <<libs, k, logs, heap>>
foreground == <<ui, screen, message>>
vars == <<pc, args, runtime, hook, entry, foreground>>

InitOrder == <<"malloc", "newlib", "stdcpp", "devoptab">>
             \o (IF linked THEN <<"socket">> ELSE <<>>)
\* (X_Suffix is X with a bug, here and below; no action uses it.)
FiniOrder_AsInit == <<"malloc", "newlib", "stdcpp", "devoptab">>
FiniOrder == <<"devoptab", "stdcpp", "newlib", "malloc">>

Init ==
    /\ pc = "setup1"
    /\ doProcUI \in BOOLEAN
    /\ linked \in BOOLEAN
    /\ libs = {}
    /\ k = 1
    /\ logs = {}
    /\ heap = {}
    /\ hook = "installed"
    /\ entry = 0
    /\ ui = "off"
    /\ screen = "ours"
    /\ message = "none"

Step(from, to) == pc = from /\ pc' = to

SetUpKernel ==
    /\ Step("setup1", "pointers")
    /\ UNCHANGED <<args, runtime, hook, entry, foreground>>

\* An OS function is missing: OSFatal.
InitFunctionPointers ==
    /\ pc = "pointers"
    /\ pc' \in {"setup2", "fatal"}
    /\ UNCHANGED <<args, runtime, hook, entry, foreground>>

SetUpKernel2 ==
    /\ Step("setup2", "init")
    /\ UNCHANGED <<args, runtime, hook, entry, foreground>>

NextLib == k + 1

InitLibrary ==
    /\ pc = "init"
    /\ libs' = libs \cup {InitOrder[k]}
    /\ IF k < Len(InitOrder)
         THEN k' = NextLib /\ UNCHANGED pc
         ELSE k' = 1 /\ pc' = "log"
    /\ UNCHANGED <<args, logs, heap, hook, entry, foreground>>

\* In a build without DEBUG there are no channels; otherwise the module channel
\* excludes the other two, which take its place when it is missing.
InitLogging ==
    /\ Step("log", "load")
    /\ logs' \in {{}, {"module"}, {"cafe"}, {"udp"}, {"cafe", "udp"}}
    /\ UNCHANGED <<args, libs, k, heap, hook, entry, foreground>>

Load ==
    /\ Step("load", "relocate")
    /\ heap' = heap \cup {"moduleData"}
    /\ UNCHANGED <<args, libs, k, logs, hook, entry, foreground>>

LoadFatal ==
    /\ Step("load", "fatal")
    /\ UNCHANGED <<args, runtime, hook, entry, foreground>>

RelocateFails ==
    /\ Step("relocate", "fatal")
    /\ UNCHANGED <<args, runtime, hook, entry, foreground>>

\* do_start returns the entry point; moduleData goes out of scope.
Relocate ==
    /\ Step("relocate", "deinit")
    /\ entry' \in Entries
    /\ heap' = heap \ {"moduleData"}
    /\ UNCHANGED <<args, libs, k, logs, hook, foreground>>

\* The load fails: the main hook goes first.
Reverted_Kept == hook
Reverted == "reverted"

LoadFails ==
    /\ Step("load", "splash")
    /\ hook' = Reverted
    /\ UNCHANGED <<args, runtime, entry, foreground>>

\* memalign may return no buffer; nobody asks.
ShowSplashScreen ==
    /\ Step("splash", "splashed")
    /\ heap' \in {heap, heap \cup {"screenBuffer"}}
    /\ UNCHANGED <<args, libs, k, logs, hook, entry, foreground>>

FreeSplashScreen ==
    /\ pc = "splashed"
    /\ pc' = IF doProcUI THEN "launch" ELSE "deinit"
    /\ heap' = heap \ {"screenBuffer"}
    /\ UNCHANGED <<args, libs, k, logs, hook, entry, foreground>>

\* The menu is asked for before ProcUI is initialised.
LaunchMenu ==
    /\ Step("launch", "loop")
    /\ ui' = "running"
    /\ UNCHANGED <<args, runtime, hook, entry, screen, message>>

(***************************************************************************)
(* CheckRunning, once per turn of the loop.  In the background             *)
(* ProcUIProcessMessages(true) blocks until there is a message; in the     *)
(* foreground it returns and nothing changes.                              *)
(***************************************************************************)
DrawDone_Forgotten == UNCHANGED <<screen, message>>
DrawDone == screen' = "released" /\ message' = "none"

ReleaseForeground ==
    /\ pc = "loop"
    /\ message = "release"
    /\ DrawDone
    /\ UNCHANGED <<pc, args, runtime, hook, entry, ui>>

AcquireForeground ==
    /\ pc = "loop"
    /\ message = "acquire"
    /\ screen' = "ours"
    /\ message' = "none"
    /\ UNCHANGED <<pc, args, runtime, hook, entry, ui>>

AfterExiting == "shutdown"

Exiting ==
    /\ pc = "loop"
    /\ message = "exit"
    /\ pc' = AfterExiting
    /\ UNCHANGED <<args, runtime, hook, entry, foreground>>

ShutDown_Left == ui
ShutDown == "off"

ShutDownProcUI ==
    /\ Step("shutdown", "deinit")
    /\ ui' = ShutDown
    /\ UNCHANGED <<args, runtime, hook, entry, screen, message>>

\* deinitLogging ends every channel that came up.
DeinitLogging ==
    /\ Step("deinit", "fini")
    /\ logs' = {}
    /\ UNCHANGED <<args, libs, k, heap, hook, entry, foreground>>

\* fini_wut; the socket library is left alone.
FiniLibrary ==
    /\ pc = "fini"
    /\ libs' = libs \ {FiniOrder[k]}
    /\ IF k < Len(FiniOrder)
         THEN k' = NextLib /\ UNCHANGED pc
         ELSE k' = 1 /\ pc' = "leave"
    /\ UNCHANGED <<args, logs, heap, hook, entry, foreground>>

Leave ==
    /\ pc = "leave"
    /\ pc' = IF entry > 0 THEN "entered" ELSE "returned"
    /\ UNCHANGED <<args, runtime, hook, entry, foreground>>

Over == pc \in {"entered", "returned", "fatal"}
Stopped == Over /\ UNCHANGED vars

Loader ==
    \/ SetUpKernel \/ InitFunctionPointers \/ SetUpKernel2 \/ InitLibrary
    \/ InitLogging \/ Load \/ LoadFatal \/ RelocateFails \/ Relocate \/ LoadFails
    \/ ShowSplashScreen \/ FreeSplashScreen \/ LaunchMenu
    \/ ReleaseForeground \/ AcquireForeground \/ Exiting \/ ShutDownProcUI
    \/ DeinitLogging \/ FiniLibrary \/ Leave
-----------------------------------------------------------------------------
\* The OS asks for the foreground, gives it back, or makes the program exit.
Ask(who, what) ==
    /\ ui = "running"
    /\ screen = who
    /\ message = "none"
    /\ message' = what
    /\ UNCHANGED <<pc, args, runtime, hook, entry, ui, screen>>

AskRelease == Ask("ours", "release")
AskAcquire == Ask("released", "acquire")
AskExit    == Ask("released", "exit")

Next == Loader \/ AskRelease \/ AskAcquire \/ AskExit \/ Stopped

\* The loader's thread runs; the OS is not obliged to anything.
Spec == Init /\ [][Next]_vars /\ WF_vars(Loader)
-----------------------------------------------------------------------------
TypeOK ==
    /\ pc \in {"setup1", "pointers", "setup2", "init", "log", "load", "relocate",
               "splash", "splashed", "launch", "loop", "shutdown", "deinit",
               "fini", "leave", "entered", "returned", "fatal"}
    /\ {doProcUI, linked} \subseteq BOOLEAN
    /\ libs \subseteq {"malloc", "newlib", "stdcpp", "devoptab", "socket"}
    /\ k \in 1 .. 5
    /\ logs \subseteq {"module", "cafe", "udp"}
    /\ heap \subseteq {"moduleData", "screenBuffer"}
    /\ hook \in {"installed", "reverted"}
    /\ entry \in Entries \cup {0}
    /\ ui \in {"off", "running"}
    /\ screen \in {"ours", "released"}
    /\ message \in {"none", "release", "acquire", "exit"}

(***************************************************************************)
(* On every path a library is only up while those it stands on are: the    *)
(* heap under all of them, and under whatever is still allocated; and no   *)
(* log channel outlives the libraries.                                     *)
(***************************************************************************)
LibrariesNested ==
    LET base == <<"malloc", "newlib", "stdcpp", "devoptab">> IN
    /\ \A i, j \in 1 .. 4 : i < j /\ base[j] \in libs => base[i] \in libs
    /\ heap # {} => "malloc" \in libs
    /\ logs # {} => "devoptab" \in libs

(***************************************************************************)
(* Whoever runs next, the module or the program's own caller, finds        *)
(* nothing of the loader running: no channel, no block, no ProcUI, and no  *)
(* library but the socket library, which nothing ends.                     *)
(***************************************************************************)
CleanHandOver ==
    pc \in {"entered", "returned"} =>
        /\ logs = {} /\ heap = {}
        /\ libs \subseteq {"socket"}
        /\ ui = "off"

(***************************************************************************)
(* The loader stays hooked exactly when it hands over to a module: a       *)
(* program that comes back after a failed load is not started again.  (A   *)
(* module whose entry point is computed to be 0 would be neither.)         *)
(***************************************************************************)
HookMatchesOutcome ==
    /\ pc = "entered" => hook = "installed"
    /\ pc = "returned" /\ 0 \notin Entries => hook = "reverted"

\* When the OS asks for the foreground it gets it.
ReleaseAnswered == message = "release" ~> screen = "released"

\* When the OS makes the program exit, _start returns.
ExitObeyed == message = "exit" ~> pc = "returned"

(***************************************************************************)
(* The loader never hangs on its own: it ends, or it is in the ProcUI      *)
(* loop, which only the OS can end.                                        *)
(***************************************************************************)
EndsOrWaitsForOS == <>(Over \/ pc = "loop")

\* On every path the console stays in the user's hands.
AnswersTheOS == ReleaseAnswered /\ ExitObeyed /\ EndsOrWaitsForOS
=============================================================================
