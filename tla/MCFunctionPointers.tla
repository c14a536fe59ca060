------------------------ MODULE MCFunctionPointers ------------------------
(***************************************************************************)
(* FunctionPointers for TLC: the first functions of coreinit around        *)
(* OSFatal, those InitFunctionPointers itself uses, and one or two of      *)
(* three other libraries.                                                  *)
(***************************************************************************)
EXTENDS FunctionPointers

MCLibraries == <<"coreinit", "nsysnet", "proc_ui", "zlib125">>
MCImportsOf ==
    [l \in {"coreinit", "nsysnet", "proc_ui", "zlib125"} |->
        CASE l = "coreinit" -> <<"OSReport", "OSFatal", "OSDynLoad_Acquire",
                                 "OSDynLoad_FindExport", "OSDynLoad_IsModuleLoaded",
                                 "exit", "__rplwrap_exit">>
          [] l = "nsysnet"  -> <<"socket_lib_init", "socketclose">>
          [] l = "proc_ui"  -> <<"ProcUIInit">>
          [] l = "zlib125"  -> <<"inflate">>]
MCHeapFunctions == <<"MEMAllocFromDefaultHeap", "MEMAllocFromDefaultHeapEx",
                     "MEMFreeToDefaultHeap">>

Everything ==
    UNION {{l} \X {MCImportsOf[l][i] : i \in 1 .. Len(MCImportsOf[l])} :
               l \in DOMAIN MCImportsOf}
    \cup {"coreinit"} \X {MCHeapFunctions[h] : h \in 1 .. 3}

\* Complete, without one export, or with coreinit exporting a foreign function.
MCFirmwares == {Everything} \cup {Everything \ {e} : e \in Everything}
               \cup {Everything \cup {<<"coreinit", "inflate">>}}
=============================================================================
