------------------------------ MODULE KernelCode ------------------------------
(***************************************************************************)
(* The kernel setup from three sides: the loader's steps and the caches    *)
(* (KernelSetup), the two patch functions instruction by instruction       *)
(* (Patches), and a core that runs into the stub (Hook).  KernelSetup says *)
(* when the other two may rely on each other; none of them shares a        *)
(* variable with another, so a behaviour is about one side.                *)
(***************************************************************************)
EXTENDS KernelSetup

CONSTANTS
    ContextWords,                   \* of KernelHook
    Nops, FarNops,                  \* of KernelPatches, like HookAddr
    Window, FarWindow, WindowSize

VARIABLES
    side,       \* "setup", "patches" or "hook"
    hCode, hI, hReg, hLr, hCtr, hSpr, hSr7, hPatched,
    pFunction, pI, pDbat0, pSaved, pLine, pLatest, pRam, pInst, pCached

hook == <<hCode, hI, hReg, hLr, hCtr, hSpr, hSr7, hPatched>>
patches == <<pFunction, pI, pDbat0, pSaved, pLine, pLatest, pRam, pInst, pCached>>
all == <<side, vars, hook, patches>>

Hook == INSTANCE KernelHook WITH
    code <- hCode, i <- hI, reg <- hReg, lr <- hLr, ctr <- hCtr, spr <- hSpr, sr7 <- hSr7,
    patched <- hPatched

Patches == INSTANCE KernelPatches WITH
    function <- pFunction, i <- pI, dbat0 <- pDbat0, saved <- pSaved, line <- pLine,
    latest <- pLatest, ram <- pRam, inst <- pInst, cached <- pCached

ASSUME SidesAssumption == Hook!ContextAssumption /\ Patches!PatchesAssumption

\* A side a behaviour is not about stays in one of its initial states.
SetupIdle == active = 1 /\ icache = [l \in Lines |-> Absent]
HookIdle == hCode = "kernel" /\ hSpr = [b \in Hook!Bats |-> Hook!Unknown]
PatchesIdle ==
    /\ pFunction = "KernelPatches" /\ pCached = FALSE
    /\ pLine = Patches!LineOf(Patches!BranchAddr)

AnyInit ==
    /\ side \in {"setup", "patches", "hook"}
    /\ IF side = "setup" THEN TRUE ELSE SetupIdle
    /\ IF side = "hook" THEN TRUE ELSE HookIdle
    /\ IF side = "patches" THEN TRUE ELSE PatchesIdle
    /\ Init /\ Hook!Init /\ Patches!Init

SetupStep   == side = "setup" /\ Loader /\ UNCHANGED <<side, hook, patches>>
PatchesStep == side = "patches" /\ Patches!Step /\ UNCHANGED <<side, vars, hook>>
HookStep    == side = "hook" /\ Hook!Execute /\ UNCHANGED <<side, vars, patches>>

AnyNext ==
    \/ SetupStep \/ PatchesStep \/ HookStep
    \/ side = "setup" /\ Hardware /\ UNCHANGED <<side, hook, patches>>
    \/ side = "patches" /\ Patches!Hardware /\ UNCHANGED <<side, vars, hook>>
    \/ side = "hook" /\ Hook!Again /\ UNCHANGED <<side, vars, patches>>

AnySpec == AnyInit /\ [][AnyNext]_all
-----------------------------------------------------------------------------
(***************************************************************************)
(* A core that runs into the stub gets behind it with r3, r5 .. r11, the   *)
(* segment register and the return address as the kernel's own ten         *)
(* instructions would have left them (CTR is overwritten), and with its    *)
(* data BAT following its code BAT.                                        *)
(***************************************************************************)
HookTransparent ==
    side = "hook" =>
        Hook!TypeOK /\ Hook!RegistersRestored /\ Hook!ComesBack /\ Hook!DataFollowsCode

(***************************************************************************)
(* The patch functions reach memory only through the window DBAT0 is set   *)
(* to, give DBAT0 back, and leave every patch where all cores fetch it;    *)
(* the second one spoils nothing the first one wrote.                      *)
(***************************************************************************)
PatchesLand ==
    side = "patches" =>
        /\ Patches!TypeOK /\ Patches!AccessesMapped /\ Patches!BatGivenBack
        /\ Patches!PatchesVisible /\ Patches!RestStays
===============================================================================
