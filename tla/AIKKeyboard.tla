---------------------------- MODULE AIKKeyboard ----------------------------
(***************************************************************************)
(* The keyboard hooks and the key data ring together (AIK.c, AIKShim.c):   *)
(* the installation of AIKInstall hooks the shims, resets the ring of      *)
(* AIKData and only then starts the poll that fills it; the shims read the *)
(* ring from the moment they are hooked, before the reset and before the   *)
(* poll, until the removal has begun.                                      *)
(*                                                                         *)
(* Installing and removing run below the shims' callers or at their level, *)
(* so a call of a shim ends before the next statement of either.           *)
(***************************************************************************)
EXTENDS AIKInstall, AIKData

VARIABLE ringReady   \* AIKDataReset has pointed Head and Tail into KeyBuffer

keyboardVars == <<vars, dataVars, ringReady>>

KeyboardInit == Init /\ DataInit /\ ringReady = FALSE

AIKDataReset ==
    /\ KeyBufferHead' = 0 /\ KeyBufferTail' = 0 /\ KeyBufferSize' = 0
    /\ ringReady' = TRUE
    /\ UNCHANGED <<KeyBuffer, readVars, writes>>

\* Mutant: the ring is reset once the timer runs.
ResetLate == "installed"

\* The statement of AIKInstall that the reset comes with: the poll's start.
ResetPoint == "poll"

InstallStep ==
    /\ rpc = "idle" /\ Next
    /\ IF pc = ResetPoint THEN AIKDataReset ELSE UNCHANGED <<dataVars, ringReady>>

\* AIKPollKeyboardHandler stores a key; it does nothing once OurJobIsDone.
PollStores(e) ==
    /\ PollKeyboardEvent /\ ~OurJobIsDone
    /\ Write(e)
    /\ UNCHANGED <<vars, ringReady>>

\* One of the hooked read functions answers from the ring.
ShimReads ==
    /\ rpc = "idle" => ~OurJobIsDone /\ \E p \in Names : readFn[p] = "shim"
    /\ AIKDataReadEntry
    /\ UNCHANGED <<vars, ringReady>>

KeyboardNext == InstallStep \/ (\E e \in KeyDatas : PollStores(e)) \/ ShimReads

KeyboardSpec == KeyboardInit /\ [][KeyboardNext]_keyboardVars

----------------------------------------------------------------------------
\* Hooks, target and ring have their types.
KeyboardTypeOK == TypeOK /\ DataTypeOK /\ ringReady \in BOOLEAN

\* At every statement of an install, a rollback or a removal, what can be called
\* finds what it needs.  A protocol that carries a shim has its original function
\* saved, and never a shim in its place: a call that is passed on reaches the
\* firmware.  The poll timer runs only over a database, hooked protocols and a
\* ring that AIKDataReset has set up, and no key waits in a ring that is not,
\* although the shims that read it are hooked first.
HooksAreBacked ==
    /\ \A p \in Names : readFn[p] = "shim" => savedRead[p] = "firmware"
    /\ PollKeyboardEvent => KeyMapDb /\ found # {} /\ \A p \in found : savedRead[p] = "firmware"
    /\ PollKeyboardEvent \/ KeyBufferSize > 0 => ringReady
=============================================================================
