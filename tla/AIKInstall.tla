----------------------------- MODULE AIKInstall -----------------------------
(***************************************************************************)
(* Installing and removing the generic keyboard input of                    *)
(* src/Library/OcInputLib/Keycode (AIK.c, AIKSource.c, AIKTarget.c): the     *)
(* firmware's input protocols get their ReadKey function and their wait      *)
(* event replaced, a key set is taken in the key map database and a timer    *)
(* polls.  Every step may fail and is then rolled back.  The firmware may    *)
(* call a hooked protocol between any two statements.                       *)
(***************************************************************************)
EXTENDS Integers, Sequences

CONSTANT Protocols   \* the hookable protocols, in the order the code handles them

VARIABLES
    dbPresent,                \* the key map database protocol is installed
    notified,                 \* its installation has signalled our event
    KeyMapDb, keySets,        \* the target's database, key sets it holds there
    found,                    \* protocols located by AIKSourceInstall
    savedRead, savedWait,     \* original function and event, per protocol
    readFn, waitEvent,        \* what the protocols hold: "firmware" or "shim"
    ConSplitHandler,          \* the console handle is remembered
    connected,                \* the console's drivers are still connected to it
    openEvents,               \* protocols whose replacement event exists
    PollKeyboardEvent, KeyMapDbArriveEvent, OurJobIsDone,
    caller,                   \* who called AIKInstall or AIKUninstall
    pc, next                  \* next statement, position in Protocols

dbVars == <<KeyMapDb, keySets>>
hookVars == <<savedRead, savedWait, readFn, waitEvent, openEvents>>
consoleVars == <<ConSplitHandler, connected>>
eventVars == <<PollKeyboardEvent, KeyMapDbArriveEvent, OurJobIsDone>>
vars == <<dbPresent, notified, dbVars, found, hookVars, consoleVars, eventVars, caller,
          pc, next>>

P == Protocols[next]
Names == {Protocols[i] : i \in 1..Len(Protocols)}

Init ==
    /\ dbPresent \in BOOLEAN /\ notified = FALSE
    /\ KeyMapDb = FALSE /\ keySets = 0
    /\ found = {}
    /\ savedRead = [p \in Names |-> "NULL"] /\ savedWait = [p \in Names |-> "NULL"]
    /\ readFn = [p \in Names |-> "firmware"] /\ waitEvent = [p \in Names |-> "firmware"]
    /\ openEvents = {} /\ ConSplitHandler = FALSE /\ connected = TRUE
    /\ PollKeyboardEvent = FALSE /\ KeyMapDbArriveEvent = FALSE /\ OurJobIsDone = FALSE
    /\ caller = "none" /\ pc = "start" /\ next = 1

----------------------------------------------------------------------------
(* Callers.                                                                  *)

OcAppleGenericInputKeycodeInit ==
    /\ pc = "start"
    /\ caller' = "init" /\ pc' = "target"
    /\ UNCHANGED <<consoleVars, dbPresent, notified, dbVars, found, hookVars, eventVars, next>>

\* The database protocol appears; a registered event is signalled.
DatabaseArrives ==
    /\ pc = "idle" /\ ~dbPresent
    /\ dbPresent' = TRUE /\ notified' = KeyMapDbArriveEvent
    /\ UNCHANGED <<consoleVars, dbVars, found, hookVars, eventVars, caller, pc, next>>

AIKProtocolArriveHandler ==
    /\ pc = "idle" /\ notified
    /\ notified' = FALSE
    /\ IF OurJobIsDone THEN UNCHANGED <<caller, pc>>
       ELSE caller' = "arrive" /\ pc' = "target"
    /\ UNCHANGED <<consoleVars, dbPresent, dbVars, found, hookVars, eventVars, next>>

\* AIKUninstall: done first, then the events, then the hooks.
OcAppleGenericInputKeycodeExit ==
    /\ pc = "idle" /\ ~OurJobIsDone
    /\ OurJobIsDone' = TRUE /\ KeyMapDbArriveEvent' = FALSE /\ PollKeyboardEvent' = FALSE
    /\ notified' = FALSE
    /\ caller' = "exit" /\ pc' = "unhookRead" /\ next' = 1
    /\ UNCHANGED <<consoleVars, dbPresent, dbVars, found, hookVars>>

----------------------------------------------------------------------------
(* AIKInstall.                                                               *)

Fail == pc' = "failed"

\* ok: CreateKeyStrokesBuffer succeeds.
AIKTargetInstall(ok) ==
    /\ pc = "target"
    /\ IF ~KeyMapDb /\ ~(dbPresent /\ ok) THEN Fail /\ UNCHANGED dbVars
       ELSE /\ pc' = "source" /\ KeyMapDb' = TRUE
            /\ keySets' = IF KeyMapDb THEN keySets ELSE keySets + 1
    /\ UNCHANGED <<consoleVars, dbPresent, notified, found, hookVars, eventVars, caller, next>>

\* S: the protocols that the input mode asks for and the console has.
AIKSourceInstall(S) ==
    /\ pc = "source"
    /\ ConSplitHandler' = (ConSplitHandler \/ found = {})
    /\ IF found # {} THEN pc' = "poll" /\ UNCHANGED <<found, next>>
       ELSE IF S = {} THEN pc' = "dropTarget" /\ UNCHANGED <<found, next>>
       ELSE found' = S /\ pc' = "save" /\ next' = 1
    /\ UNCHANGED <<connected, dbPresent, notified, dbVars, hookVars, eventVars, caller>>

\* The three statements for one protocol: save, hook, replace its event.
SaveNothing ==
    /\ pc = "save" /\ pc' = "hook"
    /\ UNCHANGED <<consoleVars, dbPresent, notified, dbVars, found, hookVars, eventVars, caller, next>>

SaveOriginal ==
    /\ pc = "save"
    /\ IF P \in found
       THEN /\ savedRead' = [savedRead EXCEPT ![P] = readFn[P]]
            /\ savedWait' = [savedWait EXCEPT ![P] = waitEvent[P]]
       ELSE UNCHANGED <<savedRead, savedWait>>
    /\ pc' = "hook"
    /\ UNCHANGED <<consoleVars, dbPresent, notified, dbVars, found, readFn, waitEvent, openEvents,
                   eventVars, caller, next>>

HookRead ==
    /\ pc = "hook"
    /\ readFn' = IF P \in found THEN [readFn EXCEPT ![P] = "shim"] ELSE readFn
    /\ pc' = "wait"
    /\ UNCHANGED <<consoleVars, dbPresent, notified, dbVars, found, savedRead, savedWait, waitEvent,
                   openEvents, eventVars, caller, next>>

\* ok: the replacement event can be created.
ReplaceWait(ok) ==
    /\ pc = "wait"
    /\ IF P \notin found THEN UNCHANGED <<waitEvent, savedWait, openEvents>>
       ELSE IF ok
       THEN /\ waitEvent' = [waitEvent EXCEPT ![P] = "shim"]
            /\ openEvents' = openEvents \cup {P}
            /\ UNCHANGED savedWait
       ELSE /\ savedWait' = [savedWait EXCEPT ![P] = "NULL"]
            /\ UNCHANGED <<waitEvent, openEvents>>
    /\ next' = next + 1 /\ pc' = IF next = Len(Protocols) THEN "poll" ELSE "save"
    /\ UNCHANGED <<consoleVars, dbPresent, notified, dbVars, found, savedRead, readFn, eventVars, caller>>

\* ok: CreateEvent and SetTimer succeed; the event is closed and forgotten when
\* its timer cannot be set.
StartPoll(ok) ==
    /\ pc = "poll"
    /\ PollKeyboardEvent' = ok /\ next' = 1
    /\ pc' = IF ok THEN "installed" ELSE "unhookRead"
    /\ UNCHANGED <<consoleVars, dbPresent, notified, dbVars, found, hookVars, KeyMapDbArriveEvent,
                   OurJobIsDone, caller>>

----------------------------------------------------------------------------
(* AIKSourceUninstall and AIKTargetUninstall.                                *)

RestoreRead ==
    /\ pc = "unhookRead"
    /\ readFn' = IF P \in found THEN [readFn EXCEPT ![P] = savedRead[P]] ELSE readFn
    /\ pc' = "unhookWait"
    /\ UNCHANGED <<consoleVars, dbPresent, notified, dbVars, found, savedRead, savedWait, waitEvent,
                   openEvents, eventVars, caller, next>>

NeverReplaced(p) == FALSE
Replaced(p) == savedWait[p] # "NULL" /\ savedWait[p] # waitEvent[p]

RestoreWait ==
    /\ pc = "unhookWait"
    /\ IF P \in found /\ Replaced(P)
       THEN /\ openEvents' = openEvents \ {P}
            /\ waitEvent' = [waitEvent EXCEPT ![P] = savedWait[P]]
       ELSE UNCHANGED <<openEvents, waitEvent>>
    /\ pc' = "forget"
    /\ UNCHANGED <<consoleVars, dbPresent, notified, dbVars, found, savedRead, savedWait, readFn,
                   eventVars, caller, next>>

Forget ==
    /\ pc = "forget"
    /\ IF P \in found
       THEN /\ savedRead' = [savedRead EXCEPT ![P] = "NULL"]
            /\ savedWait' = [savedWait EXCEPT ![P] = "NULL"]
            /\ found' = found \ {P}
       ELSE UNCHANGED <<savedRead, savedWait, found>>
    /\ next' = next + 1
    /\ IF next < Len(Protocols) THEN pc' = "unhookRead" /\ UNCHANGED consoleVars
       ELSE /\ pc' = "dropTarget" /\ ConSplitHandler' = FALSE
            /\ connected' = (connected /\ ~ConSplitHandler)
    /\ UNCHANGED <<dbPresent, notified, dbVars, readFn, waitEvent, openEvents, eventVars,
                   caller>>

AIKTargetUninstall ==
    /\ pc = "dropTarget"
    /\ KeyMapDb' = FALSE /\ keySets' = IF KeyMapDb THEN keySets - 1 ELSE keySets
    /\ pc' = IF caller = "exit" THEN "idle" ELSE "failed"
    /\ UNCHANGED <<consoleVars, dbPresent, notified, found, hookVars, eventVars, caller, next>>

----------------------------------------------------------------------------
(* What the callers do when AIKInstall returns.                              *)

\* Success: the event that waits for the database is no longer needed.
InstallSucceeded ==
    /\ pc = "installed" /\ pc' = "idle"
    /\ KeyMapDbArriveEvent' = IF caller = "arrive" THEN FALSE ELSE KeyMapDbArriveEvent
    /\ UNCHANGED <<consoleVars, dbPresent, notified, dbVars, found, hookVars, PollKeyboardEvent,
                   OurJobIsDone, caller, next>>

\* Failure: AIKProtocolArriveInstall waits for the database, if it can (ok).
InstallFailed(ok) ==
    /\ pc = "failed" /\ pc' = "idle"
    /\ KeyMapDbArriveEvent' = IF caller = "init" THEN ok ELSE KeyMapDbArriveEvent
    /\ UNCHANGED <<consoleVars, dbPresent, notified, dbVars, found, hookVars, PollKeyboardEvent,
                   OurJobIsDone, caller, next>>

Next ==
    \/ OcAppleGenericInputKeycodeInit \/ DatabaseArrives \/ AIKProtocolArriveHandler
    \/ OcAppleGenericInputKeycodeExit
    \/ \E ok \in BOOLEAN : AIKTargetInstall(ok) \/ ReplaceWait(ok) \/ StartPoll(ok)
                               \/ InstallFailed(ok)
    \/ \E S \in SUBSET Names : AIKSourceInstall(S)
    \/ SaveOriginal \/ HookRead \/ RestoreRead \/ RestoreWait \/ Forget
    \/ AIKTargetUninstall \/ InstallSucceeded

Spec == Init /\ [][Next]_vars

----------------------------------------------------------------------------
\* Hooks are ever only the firmware's or ours, and the target holds at most one
\* key set.
TypeOK ==
    /\ keySets \in 0..1 /\ found \subseteq Names /\ openEvents \subseteq Names
    /\ \A p \in Names : {readFn[p], waitEvent[p]} \subseteq {"firmware", "shim"}
    /\ \A p \in Names : {savedRead[p], savedWait[p]} \subseteq {"firmware", "shim", "NULL"}
    /\ {dbPresent, notified, KeyMapDb, PollKeyboardEvent, KeyMapDbArriveEvent,
        OurJobIsDone} \subseteq BOOLEAN
    /\ next \in 1..(Len(Protocols) + 1)

\* When no call is in progress the input is either wholly installed (hooked
\* protocols, one key set, a poll timer) or has left no trace: every protocol
\* has its own function and event again, whichever step failed or whenever the
\* removal came.
AllOrNothing ==
    pc = "idle" =>
        IF PollKeyboardEvent
        THEN /\ keySets = 1 /\ found # {}
             /\ \A p \in Names : readFn[p] = "shim" <=> p \in found
        ELSE /\ keySets = 0 /\ found = {} /\ openEvents = {}
             /\ \A p \in Names : readFn[p] = "firmware" /\ waitEvent[p] = "firmware"
=============================================================================
