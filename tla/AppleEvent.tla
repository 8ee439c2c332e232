----------------------------- MODULE AppleEvent -----------------------------
(***************************************************************************)
(* Event handlers and the event queue of src/Library/OcAppleEventLib         *)
(* (OcAppleEventLib.c, EventQueue.c).  Applications register and unregister  *)
(* handlers at TPL_APPLICATION; the poll timers that produce events and the  *)
(* queue event that dispatches them run at TPL_CALLBACK, between any two     *)
(* statements of an application's call and each to its end.  Handlers, like  *)
(* those of this repository, do not call back.                               *)
(***************************************************************************)
EXTENDS Integers, Sequences, FiniteSets, SequencesExt

CONSTANTS
    Handles,        \* addresses of APPLE_EVENT_HANDLE_PRIVATE allocations
    Nil,            \* the list head, where a walk ends
    MaxQueue,       \* bound: events that wait at a time
    MaxTimers       \* bound: timers of a kind, forgotten ones included

ASSUME AppleEventAssumption ==
    Nil \notin Handles /\ MaxQueue \in Nat \ {0} /\ MaxTimers \in Nat \ {0} /\ IsFiniteSet(Handles)

VARIABLES
    mEventHandles,            \* the list, first to last
    live,                     \* allocated handles
    Registered, Ready, EventType,
    mNumberOfEventHandles,
    keyTimers, pointerTimers,             \* timers that run
    mKeyStrokePollEvent, mSimplePointerPollEvent,   \* whether one is remembered
    mQueueEventCreated, signalled, mQueue,
    pc, cur, nxt, arg,        \* the application's call: statement, walk, parameter
    owned, gone,              \* history: handles applications hold; unregistered ones
    called,                   \* history: handlers called by a dispatch, until the next poll
    starved,                  \* history: a handle could not be allocated
    corrupt                   \* a freed handle was used

handleVars == <<mEventHandles, live, Registered, Ready, EventType, mNumberOfEventHandles>>
timerVars == <<keyTimers, pointerTimers, mKeyStrokePollEvent, mSimplePointerPollEvent>>
queueVars == <<mQueueEventCreated, signalled, mQueue>>
callVars == <<pc, cur, nxt, arg>>
historyVars == <<owned, gone, called, starved>>
vars == <<handleVars, timerVars, queueVars, callVars, historyVars, corrupt>>

\* APPLE_ALL_KEYBOARD_EVENTS and the mouse events.
EventTypes == {"key", "pointer"}
Types == (SUBSET EventTypes) \ {{}}

\* InternalCreateQueueEvent may fail and nobody asks.
Init ==
    /\ mEventHandles = <<>> /\ live = {}
    /\ Registered = [h \in Handles |-> FALSE] /\ Ready = [h \in Handles |-> FALSE]
    /\ EventType = [h \in Handles |-> {}]
    /\ mNumberOfEventHandles = 0
    /\ keyTimers = 0 /\ pointerTimers = 0
    /\ mKeyStrokePollEvent = FALSE /\ mSimplePointerPollEvent = FALSE
    /\ mQueueEventCreated \in BOOLEAN /\ signalled = FALSE /\ mQueue = <<>>
    /\ pc = "idle" /\ cur = Nil /\ nxt = Nil /\ arg = Nil
    /\ owned = {} /\ gone = {} /\ called = {} /\ starved = FALSE /\ corrupt = FALSE

First(list) == IF list = <<>> THEN Nil ELSE list[1]
After(list, h) == LET rest == SelectInSeq(list, LAMBDA x : x = h) + 1 IN
                  IF rest > Len(list) THEN Nil ELSE list[rest]

----------------------------------------------------------------------------
(* The application's calls.                                                  *)

\* The call returns; its locals are gone.
Return == pc' = "idle" /\ cur' = Nil /\ nxt' = Nil /\ arg' = Nil
Goto(l) == pc' = l /\ UNCHANGED <<cur, nxt, arg>>

\* A statement that reads the handle cur: with a freed one all bets are off.
Use(h) == corrupt' = (h \notin live)

\* FreePool; nothing reads what a freed handle held.
Freed(S) ==
    /\ live' = live \ S
    /\ EventType' = [h \in Handles |-> IF h \in S THEN {} ELSE EventType[h]]

\* EventRegisterHandler begins with InternalRemoveUnregisteredEvents.
EventRegisterHandler(Type) ==
    /\ pc = "idle" /\ ~corrupt
    /\ arg' = Type /\ cur' = First(mEventHandles)
    /\ pc' = IF mEventHandles = <<>> THEN "polls" ELSE "removeNext"
    /\ UNCHANGED <<handleVars, timerVars, queueVars, nxt, historyVars, corrupt>>

RemoveNext ==
    /\ pc = "removeNext" /\ ~corrupt
    /\ Use(cur)
    /\ nxt' = After(mEventHandles, cur) /\ pc' = "removeCheck"
    /\ UNCHANGED <<handleVars, timerVars, queueVars, cur, arg, historyVars>>

Advance == cur' = nxt /\ pc' = IF nxt = Nil THEN "polls" ELSE "removeNext"

RemoveCheck ==
    /\ pc = "removeCheck" /\ ~corrupt
    /\ Use(cur)
    /\ IF Registered[cur] THEN Advance ELSE pc' = "unlink" /\ UNCHANGED cur
    /\ UNCHANGED <<handleVars, timerVars, queueVars, nxt, arg, historyVars>>

RemoveUnlink ==
    /\ pc = "unlink" /\ ~corrupt
    /\ Use(cur)
    /\ mEventHandles' = Remove(mEventHandles, cur) /\ pc' = "free"
    /\ UNCHANGED <<live, Registered, Ready, EventType, mNumberOfEventHandles, timerVars,
                   queueVars, cur, nxt, arg, historyVars>>

RemoveFree ==
    /\ pc = "free" /\ ~corrupt
    /\ Use(cur)
    /\ Freed({cur})
    /\ Advance
    /\ UNCHANGED <<mEventHandles, Registered, Ready, mNumberOfEventHandles, timerVars,
                   queueVars, nxt, arg, historyVars>>

\* EventCreateSimplePointerPollEvent, then EventCreateKeyStrokePollEvent, whose
\* failure cancels the pointer timer.  Both overwrite what was remembered.
PollOutcomes == {"ok", "noPointerTimer", "noKeyMap", "noKeyTimer"}

InternalCreatePollEvents(outcome) ==
    LET new == IF outcome = "ok" THEN 1 ELSE 0 IN
    /\ mSimplePointerPollEvent' = (outcome = "ok")
    /\ mKeyStrokePollEvent' =
           IF outcome \in {"noPointerTimer", "noKeyMap"} THEN mKeyStrokePollEvent
                                                         ELSE outcome = "ok"
    /\ keyTimers' = keyTimers + new /\ pointerTimers' = pointerTimers + new

CreatePolls(outcome) ==
    /\ pc = "polls" /\ ~corrupt
    /\ keyTimers < MaxTimers /\ pointerTimers < MaxTimers
    /\ IF mNumberOfEventHandles = 0
       THEN /\ InternalCreatePollEvents(outcome)
            /\ IF outcome = "ok" THEN Goto("insert") ELSE Return
       ELSE Goto("insert") /\ UNCHANGED timerVars
    /\ UNCHANGED <<handleVars, queueVars, historyVars, corrupt>>

\* h: the address of the new handle.
InsertHandle(h) ==
    /\ pc = "insert" /\ ~corrupt /\ h \notin live
    /\ live' = live \cup {h}
    /\ Ready' = [Ready EXCEPT ![h] = FALSE]
    /\ Registered' = [Registered EXCEPT ![h] = TRUE]
    /\ EventType' = [EventType EXCEPT ![h] = arg]
    /\ mNumberOfEventHandles' = mNumberOfEventHandles + 1
    /\ mEventHandles' = Append(mEventHandles, h)
    /\ owned' = owned \cup {h} /\ gone' = gone \ {h}
    /\ Return
    /\ UNCHANGED <<timerVars, queueVars, called, starved, corrupt>>

\* EFI_OUT_OF_RESOURCES: the poll timers stay.
InsertFails ==
    /\ pc = "insert" /\ ~corrupt
    /\ starved' = TRUE /\ Return
    /\ UNCHANGED <<handleVars, timerVars, queueVars, owned, gone, called, corrupt>>

\* EventUnregisterHandler looks for the handle in the list.
EventUnregisterHandler(h) ==
    /\ pc = "idle" /\ ~corrupt /\ h \in owned
    /\ arg' = h /\ cur' = First(mEventHandles) /\ pc' = "findCheck"
    /\ owned' = owned \ {h}
    /\ UNCHANGED <<handleVars, timerVars, queueVars, nxt, gone, called, starved, corrupt>>

Unregister(h) ==
    /\ Registered' = [Registered EXCEPT ![h] = FALSE]
    /\ mNumberOfEventHandles' = mNumberOfEventHandles - 1

FindCheck ==
    /\ pc = "findCheck" /\ ~corrupt
    /\ IF cur = Nil THEN pc' = "cancel" /\ UNCHANGED <<Registered, mNumberOfEventHandles,
                                                       corrupt>>
       ELSE /\ Use(cur)
            /\ IF cur = arg
               THEN Unregister(cur) /\ pc' = "cancel"
               ELSE pc' = "findNext" /\ UNCHANGED <<Registered, mNumberOfEventHandles>>
    /\ UNCHANGED <<mEventHandles, live, Ready, EventType, timerVars, queueVars, cur, nxt,
                   arg, historyVars>>

FindNext ==
    /\ pc = "findNext" /\ ~corrupt
    /\ Use(cur)
    /\ cur' = After(mEventHandles, cur) /\ pc' = "findCheck"
    /\ UNCHANGED <<handleVars, timerVars, queueVars, nxt, arg, historyVars>>

CancelAlways ==
    /\ keyTimers' = keyTimers - 1 /\ pointerTimers' = pointerTimers - 1
    /\ mKeyStrokePollEvent' = FALSE /\ mSimplePointerPollEvent' = FALSE
\* EventLibCancelEvent of whichever timers are remembered.
InternalCancelPollEvents ==
    /\ keyTimers' = IF mKeyStrokePollEvent THEN keyTimers - 1 ELSE keyTimers
    /\ pointerTimers' = IF mSimplePointerPollEvent THEN pointerTimers - 1 ELSE pointerTimers
    /\ mKeyStrokePollEvent' = FALSE /\ mSimplePointerPollEvent' = FALSE

LastHandleOrNone == mNumberOfEventHandles <= 1
NoHandles == mNumberOfEventHandles = 0

\* Called by EventUnregisterHandler when its loop ends.
CancelPolls ==
    /\ pc = "cancel" /\ ~corrupt
    /\ IF NoHandles THEN InternalCancelPollEvents ELSE UNCHANGED timerVars
    /\ gone' = gone \cup {arg} /\ Return
    /\ UNCHANGED <<handleVars, queueVars, owned, called, starved, corrupt>>

----------------------------------------------------------------------------
(* Timers and the queue event, at TPL_CALLBACK.                              *)

EventAddEventToQueue(t, ok) ==
    /\ mQueue' = IF mQueueEventCreated /\ ok THEN Append(mQueue, t) ELSE mQueue
    /\ signalled' = (signalled \/ mQueueEventCreated)
    /\ UNCHANGED mQueueEventCreated

PollQueues(t, ok) ==
    /\ ~corrupt /\ (IF t = "key" THEN keyTimers ELSE pointerTimers) > 0 /\ Len(mQueue) < MaxQueue
    /\ EventAddEventToQueue(t, ok)
    /\ called' = {}
    /\ UNCHANGED <<handleVars, timerVars, callVars, owned, gone, starved, corrupt>>

\* The pointer poll finds no pointer left and ends the timer.
PointerPollEnds ==
    /\ ~corrupt /\ pointerTimers > 0 /\ mSimplePointerPollEvent
    /\ pointerTimers' = pointerTimers - 1 /\ mSimplePointerPollEvent' = FALSE
    /\ UNCHANGED <<handleVars, keyTimers, mKeyStrokePollEvent, queueVars, callVars,
                   historyVars, corrupt>>

WantedByAny(h, e) == e \in EventType[h]
Wanted(h, e) == Registered[h] /\ e \in EventType[h]

DropUnready(h) == Ready[h]
Kept(h) == Registered[h]

\* InternalQueueEventNotifyFunction: all handlers become ready, every event goes
\* to the handlers that want it, then InternalRemoveUnregisteredEvents.
InternalQueueEventNotifyFunction ==
    LET list == Range(mEventHandles) IN
    /\ ~corrupt /\ signalled
    /\ signalled' = FALSE
    /\ Ready' = [h \in Handles |-> Ready[h] \/ h \in list]
    /\ called' = {h \in list : \E i \in 1..Len(mQueue) : Wanted(h, mQueue[i])}
    /\ mQueue' = <<>>
    /\ mEventHandles' = SelectSeq(mEventHandles, Kept)
    /\ Freed({h \in list : ~Kept(h)})
    /\ UNCHANGED <<Registered, mNumberOfEventHandles, timerVars,
                   mQueueEventCreated, callVars, owned, gone, starved, corrupt>>

Call ==
    \/ RemoveNext \/ RemoveCheck \/ RemoveUnlink \/ RemoveFree \/ FindCheck \/ FindNext
    \/ CancelPolls \/ InsertFails
    \/ \E outcome \in PollOutcomes : CreatePolls(outcome)
    \/ \E h \in Handles : InsertHandle(h)

Next ==
    \/ \E T \in Types : EventRegisterHandler(T)
    \/ \E h \in Handles : EventUnregisterHandler(h)
    \/ Call
    \/ \E t \in EventTypes, ok \in BOOLEAN : PollQueues(t, ok)
    \/ PointerPollEnds \/ InternalQueueEventNotifyFunction

Spec == Init /\ [][Next]_vars

----------------------------------------------------------------------------
(* Properties.                                                               *)

TypeOK ==
    /\ Range(mEventHandles) \subseteq Handles /\ live \subseteq Handles
    /\ Registered \in [Handles -> BOOLEAN] /\ Ready \in [Handles -> BOOLEAN]
    /\ EventType \in [Handles -> SUBSET EventTypes]
    /\ mNumberOfEventHandles \in Nat
    /\ keyTimers \in Nat /\ pointerTimers \in Nat
    /\ mQueue \in Seq(EventTypes)
    /\ pc \in {"idle", "removeNext", "removeCheck", "unlink", "free", "polls", "insert",
               "findCheck", "findNext", "cancel"}

\* A handler stays on the list, allocated and registered, from the moment
\* EventRegisterHandler returns it until its owner unregisters it, whatever is
\* dispatched or cleaned up in between.  mNumberOfEventHandles, which decides when
\* the timers start and stop, is the number of these handlers, although
\* unregistered ones stay on the list for a while.
HandlersStay ==
    ~corrupt =>
        /\ \A h \in owned : h \in Range(mEventHandles) \cap live /\ Registered[h]
        /\ pc = "idle" => mNumberOfEventHandles = Cardinality(owned)

\* Between calls the key timer runs exactly while a handler is registered, no
\* timer runs that nobody remembers, and none keeps running for nobody.  Only a
\* handle that could not be allocated (EventRegisterHandler has the timers
\* started and leaves them) spoils it.
TimersMatchHandlers ==
    ~corrupt /\ ~starved /\ pc = "idle" =>
        /\ keyTimers = IF owned # {} THEN 1 ELSE 0
        /\ mKeyStrokePollEvent = (keyTimers = 1)
        /\ pointerTimers = (IF mSimplePointerPollEvent THEN 1 ELSE 0)
        /\ pointerTimers <= keyTimers

\* A handler is not called once EventUnregisterHandler has returned, although
\* its handle is still on the list: its owner frees the context it is called with.
NoLateCall == [][signalled /\ ~signalled' => called' \cap gone = {}]_vars


\* What the signature check of APPLE_EVENT_HANDLE_PRIVATE_FROM_LIST_ENTRY
\* asserts: a walk of mEventHandles only meets handles.
NodesAreHandles == ~corrupt
=============================================================================
