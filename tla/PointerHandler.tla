--------------------------- MODULE PointerHandler ---------------------------
(***************************************************************************)
(* The pointer half of the Apple event protocol,                             *)
(* src/Library/OcAppleEventLib/PointerHandler.c: which pointers are polled,   *)
(* and what button events and cursor positions come of their reports.  The    *)
(* install notification and the poll run at TPL_CALLBACK, each to its end;    *)
(* the application's calls run below and are split where one of them, or a    *)
(* pointer that comes or goes, may get in between.                           *)
(***************************************************************************)
EXTENDS PointerButtons

CONSTANTS
    Handles,             \* handles that may carry a simple pointer protocol
    ResolutionX,         \* their pointers' resolution
    Widths,              \* widths the screen may have
    Positions,           \* positions the application may ask for
    Moves,               \* movements a report may hold
    PollTimes,           \* ns that a poll may take
    PollMask,            \* indices polled: Nat for POINTER_POLL_ALL_MASK
    Setups,              \* configurations: see SetupOK
    MaxInstances         \* bound of mPointerProtocols

\* PollMin and PollMax in ms; click, double and radiusSqr are the values that
\* InternalSetDwellClicking computes.  present are the pointers at the start,
\* hotplug those that come and go, left the button states they may report;
\* motion says whether they move and memory whether allocations may fail.
SetupOK(s) ==
    /\ {s.PollMin, s.PollMax, s.click, s.double, s.radiusSqr} \subseteq Nat
    /\ s.present \subseteq Handles /\ s.present # {} /\ s.hotplug \subseteq Handles
    /\ {s.motion, s.memory} \subseteq BOOLEAN /\ s.left \subseteq BOOLEAN
    /\ InternalSetPointerPolling(s.PollMin, s.PollMax).double < TickCap

ASSUME PointerHandlerAssumption ==
    /\ \A s \in Setups : SetupOK(s)
    /\ ResolutionX \in [Handles -> Nat] /\ Widths \subseteq Nat \ {0} /\ Widths # {}
    /\ Positions \subseteq Int
    /\ PollMask = Nat \/ PollMask \subseteq 0..31

VARIABLES
    setup,
    present,             \* handles that carry the protocol
    interface,           \* which of two interfaces a handle carries, or carried last
    arrived,             \* installations not yet fetched by the notification
    signalled,           \* the notification is due
    mPointerProtocols,   \* instances: Handle, Interface, Installed
    app,                 \* statement the application is at
    org,                 \* its OrgInstances, the located handles, and whether a
                         \* registration has freed that array
    wanted,              \* the event library wants polls
    timer,               \* the poll timer is armed
    mSimplePointerPollEvent,   \* and its event is known
    mMaxPointerResolutionX, mPointerRawX, mCursorPosition, mResolution,
    mLeftButtonInfo,
    mDwell,              \* mDwellClickTime, mDwellPosition, click queued by the last poll
    timing,              \* mSimplePointerPollTime and the two click limits
    down, said,          \* history: last button event was DOWN; click of the last poll
    heldFor, clickedAgo, \* history: polled time since the press, since the last click
    pause,               \* history: a click came late since the last double click
    dwellGap,            \* history: polled time since the last dwell click
    upsets               \* history: what disturbed the buttons or the list

deviceVars == <<present, interface, arrived, signalled>>
appVars == <<app, org, wanted>>
cursorVars == <<mMaxPointerResolutionX, mPointerRawX, mCursorPosition, mResolution>>
clickVars == <<mLeftButtonInfo, mDwell, down, said, heldFor, clickedAgo, pause, dwellGap>>
timerVars == <<timer, mSimplePointerPollEvent, timing>>
vars == <<setup, deviceVars, mPointerProtocols, appVars, cursorVars, clickVars, timerVars,
          upsets>>

Polling == InternalSetPointerPolling(setup.PollMin, setup.PollMax)
NoOrg == [list |-> <<>>, located |-> {}, freed |-> FALSE]

\* A time of the histories, saturated above every limit.
TimeCap == 10000 * (MAX_DOUBLE_CLICK_SPEED + 1)
Later(t, d) == IF t + d > TimeCap THEN TimeCap ELSE t + d

----------------------------------------------------------------------------
(* The instances.                                                            *)

NewInstance(h, i) == [Handle |-> h, Interface |-> i, Installed |-> TRUE]

RegisterOnce(h) ==
    /\ mPointerProtocols' =
           IF \E i \in DOMAIN mPointerProtocols : mPointerProtocols[i].Handle = h
           THEN mPointerProtocols ELSE Append(mPointerProtocols, NewInstance(h, interface[h]))
    /\ UNCHANGED <<mPointerRawX, mMaxPointerResolutionX>>

\* raw is rescaled when a pointer of a higher resolution comes.
InternalRegisterSimplePointerInterface(h) ==
    LET r == ResolutionX[h] IN
    /\ mPointerProtocols' = Append(mPointerProtocols, NewInstance(h, interface[h]))
    /\ IF r > mMaxPointerResolutionX
       THEN /\ mPointerRawX' = (mPointerRawX * mMaxPointerResolutionX) \div r
            /\ mMaxPointerResolutionX' = r
       ELSE UNCHANGED <<mPointerRawX, mMaxPointerResolutionX>>

AfterRemoval(list, located, memory) ==
    LET marked == [i \in DOMAIN list |->
                      [list[i] EXCEPT !.Installed = @ /\ list[i].Handle \in located]]
        installed(e) == e.Installed
        kept == SelectSeq(marked, installed)
    IN  IF located = {} \/ memory = "none" THEN <<>>
        ELSE IF kept = <<>> \/ memory = "locate" THEN marked
        ELSE kept

Memory == IF setup.memory THEN {"all", "locate", "none"} ELSE {"all"}
MemoryUpset(memory) == IF memory = "all" THEN {} ELSE {"memory"}

----------------------------------------------------------------------------
Init ==
    /\ setup \in Setups
    /\ present = setup.present
    /\ interface = [h \in Handles |-> 0] /\ arrived = <<>> /\ signalled = FALSE
    /\ mPointerProtocols \in {s \in [1..Cardinality(present) -> {NewInstance(h, 0) : h \in present}] :
                                \A i, j \in DOMAIN s : s[i] = s[j] => i = j}
    /\ app = "idle" /\ org = NoOrg /\ wanted = FALSE
    /\ timer = FALSE /\ mSimplePointerPollEvent = FALSE
    /\ timing = [period |-> 0, click |-> Polling.click, double |-> Polling.double]
    /\ mMaxPointerResolutionX = CHOOSE r \in {1} \cup {ResolutionX[h] : h \in present} :
                                   \A h \in present : r >= ResolutionX[h]
    /\ mPointerRawX = 0 /\ mCursorPosition = 0
    /\ mResolution = CHOOSE w \in Widths : TRUE
    /\ mLeftButtonInfo = [PreviousButton |-> FALSE, CurrentButton |-> FALSE,
                          ButtonTicksHold |-> 0, ButtonTicksSinceClick |-> 0,
                          PreviousClickEventType |-> "none",
                          MouseDownPosition |-> 0, ClickPosition |-> 0]
    /\ mDwell = [time |-> 0, position |-> 0, queued |-> "none"]
    /\ down = FALSE /\ said = "none" /\ heldFor = 0 /\ clickedAgo = TimeCap /\ pause = TRUE
    /\ dwellGap = TimeCap /\ upsets = {}

----------------------------------------------------------------------------
(* Pointers come and go.                                                     *)

\* A second installation before the notification has run adds no second signal.
Arrive(h) ==
    /\ h \in setup.hotplug /\ h \notin present /\ Len(mPointerProtocols) + Len(arrived) < MaxInstances
    /\ present' = present \cup {h}
    /\ interface' = [interface EXCEPT ![h] = 1 - @]
    /\ arrived' = Append(arrived, h) /\ signalled' = TRUE
    /\ upsets' = upsets \cup (IF signalled THEN {"two arrivals"} ELSE {})
                        \cup (IF \E i \in DOMAIN mPointerProtocols :
                                    mPointerProtocols[i].Handle = h
                              THEN {"reinstalled"} ELSE {})
    /\ UNCHANGED <<setup, mPointerProtocols, appVars, cursorVars, clickVars, timerVars>>

Leave(h) ==
    /\ h \in setup.hotplug /\ h \in present
    /\ present' = present \ {h}
    /\ arrived' = SelectSeq(arrived, LAMBDA a : a # h)
    /\ UNCHANGED <<setup, interface, signalled, mPointerProtocols, appVars, cursorVars,
                   clickVars, timerVars, upsets>>

\* ByRegisterNotify returns the next new handle only.  ok: memory for the list.
InternalSimplePointerInstallNotifyFunction(ok) ==
    /\ signalled /\ signalled' = FALSE
    /\ arrived' = IF arrived = <<>> THEN <<>> ELSE Tail(arrived)
    /\ IF arrived # <<>> /\ ok
       THEN /\ InternalRegisterSimplePointerInterface(Head(arrived))
            /\ org' = [org EXCEPT !.freed = (app = "remove")]
       ELSE UNCHANGED <<mPointerProtocols, mPointerRawX, mMaxPointerResolutionX, org>>
    /\ upsets' = upsets \cup (IF ok THEN {} ELSE {"memory"})
                        \cup (IF mMaxPointerResolutionX' # mMaxPointerResolutionX
                              THEN {"cursor"} ELSE {})
    /\ UNCHANGED <<setup, present, interface, app, wanted, mCursorPosition, mResolution,
                   clickVars, timerVars>>

----------------------------------------------------------------------------
(* InternalSimplePointerPollNotifyFunction.                                  *)

ReportSet == {NotReady} \cup [move : IF setup.motion THEN Moves ELSE {0}, left : setup.left]
Polled(i) == i - 1 \in PollMask

\* What the reports of the instances in list may add up to.
Outcomes(list) ==
    LET m0 == [raw |-> mPointerRawX, cursor |-> mCursorPosition,
               previous |-> mLeftButtonInfo.PreviousButton,
               current |-> mLeftButtonInfo.CurrentButton, reports |-> 0]
        resolution == [i \in DOMAIN list |-> ResolutionX[list[i].Handle]]
        answers == {r \in [DOMAIN list -> ReportSet] :
                       \A i \in DOMAIN list : Polled(i) \/ r[i] = NotReady}
    IN  {Reports(m0, r, resolution, mMaxPointerResolutionX, mResolution) : r \in answers}

\* list: the instances that are left; m: the outcome of their reports.
Poll(list, m, memory, ns) ==
    LET ok == m.reports > 0
        b == [mLeftButtonInfo EXCEPT !.PreviousButton = m.previous,
                                     !.CurrentButton = m.current]
        click == ok /\ Clicked(b, timing, m.cursor)
        d == InternalHandleDwellClicking(mDwell, setup, m.cursor, timing.period)
        next == IF mSimplePointerPollEvent
                THEN Slower(timing, Polling.max, ns) ELSE timing
    IN
    /\ mPointerProtocols' = list
    /\ mPointerRawX' = m.raw /\ mCursorPosition' = m.cursor
    /\ mLeftButtonInfo' = InternalHandleButtonInteraction(ok, b, timing, m.cursor)
    /\ mDwell' = d
    /\ timing' = next
    /\ said' = IF click THEN ClickKind(b, timing, m.cursor) ELSE "none"
    /\ down' = IF d.queued # "none" THEN FALSE
               ELSE IF ok /\ Pressed(b) THEN TRUE
               ELSE IF ok /\ Released(b) THEN FALSE ELSE down
    /\ heldFor' = IF ok /\ Pressed(b) THEN next.period
                  ELSE IF m.current THEN Later(heldFor, next.period) ELSE heldFor
    /\ clickedAgo' = Later(IF click THEN 0 ELSE clickedAgo, next.period)
    /\ pause' = IF ~click THEN pause
                ELSE (said' # "DOUBLE_CLICK" /\ (pause \/ ~Soon(b, timing)))
    /\ dwellGap' = Later(IF d.queued = "none" THEN dwellGap ELSE 0, next.period)
    /\ upsets' = (upsets \ (IF ok THEN {"cursor"} ELSE {})) \cup MemoryUpset(memory)
                 \cup (IF m.reports > 1 THEN {"two reports"} ELSE {})
                 \cup (IF app = "assign" THEN {"early poll"} ELSE {})
                 \cup (IF d.queued # "none" /\ m.current THEN {"dwell while held"} ELSE {})
    /\ UNCHANGED <<timer, mSimplePointerPollEvent>>

\* No pointer is left: the poll ends its timer, and tells nobody.
PollNothing(memory) ==
    /\ timer' = (timer /\ ~mSimplePointerPollEvent) /\ mSimplePointerPollEvent' = FALSE
    /\ mPointerProtocols' = <<>> /\ said' = "none"
    /\ mDwell' = [mDwell EXCEPT !.queued = "none"]
    /\ upsets' = upsets \cup MemoryUpset(memory)
    /\ UNCHANGED <<mPointerRawX, mCursorPosition, mLeftButtonInfo, timing, down, heldFor,
                   clickedAgo, pause, dwellGap>>

InternalSimplePointerPollNotifyFunction(memory) ==
    LET list == AfterRemoval(mPointerProtocols, present, memory) IN
    /\ timer
    /\ IF list = <<>> THEN PollNothing(memory)
       ELSE \E m \in Outcomes(list), ns \in PollTimes : Poll(list, m, memory, ns)
    /\ UNCHANGED <<setup, deviceVars, appVars, mMaxPointerResolutionX, mResolution>>

----------------------------------------------------------------------------
(* The application: EventCreateSimplePointerPollEvent.                       *)

\* w: the screen's width, 0 when it cannot be found out.
Screens == IF setup.motion THEN Widths \cup {0} ELSE {0}
InternalGetScreenResolution(w) ==
    /\ mResolution' = IF w > 0 THEN w ELSE mResolution
Onto(cursor, width) == IF cursor >= width THEN width - 1 ELSE cursor

\* InternalRemoveUninstalledInstances takes the array and the handles ...
CreateLocate ==
    /\ app = "idle" /\ ~wanted
    /\ wanted' = TRUE /\ app' = "remove"
    /\ org' = [list |-> mPointerProtocols, located |-> present, freed |-> FALSE]
    /\ UNCHANGED <<setup, deviceVars, mPointerProtocols, cursorVars, clickVars, timerVars,
                   upsets>>

\* ... and replaces the array, which a registration may have done meanwhile.
\* Then the cursor goes to the corner and the timer is armed, if it can be (ok).
CreateRemove(memory, w, ok) ==
    /\ app = "remove"
    /\ mPointerProtocols' = AfterRemoval(org.list, org.located, memory)
    /\ InternalGetScreenResolution(w) /\ mCursorPosition' = 0
    /\ timing' = [timing EXCEPT !.period = Polling.min]
    /\ timer' = ok /\ app' = IF ok THEN "assign" ELSE "idle"
    /\ org' = NoOrg /\ down' = FALSE
    /\ upsets' = (upsets \ {"two reports", "early poll", "dwell while held"})
                 \cup {"cursor"} \cup MemoryUpset(memory)
                 \cup (IF org.freed THEN {"array freed"} ELSE {})
    /\ UNCHANGED <<setup, deviceVars, wanted, mMaxPointerResolutionX, mPointerRawX,
                   mLeftButtonInfo, mDwell, said, heldFor, clickedAgo, pause, dwellGap,
                   mSimplePointerPollEvent>>

\* The event becomes known, and the buttons count as up, after the timer runs.
StillDown(b) == b
BothUp(b) == [b EXCEPT !.PreviousButton = FALSE, !.CurrentButton = FALSE]

CreateAssign ==
    /\ app = "assign" /\ app' = "idle"
    /\ mSimplePointerPollEvent' = TRUE
    /\ mLeftButtonInfo' = BothUp(mLeftButtonInfo)
    /\ UNCHANGED <<setup, deviceVars, mPointerProtocols, org, wanted, cursorVars, mDwell, down,
                   said, heldFor, clickedAgo, pause, dwellGap, timer, timing, upsets>>

EventCancelSimplePointerPollEvent ==
    /\ app = "idle" /\ wanted
    /\ wanted' = FALSE
    /\ timer' = (timer /\ ~mSimplePointerPollEvent) /\ mSimplePointerPollEvent' = FALSE
    /\ UNCHANGED <<setup, deviceVars, mPointerProtocols, app, org, cursorVars, clickVars,
                   timing, upsets>>

----------------------------------------------------------------------------
(* EventSetCursorPositionImpl: the cursor, then the raw position from it.     *)

SetCursorPosition(position, w) ==
    /\ app = "idle" /\ setup.motion
    /\ InternalGetScreenResolution(w)
    /\ IF position >= 0 /\ position < mResolution'
       THEN mCursorPosition' = position /\ app' = "raw" /\ upsets' = upsets \ {"cursor"}
       ELSE /\ mCursorPosition' = Onto(mCursorPosition, mResolution') /\ app' = "idle"
            /\ upsets' = upsets \cup (IF mCursorPosition' # mCursorPosition
                                      THEN {"cursor"} ELSE {})
    /\ UNCHANGED <<setup, deviceVars, mPointerProtocols, org, wanted, mMaxPointerResolutionX,
                   mPointerRawX, clickVars, timerVars>>

RawOfCursor == mCursorPosition * mMaxPointerResolutionX

SetRawPosition ==
    /\ app = "raw" /\ app' = "idle"
    /\ mPointerRawX' = RawOfCursor
    /\ upsets' = upsets \ {"cursor"}
    /\ UNCHANGED <<setup, deviceVars, mPointerProtocols, org, wanted, mMaxPointerResolutionX,
                   mCursorPosition, mResolution, clickVars, timerVars>>

Next ==
    \/ \E h \in Handles : Arrive(h) \/ Leave(h)
    \/ \E ok \in {TRUE, ~setup.memory} : InternalSimplePointerInstallNotifyFunction(ok)
    \/ \E memory \in Memory : InternalSimplePointerPollNotifyFunction(memory)
    \/ CreateLocate \/ CreateAssign \/ SetRawPosition
    \/ \E memory \in Memory, w \in Screens, ok \in {TRUE, ~setup.memory} :
           CreateRemove(memory, w, ok)
    \/ EventCancelSimplePointerPollEvent
    \/ \E w \in Screens, position \in Positions : SetCursorPosition(position, w)

Spec == Init /\ [][Next]_vars

----------------------------------------------------------------------------
Instance == [Handle : Handles, Interface : 0..1, Installed : BOOLEAN]
Quiet(S) == upsets \cap S = {}
Live(e) == e.Handle \in present /\ e.Interface = interface[e.Handle]

\* The array holds instances, the limits and times stay within their bounds, and
\* the cursor that events carry is on the screen, wherever reports, placements,
\* changes of the screen and new pointers take it.
TypeOK ==
    /\ present \subseteq Handles /\ interface \in [Handles -> 0..1]
    /\ mPointerProtocols \in Seq(Instance)
    /\ mCursorPosition \in 0..(mResolution - 1)
    /\ timing.period \in 0..Polling.max
    /\ timing.click \in 0..Polling.click /\ timing.double \in 0..Polling.double
    /\ mLeftButtonInfo.ButtonTicksHold \in 0..TickCap
    /\ mLeftButtonInfo.ButtonTicksSinceClick \in 0..TickCap
    /\ {wanted, timer, mSimplePointerPollEvent, down, pause} \subseteq BOOLEAN


\* While polls run, the button events queued so far leave a listener with the
\* button state that the last report gave: no DOWN or UP is lost or repeated,
\* unless two pointers reported in one poll, the poll came before
\* EventCreateSimplePointerPollEvent was done, a dwell click fell on a held
\* button, or memory ran out.
ButtonsReported ==
    timer /\ app = "idle"
    /\ Quiet({"two reports", "early poll", "dwell while held", "memory"})
        => down = mLeftButtonInfo.CurrentButton

\* A click is only reported for a button that was held no longer than
\* MAX_CLICK_DURATION, although ticks are counted while the period changes
\* under the press.
ClicksAreShort ==
    said # "none" /\ Quiet({"two reports", "early poll"})
        => heldFor <= MAX_CLICK_DURATION * 10000

\* A double click joins two clicks that are at most MAX_DOUBLE_CLICK_SPEED of
\* polled time apart, and after one no other is reported before a pause of that
\* length: a third and a fourth fast click are single.
DoubleClicksApart ==
    [][said' = "DOUBLE_CLICK" /\ said = "none"
         => pause /\ clickedAgo <= MAX_DOUBLE_CLICK_SPEED * 10000]_vars


\* Once the notification has run, every pointer that is there is in the array,
\* however arrivals, departures, polls and creations of the poll event
\* interleave, unless two arrivals shared a notification, a registration fell
\* into the application's removal, or memory ran out.
PresentIsListed ==
    ~signalled /\ Quiet({"two arrivals", "array freed", "memory"})
        => \A h \in present : \E i \in DOMAIN mPointerProtocols :
               mPointerProtocols[i].Handle = h /\ Live(mPointerProtocols[i])

\* With one of the dwell timeouts set, dwell clicks come at least that timeout
\* apart.
DwellClicksSpaced ==
    [][mDwell' # mDwell /\ mDwell'.queued # "none" /\ (setup.click = 0 \/ setup.double = 0)
         => dwellGap >= setup.click + setup.double]_vars
=============================================================================
