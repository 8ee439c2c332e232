--------------------------- MODULE PointerButtons ---------------------------
(***************************************************************************)
(* What one pointer poll makes of the reports it reads: the arithmetic of    *)
(* src/Library/OcAppleEventLib/PointerHandler.c on movements, buttons,       *)
(* clicks and poll periods, as operators.  The code treats both axes and     *)
(* both buttons alike; one of each is kept.  Tick counters saturate at       *)
(* TickCap, above every limit they are compared with.                        *)
(***************************************************************************)
EXTENDS Integers, Sequences, FiniteSets

CONSTANTS
    MAX_CLICK_DURATION, MAX_DOUBLE_CLICK_SPEED,     \* ms
    MINIMAL_MOVEMENT, mUiScale,
    mPointerSpeedMul, mPointerSpeedDiv,
    TickCap,                 \* bound of the tick counters
    NotReady                 \* a GetState call that fails

ASSUME PointerButtonsAssumption ==
    /\ {MAX_CLICK_DURATION, MAX_DOUBLE_CLICK_SPEED, MINIMAL_MOVEMENT} \subseteq Nat
    /\ mUiScale \in {1, 2} /\ mPointerSpeedDiv \in Nat \ {0} /\ mPointerSpeedMul \in Nat
    /\ TickCap \in Nat

Cap(n) == IF n > TickCap THEN TickCap ELSE n
Abs(n) == IF n < 0 THEN -n ELSE n

\* C division: towards zero.
Quot(a, b) == IF a < 0 THEN -((-a) \div b) ELSE a \div b

\* HighBitSet64: position of the highest bit, -1 for zero.
HighBitSet64(n) ==
    IF n = 0 THEN -1 ELSE CHOOSE i \in 0..31 : 2^i <= n /\ n < 2^(i + 1)

InternalGetUiScaleData(move) ==
    LET factor == IF HighBitSet64(Abs(move)) <= 3 THEN HighBitSet64(Abs(move) + 1) ELSE 5
    IN  mUiScale * (move * factor)

----------------------------------------------------------------------------
(* Periods are in units of 100 ns, limits in polls.                          *)

MAX_POLL_DURATION == 574     \* (MAX_UINT32 / 10000) / 748
EffectivePeriod(ms, default) ==
    IF ms = 0 THEN default ELSE IF ms > MAX_POLL_DURATION THEN MAX_POLL_DURATION ELSE ms

\* InternalSetPointerPolling: shortest and longest period, first limits.
InternalSetPointerPolling(pollMin, pollMax) ==
    LET shortest == EffectivePeriod(pollMin, 10) IN
    [min |-> shortest * 10000, max |-> EffectivePeriod(pollMax, 80) * 10000,
     click |-> MAX_CLICK_DURATION \div shortest,
     double |-> MAX_DOUBLE_CLICK_SPEED \div shortest]

\* After a poll that took ns: t is the period with the limits that belong to it.
NextPeriod(longest, ns) == IF ns \div 50 <= longest THEN ns \div 50 ELSE longest

RescaledNot(limit, old, new) == limit
Rescaled(limit, old, new) == (old * limit) \div new

Slower(t, longest, ns) ==
    LET p == NextPeriod(longest, ns) IN
    IF t.period < longest /\ ns > t.period * 55
    THEN [period |-> p, click |-> Rescaled(t.click, t.period, p),
          double |-> Rescaled(t.double, t.period, p)]
    ELSE t

----------------------------------------------------------------------------
(* One report.  m: raw and cursor position and the pair of button states.    *)

ClampBelow(raw, highest) == IF raw < 0 THEN 0 ELSE raw
Clamp(raw, highest) == IF raw > highest THEN highest ELSE IF raw < 0 THEN 0 ELSE raw

Report(m, r, resolution, mMaxPointerResolution, mResolution) ==
    LET scaled == Quot(InternalGetUiScaleData(r.move) * mMaxPointerResolution
                           * mPointerSpeedMul, mPointerSpeedDiv)
        delta == IF resolution > 0 THEN Quot(scaled, resolution) ELSE scaled
        raw == Clamp(m.raw + delta, (mResolution - 1) * mMaxPointerResolution)
    IN  [raw |-> raw, cursor |-> raw \div mMaxPointerResolution,
         previous |-> m.current, current |-> r.left,
         reports |-> IF m.reports = 2 THEN 2 ELSE m.reports + 1]

\* All reports of one poll, in the order of the instances.
Reports(m0, reports, resolution, mMaxPointerResolution, mResolution) ==
    LET M[i \in 0..Len(reports)] ==
            IF i = 0 THEN m0
            ELSE IF reports[i] = NotReady THEN M[i - 1]
            ELSE Report(M[i - 1], reports[i], resolution[i], mMaxPointerResolution,
                        mResolution)
    IN  M[Len(reports)]

----------------------------------------------------------------------------
(* InternalHandleButtonInteraction, for a button b and the limits t.         *)

Near(p, q) == Abs(p - q) <= mUiScale * MINIMAL_MOVEMENT

Pressed(b) == ~b.PreviousButton /\ b.CurrentButton
Released(b) == b.PreviousButton /\ ~b.CurrentButton

Clicked(b, t, cursor) ==
    /\ Released(b)
    /\ b.ButtonTicksHold <= t.click
    /\ Near(b.MouseDownPosition, cursor)

Soon(b, t) == b.ButtonTicksSinceClick <= t.double

ClickKind(b, t, cursor) ==
    IF b.PreviousClickEventType = "CLICK" /\ Soon(b, t) /\ Near(b.ClickPosition, cursor)
    THEN "DOUBLE_CLICK" ELSE "CLICK"

\* What the next click is compared with: after a double click, fast clicks do
\* not start another one.
RememberedPlain(b, t, cursor) == ClickKind(b, t, cursor)
Remembered(b, t, cursor) ==
    IF b.PreviousClickEventType = "DOUBLE_CLICK"
    THEN IF Soon(b, t) THEN "DOUBLE_CLICK" ELSE "CLICK"
    ELSE ClickKind(b, t, cursor)

\* ok: the poll read a report, so that the status is a success.
InternalHandleButtonInteraction(ok, b, t, cursor) ==
    LET press == ok /\ Pressed(b)
        click == ok /\ Clicked(b, t, cursor)
        prev == IF ok THEN b.CurrentButton ELSE b.PreviousButton
        hold == IF press THEN 0 ELSE b.ButtonTicksHold
        since == IF click THEN 0 ELSE b.ButtonTicksSinceClick
    IN  [PreviousButton |-> prev, CurrentButton |-> b.CurrentButton,
         ButtonTicksHold |-> IF prev /\ b.CurrentButton THEN Cap(hold + 1) ELSE hold,
         ButtonTicksSinceClick |-> Cap(since + 1),
         PreviousClickEventType |->
             IF click THEN Remembered(b, t, cursor) ELSE b.PreviousClickEventType,
         MouseDownPosition |-> IF press THEN cursor ELSE b.MouseDownPosition,
         ClickPosition |-> IF click THEN cursor ELSE b.ClickPosition]

----------------------------------------------------------------------------
(* InternalHandleDwellClicking: d is the time and place of the stay, s the   *)
(* timeouts.  The result names the click that is queued, if any.             *)

NeverResets(s) == FALSE
SingleResets(s) == s.double = 0

InternalHandleDwellClicking(d, s, cursor, period) ==
    LET time == d.time + period
        stays == (cursor - d.position) * (cursor - d.position) <= s.radiusSqr
        fresh == [time |-> 0, position |-> cursor, queued |-> "none"]
        double == s.double # 0 /\ time >= s.double
        single == s.click # 0 /\ time >= s.click
    IN  IF s.click = 0 /\ s.double = 0 THEN [d EXCEPT !.queued = "none"]
        ELSE IF ~stays THEN fresh
        ELSE IF double THEN [fresh EXCEPT !.queued = "DOUBLE_CLICK"]
        ELSE IF single /\ SingleResets(s) THEN [fresh EXCEPT !.queued = "CLICK"]
        ELSE [d EXCEPT !.time = time, !.queued = IF single THEN "CLICK" ELSE "none"]
=============================================================================
