SPECIFICATION Spec
CONSTANTS
    p1 = p1 p2 = p2
    Handles = {p1, p2}
    ResolutionX <- MCResolution
    Widths = {2, 3}
    Positions <- MCPositions
    Moves <- MCMoves
    PollTimes = {0, 20000000}
    PollMask <- MCPollMask
    NotReady = NotReady
    Setups <- MCSetups
    MaxInstances = 2
    MAX_CLICK_DURATION = 20
    MAX_DOUBLE_CLICK_SPEED = 20
    MINIMAL_MOVEMENT = 0
    mUiScale = 1
    mPointerSpeedMul = 1
    mPointerSpeedDiv = 1
    TickCap = 3
INVARIANTS TypeOK  ButtonsReported ClicksAreShort  PresentIsListed
PROPERTIES DoubleClicksApart DwellClicksSpaced
