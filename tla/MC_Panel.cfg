SPECIFICATION Spec
CONSTANTS
    Layouts = {la, lb}
    EmptyLayout = EmptyLayout
    NoLayout = NoLayout
    Modes = {"Default", "Custom"}
    Kinds = {"Departures", "Offline"}
    NoScreen = NoScreen
    NoTimer = NoTimer
    PreviewTtl = 2
    Refresh = 3
    FrameTime = 1
    PassFrames = 2
    FrameWrap = 3
    MaxScreens = 3
    MaxRequests = 2
INVARIANTS
    TypeOK
    PanelIsCurrent
    WakesInTime
PROPERTIES
    TramCompletesPass
