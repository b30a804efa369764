SPECIFICATION Spec
CONSTANTS
    Layouts = {la, lb}
    EmptyLayout = EmptyLayout
    NoLayout = NoLayout
    Modes = {"Default", "Custom"}
    Kinds = {"Departures"}
    NoScreen = NoScreen
    NoTimer = NoTimer
    PreviewTtl = 2
    Refresh = 3
    FrameTime = 1
    PassFrames = 2
    FrameWrap = 3
    MaxScreens = 3
    MaxRequests = 2
PROPERTY RevertsOnlyExpired
