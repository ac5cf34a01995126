SPECIFICATION Spec
CONSTANTS
    Keys <- keys
    Values = {0, 1}
    Late <- late
    Settings <- settingsOfRequests
    Recording <- recordingParameters
    Default <- defaults
    Requests <- requests
    Frames = {f1, f2}
    None = None
INVARIANTS OutputIsOwn FrameReleasedOnce OwnSettings
PROPERTY RequestReturns
