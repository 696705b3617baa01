CONSTANTS
    Devices = {d1, d2}
    TimeModulus = 6
    Window = 2
    MinPercent = 64
    Headings <- SomeHeadings
    MaxReadings = 3
    MaxResults = 1
SPECIFICATION Spec
SYMMETRY DeviceSymmetry
INVARIANTS
    TypeOK
    WindowMatchesLog
    HistoryIsSuffix
    AlertsAccounted
    FalseTriggerIsOffCourse
CHECK_DEADLOCK FALSE
