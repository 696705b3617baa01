CONSTANTS
    Devices = {d1}
    TimeModulus = 6
    Window = 2
    MinPercent = 64
    Headings <- SomeHeadings
    MaxReadings = 2
    MaxResults = 0
SPECIFICATION Spec
INVARIANT WindowHoldsNewest
CHECK_DEADLOCK FALSE
