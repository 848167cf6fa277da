SPECIFICATION ShipperSpec
CONSTANTS
    MaxSegs = 1
    Date <- ForwardClock
    SegSizes = {1}
    Faults = {}
    MaxFaults = 0
    MinBackoff = 1
    MaxBackoff = 1
    UrlOK = FALSE
PROPERTIES
    RunReturnsOnCancel
