SPECIFICATION ShipperSpec
CONSTANTS
    MaxSegs = 3
    Date <- ThirdBetween
    SegSizes = {1}
    Faults = {"shipList", "shipRead", "shipRemove"}
    MaxFaults = 2
    MinBackoff = 2
    MaxBackoff = 5
    UrlOK = TRUE
INVARIANTS
    ShippedIsIngested
PROPERTIES
    ShipsInOrder
    RunReturnsOnCancel
    EverySegmentGoes
