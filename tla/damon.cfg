SPECIFICATION DamonSpec
CONSTANTS
    Progs = {"memauditd", "synth"}
    NWrites = 2
    MaxStarts = 3
    MaxFaults = 2
INVARIANTS
    OwnMeasurement
    SlotReleased
    RestartRecovers
    TouchesMapped
CHECK_DEADLOCK FALSE
