SPECIFICATION ArchivalSpec
CHECK_DEADLOCK FALSE
CONSTANTS
    Datapoint = {"d1", "d2"}
    Archiver = {"a1", "a2"}
    Instant = {"t1", "t2"}
INVARIANTS
    NeverPurged
