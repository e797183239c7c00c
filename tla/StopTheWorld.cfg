CONSTANTS
    Threads = {t1, t2, t3}
    NoThread = NoThread
    UseOps = {"safepoint"}
SPECIFICATION FairSpec
INVARIANTS
    TypeOK
    PausedIsParked
    WorldStopped
    NoLostWakeup
PROPERTIES
    MembershipFrozen
    StopEnds
    WaitersReturn
