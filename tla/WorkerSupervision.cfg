\* One worker of any role; two troubles, each kind at most once.
SPECIFICATION FairSpec
CONSTANTS
    Troubles = {"crash", "late", "initfails", "silence", "peer", "linefault", "master"}
    MaxTroubles = 2
    MaxEpoch = 1
INVARIANTS TypeOK ReadyWorkerObeys
PROPERTIES WorkerSettles LineStopsWithoutWorker
CHECK_DEADLOCK FALSE
