SPECIFICATION CoordSpec
CONSTANTS
    Tasks = {"t1", "t2", "t3", "t4"}
    Size = 2
    MaxQueue = 1
    MaxFaults = 1
    MayExit = TRUE
    None = None
CHECK_DEADLOCK FALSE
INVARIANTS LocksSound DeadlocksForeseen MessagesSound MeshSound BestJobFirst
PROPERTIES LinesKept StepsInOrder HubWaitsEnd DeadlocksBroken JobsAccounted QueuesServed PoolImplements GatesSound ServersSound WorkEnds
