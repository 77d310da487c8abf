SPECIFICATION Spec
CONSTANTS
    fcm = fcm
    plan = plan
    objs = objs
    traj = traj
    front = front
    left = left
    host = host
    Procs = {fcm, plan}
    Signals = {objs, traj}
    Lanes = {front, left}
    FrontLane = front
    Host = host
    Consumer <- MCConsumer
    Bindings <- MCBindings
    InitDoc <- MCInitDoc
    Limit = 1
    MaxEdits = 2
    MaxFaults = 1
INVARIANTS
    WiresLand
    CleanIsOnDisk
    DiskIsWhole
    CanvasShowsSession
