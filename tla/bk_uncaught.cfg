SPECIFICATION Spec
CONSTANTS
    t1 = t1
    t2 = t2
    lk = lk
    buf = buf
    cfg = cfg
    ref = ref
    ioctl = ioctl
    step = step
    buf_release = buf_release
    tick = tick
    NoFunc = NoFunc
    NoRes = NoRes
    NoTask = NoTask
    Task <- MCTasks
    Func <- MCFunc
    Res <- MCRes
    Body <- UncaughtBody
    Outer = {lk, buf, ref}
    Closing = {buf_release}
    Width = 64
    Lock = {lk}
    Tolerant = {cfg}
    CanFail = {lk}
    Entry = {ioctl}
    IrqEntry = {tick}
    CanFault <- UncaughtFaults
    UndoFaults = TRUE
    MaxDepth = 4
    MaxFaults = 3
    MaxIrqs = 1
SYMMETRY Symmetry
INVARIANTS EveryInv SetForAReason FaultFreeUntouched
CHECK_DEADLOCK FALSE
