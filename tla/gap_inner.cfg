SPECIFICATION Spec
CONSTANTS
    t1 = t1
    t2 = t2
    lk = lk
    buf = buf
    cfg = cfg
    ref = ref
    ioctl = ioctl
    step = step
    buf_release = buf_release
    tick = tick
    NoFunc = NoFunc
    NoRes = NoRes
    NoTask = NoTask
    Task = {t1}
    Func <- MCFunc
    Res <- MCRes
    Body <- InnerBody
    Outer = {lk, buf, ref}
    Closing = {buf_release}
    Width = 64
    Lock = {lk}
    Tolerant = {cfg}
    CanFail = {cfg}
    Entry = {ioctl}
    IrqEntry = {tick}
    CanFault <- InnerFaults
    UndoFaults = FALSE
    MaxDepth = 4
    MaxFaults = 1
    MaxIrqs = 0
INVARIANTS HalfExecutedUndone
