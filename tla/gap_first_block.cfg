SPECIFICATION Spec
CONSTANTS
    get = get
    put = put
    mutex_lock = mutex_lock
    mutex_unlock = mutex_unlock
    printk = printk
    pr_debug = pr_debug
    is_err = is_err
    ptr_err = ptr_err
    use = use
    p = p
    q = q
    l = l
    rc = rc
    ret = ret
    Five = Five
    Value = Value
    out = out
    err = err
    Fn = {get, put, mutex_lock, mutex_unlock, printk, pr_debug, is_err, ptr_err, use, out, err}
    NoFn = NoFn
    Token = {p, q, l, rc, ret, Five, Value}
    NoTok = NoTok
    Part = {}
    LockOf <- MCLockOf
    irqrestore = irqrestore
    Uncalled = {out, err}
    Frees = {}
    Allocs = {}
    Similarity <- MCSimilarity
    IsErr = {is_err}
    Negative = {Five, Value}
    Literals = {Five}
    Printk = {printk}
    Debug = {pr_debug}
    Prints = {printk}
    EndsInRc = {rc}
    Sources <- MCSources
INVARIANT EveryBlockCounts
CHECK_DEADLOCK FALSE
