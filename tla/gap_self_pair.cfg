SPECIFICATION Spec
CONSTANTS
    kfree = kfree
    kfree_skb = kfree_skb
    kmalloc = kmalloc
    kstrdup = kstrdup
    get = get
    put = put
    mutex_lock = mutex_lock
    mutex_unlock = mutex_unlock
    unlock_irq = unlock_irq
    use = use
    undo = undo
    ops_get = ops_get
    p = p
    q = q
    n = n
    l = l
    ll = ll
    Fn = {kfree, kfree_skb, kmalloc, kstrdup, get, put, mutex_lock, mutex_unlock, unlock_irq, use, undo, ops_get}
    Uncalled = {ops_get}
    NoFn = NoFn
    Token = {p, q, n, l, ll}
    NoTok = NoTok
    Part <- MCPart
    Database <- MCDatabase
    LockOf <- MCLockOf
    irqrestore = unlock_irq
    Frees = {kfree}
    Allocs = {kmalloc}
    Kfrees = {kfree, kfree_skb}
    Keyworded = {ops_get}
    Similarity <- MCSimilarity
    Some = 2
    Many = 4
    Functions <- MCFunctions
INVARIANT NotItsOwnPair
CHECK_DEADLOCK FALSE
