SPECIFICATION Spec
CONSTANTS
    kfree_a = kfree_a
    kzfree_b = kzfree_b
    reset = reset
    count = count
    log = log
    brk = brk
    loop = loop
    lock = lock
    wait = wait
    assign = assign
    ret = ret
    ret_inval = ret_inval
    labelled = labelled
    macro = macro
    err_a = err_a
    out = out
    NoLabel = NoLabel
    NoBlock = NoBlock
    Text <- MCText
    Kind <- MCKind
    Direct <- MCDirect
    Known = {kfree_a}
    ErrorSets <- MCErrorSets
    Paired = {kfree_a, kzfree_b}
    InMacro = {macro}
    Taken = {kfree_a}
    Label = {err_a, out}
    ErrLabel = {err_a}
    Programs <- MCPrograms
INVARIANTS EInv EHCTypeOK VerdictByPrefix LostOnlyBehindDenied NothingNumberedTwice
PROPERTIES FiltersOnly
CHECK_DEADLOCK FALSE
