\* Live account: connect() does not sync the wallet; two operator requests.
CONSTANTS
    boot = boot
    post1 = post1
    post2 = post2
    None = None
    Connectors <- TwoPosts
    Boot = boot
    MaxIntents = 2
    DemoEnv = FALSE
    Expiring = FALSE
SYMMETRY Requests
SPECIFICATION Spec
INVARIANT LedgerReconciled
CHECK_DEADLOCK FALSE
