\* Demo wallet, boot connect and one operator request, two intents.
CONSTANTS
    boot = boot
    post1 = post1
    post2 = post2
    None = None
    Connectors <- OnePost
    Boot = boot
    MaxIntents = 2
    DemoEnv = TRUE
    Expiring = FALSE
SPECIFICATION Spec
INVARIANTS TypeOK HonestReports LiveSessionIsOpen
PROPERTIES NothingHangs
CHECK_DEADLOCK FALSE
