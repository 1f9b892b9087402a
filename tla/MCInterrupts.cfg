SPECIFICATION FairSpec
CONSTANTS
    Main = main
    Other = other
    Others = {other}
    Programs <- MCPrograms
INVARIANTS
    TypeOK
    HandlerReady
    ThreadsResume
PROPERTIES
    RequestsServed
CHECK_DEADLOCK FALSE
