SPECIFICATION FairSpec
CONSTANTS
    r1 = r1
    r2 = r2
    Requests = {r1, r2}
    Asks <- AnyAndShort
    Drivers = {"", "mysql", "postgres"}
INVARIANTS
    TypeOK
    DoneWroteAll
PROPERTIES
    StoppingDrains
    HttpStops
    GrpcStops
    ImplementsServing
