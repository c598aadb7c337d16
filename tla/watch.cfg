SPECIFICATION FairSpec
CONSTANTS
    cards = cards
    rents = rents
    get1 = get1
    get2 = get2
    get3 = get3
    stream1 = stream1
    Queries = {cards}
    Reads = {get1, get2, stream1}
    Streams = {stream1}
    QueryOf <- MCQueryOf
    MaxCommits = 1
    MaxFaults = 1
INVARIANTS TypeOK TrackerIsConsistent OutstandingIsExact TokenIsHonest GetIsFresh
PROPERTIES GetIsAnswered
CHECK_DEADLOCK FALSE
