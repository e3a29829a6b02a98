SPECIFICATION FairSpec
CONSTANTS
    n1 = n1
    n2 = n2
    g1 = g1
    g2 = g2
    g3 = g3
    NoName = NoName
    Requests = {r1, r2, r3}
    Names = {n1, n2, g1, g2, g3}
    Generated = {g1, g2, g3}
    Messages <- Asked
    Fixture <- Stocked
CHECK_DEADLOCK FALSE
INVARIANT ValidSpecs
PROPERTIES StoreSpec AnsweredUnlessNull
