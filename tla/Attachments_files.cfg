SPECIFICATION FairSpec
CONSTANTS
    Keys = {k1}
    Handlers = {h1, h2, h3}
    Ttl = 2
INVARIANTS TypeOK LinksExpire OrphansAreExplained
PROPERTY RemovedIsErased
