\* A client polling its own id never gets another job's proof (spec section 3:
\* ids are unique).  Expected to fail when Uuid::new_v4 repeats an id.
CONSTANTS
    c1 = c1
    c2 = c2
    c3 = c3
    i1 = i1
    i2 = i2
    i3 = i3
    NoId = NoId
    BadHex = BadHex
    Clients <- MCClients2
    Ids <- MCIds2
    IdCollisions = TRUE
SPECIFICATION Spec
INVARIANT PollSeesOwnJob
