\* Spec 4.2 (d): every job reaches a terminal status.  Expected to fail:
\* a proving error leaves the job Executing forever.
CONSTANTS
    c1 = c1
    c2 = c2
    c3 = c3
    i1 = i1
    i2 = i2
    i3 = i3
    NoId = NoId
    BadHex = BadHex
    Clients <- MCClients2
    Ids <- MCIds2
    IdCollisions = FALSE
SPECIFICATION Spec
PROPERTY JobResolves
