\* The job engine implements the abstract job store of JobStore: three
\* clients, distinct ids, symmetry.
CONSTANTS
    c1 = c1
    c2 = c2
    c3 = c3
    i1 = i1
    i2 = i2
    i3 = i3
    NoId = NoId
    BadHex = BadHex
    Clients <- MCClients
    Ids <- MCIds
    IdCollisions = FALSE
SYMMETRY Symmetry
SPECIFICATION Spec
PROPERTY JobStoreSpec
