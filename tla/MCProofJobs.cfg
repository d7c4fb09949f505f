\* Job engine without id collisions: the store, its single writer per id
\* and the polls.  Clients and ids are interchangeable: symmetry.
CONSTANTS
    c1 = c1
    c2 = c2
    c3 = c3
    i1 = i1
    i2 = i2
    i3 = i3
    NoId = NoId
    BadHex = BadHex
    Clients <- MCClients
    Ids <- MCIds
    IdCollisions = FALSE
SYMMETRY Symmetry
SPECIFICATION Spec
INVARIANT TypeOK
INVARIANT StoreTracksOwnJob
INVARIANT PollSeesOwnJob
PROPERTY StoreEntryStable
