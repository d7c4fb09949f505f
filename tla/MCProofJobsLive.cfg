\* Progress of the background tasks under weak fairness, two clients.
CONSTANTS
    c1 = c1
    c2 = c2
    c3 = c3
    i1 = i1
    i2 = i2
    i3 = i3
    NoId = NoId
    BadHex = BadHex
    Clients <- MCClients2
    Ids <- MCIds2
    IdCollisions = FALSE
SPECIFICATION Spec
PROPERTY JobResolvesUnlessProvingFails
