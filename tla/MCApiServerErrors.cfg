\* Spec section 7 (a): malformed input gets a client error.  Expected to
\* fail: the handlers panic or answer 500.
CONSTANTS
    c1 = c1
    c2 = c2
    i1 = i1
    i2 = i2
    NoId = NoId
    BadHex = BadHex
    Clients <- MCClients
    Ids <- MCIds
    Inputs <- MCFlawedInputs
    IdCollisions = FALSE
SPECIFICATION ApiSpec
INVARIANT ClientInputRejected
