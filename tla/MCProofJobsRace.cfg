\* Each proof is made with its own job's circuit.  Expected to fail: two
\* tasks of different kinds interleave setup() and prove().
CONSTANTS
    c1 = c1
    c2 = c2
    c3 = c3
    i1 = i1
    i2 = i2
    i3 = i3
    NoId = NoId
    BadHex = BadHex
    Clients <- MCClients2
    Ids <- MCIds2
    IdCollisions = FALSE
SPECIFICATION Spec
INVARIANT ProofFromOwnCircuit
