\* Handlers and job engine together: malformed input never reaches
\* send_proof, and a fulfilled job holds the proof
\* form its route promises.
CONSTANTS
    c1 = c1
    c2 = c2
    i1 = i1
    i2 = i2
    NoId = NoId
    BadHex = BadHex
    Clients <- MCClients
    Ids <- MCIds
    Inputs <- MCInputs
    IdCollisions = FALSE
SYMMETRY Symmetry
SPECIFICATION ApiSpec
INVARIANT MalformedInputCreatesNoJob
INVARIANT StoredProofMatchesRoute
