---------------------------- MODULE MCApiServer ----------------------------
(***************************************************************************)
(* ApiServer for TLC: two clients, each sending one request drawn from a   *)
(* set of inputs that reaches every handler step and every early exit.     *)
(***************************************************************************)
EXTENDS ApiServer, TLC

CONSTANTS c1, c2, i1, i2

MCClients == {c1, c2}
MCIds == {i1, i2}

\* Good requests to every route, and each flaw the code reacts to.
MCInputs ==
    { <<"span", "none">>, <<"agg", "none">>, <<"mock_span", "range">>,
      <<"mock_agg", "none">>, <<"agg", "hex">>, <<"agg", "prefix">>,
      <<"mock_agg", "len">>, <<"agg", "subproof">>,
      <<"validate", "none">>, <<"validate", "address">> }

\* One malformed request per flaw, for the client-error run.
MCFlawedInputs ==
    { <<"span", "range">>, <<"agg", "subproof">>, <<"agg", "empty">>,
      <<"agg", "config">>, <<"agg", "prefix">>, <<"agg", "hex">>,
      <<"agg", "len">>, <<"validate", "address">> }

Symmetry == Permutations(MCClients) \cup Permutations(MCIds)

=============================================================================
