------------------------------ MODULE ApiServer ------------------------------
(***************************************************************************)
(* The HTTP handlers of the proposer server (server.rs): request_span_proof,*)
(* request_agg_proof, their mock variants and validate_config, composed    *)
(* with the job engine of ProofJobs, whose send_proof the two proving      *)
(* routes end in and whose status poll runs beside them.                   *)
(*                                                                         *)
(* A handler is a sequence of steps, one per call that can fail or that    *)
(* awaits a collaborator (the data fetcher, the witness-generation         *)
(* process, the proving input builders, the L2 output oracle).  Other      *)
(* handlers and the background tasks interleave between the steps.  A      *)
(* collaborator may fail at any step (an Err turned into AppError, a 500). *)
(* Caller input is abstracted to the one way it is malformed, if any; an   *)
(* input flaw the code does not test for flows on like a good input.       *)
(***************************************************************************)
EXTENDS ProofJobs

CONSTANTS
    Inputs      \* the <<route, flaw>> pairs the clients may send

Routes == {"span", "agg", "mock_span", "mock_agg", "validate"}

\* The ways a request body can be malformed, by route.
\*   range:    end <= start                 (SpanProofRequest)
\*   subproof: a blob bincode cannot parse  (AggProofRequest.subproofs)
\*   empty:    no subproofs at all
\*   config:   subproofs of another rollup config
\*   prefix:   head lacks "0x"; hex: head is not hex; len: head is not 32 bytes
\*   address:  not an Ethereum address      (ValidateConfigRequest)
Flaws(r) ==
    CASE r \in {"span", "mock_span"} -> {"none", "range"}
      [] r \in {"agg", "mock_agg"} ->
            {"none", "subproof", "empty", "config", "prefix", "hex", "len"}
      [] r = "validate" -> {"none", "address"}

ASSUME InputsAssumption ==
    Inputs \subseteq UNION {{<<r, f>> : f \in Flaws(r)} : r \in Routes}

\* The steps of each handler, in the order the code runs them.
Steps(r) ==
    CASE r = "span" ->
            <<"fetcher", "hostargs", "witnessgen", "flush", "stdin", "send">>
      [] r = "mock_span" ->
            <<"fetcher", "hostargs", "witnessgen", "flush", "stdin", "mockprove">>
      [] r = "agg" ->
            <<"deserialize", "head", "fetcher", "headers", "aggstdin", "send">>
      [] r = "mock_agg" ->
            <<"deserialize", "head", "fetcher", "headers", "aggstdin", "mockprove">>
      [] r = "validate" -> <<"address", "oracle">>

\* ProofType of the job a proving route hands to send_proof.
KindOf(r) == IF r = "span" THEN "span" ELSE "agg"

Responses == {"pending", "id", "proof", "flags", "client_error", "server_error", "panic"}

VARIABLES
    route,      \* per client: the route it called, "none" before
    flaw,       \* per client: how its request body is malformed
    stage,      \* per client: the handler step next to run, "none" or "end"
    resp        \* per client: the response, "panic" when the handler panicked

apiVars == <<route, flaw, stage, resp>>
allVars == <<vars, apiVars>>

-----------------------------------------------------------------------------
ApiTypeOK ==
    /\ TypeOK
    /\ route \in [Clients -> Routes \cup {"none"}]
    /\ flaw \in [Clients -> UNION {Flaws(r) : r \in Routes}]
    /\ stage \in [Clients -> {"none", "end"} \cup UNION {Range(Steps(r)) : r \in Routes}]
    /\ resp \in [Clients -> Responses]

ApiInit ==
    /\ Init
    /\ route = [c \in Clients |-> "none"]
    /\ flaw = [c \in Clients |-> "none"]
    /\ stage = [c \in Clients |-> "none"]
    /\ resp = [c \in Clients |-> "pending"]

\* The step after s in handler r.
After(r, s) ==
    LET seq == Steps(r)
        i == CHOOSE j \in 1 .. Len(seq) - 1 : seq[j] = s
    IN  seq[i + 1]

\* Step s of client c succeeds and its handler moves on.
Advance(c, s) ==
    /\ stage[c] = s
    /\ stage' = [stage EXCEPT ![c] = After(route[c], s)]
    /\ UNCHANGED <<route, flaw, resp>>

\* Step s of client c ends the handler with response r.
Finish(c, s, r) ==
    /\ stage[c] = s
    /\ stage' = [stage EXCEPT ![c] = "end"]
    /\ resp' = [resp EXCEPT ![c] = r]
    /\ UNCHANGED <<route, flaw>>

\* A collaborator call awaited at step s: Ok moves on, Err is a 500.
Call(c, s) == Advance(c, s) \/ Finish(c, s, "server_error")

-----------------------------------------------------------------------------
\* A client posts a request body to a route.
Request(c, r, f) ==
    /\ stage[c] = "none"
    /\ route' = [route EXCEPT ![c] = r]
    /\ flaw' = [flaw EXCEPT ![c] = f]
    /\ stage' = [stage EXCEPT ![c] = Steps(r)[1]]
    /\ UNCHANGED <<resp, vars>>

\* OPSuccinctDataFetcher::new_with_rollup_config(..).await
CreateFetcher(c) == Call(c, "fetcher") /\ UNCHANGED vars

\* fetcher.get_host_cli_args(start, end, ..).await; the range is not checked.
GetHostCliArgs(c) == Call(c, "hostargs") /\ UNCHANGED vars

\* witnessgen_executor.spawn_witnessgen(&host_cli).await
SpawnWitnessgen(c) == Call(c, "witnessgen") /\ UNCHANGED vars

\* witnessgen_executor.flush().await: the process exits, fails or times out.
FlushWitnessgen(c) == Call(c, "flush") /\ UNCHANGED vars

\* get_proof_stdin(&host_cli)
GetProofStdin(c) == Call(c, "stdin") /\ UNCHANGED vars

\* bincode::deserialize(sp).unwrap() for every subproof, then the public
\* values read into BootInfoStructs: a blob that does not parse panics.
DeserializeSubproofs(c) ==
    /\ IF flaw[c] = "subproof"
       THEN Finish(c, "deserialize", "panic")
       ELSE Advance(c, "deserialize")
    /\ UNCHANGED vars

\* Faulty variant of DecodeL1Head: a head that is not hex decoded leniently
\* and let through.
DecodeL1HeadLenient(c) ==
    /\ CASE flaw[c] \in {"prefix", "len"} -> Finish(c, "head", "panic")
         [] OTHER -> Advance(c, "head")
    /\ UNCHANGED vars

\* head.strip_prefix("0x").expect(..) panics, hex::decode(..)? is a 500,
\* l1_head_bytes.try_into().unwrap() panics on a length other than 32.
DecodeL1Head(c) ==
    /\ CASE flaw[c] \in {"prefix", "len"} -> Finish(c, "head", "panic")
         [] flaw[c] = "hex" -> Finish(c, "head", "server_error")
         [] OTHER -> Advance(c, "head")
    /\ UNCHANGED vars

\* fetcher.get_header_preimages(&boot_infos, l1_head).await
GetHeaderPreimages(c) == Call(c, "headers") /\ UNCHANGED vars

\* get_agg_proof_stdin(proofs, boot_infos, headers, &range_vk, l1_head)
GetAggProofStdin(c) == Call(c, "aggstdin") /\ UNCHANGED vars

\* Faulty variant of SendProof: every route dispatched as ProofType::Span.
SendProofAsSpan(c) ==
    /\ stage[c] = "send"
    /\ Dispatch(c, "span")
    /\ stage' = [stage EXCEPT ![c] = "end"]
    /\ resp' = [resp EXCEPT ![c] = "id"]
    /\ UNCHANGED <<route, flaw>>

\* send_proof(ProofType, ..).await? and the ProofResponse with the id.
SendProof(c) ==
    /\ stage[c] = "send"
    /\ Dispatch(c, KindOf(route[c]))
    /\ stage' = [stage EXCEPT ![c] = "end"]
    /\ resp' = [resp EXCEPT ![c] = "id"]
    /\ UNCHANGED <<route, flaw>>

\* A fresh mock ProverClient proves in the request: the proof is returned
\* inline, or its error is a 500.  The shared prover and the store are not
\* touched.
MockProve(c) ==
    /\ \/ Finish(c, "mockprove", "proof")
       \/ Finish(c, "mockprove", "server_error")
    /\ UNCHANGED vars

\* validate_config: Address::from_str(&payload.address).unwrap()
ParseAddress(c) ==
    /\ IF flaw[c] = "address"
       THEN Finish(c, "address", "panic")
       ELSE Advance(c, "address")
    /\ UNCHANGED vars

\* validate_config: the three oracle calls, each `?`, and the three flags
\* compared against the hashes fixed at start-up.
ReadOracle(c) ==
    /\ \/ Finish(c, "oracle", "flags")
       \/ Finish(c, "oracle", "server_error")
    /\ UNCHANGED vars

-----------------------------------------------------------------------------
HandlerStep(c) ==
    \/ CreateFetcher(c)
    \/ GetHostCliArgs(c)
    \/ SpawnWitnessgen(c)
    \/ FlushWitnessgen(c)
    \/ GetProofStdin(c)
    \/ DeserializeSubproofs(c)
    \/ DecodeL1Head(c)
    \/ GetHeaderPreimages(c)
    \/ GetAggProofStdin(c)
    \/ SendProof(c)
    \/ MockProve(c)
    \/ ParseAddress(c)
    \/ ReadOracle(c)

ApiNext ==
    \E c \in Clients :
        \/ \E i \in Inputs : Request(c, i[1], i[2])
        \/ HandlerStep(c)
        \/ TaskStep(c) /\ UNCHANGED apiVars
        \/ \E t \in Ids \cup {BadHex} : GetProofStatus(c, t) /\ UNCHANGED apiVars

\* The spawned tasks are weakly fair (tokio runs them); handlers awaiting a
\* collaborator with no timeout need not progress.
ApiFairness == \A c \in Clients : WF_allVars(TaskStep(c) /\ UNCHANGED apiVars)

ApiSpec == ApiInit /\ [][ApiNext]_allVars /\ ApiFairness

-----------------------------------------------------------------------------
(***************************************************************************)
(* Properties.                                                             *)
(***************************************************************************)
\* Spec section 7 (a): a malformed request is rejected, never accepted and
\* never a crash of its handler.  A 500 is allowed, since any collaborator
\* may fail on its own (taxonomy (b)).
ClientInputRejected ==
    \A c \in Clients :
        flaw[c] # "none" /\ stage[c] = "end" =>
            resp[c] \in {"client_error", "server_error"}

\* A request whose body the code can tell is malformed (an unparsable
\* subproof, a bad head, a bad address) never creates a job: the handler
\* stops before send_proof (spec section 7 (a) and (c)).
MalformedInputCreatesNoJob ==
    \A c \in Clients :
        flaw[c] \in {"subproof", "prefix", "hex", "len"} => jobId[c] = NoId

\* A fulfilled job holds the proof its route promises the caller: a
\* request_span_proof caller gets a compressed span proof (the bincode bytes
\* the aggregation route later takes as a sub-proof), a request_agg_proof
\* caller a Groth16 proof for the on-chain verifier; the mock routes never
\* create a job.  It takes the route's ProofType at send_proof (190-197,
\* 268), the task's builder for that type (547, 581-599) and its store write
\* (626) to agree; a handler that hands send_proof the wrong ProofType, or a
\* task that picks the wrong builder, breaks it.  It says nothing of the
\* circuit the proof is made with (see ProofFromOwnCircuit).
StoredProofMatchesRoute ==
    \A c \in Clients :
        /\ jobId[c] # NoId => route[c] \in {"span", "agg"}
        /\ jobId[c] \in DOMAIN store /\ store[jobId[c]].ful = 3 =>
              store[jobId[c]].proof[1].form =
                  IF route[c] = "span" THEN "compressed" ELSE "groth16"

(***************************************************************************)
(* The inductive invariant behind MalformedInputCreatesNoJob and           *)
(* StoredProofMatchesRoute (proved in ApiServerProofs).  A client has a    *)
(* route exactly when its handler started; its body's flaw is one its      *)
(* route's type admits and its handler is at one of its route's steps or   *)
(* has ended; a handler answers only at its end; a job exists only for a   *)
(* handler that ended in send_proof, and a body flaw the code detects      *)
(* keeps the handler short of send_proof.                                  *)
(***************************************************************************)
DetectedFlaws == {"subproof", "prefix", "hex", "len"}

HandlerShape ==
    \A c \in Clients :
        /\ route[c] = "none" <=> stage[c] = "none"
        /\ route[c] # "none" =>
              /\ flaw[c] \in Flaws(route[c])
              /\ stage[c] \in Range(Steps(route[c])) \cup {"end"}
        /\ route[c] = "none" => flaw[c] = "none"
        /\ stage[c] # "end" => resp[c] = "pending"

JobOnlyAfterSend ==
    \A c \in Clients :
        jobId[c] # NoId =>
            /\ stage[c] = "end"
            /\ route[c] \in {"span", "agg"}
            /\ resp[c] = "id"
            /\ kind[c] = KindOf(route[c])

FlawStopsHandler ==
    \A c \in Clients :
        flaw[c] \in DetectedFlaws =>
            /\ stage[c] \in {"deserialize", "head", "end"}
            /\ flaw[c] = "subproof" => stage[c] # "head"
            /\ resp[c] # "id"

AInv ==
    /\ TypeInv
    /\ ApiTypeOK
    /\ HandlerShape
    /\ JobOnlyAfterSend
    /\ FlawStopsHandler

=============================================================================
