--------------------------- MODULE ApiServerProofs ---------------------------
(***************************************************************************)
(* Proofs about ApiServer, the HTTP handlers composed with the job engine: *)
(* that malformed bodies the code detects never create a job, and that    *)
(* every job is of its route's kind, through the inductive invariant AInv. *)
(* The job engine's own invariants come from ProofJobsProofs: every step  *)
(* of the composition is a step of ProofJobs or leaves its state alone.   *)
(***************************************************************************)
EXTENDS ApiServer, ProofJobsProofs, TLAPS

\* The steps each handler runs.
LEMMA StepsRange ==
    /\ Range(Steps("span")) =
          {"fetcher", "hostargs", "witnessgen", "flush", "stdin", "send"}
    /\ Range(Steps("mock_span")) =
          {"fetcher", "hostargs", "witnessgen", "flush", "stdin", "mockprove"}
    /\ Range(Steps("agg")) =
          {"deserialize", "head", "fetcher", "headers", "aggstdin", "send"}
    /\ Range(Steps("mock_agg")) =
          {"deserialize", "head", "fetcher", "headers", "aggstdin", "mockprove"}
    /\ Range(Steps("validate")) = {"address", "oracle"}
  BY DEF Range, Steps

\* The step each handler runs after each of its steps but the last.
LEMMA AfterValues ==
    /\ \A r \in {"span", "mock_span"} :
          /\ After(r, "fetcher") = "hostargs"
          /\ After(r, "hostargs") = "witnessgen"
          /\ After(r, "witnessgen") = "flush"
          /\ After(r, "flush") = "stdin"
          /\ After(r, "stdin") = IF r = "span" THEN "send" ELSE "mockprove"
    /\ \A r \in {"agg", "mock_agg"} :
          /\ After(r, "deserialize") = "head"
          /\ After(r, "head") = "fetcher"
          /\ After(r, "fetcher") = "headers"
          /\ After(r, "headers") = "aggstdin"
          /\ After(r, "aggstdin") = IF r = "agg" THEN "send" ELSE "mockprove"
    /\ After("validate", "address") = "oracle"
  BY DEF After, Steps

\* The first step of each handler.
LEMMA StepsFirst ==
    /\ \A r \in {"span", "mock_span"} : Steps(r)[1] = "fetcher"
    /\ \A r \in {"agg", "mock_agg"} : Steps(r)[1] = "deserialize"
    /\ Steps("validate")[1] = "address"
  BY DEF Steps

\* The values the handler variables range over, written out.
FlawValues == {"none", "range", "subproof", "empty", "config", "prefix", "hex",
               "len", "address"}
StageValues == {"none", "end", "fetcher", "hostargs", "witnessgen", "flush",
                "stdin", "send", "mockprove", "deserialize", "head", "headers",
                "aggstdin", "address", "oracle"}

LEMMA ValueSets ==
    /\ UNION {Flaws(r) : r \in Routes} = FlawValues
    /\ {"none", "end"} \cup UNION {Range(Steps(r)) : r \in Routes} = StageValues
  <1>1. UNION {Flaws(r) : r \in Routes} = FlawValues
    BY DEF Flaws, Routes, FlawValues
  <1>2. {"none", "end"} \cup UNION {Range(Steps(r)) : r \in Routes} = StageValues
    BY StepsRange DEF Routes, StageValues
  <1>3. QED
    BY <1>1, <1>2

(***************************************************************************)
(* AInv client by client: what AInv says of one client's handler and job. *)
(***************************************************************************)
ClientBody(d) ==
    /\ route[d] = "none" <=> stage[d] = "none"
    /\ route[d] # "none" =>
          /\ flaw[d] \in Flaws(route[d])
          /\ stage[d] \in Range(Steps(route[d])) \cup {"end"}
    /\ route[d] = "none" => flaw[d] = "none"
    /\ stage[d] # "end" => resp[d] = "pending"
    /\ jobId[d] # NoId =>
          /\ stage[d] = "end"
          /\ route[d] \in {"span", "agg"}
          /\ resp[d] = "id"
          /\ kind[d] = KindOf(route[d])
    /\ flaw[d] \in DetectedFlaws =>
          /\ stage[d] \in {"deserialize", "head", "end"}
          /\ flaw[d] = "subproof" => stage[d] # "head"
          /\ resp[d] # "id"

ApiFunctions ==
    /\ route \in [Clients -> Routes \cup {"none"}]
    /\ flaw \in [Clients -> FlawValues]
    /\ stage \in [Clients -> StageValues]
    /\ resp \in [Clients -> Responses]

AInvAlt == TypeInv /\ ApiFunctions /\ \A d \in Clients : ClientBody(d)

LEMMA AInvIff == (AInv <=> AInvAlt) /\ (AInv' <=> AInvAlt')
  BY ValueSets
     DEF AInv, AInvAlt, ApiTypeOK, ApiFunctions, ClientBody, TypeInv,
         HandlerShape, JobOnlyAfterSend, FlawStopsHandler

\* A step that leaves one client's handler and job alone keeps what AInv
\* says of that client.
LEMMA ClientFrame ==
    ASSUME NEW d, ClientBody(d),
           route'[d] = route[d], flaw'[d] = flaw[d], stage'[d] = stage[d],
           resp'[d] = resp[d], jobId'[d] = jobId[d], kind'[d] = kind[d]
    PROVE  ClientBody(d)'
  BY DEF ClientBody

(***************************************************************************)
(* Every step of the composition is a step of the job engine or leaves    *)
(* the job engine's state alone: the handlers touch it only through       *)
(* send_proof.                                                            *)
(***************************************************************************)
LEMMA HandlerStepIsJobStep ==
    ASSUME NEW c \in Clients, HandlerStep(c)
    PROVE  [Next]_vars
  <1>1. CASE SendProof(c)
    <2>1. KindOf(route[c]) \in Kinds
      BY DEF KindOf, Kinds
    <2>2. QED
      BY <1>1, <2>1 DEF SendProof, Next
  <1>2. CASE ~SendProof(c)
    BY <1>2 DEF HandlerStep, CreateFetcher, GetHostCliArgs, SpawnWitnessgen,
               FlushWitnessgen, GetProofStdin, DeserializeSubproofs,
               DecodeL1Head, GetHeaderPreimages, GetAggProofStdin, MockProve,
               ParseAddress, ReadOracle, vars
  <1>3. QED
    BY <1>1, <1>2

LEMMA ApiNextIsJobStep == [ApiNext]_allVars => [Next]_vars
  <1> SUFFICES ASSUME [ApiNext]_allVars PROVE [Next]_vars
    OBVIOUS
  <1>1. CASE UNCHANGED allVars
    BY <1>1 DEF allVars, vars
  <1>2. CASE ApiNext
    <2>1. PICK c \in Clients :
             \/ \E i \in Inputs : Request(c, i[1], i[2])
             \/ HandlerStep(c)
             \/ TaskStep(c) /\ UNCHANGED apiVars
             \/ \E t \in Ids \cup {BadHex} : GetProofStatus(c, t) /\ UNCHANGED apiVars
      BY <1>2 DEF ApiNext
    <2>2. CASE \E i \in Inputs : Request(c, i[1], i[2])
      BY <2>2 DEF Request, vars
    <2>3. CASE HandlerStep(c)
      BY <2>3, HandlerStepIsJobStep
    <2>4. CASE TaskStep(c) /\ UNCHANGED apiVars
      BY <2>4 DEF Next
    <2>5. CASE \E t \in Ids \cup {BadHex} : GetProofStatus(c, t) /\ UNCHANGED apiVars
      BY <2>5 DEF Next
    <2>6. QED
      BY <2>1, <2>2, <2>3, <2>4, <2>5
  <1>3. QED
    BY <1>1, <1>2

(***************************************************************************)
(* A handler step of client c that leaves the job engine alone: moving on *)
(* to the next step, or answering.                                         *)
(***************************************************************************)
\* Moving on from a step other than the last.  A body with a detected flaw
\* moves on only from the sub-proof check, and only when the flaw is in
\* the head.
LEMMA AdvanceKeeps ==
    ASSUME AInvAlt, NEW c \in Clients, NEW s,
           s \notin {"none", "end", "send", "mockprove", "oracle"},
           Advance(c, s), UNCHANGED vars,
           flaw[c] \in DetectedFlaws => s = "deserialize" /\ flaw[c] # "subproof"
    PROVE  ClientBody(c)' /\ stage'[c] \in StageValues
  <1>0. ClientBody(c) /\ route[c] \in Routes \cup {"none"}
    BY DEF AInvAlt, ApiFunctions
  <1>1. stage[c] = s /\ route[c] \in Routes /\ s \in Range(Steps(route[c]))
        /\ jobId[c] = NoId /\ resp[c] = "pending"
    BY <1>0 DEF ClientBody, Advance
  <1>2. stage'[c] = After(route[c], s)
    BY <1>1 DEF AInvAlt, ApiFunctions, Advance
  <1>3. After(route[c], s) \in Range(Steps(route[c]))
    BY <1>1, StepsRange, AfterValues DEF Routes
  <1>4. flaw[c] \in DetectedFlaws => After(route[c], s) = "head"
    BY <1>1, StepsRange, AfterValues DEF Routes
  <1>5. QED
    BY <1>1, <1>2, <1>3, <1>4, StepsRange, ValueSets
       DEF AInvAlt, ApiFunctions, ClientBody, Advance, vars, Routes

\* Answering from a step with anything but a job id.
LEMMA FinishKeeps ==
    ASSUME AInvAlt, NEW c \in Clients, NEW s, s \notin {"none", "end"},
           NEW r \in Responses \ {"id"}, Finish(c, s, r), UNCHANGED vars
    PROVE  ClientBody(c)'
  <1>0. ClientBody(c)
    BY DEF AInvAlt
  <1>1. stage[c] = s /\ route[c] # "none" /\ jobId[c] = NoId
    BY <1>0 DEF ClientBody, Finish
  <1>2. /\ stage'[c] = "end" /\ resp'[c] = r /\ route' = route /\ flaw' = flaw
        /\ jobId' = jobId /\ kind' = kind
    BY DEF AInvAlt, ApiFunctions, Finish, vars
  <1>3. QED
    BY <1>0, <1>1, <1>2 DEF ClientBody

\* A client posts a body: the handler starts at its first step, and a body
\* flaw the code detects is one of an agg route, which starts with the
\* sub-proof check.
LEMMA RequestKeeps ==
    ASSUME AInvAlt, NEW c \in Clients, NEW i \in Inputs, Request(c, i[1], i[2])
    PROVE  /\ ClientBody(c)'
           /\ route'[c] \in Routes /\ flaw'[c] \in FlawValues
           /\ stage'[c] \in StageValues
  <1>1. PICK r, f : r \in Routes /\ f \in Flaws(r) /\ i = <<r, f>>
    BY InputsAssumption
  <1>2. ClientBody(c) /\ stage[c] = "none"
    BY <1>1 DEF AInvAlt, Request
  <1>3. route[c] = "none" /\ flaw[c] = "none" /\ jobId[c] = NoId
        /\ resp[c] = "pending"
    BY <1>2 DEF ClientBody
  <1>4. /\ route'[c] = r /\ flaw'[c] = f /\ stage'[c] = Steps(r)[1]
        /\ resp' = resp /\ jobId' = jobId /\ kind' = kind
    BY <1>1 DEF AInvAlt, ApiFunctions, Request, vars
  <1>5. Steps(r)[1] \in Range(Steps(r)) /\ Steps(r)[1] \in StageValues
    BY <1>1, StepsRange, StepsFirst DEF Routes, StageValues
  <1>6. f \in DetectedFlaws => Steps(r)[1] = "deserialize"
    BY <1>1, StepsFirst DEF Flaws, Routes, DetectedFlaws
  <1>7. f \in FlawValues
    BY <1>1, ValueSets
  <1>8. r # "none" /\ Steps(r)[1] \notin {"none", "end"}
    BY <1>1, StepsFirst DEF Routes
  <1>9. QED
    BY <1>1, <1>3, <1>4, <1>5, <1>6, <1>7, <1>8 DEF ClientBody

\* send_proof: only a span or agg handler with an undetected flaw gets
\* there; the job it creates is of its route's kind and the handler
\* answers with the id.  No other client's job changes.
LEMMA SendProofKeeps ==
    ASSUME AInvAlt, NEW c \in Clients, SendProof(c)
    PROVE  /\ ClientBody(c)'
           /\ stage'[c] = "end" /\ resp'[c] = "id"
           /\ route' = route /\ flaw' = flaw
           /\ \A d \in Clients \ {c} : jobId'[d] = jobId[d] /\ kind'[d] = kind[d]
  <1>1. ClientBody(c) /\ stage[c] = "send" /\ route[c] \in Routes \cup {"none"}
    BY DEF AInvAlt, ApiFunctions, SendProof
  <1>2. route[c] \in {"span", "agg"} /\ flaw[c] \notin DetectedFlaws
    BY <1>1, StepsRange DEF ClientBody, Routes
  <1>3. /\ jobId'[c] \in Ids /\ kind'[c] = KindOf(route[c])
        /\ \A d \in Clients \ {c} : jobId'[d] = jobId[d] /\ kind'[d] = kind[d]
    BY DEF AInvAlt, TypeInv, TypeOK, SendProof, Dispatch, FreshIds
  <1>4. jobId'[c] # NoId
    BY <1>3, ConstantsAssumption
  <1>5. stage'[c] = "end" /\ resp'[c] = "id" /\ route' = route /\ flaw' = flaw
    BY DEF AInvAlt, ApiFunctions, SendProof
  <1>6. QED
    BY <1>1, <1>2, <1>3, <1>4, <1>5 DEF ClientBody

(***************************************************************************)
(* A step that changes only client c's handler keeps AInv once it keeps   *)
(* what AInv says of c.                                                   *)
(***************************************************************************)
LEMMA LocalStepKeeps ==
    ASSUME AInvAlt, NEW c \in Clients, ClientBody(c)',
           UNCHANGED vars, route' = route, flaw' = flaw,
           stage' \in [Clients -> StageValues], resp' \in [Clients -> Responses],
           \A d \in Clients \ {c} : stage'[d] = stage[d] /\ resp'[d] = resp[d]
    PROVE  AInvAlt'
  <1>1. TypeInv'
    BY DEF AInvAlt, TypeInv, TypeOK, IdGivenIffSpawned, vars
  <1>2. \A d \in Clients \ {c} : ClientBody(d)'
    BY ClientFrame DEF AInvAlt, vars
  <1>3. QED
    BY <1>1, <1>2 DEF AInvAlt, ApiFunctions

\* A handler moving on from step s, and a handler answering at step s.
LEMMA AdvanceStep ==
    ASSUME AInvAlt, NEW c \in Clients, NEW s,
           s \notin {"none", "end", "send", "mockprove", "oracle"},
           Advance(c, s), UNCHANGED vars,
           flaw[c] \in DetectedFlaws => s = "deserialize" /\ flaw[c] # "subproof"
    PROVE  AInvAlt'
  <1>1. ClientBody(c)' /\ stage'[c] \in StageValues
    BY AdvanceKeeps
  <1>2. stage' \in [Clients -> StageValues]
    BY <1>1 DEF AInvAlt, ApiFunctions, Advance
  <1>3. QED
    BY <1>1, <1>2, LocalStepKeeps DEF AInvAlt, ApiFunctions, Advance

LEMMA FinishStep ==
    ASSUME AInvAlt, NEW c \in Clients, NEW s, s \notin {"none", "end"},
           NEW r \in Responses \ {"id"}, Finish(c, s, r), UNCHANGED vars
    PROVE  AInvAlt'
  <1>1. ClientBody(c)'
    BY FinishKeeps
  <1>2. stage' \in [Clients -> StageValues] /\ resp' \in [Clients -> Responses]
    BY DEF AInvAlt, ApiFunctions, Finish, StageValues
  <1>3. QED
    BY <1>1, <1>2, LocalStepKeeps DEF AInvAlt, ApiFunctions, Finish

\* An awaited call at step s: Ok moves on, Err is a 500.  A body with a
\* detected flaw never reaches such a step.
LEMMA CallStep ==
    ASSUME AInvAlt, NEW c \in Clients,
           NEW s \in {"fetcher", "hostargs", "witnessgen", "flush", "stdin",
                      "headers", "aggstdin"},
           Call(c, s), UNCHANGED vars
    PROVE  AInvAlt'
  <1>1. flaw[c] \notin DetectedFlaws
    BY DEF AInvAlt, ClientBody, Call, Advance, Finish
  <1>2. CASE Advance(c, s)
    BY <1>1, <1>2, AdvanceStep
  <1>3. CASE Finish(c, s, "server_error")
    BY <1>3, FinishStep DEF Responses
  <1>4. QED
    BY <1>2, <1>3 DEF Call

\* Every handler step of client c keeps AInv.
LEMMA HandlerStepKeeps ==
    ASSUME AInvAlt, NEW c \in Clients, HandlerStep(c)
    PROVE  AInvAlt'
  <1>1. CASE CreateFetcher(c)
    BY <1>1, CallStep DEF CreateFetcher
  <1>2. CASE GetHostCliArgs(c)
    BY <1>2, CallStep DEF GetHostCliArgs
  <1>3. CASE SpawnWitnessgen(c)
    BY <1>3, CallStep DEF SpawnWitnessgen
  <1>4. CASE FlushWitnessgen(c)
    BY <1>4, CallStep DEF FlushWitnessgen
  <1>5. CASE GetProofStdin(c)
    BY <1>5, CallStep DEF GetProofStdin
  <1>6. CASE GetHeaderPreimages(c)
    BY <1>6, CallStep DEF GetHeaderPreimages
  <1>7. CASE GetAggProofStdin(c)
    BY <1>7, CallStep DEF GetAggProofStdin
  <1>8. CASE DeserializeSubproofs(c)
    <2>1. CASE flaw[c] = "subproof"
      BY <1>8, <2>1, FinishStep DEF DeserializeSubproofs, Responses
    <2>2. CASE flaw[c] # "subproof"
      BY <1>8, <2>2, AdvanceStep DEF DeserializeSubproofs
    <2>3. QED
      BY <2>1, <2>2
  <1>9. CASE DecodeL1Head(c)
    <2>1. CASE flaw[c] \in {"prefix", "len"}
      BY <1>9, <2>1, FinishStep DEF DecodeL1Head, Responses
    <2>2. CASE flaw[c] = "hex"
      BY <1>9, <2>2, FinishStep DEF DecodeL1Head, Responses
    <2>3. CASE flaw[c] \notin {"prefix", "len", "hex"}
      <3>1. Advance(c, "head") /\ UNCHANGED vars
        BY <1>9, <2>3 DEF DecodeL1Head
      <3>2. flaw[c] \notin DetectedFlaws
        BY <2>3, <3>1 DEF AInvAlt, ClientBody, Advance, DetectedFlaws
      <3>3. QED
        BY <3>1, <3>2, AdvanceStep
    <2>4. QED
      BY <2>1, <2>2, <2>3
  <1>10. CASE SendProof(c)
    <2>1. /\ ClientBody(c)'
          /\ stage'[c] = "end" /\ resp'[c] = "id"
          /\ route' = route /\ flaw' = flaw
          /\ \A d \in Clients \ {c} : jobId'[d] = jobId[d] /\ kind'[d] = kind[d]
      BY <1>10, SendProofKeeps
    <2>2. TypeInv'
      <3>1. [Next]_vars
        <4>1. KindOf(route[c]) \in Kinds
          BY DEF KindOf, Kinds
        <4>2. QED
          BY <1>10, <4>1 DEF SendProof, Next
      <3>2. QED
        BY <3>1, TypeInvStep DEF AInvAlt
    <2>3. \A d \in Clients \ {c} : ClientBody(d)'
      BY <1>10, <2>1, ClientFrame DEF AInvAlt, SendProof
    <2>4. ApiFunctions'
      BY <1>10, <2>1 DEF AInvAlt, ApiFunctions, SendProof, Responses, StageValues
    <2>5. QED
      BY <2>1, <2>2, <2>3, <2>4 DEF AInvAlt
  <1>11. CASE MockProve(c)
    BY <1>11, FinishStep DEF MockProve, Responses
  <1>12. CASE ParseAddress(c)
    <2>1. CASE flaw[c] = "address"
      BY <1>12, <2>1, FinishStep DEF ParseAddress, Responses
    <2>2. CASE flaw[c] # "address"
      <3>1. Advance(c, "address") /\ UNCHANGED vars
        BY <1>12, <2>2 DEF ParseAddress
      <3>2. flaw[c] \notin DetectedFlaws
        BY <3>1 DEF AInvAlt, ClientBody, Advance
      <3>3. QED
        BY <3>1, <3>2, AdvanceStep
    <2>3. QED
      BY <2>1, <2>2
  <1>13. CASE ReadOracle(c)
    BY <1>13, FinishStep DEF ReadOracle, Responses
  <1>14. QED
    BY <1>1, <1>2, <1>3, <1>4, <1>5, <1>6, <1>7, <1>8, <1>9, <1>10, <1>11,
       <1>12, <1>13 DEF HandlerStep

-----------------------------------------------------------------------------
LEMMA AInvInit == ApiInit => AInv
  <1> SUFFICES ASSUME ApiInit PROVE AInvAlt
    BY AInvIff
  <1>1. TypeInv
    BY TypeInvInit DEF ApiInit
  <1>2. ApiFunctions
    BY DEF ApiInit, ApiFunctions, Routes, FlawValues, StageValues, Responses
  <1>3. \A d \in Clients : ClientBody(d)
    BY <1>1 DEF ApiInit, Init, ClientBody, DetectedFlaws
  <1>4. QED
    BY <1>1, <1>2, <1>3 DEF AInvAlt

\* A background task's step, or a status poll, of client c.
LEMMA JobStepKeeps ==
    ASSUME AInvAlt, NEW c \in Clients,
           \/ TaskStep(c) /\ UNCHANGED apiVars
           \/ \E t \in Ids \cup {BadHex} : GetProofStatus(c, t) /\ UNCHANGED apiVars
    PROVE  AInvAlt'
  <1>1. [Next]_vars
    BY DEF Next
  <1>2. TypeInv'
    BY <1>1, TypeInvStep DEF AInvAlt
  <1>3. jobId' = jobId /\ kind' = kind
    BY DEF TaskStep, Setup, Prove, Write, GetProofStatus
  <1>4. \A d \in Clients : ClientBody(d)'
    BY <1>3, ClientFrame DEF AInvAlt, apiVars
  <1>5. QED
    BY <1>2, <1>4 DEF AInvAlt, ApiFunctions, apiVars

LEMMA AInvStep == AInv /\ [ApiNext]_allVars => AInv'
  <1> SUFFICES ASSUME AInvAlt, [ApiNext]_allVars PROVE AInvAlt'
    BY AInvIff
  <1>1. CASE UNCHANGED allVars
    <2>1. TypeInv'
      BY <1>1 DEF AInvAlt, TypeInv, TypeOK, IdGivenIffSpawned, allVars, vars
    <2>2. \A d \in Clients : ClientBody(d)'
      BY <1>1, ClientFrame DEF AInvAlt, allVars, vars, apiVars
    <2>3. QED
      BY <1>1, <2>1, <2>2 DEF AInvAlt, ApiFunctions, allVars, apiVars
  <1>2. CASE ApiNext
    <2>1. PICK c \in Clients :
             \/ \E i \in Inputs : Request(c, i[1], i[2])
             \/ HandlerStep(c)
             \/ TaskStep(c) /\ UNCHANGED apiVars
             \/ \E t \in Ids \cup {BadHex} : GetProofStatus(c, t) /\ UNCHANGED apiVars
      BY <1>2 DEF ApiNext
    <2>2. CASE \E i \in Inputs : Request(c, i[1], i[2])
      <3>1. PICK i \in Inputs : Request(c, i[1], i[2])
        BY <2>2
      <3>2. /\ ClientBody(c)'
            /\ route'[c] \in Routes /\ flaw'[c] \in FlawValues
            /\ stage'[c] \in StageValues
        BY <3>1, RequestKeeps
      <3>3. TypeInv'
        BY <3>1 DEF AInvAlt, TypeInv, TypeOK, IdGivenIffSpawned, Request, vars
      <3>4. \A d \in Clients \ {c} : ClientBody(d)'
        BY <3>1, ClientFrame DEF AInvAlt, ApiFunctions, Request, vars
      <3>5. ApiFunctions'
        BY <3>1, <3>2 DEF AInvAlt, ApiFunctions, Request
      <3>6. QED
        BY <3>2, <3>3, <3>4, <3>5 DEF AInvAlt
    <2>3. CASE HandlerStep(c)
      BY <2>3, HandlerStepKeeps
    <2>4. QED
      BY <2>1, <2>2, <2>3, JobStepKeeps
  <1>3. QED
    BY <1>1, <1>2

-----------------------------------------------------------------------------
(***************************************************************************)
(* AInv holds in every state of the composed server, for any clients, any *)
(* ids and any request bodies the routes' types admit, when Uuid::new_v4  *)
(* does or does not repeat ids.                                            *)
(***************************************************************************)
THEOREM AInvHolds == ApiSpec => []AInv
  BY AInvInit, AInvStep, PTL DEF ApiSpec

\* The composed server's state keeps its type (ApiTypeOK).
THEOREM ApiTypeCorrect == ApiSpec => []ApiTypeOK
  <1>1. AInv => ApiTypeOK
    BY DEF AInv
  <1>2. QED
    BY AInvHolds, <1>1, PTL

\* A body whose sub-proof does not parse, or whose L1 head is not "0x" and
\* 32 bytes of hex, stops its handler before send_proof: no job is created
\* for it (the unwrap at server.rs:211, the expect, ? and unwrap at 228-230).
THEOREM MalformedInputCreatesNoJobHolds == ApiSpec => []MalformedInputCreatesNoJob
  <1>1. AInv => MalformedInputCreatesNoJob
    BY DEF AInv, JobOnlyAfterSend, FlawStopsHandler, MalformedInputCreatesNoJob,
           DetectedFlaws
  <1>2. QED
    BY AInvHolds, <1>1, PTL

(***************************************************************************)
(* With ids that never repeat, a fulfilled job holds the proof form its   *)
(* route promises: compressed for request_span_proof, Groth16 for         *)
(* request_agg_proof.  The handler hands send_proof its route's ProofType *)
(* (JobOnlyAfterSend, server.rs:195, 268); the task proves with the       *)
(* builder of that type and keeps the proof (ResultIsOwn, 547, 581-599);  *)
(* the entry under the id is that task's own write (StoreTracksOwnJob,    *)
(* 521, 626).  So the argument needs the handler invariant AInv and the   *)
(* engine's poll invariant PInv together.                                  *)
(***************************************************************************)
LEMMA RouteFormLink ==
    ASSUME AInv, PInv PROVE StoredProofMatchesRoute
<1> SUFFICES ASSUME NEW c \in Clients
             PROVE  /\ jobId[c] # NoId => route[c] \in {"span", "agg"}
                    /\ jobId[c] \in DOMAIN store /\ store[jobId[c]].ful = 3 =>
                          store[jobId[c]].proof[1].form =
                              IF route[c] = "span" THEN "compressed" ELSE "groth16"
    BY DEF StoredProofMatchesRoute
<1>1. jobId[c] # NoId => route[c] \in {"span", "agg"} /\ kind[c] = KindOf(route[c])
    BY DEF AInv, JobOnlyAfterSend
<1>2. ASSUME jobId[c] \in DOMAIN store, store[jobId[c]].ful = 3
      PROVE  store[jobId[c]].proof[1].form =
                 IF route[c] = "span" THEN "compressed" ELSE "groth16"
    <2>1. jobId[c] # NoId
        BY <1>2, ConstantsAssumption DEF PInv, IInv, TypeInv, TypeOK
    <2>2. store[jobId[c]] = IF pc[c] = "done" THEN Fulfilled(result[c][1]) ELSE Executing
        BY <2>1 DEF PInv, IInv, StoreTracksOwnJob
    <2>3. pc[c] = "done"
        BY <1>2, <2>2 DEF Executing
    <2>4. store[jobId[c]].proof[1] = result[c][1]
        BY <2>2, <2>3 DEF Fulfilled
    <2>5. result[c][1].form = FormOf(kind[c])
        BY <2>3 DEF PInv, ResultIsOwn
    <2>. QED
        BY <1>1, <2>1, <2>4, <2>5 DEF KindOf, FormOf
<1>. QED
    BY <1>1, <1>2

\* The request's route decides the form of the proof its job ends with
\* (StoredProofMatchesRoute), for any clients and ids that do not collide.
THEOREM StoredProofMatchesRouteHolds ==
    ~IdCollisions => (ApiSpec => []StoredProofMatchesRoute)
  <1> SUFFICES ASSUME ~IdCollisions PROVE ApiSpec => []StoredProofMatchesRoute
    OBVIOUS
  <1>1. ApiInit => AInv /\ PInv
    BY AInvInit, PInvInit DEF ApiInit
  <1>2. AInv /\ PInv /\ [ApiNext]_allVars => AInv' /\ PInv'
    BY AInvStep, ApiNextIsJobStep, PInvStep
  <1>3. AInv /\ PInv => StoredProofMatchesRoute
    BY RouteFormLink
  <1>4. QED
    BY <1>1, <1>2, <1>3, PTL DEF ApiSpec

(***************************************************************************)
(* The handlers change the job engine's state only through send_proof, so *)
(* the composed server behaves, on the store, the tasks, the prover and   *)
(* the poll, as the job engine alone does: every property of             *)
(* Init /\ [][Next]_vars carries over.                                    *)
(***************************************************************************)
THEOREM ComposedIsJobEngine == ApiSpec => Init /\ [][Next]_vars
  <1>1. ApiInit => Init
    BY DEF ApiInit
  <1>2. QED
    BY <1>1, ApiNextIsJobStep, PTL DEF ApiSpec

\* With ids that never repeat, each store entry of the composed server
\* belongs to the request that was given its id and holds what that
\* request's own task wrote (StoreTracksOwnJob, carried over).
THEOREM ComposedStoreTracksOwnJob ==
    ~IdCollisions => (ApiSpec => []StoreTracksOwnJob)
  <1> SUFFICES ASSUME ~IdCollisions PROVE ApiSpec => []StoreTracksOwnJob
    OBVIOUS
  <1>1. ApiInit => IInv
    BY IInvInit DEF ApiInit
  <1>2. IInv /\ [ApiNext]_allVars => IInv'
    BY ApiNextIsJobStep, IInvStep
  <1>3. IInv => StoreTracksOwnJob
    BY DEF IInv
  <1>4. QED
    BY <1>1, <1>2, <1>3, PTL DEF ApiSpec

\* With ids that never repeat, the composed server implements the abstract
\* job store: what the routes hand to send_proof, its tasks and the polls
\* do to the store is a create, a completion with the owner's proof, or
\* nothing (the Refinement of ProofJobs, carried over).
THEOREM ComposedRefinement == ~IdCollisions => (ApiSpec => JobStoreSpec)
  <1> SUFFICES ASSUME ~IdCollisions PROVE ApiSpec => JobStoreSpec
    OBVIOUS
  <1>1. ApiInit => PInv /\ Abs!Init
    BY PInvInit, RefineInit DEF ApiInit
  <1>2. PInv /\ [ApiNext]_allVars => PInv'
    BY ApiNextIsJobStep, PInvStep
  <1>3. PInv /\ [ApiNext]_allVars => [Abs!Next]_absJobs
    BY ApiNextIsJobStep, RefineStep
  <1>4. QED
    BY <1>1, <1>2, <1>3, PTL DEF ApiSpec, JobStoreSpec, Abs!Spec

=============================================================================
