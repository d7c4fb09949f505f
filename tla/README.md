# Verification of the op-succinct proposer server

This directory holds TLA+ models of the proof server in
`src/sigil/op-succinct/proposer/succinct/bin/server.rs`. It also holds the TLC
configurations that model-check the models, and TLAPS proofs about them.

## 1. The system

`server.rs` is an axum HTTP server running on tokio. Its state and operations are:

- **Start-up (`main`, lines 38-95).** It builds one shared `CudaProver` and calls
  `setup(RANGE_ELF)` and then `setup(AGG_ELF)` on it. It computes the
  verifying-key registry, which is read-only afterwards. It creates the proof
  store, an `Arc<RwLock<HashMap<Vec<u8>, ProofStatus>>>`, and mounts six routes.
- **Job Dispatcher (`send_proof`, lines 502-632).**
  - It draws an id with `uuid_to_hex_bytes(Uuid::new_v4())`, which keeps the
    *high* 64 bits of the uuid.
  - It inserts the placeholder `(fulfillment 2, execution 1, [])`.
  - It spawns a task and returns the id. The task runs
    `prover_client.setup(ELF)` and then `prove(..)` on the *shared* prover. On
    `Ok` it stores `(3, 2, bytes)`. On `Err`, or on an unknown proof variant, it
    returns without touching the store.
- **Status poll (`get_proof_status`, lines 439-497).** A path that is not hex
  gives a 500. An unknown id gives `(0, 0, [])`. Otherwise it returns the
  stored status, with the bytes dropped unless the job is fulfilled.
- **Proving routes.** Each is a chain of awaited, fallible calls ending in
  `send_proof`:
  - `request_span_proof` (lines 126-200): fetcher, host CLI args, witness
    generation with a timeout, stdin;
  - `request_agg_proof` (lines 202-273): sub-proof deserialisation, L1 head
    decoding, fetcher, header preimages, aggregation stdin.
- **Mock routes (lines 275-436).** They run the same chains but prove in the
  request with a fresh mock prover, and return the proof inline.
- **`validate_config` (lines 97-124).** It parses an address, runs three oracle
  calls, and compares the results with the registry.
- **`minimal-server.rs`** is a separate, sequential script. It:
  - proves the span 12500-12501 with a prover set up for `RANGE_ELF`;
  - saves the proof to `proofs//12500-12501.bin` and drops the prover;
  - loads the proof back from the hard-coded path `proofs/12500-12501.bin`;
  - aggregates it with a second prover, set up for `RANGE_ELF` and then for
    `AGG_ELF`.

  The proofs directory outlives the process.

These parts interact in three ways:
- Every proving request spawns a task.
- All tasks share one prover and one store.
- Polls read the store concurrently with the tasks' writes.

Every `Err` becomes `AppError`, which is always a 500 (line 656). The
`unwrap`/`expect` calls on caller input panic the handler task.

## 2. Modules

| Module | Models | State | Actions |
|---|---|---|---|
| `ProofJobs` | proof store, `send_proof` and its task, shared prover, status poll | `store` (partial function id → status), per client `pc`, `kind`, `result`, `jobId`; `active` (the prover's last circuit); `lastPoll` | `Dispatch` (send_proof up to the spawn), `Setup`, `Prove` (Ok or Err), `Write`, `GetProofStatus` |
| `ApiServer` | the five POST handlers, composed with `ProofJobs` | per client `route`, `flaw` (how its body is malformed), `stage` (next step), `resp` | `Request`, one action per fallible call (`CreateFetcher` … `ReadOracle`), `SendProof` (calls `Dispatch`), `MockProve` |
| `JobStore` | what spec sections 4.1 and 4.2 promise of store and dispatcher | `jobs` (id → owner, kind, status, proof) | `Create`, `Complete`, `Fail` |
| `ProofJobsRefinement` | the refinement mapping from `ProofJobs` to `JobStore` | | |
| `MinimalServer` | `minimal-server.rs`, with the process killed and restarted | `run`, `pc`, `disk` (path → file), `active`, `span`, `loaded`, `agg` | one action per call (`Start` … `ProveAgg`), plus `Crash` and `Restart` |
| `ProofJobsProofs` | TLAPS proofs about `ProofJobs` and its refinement | | |
| `ApiServerProofs` | TLAPS proofs about the handlers and the composed server | | |
| `MinimalServerProofs` | TLAPS proofs about `minimal-server.rs` | | |
| `MCProofJobs`, `MCApiServer`, `MCMinimalServer` | model values, small sets, symmetry | | |

How data is abstracted:
- A proof is the record `[job, circuit, form]`, so a property can ask whose
  proof a client received and which circuit made it.
- Ids are model values. With `IdCollisions = TRUE`, the uuid draw may repeat an
  id in use; otherwise it never does.
- Caller input is reduced to the one way it is malformed, if any (`Flaws`).
  Each handler step tests exactly the flaws its code line can trip on:
  - `DeserializeSubproofs`: `unwrap` at 211;
  - `DecodeL1Head`: `expect` at 228, `?` at 229, `unwrap` at 230;
  - `ParseAddress`: `unwrap` at 105.
  Flaws that the code never checks flow on to `send_proof`. These are an
  inverted range, an empty list, and a foreign rollup config.
- Each awaited collaborator call either moves on or returns a 500.
- A status reply records the id the poller held when it asked (`holds`). A
  property can then tell a poll of one's own job from one of another id.
- The refinement mapping (`ProofJobsRefinement`) works as follows:
  - an entry's owner is the client holding its id;
  - its status is read off the fulfillment code;
  - its proof is the stored proof without its circuit, which `JobStore` does
    not speak of.
- In `MinimalServer`:
  - a path is the directory and block range it names. `"proofs/" + "/"`
    resolves to the same directory;
  - a file holds a proof whole, or cut off by a failed or killed save;
  - `Init` may find a proof, or a cut-off file, that an earlier invocation
    left.

## 3. Runs

| Run | Config | Expect | What it shows |
|---|---|---|---|
| jobs_safety | `MCProofJobs.cfg` | pass | With 3 clients and 3 distinct ids: `StoreTracksOwnJob`, `PollSeesOwnJob` and `StoreEntryStable` hold, plus the type invariant. |
| jobs_refine_store | `MCProofJobsRefines.cfg` | pass | `JobStoreSpec`: with distinct ids, every step of the job engine is a `JobStore` create, complete or stutter. |
| jobs_progress | `MCProofJobsLive.cfg` | pass | `JobResolvesUnlessProvingFails`: under fairness of the tasks, each job is fulfilled or its prove call failed. |
| jobs_stranded | `MCProofJobsStranded.cfg` | violation | `JobResolves` fails. A job whose proving errs stays Executing forever (line 615). |
| circuit_race | `MCProofJobsRace.cfg` | violation | `ProofFromOwnCircuit` fails. The interleaving is: span `setup(RANGE)`, then agg `setup(AGG)`, then span `prove`. The span proof comes from the aggregation circuit (lines 532-546). |
| id_collision | `MCProofJobsCollide.cfg` | violation | `PollSeesOwnJob` fails. Two jobs draw one id, and the poll returns the other client's proof (lines 521, 626, 649). |
| api_safety | `MCApiServer.cfg` | pass | With 2 clients, 10 inputs, and handlers interleaved with tasks and polls: `MalformedInputCreatesNoJob` holds, and `StoredProofMatchesRoute`: a fulfilled span job holds a compressed proof and a fulfilled agg job a Groth16 proof, so the route's ProofType (190-197, 268), the task's builder (547, 581-599) and the store write (626) agree. It says nothing of the circuit, which `circuit_race` shows can be wrong. |
| minimal_script | `MCMinimalServer.cfg` | pass | With up to 3 invocations, failures at every call, and kills at every step: `AggOverOwnSpan` holds. An aggregation proof is made with the aggregation circuit over the range proof of the same run, never over a leftover file. Deadlock checking is off because the script exits. |
| api_client_errors | `MCApiServerErrors.cfg` | violation | `ClientInputRejected` fails. A bad sub-proof panics (line 211). Other flaws panic, or are accepted as jobs. |

Bounds and why they are enough:
- **3 clients with 3 ids.** Every two-task interleaving fits, and a third job
  can overlap the other two.
- **2 clients with 2 ids** (liveness and API runs). This is enough for a span
  and an agg job to overlap. It is also enough for a handler to interleave with
  a task of the other client.
- **Each client sends one request.** A second request from the same client is
  the same as a request from another client, since the tasks share nothing
  per client.
- **3 invocations of the script.** A killed or failed run is followed by one
  that finds its leftovers, and that one by a third.
- **Symmetry** over clients and over ids is sound for the safety runs: no
  definition names a particular client or id. The liveness runs do not use
  symmetry.

Each passing property has a mutant in `PROJECT.json`: a plausible bug in the
modelled code that TLC finds. For example, `DispatchReusingIds` drops the
fresh-id guard, and `DecodeL1HeadLenient` lets bad hex through.

## 4. Fairness

`Fairness` is weak fairness of each client's `TaskStep` (`Setup`, `Prove`,
`Write`). The task is a `tokio::spawn`ed future and the runtime polls every
ready task, so a task that can step eventually does.

No fairness is assumed for:
- the handlers, whose collaborators may block with no timeout;
- clients sending requests or polls.

## 5. Proofs (checked by tlapm)

### `ProofJobsProofs`

- **`TypeCorrect`: `Spec => []TypeOK`.** `TypeOK` alone is not inductive:
  `Write` reads `result[c][1]`, and `Dispatch` needs `jobId` to be unset
  exactly when the task is idle. The proof uses the strengthening
  `TypeInv == TypeOK /\ (pc[c] ∈ {write, done} ⇒ Len(result[c]) = 1) /\ IdGivenIffSpawned`.
  The lemmas `TypeInvInit` and `TypeInvStep` have one step per action, and
  case splits on the `Ok`/`Err` disjuncts of `Prove` and on the hex check of
  `GetProofStatus`.
- **`StoreTracksOwnJobHolds`: `~IdCollisions => (Spec => []StoreTracksOwnJob)`.**
  The invariant is proved through `IInv == TypeInv /\ JobIdsUnique /\ StoreTracksOwnJob`.
  - `JobIdsUnique` is needed because `Write` overwrites `store[jobId[c]]`. Only
    when no other client holds that id does the write leave other jobs'
    entries alone.
  - `Dispatch` preserves uniqueness because it draws from `Ids \ DOMAIN store`,
    and `StoreTracksOwnJob` makes the store's domain exactly the held ids.
  - TLC checked `IInv` as an invariant of `jobs_safety` before it was
    proved. No run keeps it, since it only restates the properties it supports.
    The same goes for `MInv` and `AInv` below.

- **`PollSeesOwnJobHolds`: `~IdCollisions => (Spec => []PollSeesOwnJob)`.**
  - A reply stays in `lastPoll` after the poll. So only a poll step can break
    the property.
  - A poll of one's own id reads one's own entry (`StoreTracksOwnJob`). That
    entry is the placeholder, or a proof naming the client (`ResultIsOwn`,
    proved inductive from `TypeInv`).
  - The invariant is `PInv == IInv /\ ResultIsOwn /\ PollSeesOwnJob`.
- **`StoreEntryStableHolds`.** This follows from `IInv`:
  - `Dispatch` inserts under an id not in the store;
  - `Write` overwrites its own entry, which is still the placeholder.
- **`Refinement`: `~IdCollisions => (Spec => JobStoreSpec)`.**
  - `Init` maps to an empty job store.
  - `Dispatch` maps to `Create`. The new entry's owner is the dispatching
    client (lemma `ChooseHolder` plus unique ids), and the other entries keep
    their owners.
  - `Write` maps to `Complete`. The guard holds because the entry is still
    Executing, and by `ResultIsOwn`.
  - Every other step leaves `store`, `jobId` and `kind` alone, so it is a
    stutter.

### `MinimalServerProofs`

- **`MinimalTypeCorrect`** (`TypeOK`) and **`AggOverOwnSpanHolds`**
  (`AggOverOwnSpan`), both from `MInvHolds: MSpec => []MInv`, for every number of
  runs and every block range. `AggOverOwnSpan` is not inductive: `ProveAgg`
  reads `loaded`, which `Load` reads from disk, which `Save` wrote from `span`.
  `MInv` ties each of these to the step `pc` is at:
  - before the span proof exists, the prover holds the range circuit;
  - from `save` on, `span` is this run's range proof;
  - at `sleep` and `load` the file at the load path is that proof, whole
    (lemma `SameFile`: save and load paths name one file);
  - from `setup2` on, `loaded = span`; at `proveagg` the prover holds the
    agg circuit;
  - an aggregation proof exists only at `ok`, over `span[1]`.
  `Crash` resets `pc`, so the leftover file on disk constrains nothing.
  `Restart` starts a new run number and `Init`'s leftovers are allowed anything
  the type permits. The step lemma `MInvStep` has one case per action.

### `ApiServerProofs`

- **`MalformedInputCreatesNoJobHolds`** and `ApiTypeCorrect`, both from
  `AInvHolds: ApiSpec => []AInv`, for any number of clients. `AInv` adds to the types:
  - `HandlerShape`: a client's route, flaw and stage agree, and no response is
    sent before its stage is `end`;
  - `JobOnlyAfterSend`: a job id exists only after `SendProof`, with the kind of
    the route;
  - `FlawStopsHandler`: a flaw the code detects stops the handler at the step
    that detects it, with no id.
  The argument is per client: `ClientBody(d)` is the invariant of client `d`,
  a handler step of `c` changes only `c`'s variables (lemma `ClientFrame`), and
  the lemma `HandlerStepKeeps` has one case per handler action.
- **`StoredProofMatchesRouteHolds`:
  `~IdCollisions => (ApiSpec => []StoredProofMatchesRoute)`.** It needs the
  handler invariant and the engine's together (`AInv /\ PInv`, lemma
  `RouteFormLink`):
  - `JobOnlyAfterSend` gives the job the ProofType of its route;
  - `ResultIsOwn` gives the task's proof the form of that ProofType;
  - `StoreTracksOwnJob` makes a Fulfilled entry under the id that task's own
    write.
  `PInv` is carried to the composed server by `ApiNextIsJobStep`.
- **`ComposedIsJobEngine`: `ApiSpec => Init /\ [][Next]_vars`.** Every handler
  step other than `SendProof` leaves the engine's variables alone, and
  `SendProof` is `Dispatch` (lemma `ApiNextIsJobStep`). So the engine's step
  lemmas carry over, giving `ComposedStoreTracksOwnJob` and
  `ComposedRefinement` (`~IdCollisions => (ApiSpec => JobStoreSpec)`).

### Only TLC checks the following, and why
- Liveness (`JobResolvesUnlessProvingFails`): TLAPS cannot reason about
  fairness or ENABLED here.
- The violation runs. They exhibit counterexamples, which is TLC's job.

## 6. Not modelled

- The ELF build script.
- The test helper.
- The insides of the collaborators (fetcher, witness-generation executor,
  stdin builders, SP1 prover). Only their success or failure is modelled.
- Unbounded growth of the store, and the 100 GiB request-body limit. These are
  resource questions; a finite model cannot express them.
- The Plonk arm (lines 600-607), which no route's prove call can produce.

## 7. Plan for later work

1. Prove `PollSeesOwnJob` and `StoreEntryStable` for the composed server.
2. Model `uuid_to_hex_bytes` and the hex round trip of the status path as
   operators, checked against a reference over small widths.
3. Extend the aggregation composer: sub-proof order and BootInfo extraction.
4. Record a failed witness-generation flush (line 171) in the handler state,
   so that a property can check that it creates no job.
5. Model the mock routes' use of a fresh prover (no race), checked against
   the shared-prover race.
