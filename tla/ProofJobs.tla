------------------------------ MODULE ProofJobs ------------------------------
(***************************************************************************)
(* The proof-job engine of the proposer server                             *)
(* (src/sigil/op-succinct/proposer/succinct/bin/server.rs): the proof      *)
(* store, send_proof with the background task it spawns, the CUDA prover   *)
(* that the tasks share, and the status poll.                              *)
(*                                                                         *)
(* Every client issues at most one proving request.  A request of kind     *)
(* "span" or "agg" is handed to send_proof, which draws a job id, inserts  *)
(* the placeholder status and spawns a task.  The task calls               *)
(* prover_client.setup(ELF) and then prove(); the prover keeps only the    *)
(* circuit of its last setup, so the circuit a proof is made with is the   *)
(* one active when prove() runs.  On success the task writes the terminal  *)
(* status; on a proving error it returns without touching the store.       *)
(*                                                                         *)
(* Data is abstracted: a proof is a record naming the job that asked for   *)
(* it, the circuit it was made with and its serialised form; the proof     *)
(* bytes of a status are a sequence of at most one such proof (<<>> is the *)
(* empty Vec).                                                             *)
(***************************************************************************)
EXTENDS Naturals, Sequences, FiniteSets, Functions

CONSTANTS
    Clients,        \* the HTTP clients, each with at most one request
    Ids,            \* the job ids uuid_to_hex_bytes can return
    NoId,           \* no job id yet
    BadHex,         \* a status path that is not valid hex
    IdCollisions    \* TRUE: Uuid::new_v4 may repeat an id already in use

ASSUME ConstantsAssumption ==
    /\ NoId \notin Ids
    /\ BadHex \notin Ids
    /\ IdCollisions \in BOOLEAN

VARIABLES
    store,      \* proof_store: HashMap<Vec<u8>, ProofStatus>, a partial function
    pc,         \* per client: where the task spawned for its request is
    kind,       \* per client: the ProofType of its request
    result,     \* per client: <<>>, or <<p>> once its task's prove() gave p
    jobId,      \* per client: the proof_id send_proof returned to it
    active,     \* the circuit the shared CudaProver was last set up with
    lastPoll    \* <<>> or <<r>>: the last /status reply r, whom to, for what,
                \* and the id the poller held when it asked

vars == <<store, pc, kind, result, jobId, active, lastPoll>>

-----------------------------------------------------------------------------
Kinds == {"span", "agg"}                 \* ProofType::Span, ProofType::Agg
Circuits == {"range", "agg"}             \* RANGE_ELF, AGG_ELF

\* The ELF a task of kind k sets the prover up with.
CircuitOf(k) == IF k = "span" THEN "range" ELSE "agg"

\* Span tasks prove .compressed() and store bincode::serialize(&proof);
\* agg tasks prove .groth16() and store proof.bytes().
FormOf(k) == IF k = "span" THEN "compressed" ELSE "groth16"
Forms == {"compressed", "groth16"}

Proofs == [job : Clients, circuit : Circuits, form : Forms]

\* ProofStatus values, with FulfillmentStatus / ExecutionStatus as i32.
Executing == [ful |-> 2, exec |-> 1, proof |-> <<>>]
Fulfilled(p) == [ful |-> 3, exec |-> 2, proof |-> <<p>>]
NotFound == [ful |-> 0, exec |-> 0, proof |-> <<>>]

StoredStatus == {Executing} \cup {Fulfilled(p) : p \in Proofs}

\* HashMap::insert: add or overwrite the entry of key k.
Insert(m, k, v) == [i \in DOMAIN m \cup {k} |-> IF i = k THEN v ELSE m[i]]

TaskPcs == {"idle", "setup", "prove", "write", "done", "failed"}


-----------------------------------------------------------------------------
TypeOK ==
    /\ DOMAIN store \subseteq Ids
    /\ \A id \in DOMAIN store : store[id] \in StoredStatus
    /\ pc \in [Clients -> TaskPcs]
    /\ kind \in [Clients -> Kinds]
    /\ result \in [Clients -> Seq(Proofs)]
    /\ \A c \in Clients : Len(result[c]) <= 1
    /\ jobId \in [Clients -> Ids \cup {NoId}]
    /\ active \in Circuits
    /\ lastPoll \in Seq([by : Clients, target : Ids \cup {BadHex},
                         holds : Ids \cup {NoId}, http : {200, 500},
                         status : StoredStatus \cup {NotFound}])
    /\ Len(lastPoll) <= 1

Init ==
    /\ store = [id \in {} |-> Executing]
    /\ pc = [c \in Clients |-> "idle"]
    /\ kind = [c \in Clients |-> "span"]
    /\ result = [c \in Clients |-> <<>>]
    /\ jobId = [c \in Clients |-> NoId]
    \* main() runs setup(RANGE_ELF) and then setup(AGG_ELF)
    /\ active = "agg"
    /\ lastPoll = <<>>

-----------------------------------------------------------------------------
(***************************************************************************)
(* send_proof: Uuid::new_v4() gives the id; the placeholder status         *)
(* (Assigned, Unexecuted) is inserted under the write lock; the task is    *)
(* spawned; the id is returned.  Without collisions the id is one no entry *)
(* of the store has.                                                       *)
(***************************************************************************)
FreshIds == IF IdCollisions THEN Ids ELSE Ids \ DOMAIN store

\* Faulty variants of Dispatch: send_proof returning an id it never
\* inserted, and an id source that can repeat an id in use.
DispatchWithoutInsert(c, k) ==
    /\ pc[c] = "idle"
    /\ \E id \in FreshIds : jobId' = [jobId EXCEPT ![c] = id]
    /\ pc' = [pc EXCEPT ![c] = "setup"]
    /\ kind' = [kind EXCEPT ![c] = k]
    /\ UNCHANGED <<store, result, active, lastPoll>>

DispatchReusingIds(c, k) ==
    /\ pc[c] = "idle"
    /\ \E id \in Ids :
          /\ store' = Insert(store, id, Executing)
          /\ jobId' = [jobId EXCEPT ![c] = id]
    /\ pc' = [pc EXCEPT ![c] = "setup"]
    /\ kind' = [kind EXCEPT ![c] = k]
    /\ UNCHANGED <<result, active, lastPoll>>

Dispatch(c, k) ==
    /\ pc[c] = "idle"
    /\ \E id \in FreshIds :
          /\ store' = Insert(store, id, Executing)
          /\ jobId' = [jobId EXCEPT ![c] = id]
    /\ pc' = [pc EXCEPT ![c] = "setup"]
    /\ kind' = [kind EXCEPT ![c] = k]
    /\ UNCHANGED <<result, active, lastPoll>>

\* The spawned task: `let _ = prover_client.setup(ELF)` for its kind.
Setup(c) ==
    /\ pc[c] = "setup"
    /\ active' = CircuitOf(kind[c])
    /\ pc' = [pc EXCEPT ![c] = "prove"]
    /\ UNCHANGED <<store, kind, result, jobId, lastPoll>>

\* Faulty variant of Prove: the Ok arm ends the task without the store
\* update.
ProveWithoutWrite(c) ==
    /\ pc[c] = "prove"
    /\ \/ /\ pc' = [pc EXCEPT ![c] = "done"]
          /\ result' = [result EXCEPT ![c] =
                            <<[job |-> c, circuit |-> active, form |-> FormOf(kind[c])]>>]
       \/ /\ pc' = [pc EXCEPT ![c] = "failed"]
          /\ UNCHANGED result
    /\ UNCHANGED <<store, kind, jobId, active, lastPoll>>

\* Faulty variant of Prove: every job proved .compressed(), the agg
\* builder's .groth16() left out.
ProveCompressedOnly(c) ==
    /\ pc[c] = "prove"
    /\ \/ /\ pc' = [pc EXCEPT ![c] = "write"]
          /\ result' = [result EXCEPT ![c] =
                            <<[job |-> c, circuit |-> active, form |-> "compressed"]>>]
       \/ /\ pc' = [pc EXCEPT ![c] = "failed"]
          /\ UNCHANGED result
    /\ UNCHANGED <<store, kind, jobId, active, lastPoll>>

(***************************************************************************)
(* The task: prover_client.prove(&proving_key, &sp1_stdin).run() and the   *)
(* match on its result.  The proof is made with the circuit active now.    *)
(* The Ok arm serialises by variant (the `_` variant arm is unreachable:   *)
(* the builder fixes the variant); the Err arm returns Err from the task   *)
(* without updating the store.                                             *)
(***************************************************************************)
Prove(c) ==
    /\ pc[c] = "prove"
    /\ \/ /\ pc' = [pc EXCEPT ![c] = "write"]
          /\ result' = [result EXCEPT ![c] =
                            <<[job |-> c, circuit |-> active, form |-> FormOf(kind[c])]>>]
       \/ /\ pc' = [pc EXCEPT ![c] = "failed"]
          /\ UNCHANGED result
    /\ UNCHANGED <<store, kind, jobId, active, lastPoll>>

\* Faulty variant of Write: the Fulfilled status stored without the proof
\* bytes.
WriteEmptyBytes(c) ==
    /\ pc[c] = "write"
    /\ store' = Insert(store, jobId[c], [ful |-> 3, exec |-> 2, proof |-> <<>>])
    /\ pc' = [pc EXCEPT ![c] = "done"]
    /\ UNCHANGED <<kind, result, jobId, active, lastPoll>>

\* The task: proof_store.write().await.insert(proof_id, proof_status).
Write(c) ==
    /\ pc[c] = "write"
    /\ store' = Insert(store, jobId[c], Fulfilled(result[c][1]))
    /\ pc' = [pc EXCEPT ![c] = "done"]
    /\ UNCHANGED <<kind, result, jobId, active, lastPoll>>

(***************************************************************************)
(* get_proof_status: hex::decode of the path (an error is a 500), a read   *)
(* of the store (a missing id reads as 0/0), and the proof bytes cleared   *)
(* unless the status is Fulfilled.                                         *)
(***************************************************************************)
StatusOf(t) ==
    IF t \in DOMAIN store
    THEN IF store[t].ful = 3 THEN store[t] ELSE [store[t] EXCEPT !.proof = <<>>]
    ELSE NotFound

GetProofStatus(c, t) ==
    /\ lastPoll' = IF t = BadHex
                   THEN <<[by |-> c, target |-> t, holds |-> jobId[c],
                           http |-> 500, status |-> NotFound]>>
                   ELSE <<[by |-> c, target |-> t, holds |-> jobId[c],
                           http |-> 200, status |-> StatusOf(t)]>>
    /\ UNCHANGED <<store, pc, kind, result, jobId, active>>

-----------------------------------------------------------------------------
TaskStep(c) == Setup(c) \/ Prove(c) \/ Write(c)

Next ==
    \E c \in Clients :
        \/ \E k \in Kinds : Dispatch(c, k)
        \/ TaskStep(c)
        \/ \E t \in Ids \cup {BadHex} : GetProofStatus(c, t)

\* tokio runs every spawned task to completion: the tasks are weakly fair.
\* Clients need not send or poll.
Fairness == \A c \in Clients : WF_vars(TaskStep(c))

Spec == Init /\ [][Next]_vars /\ Fairness

-----------------------------------------------------------------------------
(***************************************************************************)
(* Properties.                                                             *)
(***************************************************************************)
\* The job of client c, once it has one.
Owner(id) == {c \in Clients : jobId[c] = id}

\* The ids send_proof returned to different clients are different
\* (spec: job identifiers are unique within a process lifetime).
JobIdsUnique ==
    \A c1, c2 \in Clients :
        c1 # c2 /\ jobId[c1] # NoId => jobId[c1] # jobId[c2]

\* Each entry of the store belongs to the request that got its id, and it
\* holds exactly what that request's own task last wrote there: the
\* placeholder until its task stores a proof, that proof afterwards.  No
\* entry exists for an id no client was given.  This is what send_proof's
\* insert-before-spawn and the single writer per id must give together.
StoreTracksOwnJob ==
    /\ DOMAIN store = {jobId[c] : c \in {d \in Clients : jobId[d] # NoId}}
    /\ \A c \in Clients :
          jobId[c] # NoId =>
             store[jobId[c]] = IF pc[c] = "done"
                               THEN Fulfilled(result[c][1])
                               ELSE Executing

\* A Fulfilled entry holds a proof made with the circuit of its job's kind:
\* the prover was set up with RANGE_ELF for a span job and AGG_ELF for an
\* agg job when prove() ran (the comment at server.rs:529-531).
ProofFromOwnCircuit ==
    \A c \in Clients :
        pc[c] \in {"write", "done"} => result[c][1].circuit = CircuitOf(kind[c])

\* A /status reply to a client that asked for the id send_proof gave it is
\* either "not yet fulfilled" (2, 1), never the (0, 0) of an unknown id
\* (spec section 8: the id is inserted before it is returned), or Fulfilled
\* with that client's own proof, never another job's.
PollSeesOwnJob ==
    \A r \in Range(lastPoll) :
        r.http = 200 /\ r.holds = r.target =>
           \/ r.status = Executing
           \/ r.status.ful = 3 /\ r.status.proof[1].job = r.by

\* A step never removes a store entry, never changes a Fulfilled entry and
\* never turns one back to Executing: a poller that has seen a proof keeps
\* seeing the same proof.
StoreEntryStable ==
    [][\A id \in DOMAIN store :
          /\ id \in DOMAIN store'
          /\ store[id].ful = 3 => store'[id] = store[id]]_vars

(***************************************************************************)
(* The inductive invariant behind StoreTracksOwnJob (proved in            *)
(* ProofJobsProofs, checked by TLC in MCProofJobs): a task that has a      *)
(* proof to write has exactly one; a client has an id exactly when its     *)
(* task was spawned; distinct clients have distinct ids.                   *)
(***************************************************************************)
IdGivenIffSpawned == \A c \in Clients : jobId[c] = NoId <=> pc[c] = "idle"

TypeInv ==
    /\ TypeOK
    /\ \A c \in Clients : pc[c] \in {"write", "done"} => Len(result[c]) = 1
    /\ IdGivenIffSpawned

IInv ==
    /\ TypeInv
    /\ JobIdsUnique
    /\ StoreTracksOwnJob

\* A task's proof names its own job and has the form of its kind.
ResultIsOwn ==
    \A c \in Clients :
        pc[c] \in {"write", "done"} =>
            result[c][1].job = c /\ result[c][1].form = FormOf(kind[c])

\* Every job that was given an id eventually reaches a terminal status,
\* Fulfilled (3) or Unfulfillable (4), as spec section 4.2 (d) promises.
JobResolves ==
    \A c \in Clients :
        jobId[c] # NoId ~> (jobId[c] \in DOMAIN store /\ store[jobId[c]].ful \in {3, 4})

\* Every job that was given an id eventually is Fulfilled, unless its
\* proving call failed.
JobResolvesUnlessProvingFails ==
    \A c \in Clients :
        jobId[c] # NoId ~> (\/ pc[c] = "failed"
                            \/ /\ jobId[c] \in DOMAIN store
                               /\ store[jobId[c]].ful = 3)

=============================================================================
