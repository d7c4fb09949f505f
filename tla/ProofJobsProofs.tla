--------------------------- MODULE ProofJobsProofs ---------------------------
(***************************************************************************)
(* Proofs about the proof-job engine: type correctness, and that without   *)
(* id collisions every store entry is the one its own job's task wrote.    *)
(***************************************************************************)
EXTENDS ProofJobsRefinement, TLAPS

(***************************************************************************)
(* Type correctness.  TypeOK alone is not inductive: Write stores          *)
(* result[c][1], which is a proof only if the task holds one, and writes   *)
(* under jobId[c], which is an id only if the task was spawned.  TypeInv   *)
(* adds both facts.                                                        *)
(***************************************************************************)
LEMMA TypeInvInit == Init => TypeInv
<1> SUFFICES ASSUME Init PROVE TypeInv
    OBVIOUS
<1>1. DOMAIN store \subseteq Ids /\ \A id \in DOMAIN store : store[id] \in StoredStatus
    BY DEF Init
<1>2. /\ pc \in [Clients -> TaskPcs]
      /\ kind \in [Clients -> Kinds]
      /\ result \in [Clients -> Seq(Proofs)]
      /\ \A c \in Clients : Len(result[c]) <= 1
    BY DEF Init, TaskPcs, Kinds
<1>3. jobId \in [Clients -> Ids \cup {NoId}] /\ active \in Circuits
    BY DEF Init, Circuits
<1>4. lastPoll \in Seq([by : Clients, target : Ids \cup {BadHex},
                        holds : Ids \cup {NoId}, http : {200, 500},
                        status : StoredStatus \cup {NotFound}])
      /\ Len(lastPoll) <= 1
    BY DEF Init
<1>5. IdGivenIffSpawned
    BY ConstantsAssumption DEF Init, IdGivenIffSpawned
<1>. QED
    BY <1>1, <1>2, <1>3, <1>4, <1>5 DEF Init, TypeInv, TypeOK

LEMMA TypeInvStep == TypeInv /\ [Next]_vars => TypeInv'
<1> SUFFICES ASSUME TypeInv, [Next]_vars PROVE TypeInv'
    OBVIOUS
<1> USE DEF TypeInv, TypeOK, IdGivenIffSpawned
<1>1. ASSUME NEW c \in Clients, NEW k \in Kinds, Dispatch(c, k) PROVE TypeInv'
    <2>1. PICK id \in FreshIds : store' = Insert(store, id, Executing)
                                 /\ jobId' = [jobId EXCEPT ![c] = id]
        BY <1>1 DEF Dispatch
    <2>2. id \in Ids /\ id # NoId
        BY <2>1, ConstantsAssumption DEF FreshIds
    <2>3. DOMAIN store' \subseteq Ids /\ \A i \in DOMAIN store' : store'[i] \in StoredStatus
        <3>1. Executing \in StoredStatus
            BY DEF StoredStatus
        <3>2. /\ DOMAIN store' = DOMAIN store \cup {id}
              /\ store'[id] = Executing
              /\ \A i \in DOMAIN store : i # id => store'[i] = store[i]
            BY <2>1 DEF Insert
        <3>. QED
            BY <2>2, <3>1, <3>2
    <2>. QED
        BY <1>1, <2>1, <2>2, <2>3 DEF Dispatch, TaskPcs
<1>2. ASSUME NEW c \in Clients, Setup(c) PROVE TypeInv'
    BY <1>2 DEF Setup, CircuitOf, Circuits, TaskPcs
<1>3. ASSUME NEW c \in Clients, Prove(c) PROVE TypeInv'
    <2>1. [job |-> c, circuit |-> active, form |-> FormOf(kind[c])] \in Proofs
        BY DEF Proofs, FormOf, Forms
    <2>2. CASE /\ pc' = [pc EXCEPT ![c] = "write"]
               /\ result' = [result EXCEPT ![c] =
                   <<[job |-> c, circuit |-> active, form |-> FormOf(kind[c])]>>]
        BY <1>3, <2>1, <2>2 DEF Prove, TaskPcs
    <2>3. CASE pc' = [pc EXCEPT ![c] = "failed"] /\ UNCHANGED result
        BY <1>3, <2>3 DEF Prove, TaskPcs
    <2>. QED
        BY <1>3, <2>2, <2>3 DEF Prove
<1>4. ASSUME NEW c \in Clients, Write(c) PROVE TypeInv'
    <2>1. Fulfilled(result[c][1]) \in StoredStatus
        BY <1>4 DEF Write, StoredStatus
    <2>2. jobId[c] \in Ids
        BY <1>4 DEF Write
    <2>3. /\ DOMAIN store' = DOMAIN store \cup {jobId[c]}
          /\ store'[jobId[c]] = Fulfilled(result[c][1])
          /\ \A i \in DOMAIN store : i # jobId[c] => store'[i] = store[i]
        BY <1>4 DEF Write, Insert
    <2>. QED
        BY <1>4, <2>1, <2>2, <2>3 DEF Write, TaskPcs
<1>5. ASSUME NEW c \in Clients, NEW t \in Ids \cup {BadHex}, GetProofStatus(c, t)
      PROVE TypeInv'
    <2>1. StatusOf(t) \in StoredStatus \cup {NotFound}
        <3>1. CASE t \in DOMAIN store /\ store[t].ful = 3
            BY <3>1 DEF StatusOf
        <3>2. CASE t \in DOMAIN store /\ store[t].ful # 3
            <4>1. store[t] = Executing
                BY <3>2 DEF StoredStatus, Executing, Fulfilled
            <4>. QED
                BY <3>2, <4>1 DEF StatusOf, Executing, StoredStatus
        <3>3. CASE t \notin DOMAIN store
            BY <3>3 DEF StatusOf
        <3>. QED
            BY <3>1, <3>2, <3>3
    <2>2. CASE t = BadHex
        BY <1>5, <2>2 DEF GetProofStatus
    <2>3. CASE t # BadHex
        BY <1>5, <2>1, <2>3 DEF GetProofStatus
    <2>. QED
        BY <2>2, <2>3
<1>6. CASE UNCHANGED vars
    BY <1>6 DEF vars
<1>. QED
    BY <1>1, <1>2, <1>3, <1>4, <1>5, <1>6 DEF Next, TaskStep

(***************************************************************************)
(* Every reachable state is well typed.                                    *)
(***************************************************************************)
THEOREM TypeCorrect == Spec => []TypeOK
<1>1. TypeInv => TypeOK
    BY DEF TypeInv
<1>. QED
    BY TypeInvInit, TypeInvStep, <1>1, PTL DEF Spec

-----------------------------------------------------------------------------
(***************************************************************************)
(* Without id collisions each store entry is the one its own job's task    *)
(* wrote.  StoreTracksOwnJob is not inductive alone: Write overwrites the  *)
(* entry under jobId[c], which leaves other jobs' entries alone only if    *)
(* no other client holds the same id (JobIdsUnique); and Dispatch adds a   *)
(* fresh id, which keeps the ids unique only because the ids in use are    *)
(* exactly the domain of the store (StoreTracksOwnJob's first conjunct)    *)
(* and the dispatching client had none (IdGivenIffSpawned).                *)
(***************************************************************************)
LEMMA IInvInit == Init => IInv
<1> SUFFICES ASSUME Init PROVE IInv
    OBVIOUS
<1>1. TypeInv
    BY TypeInvInit
<1>2. JobIdsUnique /\ StoreTracksOwnJob
    BY DEF Init, JobIdsUnique, StoreTracksOwnJob
<1>. QED
    BY <1>1, <1>2 DEF IInv

LEMMA IInvStep == ~IdCollisions => (IInv /\ [Next]_vars => IInv')
<1> SUFFICES ASSUME ~IdCollisions, IInv, [Next]_vars PROVE IInv'
    OBVIOUS
<1>0. TypeInv'
    BY TypeInvStep DEF IInv
<1> USE DEF IInv, TypeInv, TypeOK, IdGivenIffSpawned
<1> DEFINE Holders == {d \in Clients : jobId[d] # NoId}
<1>1. ASSUME NEW c \in Clients, NEW k \in Kinds, Dispatch(c, k) PROVE IInv'
    <2>1. PICK id \in Ids \ DOMAIN store : store' = Insert(store, id, Executing)
                                          /\ jobId' = [jobId EXCEPT ![c] = id]
        BY <1>1 DEF Dispatch, FreshIds
    <2>2. /\ DOMAIN store' = DOMAIN store \cup {id}
          /\ store'[id] = Executing
          /\ \A i \in DOMAIN store : store'[i] = store[i]
        BY <2>1 DEF Insert
    <2>3. jobId[c] = NoId /\ pc'[c] = "setup"
        BY <1>1 DEF Dispatch
    <2>4. \A d \in Holders : jobId[d] # id /\ d # c
        BY <2>1, <2>3 DEF StoreTracksOwnJob
    <2>5. JobIdsUnique'
        BY <2>1, <2>3, <2>4, ConstantsAssumption DEF JobIdsUnique
    <2>6. StoreTracksOwnJob'
        <3>1. (DOMAIN store = {jobId[d] : d \in Holders})'
            BY <2>1, <2>2, <2>3, ConstantsAssumption DEF StoreTracksOwnJob
        <3>2. ASSUME NEW d \in Clients, jobId'[d] # NoId
              PROVE  store'[jobId'[d]] = IF pc'[d] = "done"
                                         THEN Fulfilled(result'[d][1])
                                         ELSE Executing
            <4>1. CASE d = c
                BY <2>1, <2>2, <2>3, <4>1
            <4>2. CASE d # c
                <5>1. jobId'[d] = jobId[d] /\ pc'[d] = pc[d] /\ result'[d] = result[d]
                    BY <1>1, <2>1, <4>2 DEF Dispatch
                <5>2. jobId[d] \in DOMAIN store
                    BY <3>2, <5>1 DEF StoreTracksOwnJob
                <5>3. store[jobId[d]] = IF pc[d] = "done"
                                        THEN Fulfilled(result[d][1])
                                        ELSE Executing
                    BY <3>2, <5>1 DEF StoreTracksOwnJob
                <5>. QED
                    BY <2>2, <5>1, <5>2, <5>3
            <4>. QED
                BY <4>1, <4>2
        <3>. QED
            BY <3>1, <3>2 DEF StoreTracksOwnJob
    <2>. QED
        BY <1>0, <2>5, <2>6
<1>2. ASSUME NEW c \in Clients, Setup(c) PROVE IInv'
    BY <1>0, <1>2 DEF Setup, JobIdsUnique, StoreTracksOwnJob
<1>3. ASSUME NEW c \in Clients, Prove(c) PROVE IInv'
    <2>1. pc'[c] # "done" /\ \A d \in Clients \ {c} : pc'[d] = pc[d] /\ result'[d] = result[d]
        BY <1>3 DEF Prove
    <2>2. pc[c] # "done"
        BY <1>3 DEF Prove
    <2>3. UNCHANGED <<store, jobId>>
        BY <1>3 DEF Prove
    <2>4. JobIdsUnique'
        BY <2>3 DEF JobIdsUnique
    <2>5. ASSUME NEW d \in Clients, jobId[d] # NoId
          PROVE  store'[jobId'[d]] = IF pc'[d] = "done"
                                     THEN Fulfilled(result'[d][1])
                                     ELSE Executing
        BY <2>1, <2>2, <2>3, <2>5 DEF StoreTracksOwnJob
    <2>. QED
        BY <1>0, <2>3, <2>4, <2>5 DEF StoreTracksOwnJob
<1>4. ASSUME NEW c \in Clients, Write(c) PROVE IInv'
    <2>1. jobId[c] \in DOMAIN store
        BY <1>4 DEF Write, StoreTracksOwnJob
    <2>2. /\ DOMAIN store' = DOMAIN store
          /\ store'[jobId[c]] = Fulfilled(result[c][1])
          /\ \A i \in DOMAIN store : i # jobId[c] => store'[i] = store[i]
        BY <1>4, <2>1 DEF Write, Insert
    <2>3. \A d \in Holders \ {c} : jobId[d] # jobId[c]
        BY <1>4 DEF Write, JobIdsUnique
    <2>4. UNCHANGED <<jobId, result>> /\ pc'[c] = "done"
          /\ \A d \in Clients \ {c} : pc'[d] = pc[d]
        BY <1>4 DEF Write
    <2>5. JobIdsUnique'
        BY <2>4 DEF JobIdsUnique
    <2>6. ASSUME NEW d \in Clients, jobId[d] # NoId
          PROVE  store'[jobId'[d]] = IF pc'[d] = "done"
                                     THEN Fulfilled(result'[d][1])
                                     ELSE Executing
        <3>1. CASE d = c
            BY <2>2, <2>4, <3>1
        <3>2. CASE d # c
            <4>1. jobId[d] \in DOMAIN store /\ jobId[d] # jobId[c]
                BY <2>3, <2>6, <3>2 DEF StoreTracksOwnJob, Holders
            <4>2. store'[jobId[d]] = store[jobId[d]] /\ pc'[d] = pc[d]
                BY <2>2, <2>4, <3>2, <4>1
            <4>. QED
                BY <2>4, <2>6, <4>2 DEF StoreTracksOwnJob
        <3>. QED
            BY <3>1, <3>2
    <2>. QED
        BY <1>0, <2>2, <2>4, <2>5, <2>6 DEF StoreTracksOwnJob
<1>5. ASSUME NEW c \in Clients, NEW t \in Ids \cup {BadHex}, GetProofStatus(c, t)
      PROVE IInv'
    BY <1>0, <1>5 DEF GetProofStatus, JobIdsUnique, StoreTracksOwnJob
<1>6. CASE UNCHANGED vars
    BY <1>0, <1>6 DEF vars, JobIdsUnique, StoreTracksOwnJob
<1>. QED
    BY <1>1, <1>2, <1>3, <1>4, <1>5, <1>6 DEF Next, TaskStep

(***************************************************************************)
(* When Uuid::new_v4 never repeats an id in use, every store entry belongs *)
(* to the request that was given its id and holds what that request's own *)
(* background task wrote: Executing until the task stores its proof, that  *)
(* proof afterwards (send_proof and its spawned task, server.rs:502-632).  *)
(***************************************************************************)
THEOREM StoreTracksOwnJobHolds == ~IdCollisions => (Spec => []StoreTracksOwnJob)
<1> SUFFICES ASSUME ~IdCollisions PROVE Spec => []StoreTracksOwnJob
    OBVIOUS
<1>1. IInv => StoreTracksOwnJob
    BY DEF IInv
<1>2. IInv /\ [Next]_vars => IInv'
    BY IInvStep
<1>. QED
    BY IInvInit, <1>1, <1>2, PTL DEF Spec

(***************************************************************************)
(* The inductive invariant itself, which TLC checks on jobs_safety: with   *)
(* ids that never repeat, distinct requests hold distinct job ids, a       *)
(* request holds an id exactly when send_proof spawned its task, and the   *)
(* store is exactly the entries of the held ids, each as its own task left *)
(* it.                                                                     *)
(***************************************************************************)
THEOREM IInvHolds == ~IdCollisions => (Spec => []IInv)
<1> SUFFICES ASSUME ~IdCollisions PROVE Spec => []IInv
    OBVIOUS
<1>1. IInv /\ [Next]_vars => IInv'
    BY IInvStep
<1>. QED
    BY IInvInit, <1>1, PTL DEF Spec


-----------------------------------------------------------------------------
(***************************************************************************)
(* A task's proof names its own job and has the form of its kind: Prove   *)
(* builds it from c and kind[c], and kind[c] changes only when the client *)
(* is idle, before its task exists.                                        *)
(***************************************************************************)
LEMMA ResultIsOwnInit == Init => ResultIsOwn
BY DEF Init, ResultIsOwn

LEMMA ResultIsOwnStep == TypeInv /\ ResultIsOwn /\ [Next]_vars => ResultIsOwn'
<1> SUFFICES ASSUME TypeInv, ResultIsOwn, [Next]_vars PROVE ResultIsOwn'
    OBVIOUS
<1> USE DEF TypeInv, TypeOK, IdGivenIffSpawned
<1>1. ASSUME NEW c \in Clients, NEW k \in Kinds, Dispatch(c, k) PROVE ResultIsOwn'
    <2>1. pc'[c] = "setup" /\ UNCHANGED result
          /\ \A d \in Clients \ {c} : pc'[d] = pc[d] /\ kind'[d] = kind[d]
        BY <1>1 DEF Dispatch
    <2>. QED
        BY <2>1 DEF ResultIsOwn
<1>2. ASSUME NEW c \in Clients, Setup(c) PROVE ResultIsOwn'
    BY <1>2 DEF Setup, ResultIsOwn
<1>3. ASSUME NEW c \in Clients, Prove(c) PROVE ResultIsOwn'
    <2>1. UNCHANGED kind /\ \A d \in Clients \ {c} : pc'[d] = pc[d] /\ result'[d] = result[d]
        BY <1>3 DEF Prove
    <2>2. CASE /\ pc' = [pc EXCEPT ![c] = "write"]
               /\ result' = [result EXCEPT ![c] =
                   <<[job |-> c, circuit |-> active, form |-> FormOf(kind[c])]>>]
        BY <2>1, <2>2 DEF ResultIsOwn
    <2>3. CASE pc' = [pc EXCEPT ![c] = "failed"] /\ UNCHANGED result
        BY <2>1, <2>3 DEF ResultIsOwn
    <2>. QED
        BY <1>3, <2>2, <2>3 DEF Prove
<1>4. ASSUME NEW c \in Clients, Write(c) PROVE ResultIsOwn'
    BY <1>4 DEF Write, ResultIsOwn
<1>5. ASSUME NEW c \in Clients, NEW t \in Ids \cup {BadHex}, GetProofStatus(c, t)
      PROVE ResultIsOwn'
    BY <1>5 DEF GetProofStatus, ResultIsOwn
<1>6. CASE UNCHANGED vars
    BY <1>6 DEF vars, ResultIsOwn
<1>. QED
    BY <1>1, <1>2, <1>3, <1>4, <1>5, <1>6 DEF Next, TaskStep

-----------------------------------------------------------------------------
(***************************************************************************)
(* The poll invariant.  A reply is made from the store at the moment of    *)
(* the poll, and it stays in lastPoll afterwards; so PollSeesOwnJob is     *)
(* preserved by every step but a poll, and a poll of the id the client     *)
(* holds reads that client's own entry (StoreTracksOwnJob), which is the   *)
(* placeholder or a proof naming the client (ResultIsOwn).                 *)
(***************************************************************************)
PInv == IInv /\ ResultIsOwn /\ PollSeesOwnJob

LEMMA PInvInit == Init => PInv
<1>1. Init => PollSeesOwnJob
    BY DEF Init, PollSeesOwnJob, Range
<1>. QED
    BY <1>1, IInvInit, ResultIsOwnInit DEF PInv

LEMMA PInvStep == ~IdCollisions => (PInv /\ [Next]_vars => PInv')
<1> SUFFICES ASSUME ~IdCollisions, PInv, [Next]_vars PROVE PInv'
    OBVIOUS
<1>1. IInv' /\ ResultIsOwn'
    BY IInvStep, ResultIsOwnStep DEF PInv, IInv
<1>2. ASSUME UNCHANGED lastPoll PROVE PollSeesOwnJob'
    BY <1>2 DEF PInv, PollSeesOwnJob
<1>3. ASSUME NEW c \in Clients, NEW t \in Ids \cup {BadHex}, GetProofStatus(c, t)
      PROVE  PollSeesOwnJob'
    <2> USE DEF PInv, IInv, TypeInv, TypeOK
    <2>1. CASE t = BadHex
        BY <1>3, <2>1 DEF GetProofStatus, PollSeesOwnJob, Range
    <2>2. CASE t # BadHex /\ jobId[c] # t
        BY <1>3, <2>2 DEF GetProofStatus, PollSeesOwnJob, Range
    <2>3. CASE t # BadHex /\ jobId[c] = t
        <3>1. lastPoll' = <<[by |-> c, target |-> t, holds |-> t,
                             http |-> 200, status |-> StatusOf(t)]>>
            BY <1>3, <2>3 DEF GetProofStatus
        <3>2. t \in DOMAIN store
              /\ store[t] = IF pc[c] = "done" THEN Fulfilled(result[c][1]) ELSE Executing
            BY <2>3, ConstantsAssumption DEF StoreTracksOwnJob
        <3>3. CASE pc[c] = "done"
            <4>1. StatusOf(t) = Fulfilled(result[c][1])
                BY <3>2, <3>3 DEF StatusOf, Fulfilled
            <4>2. result[c][1].job = c
                BY <3>3 DEF ResultIsOwn
            <4>. QED
                BY <3>1, <4>1, <4>2 DEF PollSeesOwnJob, Range, Fulfilled
        <3>4. CASE pc[c] # "done"
            <4>1. StatusOf(t) = Executing
                BY <3>2, <3>4 DEF StatusOf, Executing
            <4>. QED
                BY <3>1, <4>1 DEF PollSeesOwnJob, Range
        <3>. QED
            BY <3>3, <3>4
    <2>. QED
        BY <2>1, <2>2, <2>3
<1>4. QED
    <2>1. [Next]_vars => UNCHANGED lastPoll
                         \/ \E c \in Clients, t \in Ids \cup {BadHex} : GetProofStatus(c, t)
        BY DEF Next, TaskStep, Dispatch, Setup, Prove, Write, vars
    <2>. QED
        BY <1>1, <1>2, <1>3, <2>1 DEF PInv

(***************************************************************************)
(* When ids do not collide, a /status reply to a client for the id it      *)
(* holds is "not yet fulfilled" or carries its own proof: send_proof       *)
(* inserts the placeholder before it returns the id, and only the job's    *)
(* own task writes the entry (server.rs:509-521, 626, 445-497).            *)
(***************************************************************************)
THEOREM PollSeesOwnJobHolds == ~IdCollisions => (Spec => []PollSeesOwnJob)
<1> SUFFICES ASSUME ~IdCollisions PROVE Spec => []PollSeesOwnJob
    OBVIOUS
<1>1. PInv /\ [Next]_vars => PInv'
    BY PInvStep
<1>2. PInv => PollSeesOwnJob
    BY DEF PInv
<1>. QED
    BY PInvInit, <1>1, <1>2, PTL DEF Spec


-----------------------------------------------------------------------------
(***************************************************************************)
(* Without id collisions no step removes an entry or changes a Fulfilled   *)
(* one: Dispatch inserts under an id not in the store, and the only other  *)
(* writer, Write, overwrites its own job's entry, which is still the      *)
(* Executing placeholder because its task has not yet reached "done"       *)
(* (StoreTracksOwnJob).  Entries are never evicted (server.rs:61, 521,     *)
(* 626), and a proof once served is served unchanged.                      *)
(***************************************************************************)
THEOREM StoreEntryStableHolds == ~IdCollisions => (Spec => StoreEntryStable)
<1> SUFFICES ASSUME ~IdCollisions PROVE Spec => StoreEntryStable
    OBVIOUS
<1> DEFINE Stable == \A id \in DOMAIN store :
                        /\ id \in DOMAIN store'
                        /\ store[id].ful = 3 => store'[id] = store[id]
<1>1. IInv /\ [Next]_vars => [Stable]_vars
    <2> SUFFICES ASSUME IInv, [Next]_vars PROVE Stable
        OBVIOUS
    <2> USE DEF IInv, TypeInv, TypeOK, IdGivenIffSpawned
    <2>1. ASSUME NEW c \in Clients, NEW k \in Kinds, Dispatch(c, k) PROVE Stable
        <3>1. PICK id \in Ids \ DOMAIN store : store' = Insert(store, id, Executing)
            BY <2>1 DEF Dispatch, FreshIds
        <3>. QED
            BY <3>1 DEF Insert
    <2>2. ASSUME NEW c \in Clients, Write(c) PROVE Stable
        <3>1. jobId[c] \in DOMAIN store /\ store[jobId[c]] = Executing
            BY <2>2 DEF Write, StoreTracksOwnJob
        <3>. QED
            BY <2>2, <3>1 DEF Write, Insert, Executing
<2>3. ASSUME NEW c \in Clients, Setup(c) \/ Prove(c) PROVE UNCHANGED store
        BY <2>3 DEF Setup, Prove
    <2>4. ASSUME NEW c \in Clients, NEW t \in Ids \cup {BadHex}, GetProofStatus(c, t)
          PROVE UNCHANGED store
        BY <2>4 DEF GetProofStatus
    <2>. QED
        BY <2>1, <2>2, <2>3, <2>4 DEF Next, TaskStep, vars
<1>. QED
    BY IInvInit, IInvStep, <1>1, PTL DEF Spec, StoreEntryStable

-----------------------------------------------------------------------------
(***************************************************************************)
(* Refinement of JobStore.  The owner of an entry is found by CHOOSE over  *)
(* the clients; it is the client holding the id, because ids are unique.  *)
(***************************************************************************)
LEMMA ChooseHolder ==
    ASSUME NEW f, NEW i, NEW c \in Clients, f[c] = i,
           \A d \in Clients : f[d] = i => d = c
    PROVE  (CHOOSE d \in Clients : f[d] = i) = c
OBVIOUS

LEMMA RefineInit == Init => Abs!Init
BY DEF Init, Abs!Init, absJobs

LEMMA RefineStep == ~IdCollisions => (PInv /\ [Next]_vars => [Abs!Next]_absJobs)
<1> SUFFICES ASSUME ~IdCollisions, PInv, [Next]_vars PROVE [Abs!Next]_absJobs
    OBVIOUS
<1> USE DEF PInv, IInv, TypeInv, TypeOK, IdGivenIffSpawned
<1> DEFINE Holders == {d \in Clients : jobId[d] # NoId}
\* The owner of a stored id is the client holding it.
<1>0. ASSUME NEW i \in DOMAIN store
      PROVE  \E d \in Holders : jobId[d] = i /\ OwnerOf(i) = d
    <2>1. PICK d \in Holders : jobId[d] = i
        BY DEF StoreTracksOwnJob
    <2>2. \A e \in Clients : jobId[e] = i => e = d
        BY <2>1 DEF JobIdsUnique
    <2>. QED
        BY <2>1, <2>2, ChooseHolder DEF OwnerOf
<1>1. ASSUME NEW c \in Clients, NEW k \in Kinds, Dispatch(c, k) PROVE Abs!Next
    <2>1. PICK id \in Ids \ DOMAIN store : store' = Insert(store, id, Executing)
                                          /\ jobId' = [jobId EXCEPT ![c] = id]
        BY <1>1 DEF Dispatch, FreshIds
    <2>2. jobId[c] = NoId /\ kind' = [kind EXCEPT ![c] = k]
        BY <1>1 DEF Dispatch
    <2>3. /\ DOMAIN store' = DOMAIN store \cup {id}
          /\ store'[id] = Executing
          /\ \A i \in DOMAIN store : store'[i] = store[i]
        BY <2>1 DEF Insert
    <2>4. OwnerOf(id)' = c
        <3>1. \A d \in Clients : jobId'[d] = id => d = c
            BY <2>1, <2>2, ConstantsAssumption DEF StoreTracksOwnJob
        <3>. QED
            BY <2>1, <3>1, ChooseHolder DEF OwnerOf
    <2>5. ASSUME NEW i \in DOMAIN store
          PROVE  absJobs'[i] = absJobs[i]
        <3>1. PICK d \in Holders : jobId[d] = i /\ OwnerOf(i) = d
            BY <1>0
        <3>2. d # c /\ i # id
            BY <2>1, <2>2, <3>1
        <3>3. \A e \in Clients : jobId'[e] = i => e = d
            BY <2>1, <2>2, <3>1, <3>2 DEF JobIdsUnique
        <3>4. OwnerOf(i)' = d
            BY <2>1, <3>1, <3>2, <3>3, ChooseHolder DEF OwnerOf
        <3>5. kind'[d] = kind[d] /\ store'[i] = store[i]
            BY <2>2, <2>3, <3>2
        <3>. QED
            BY <2>3, <3>1, <3>4, <3>5 DEF absJobs
    <2>6. absJobs' = Abs!Set(id, [owner |-> c, kind |-> k, status |-> "executing",
                                  proof |-> <<>>])
        <3>1. absJobs'[id] = [owner |-> c, kind |-> k, status |-> "executing", proof |-> <<>>]
            BY <2>2, <2>3, <2>4 DEF absJobs, AbsStatus, AbsProof, Executing
        <3>. QED
            BY <2>3, <2>5, <3>1 DEF absJobs, Abs!Set
    <2>7. Abs!Create(c, k, id)
        BY <2>1, <2>6 DEF Abs!Create, absJobs
    <2>. QED
        BY <2>1, <2>7 DEF Abs!Next, Kinds, Abs!Kinds
<1>2. ASSUME NEW c \in Clients, Write(c) PROVE Abs!Next
    <2> DEFINE id == jobId[c]
               p == [job |-> c, form |-> result[c][1].form]
    <2>1. UNCHANGED <<jobId, kind, result>> /\ pc[c] = "write"
          /\ store' = Insert(store, id, Fulfilled(result[c][1]))
        BY <1>2 DEF Write
    <2>2. id \in DOMAIN store /\ store[id] = Executing /\ id \in Ids
        BY <2>1 DEF StoreTracksOwnJob
    <2>3. OwnerOf(id) = c /\ OwnerOf(id)' = c
        <3>1. \A d \in Clients : jobId[d] = id => d = c
            BY <2>1 DEF JobIdsUnique
        <3>. QED
            BY <2>1, <3>1, ChooseHolder DEF OwnerOf
    <2>4. result[c][1].job = c /\ result[c][1].form = FormOf(kind[c])
          /\ result[c][1] \in Proofs
        BY <2>1 DEF ResultIsOwn
    <2>5. p \in Abs!Proofs /\ p.form = Abs!FormOf(kind[c])
        BY <2>4 DEF Proofs, Abs!Proofs, Forms, Abs!Forms, FormOf, Abs!FormOf
    <2>6. /\ DOMAIN store' = DOMAIN store
          /\ store'[id] = Fulfilled(result[c][1])
          /\ \A i \in DOMAIN store : i # id => store'[i] = store[i]
        BY <2>1, <2>2 DEF Insert
    <2>7. absJobs'[id] = [owner |-> c, kind |-> kind[c], status |-> "fulfilled", proof |-> <<p>>]
        <3>1. AbsStatus(store'[id]) = "fulfilled" /\ AbsProof(store'[id]) = <<p>>
            BY <2>4, <2>6 DEF AbsStatus, AbsProof, Fulfilled
        <3>. QED
            BY <2>1, <2>2, <2>3, <2>6, <3>1 DEF absJobs
    <2>8. \A i \in DOMAIN store : i # id => absJobs'[i] = absJobs[i]
        BY <2>1, <2>6 DEF absJobs, OwnerOf
    <2>9. absJobs[id].status = "executing" /\ absJobs[id].owner = c /\ absJobs[id].kind = kind[c]
        BY <2>2, <2>3 DEF absJobs, AbsStatus, Executing
    <2>10. Abs!Complete(id, p)
        BY <2>2, <2>5, <2>6, <2>7, <2>8, <2>9 DEF Abs!Complete, Abs!Set, absJobs
    <2>. QED
        BY <2>2, <2>5, <2>10 DEF Abs!Next
<1>3. ASSUME UNCHANGED <<store, jobId, kind>> PROVE UNCHANGED absJobs
    BY <1>3 DEF absJobs, OwnerOf, AbsStatus, AbsProof
<1>4. QED
    <2>1. \/ \E c \in Clients, k \in Kinds : Dispatch(c, k)
          \/ \E c \in Clients : Write(c)
          \/ UNCHANGED <<store, jobId, kind>>
        BY DEF Next, TaskStep, Setup, Prove, GetProofStatus, vars
    <2>. QED
        BY <1>1, <1>2, <1>3, <2>1

(***************************************************************************)
(* Without id collisions, send_proof, the tasks it spawns and the polls    *)
(* implement the job store that spec sections 4.1 and 4.2 describe: each   *)
(* entry is created once, Executing, for its requester, and is changed at  *)
(* most once, to a proof of its own job in the form of its kind.           *)
(***************************************************************************)
THEOREM Refinement == ~IdCollisions => (Spec => JobStoreSpec)
<1> SUFFICES ASSUME ~IdCollisions PROVE Spec => JobStoreSpec
    OBVIOUS
<1>1. PInv /\ [Next]_vars => PInv'
    BY PInvStep
<1>2. PInv /\ [Next]_vars => [Abs!Next]_absJobs
    BY RefineStep
<1>. QED
    BY PInvInit, RefineInit, <1>1, <1>2, PTL DEF Spec, JobStoreSpec, Abs!Spec

=============================================================================
