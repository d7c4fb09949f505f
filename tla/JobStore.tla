------------------------------ MODULE JobStore ------------------------------
(***************************************************************************)
(* What the proof store and the job dispatcher promise (spec sections 3,   *)
(* 4.1 and 4.2), with no tasks, prover or polls: a job is created with a   *)
(* fresh id in the Executing state, and it changes at most once, to        *)
(* Fulfilled with a proof of its own job in the form of its kind, or to    *)
(* Unfulfillable.  A job is never deleted.                                 *)
(***************************************************************************)
EXTENDS Sequences

CONSTANTS
    Clients,    \* who requested a job
    Ids         \* the job identifiers

VARIABLE jobs   \* a partial function from ids to job records

Kinds == {"span", "agg"}
Forms == {"compressed", "groth16"}

\* An intermediate (span) proof is kept whole, a final (agg) proof is
\* reduced to its on-chain form (spec 4.2 (c)).
FormOf(k) == IF k = "span" THEN "compressed" ELSE "groth16"

Proofs == [job : Clients, form : Forms]

Statuses == {"executing", "fulfilled", "unfulfillable"}

Jobs == [owner : Clients, kind : Kinds, status : Statuses, proof : Seq(Proofs)]

TypeOK ==
    /\ DOMAIN jobs \subseteq Ids
    /\ \A id \in DOMAIN jobs : jobs[id] \in Jobs

Init == jobs = [id \in {} |-> CHOOSE j \in Jobs : TRUE]

\* The record of job id replaced by j, every other record kept.
Set(id, j) == [i \in DOMAIN jobs \cup {id} |-> IF i = id THEN j ELSE jobs[i]]

\* dispatch(kind): a fresh id, a placeholder Executing record.
Create(c, k, id) ==
    /\ id \in Ids \ DOMAIN jobs
    /\ jobs' = Set(id, [owner |-> c, kind |-> k, status |-> "executing", proof |-> <<>>])

\* The job's own task ends with a proof of that job.
Complete(id, p) ==
    /\ id \in DOMAIN jobs
    /\ jobs[id].status = "executing"
    /\ p.job = jobs[id].owner
    /\ p.form = FormOf(jobs[id].kind)
    /\ jobs' = Set(id, [owner |-> jobs[id].owner, kind |-> jobs[id].kind,
                        status |-> "fulfilled", proof |-> <<p>>])

\* The job's own task ends with a proving failure.
Fail(id) ==
    /\ id \in DOMAIN jobs
    /\ jobs[id].status = "executing"
    /\ jobs' = Set(id, [owner |-> jobs[id].owner, kind |-> jobs[id].kind,
                        status |-> "unfulfillable", proof |-> <<>>])

Next ==
    \E id \in Ids :
        \/ \E c \in Clients, k \in Kinds : Create(c, k, id)
        \/ \E p \in Proofs : Complete(id, p)
        \/ Fail(id)

Spec == Init /\ [][Next]_jobs

=============================================================================
