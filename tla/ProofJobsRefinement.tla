------------------------- MODULE ProofJobsRefinement -------------------------
(***************************************************************************)
(* The job engine of ProofJobs seen as the job store of JobStore.  A store *)
(* entry is the job of the client holding its id; its status is read off  *)
(* the fulfillment status, and its proof is the stored proof without the   *)
(* circuit it was made with, which JobStore does not speak of.             *)
(***************************************************************************)
EXTENDS ProofJobs

\* The client send_proof returned id to.
OwnerOf(id) == CHOOSE c \in Clients : jobId[c] = id

AbsStatus(s) == IF s.ful = 3 THEN "fulfilled" ELSE "executing"

AbsProof(s) ==
    IF s.ful = 3 THEN <<[job |-> s.proof[1].job, form |-> s.proof[1].form]>>
                 ELSE <<>>

absJobs ==
    [id \in DOMAIN store |->
        [owner |-> OwnerOf(id), kind |-> kind[OwnerOf(id)],
         status |-> AbsStatus(store[id]), proof |-> AbsProof(store[id])]]

Abs == INSTANCE JobStore WITH jobs <- absJobs

\* Without id collisions, every behaviour of send_proof, its tasks and the
\* polls is a behaviour of the job store: each store entry is created once
\* for its requester and changes at most once, to a proof of its own job in
\* the form of its kind.
JobStoreSpec == Abs!Spec

=============================================================================
