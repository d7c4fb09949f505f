---------------------------- MODULE MinimalServer ----------------------------
(***************************************************************************)
(* The stand-alone proving script                                          *)
(* src/sigil/op-succinct/proposer/succinct/bin/minimal-server.rs.  One run *)
(* proves the span 12500-12501 with a prover set up for RANGE_ELF, saves   *)
(* the proof under proofs/, drops the prover, loads the proof back from a  *)
(* hard-coded path, and aggregates it with a second prover set up first    *)
(* for RANGE_ELF and then for AGG_ELF.                                     *)
(*                                                                         *)
(* The proofs directory outlives a run: the script may be killed at any    *)
(* step (a crash in the middle of a save leaves a partial file) and run    *)
(* again, and it may find a file left by an earlier invocation.  A proof   *)
(* is a record naming the run that made it and the circuit it was made     *)
(* with; a path is the directory and the block range it names.            *)
(***************************************************************************)
EXTENDS Naturals, Sequences

CONSTANTS
    MaxRuns     \* how many times the script is started

ASSUME MaxRunsAssumption == MaxRuns \in Nat \ {0}

\* l2_start_block, l2_end_block (lines 20-21).
L2Start == 12500
L2End == 12501

\* format!("{}/{}-{}.bin", "proofs/", start, end): "proofs//12500-12501.bin",
\* which the file system resolves to the file 12500-12501.bin in proofs.
PathOf(dir, s, e) == [dir |-> dir, start |-> s, end |-> e]
SavePath == PathOf("proofs", L2Start, L2End)

\* The path load_aggregation_proof_data is called with, typed out by hand
\* (line 110).
LoadPath == PathOf("proofs", 12500, 12501)

Paths == {SavePath, LoadPath}
Circuits == {"range", "agg"}

\* A proof made by run r with circuit x, and a file holding it whole or cut
\* off by a failed or killed save.
SpanProofs == [run : 0 .. MaxRuns, circuit : Circuits]
Files == [run : 0 .. MaxRuns, circuit : Circuits, whole : BOOLEAN]

Whole(p) == [run |-> p.run, circuit |-> p.circuit, whole |-> TRUE]
Cut(p) == [run |-> p.run, circuit |-> p.circuit, whole |-> FALSE]

\* The steps of a run, in order.
Order == <<"start", "fetcher", "hostargs", "witnessgen", "flush", "stdin",
           "provespan", "save", "sleep", "load", "setup2", "headers",
           "aggstdin", "setupagg", "proveagg">>
Terminal == {"ok", "err", "panic", "killed"}

VARIABLES
    run,        \* the number of the current invocation
    pc,         \* the step the run is at, or how it ended
    disk,       \* the files under proofs/: a partial function Paths -> Files
    active,     \* the circuit the live prover was last set up with, or "none"
    span,       \* <<>> or <<p>>: the span proof this run made
    loaded,     \* <<>> or <<f>>: the proof this run read back from disk
    agg         \* <<>> or <<[over, circuit]>>: the aggregation proof made

mvars == <<run, pc, disk, active, span, loaded, agg>>

\* No proof yet, or one: a span proof, or an aggregation proof over one.
SpanOrNone == {<<>>} \cup {<<p>> : p \in SpanProofs}
AggOrNone == {<<>>} \cup {<<[over |-> p, circuit |-> x]>> : p \in SpanProofs, x \in Circuits}

TypeOK ==
    /\ run \in 1 .. MaxRuns
    /\ pc \in {Order[i] : i \in 1 .. 15} \cup Terminal
    /\ DOMAIN disk \subseteq Paths
    /\ \A f \in DOMAIN disk : disk[f] \in Files
    /\ active \in Circuits \cup {"none"}
    /\ span \in SpanOrNone
    /\ loaded \in SpanOrNone
    /\ agg \in AggOrNone

\* The step after s.
NextStep(s) ==
    LET i == CHOOSE j \in 1 .. Len(Order) - 1 : Order[j] = s
    IN  Order[i + 1]

\* Writing file f with contents x: create it or replace it.
WriteFile(f, x) == [g \in DOMAIN disk \cup {f} |-> IF g = f THEN x ELSE disk[g]]

\* The span proof an earlier invocation (run 0) made.
Stale == [run |-> 0, circuit |-> "range"]

\* A previous invocation may have left a proof, or a cut-off file, at the
\* path this run will read.
Init ==
    /\ run = 1
    /\ pc = "start"
    /\ disk \in {[g \in {} |-> Whole(Stale)],
                 [g \in {LoadPath} |-> Whole(Stale)],
                 [g \in {LoadPath} |-> Cut(Stale)]}
    /\ active = "none"
    /\ span = <<>>
    /\ loaded = <<>>
    /\ agg = <<>>

-----------------------------------------------------------------------------
\* Step s awaits a call whose Ok moves on and whose Err ends the run as
\* `failure` ("err" for `return Err` and `?`, "panic" for todo!/unwrap).
Call(s, failure) ==
    /\ pc = s
    /\ pc' \in {NextStep(s), failure}
    /\ UNCHANGED <<run, disk, active, span, loaded, agg>>

\* ProverClient::from_env() and prover.setup(RANGE_ELF) (lines 33-34).
Start ==
    /\ pc = "start"
    /\ active' = "range"
    /\ pc' = NextStep("start")
    /\ UNCHANGED <<run, disk, span, loaded, agg>>

\* new_with_rollup_config: an Err reaches todo!() (lines 39-45).
CreateFetcher == Call("fetcher", "panic")

\* get_host_cli_args, spawn_witnessgen, flush, get_proof_stdin (47-83).
HostArgs == Call("hostargs", "err")
SpawnWitnessgen == Call("witnessgen", "err")
FlushWitnessgen == Call("flush", "err")
ProofStdin == Call("stdin", "err")

\* prover.prove(&range_pk, ..).compressed().run().unwrap() (lines 87-91).
ProveSpan ==
    /\ pc = "provespan"
    /\ \/ /\ span' = <<[run |-> run, circuit |-> active]>>
          /\ pc' = NextStep("provespan")
       \/ /\ pc' = "panic"
          /\ UNCHANGED span
    /\ UNCHANGED <<run, disk, active, loaded, agg>>

\* Faulty variant of Save: the result of proof.save ignored.
SaveIgnoringError ==
    /\ pc = "save"
    /\ \/ disk' = WriteFile(SavePath, Whole(span[1]))
       \/ disk' \in {disk, WriteFile(SavePath, Cut(span[1]))}
    /\ pc' = NextStep("save")
    /\ UNCHANGED <<run, active, span, loaded, agg>>

\* create_dir_all(..).unwrap() and proof.save(&proof_path).expect(..)
\* (lines 95-103): the proof is written, or the run panics, leaving the
\* file as it was or cut off.
Save ==
    /\ pc = "save"
    /\ \/ /\ disk' = WriteFile(SavePath, Whole(span[1]))
          /\ pc' = NextStep("save")
       \/ /\ disk' \in {disk, WriteFile(SavePath, Cut(span[1]))}
          /\ pc' = "panic"
    /\ UNCHANGED <<run, active, span, loaded, agg>>

\* drop(prover) and the ten-second sleep (lines 106-108).
Sleep ==
    /\ pc = "sleep"
    /\ active' = "none"
    /\ pc' = NextStep("sleep")
    /\ UNCHANGED <<run, disk, span, loaded, agg>>

\* Faulty variant of Load: the file read back without parsing it, a cut-off
\* file taken as a proof.
LoadUnchecked ==
    /\ pc = "load"
    /\ IF LoadPath \in DOMAIN disk
       THEN /\ loaded' = <<disk[LoadPath]>>
            /\ pc' = NextStep("load")
       ELSE /\ pc' = "panic"
            /\ UNCHANGED loaded
    /\ UNCHANGED <<run, disk, active, span, agg>>

\* load_aggregation_proof_data(LoadPath): panic! when the file is missing,
\* expect(..) when it does not parse (lines 112, 150-162).
Load ==
    /\ pc = "load"
    /\ IF LoadPath \in DOMAIN disk /\ disk[LoadPath].whole
       THEN /\ loaded' = <<[run |-> disk[LoadPath].run, circuit |-> disk[LoadPath].circuit]>>
            /\ pc' = NextStep("load")
       ELSE /\ pc' = "panic"
            /\ UNCHANGED loaded
    /\ UNCHANGED <<run, disk, active, span, agg>>

\* A second ProverClient::from_env(), set up for RANGE_ELF (116-117).
Setup2 ==
    /\ pc = "setup2"
    /\ active' = "range"
    /\ pc' = NextStep("setup2")
    /\ UNCHANGED <<run, disk, span, loaded, agg>>

\* get_latest_l1_head_in_batch(..)? and get_header_preimages(..)? (119-122).
Headers == Call("headers", "err")

\* get_agg_proof_stdin(..).unwrap() (lines 130-131).
AggStdin == Call("aggstdin", "panic")

\* Faulty variant of SetupAgg: the prover left as set up for RANGE_ELF.
SetupAggSkipped ==
    /\ pc = "setupagg"
    /\ pc' = NextStep("setupagg")
    /\ UNCHANGED <<run, disk, active, span, loaded, agg>>

\* prover.setup(AGG_ELF) (line 133).
SetupAgg ==
    /\ pc = "setupagg"
    /\ active' = "agg"
    /\ pc' = NextStep("setupagg")
    /\ UNCHANGED <<run, disk, span, loaded, agg>>

\* prover.prove(&agg_pk, &stdin).groth16().run().expect(..) (138-146).
ProveAgg ==
    /\ pc = "proveagg"
    /\ \/ /\ agg' = <<[over |-> loaded[1], circuit |-> active]>>
          /\ pc' = "ok"
       \/ /\ pc' = "panic"
          /\ UNCHANGED agg
    /\ UNCHANGED <<run, disk, active, span, loaded>>

\* The process is killed at any step; killed while saving, it leaves the
\* file as it was or cut off.
Crash ==
    /\ pc \notin Terminal
    /\ pc' = "killed"
    /\ disk' \in IF pc = "save" THEN {disk, WriteFile(SavePath, Cut(span[1]))} ELSE {disk}
    /\ UNCHANGED <<run, active, span, loaded, agg>>

\* The script is started again: a new process, the same proofs directory.
Restart ==
    /\ pc \in Terminal
    /\ run < MaxRuns
    /\ run' = run + 1
    /\ pc' = "start"
    /\ active' = "none"
    /\ span' = <<>>
    /\ loaded' = <<>>
    /\ agg' = <<>>
    /\ UNCHANGED disk

Next ==
    \/ Start \/ CreateFetcher \/ HostArgs \/ SpawnWitnessgen \/ FlushWitnessgen
    \/ ProofStdin \/ ProveSpan \/ Save \/ Sleep \/ Load \/ Setup2 \/ Headers
    \/ AggStdin \/ SetupAgg \/ ProveAgg \/ Crash \/ Restart

MSpec == Init /\ [][Next]_mvars

-----------------------------------------------------------------------------
\* The aggregation proof a run makes is of the aggregation circuit, over
\* the range proof this same run proved and saved, never over a file an
\* earlier or killed invocation left behind (lines 87-142).
AggOverOwnSpan ==
    agg # <<>> =>
        /\ agg[1].circuit = "agg"
        /\ span # <<>>
        /\ agg[1].over = span[1]
        /\ span[1].circuit = "range"

(***************************************************************************)
(* The inductive invariant behind AggOverOwnSpan (proved in                *)
(* MinimalServerProofs, checked by TLC in MCMinimalServer): what each step *)
(* of a run may take for granted of the steps before it.  The first        *)
(* prover is set up for RANGE_ELF until the span is proved; from the save  *)
(* on, the run holds its own range proof; until the load, the file at the  *)
(* path it loads is that proof, whole; from the load on, the proof read    *)
(* back is the run's own; the prove of the aggregation runs on a prover    *)
(* set up for AGG_ELF; an aggregation proof exists only in a run that      *)
(* ended "ok", and is over the run's span.                                 *)
(***************************************************************************)
SpanSteps == {"fetcher", "hostargs", "witnessgen", "flush", "stdin", "provespan"}
HoldSteps == {"save", "sleep", "load", "setup2", "headers", "aggstdin",
              "setupagg", "proveagg", "ok"}
SavedSteps == {"sleep", "load"}
LoadedSteps == {"setup2", "headers", "aggstdin", "setupagg", "proveagg", "ok"}

MInv ==
    /\ TypeOK
    /\ pc \in SpanSteps => active = "range"
    /\ pc \in HoldSteps => span = <<[run |-> run, circuit |-> "range"]>>
    /\ pc \in SavedSteps =>
          LoadPath \in DOMAIN disk /\ disk[LoadPath] = Whole(span[1])
    /\ pc \in LoadedSteps => loaded = span
    /\ pc = "proveagg" => active = "agg"
    /\ agg # <<>> => pc = "ok" /\ agg = <<[over |-> span[1], circuit |-> "agg"]>>

=============================================================================
