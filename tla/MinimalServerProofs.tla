------------------------- MODULE MinimalServerProofs -------------------------
(***************************************************************************)
(* Proofs about MinimalServer, for every number of invocations MaxRuns:    *)
(* the type invariant, and that an aggregation proof is always over the    *)
(* range proof of its own run (AggOverOwnSpan), through the inductive      *)
(* invariant MInv.                                                         *)
(***************************************************************************)
EXTENDS MinimalServer, TLAPS

\* The steps of a run follow each other as the statements of main() do.
LEMMA NextStepValues ==
    /\ NextStep("start") = "fetcher"
    /\ NextStep("fetcher") = "hostargs"
    /\ NextStep("hostargs") = "witnessgen"
    /\ NextStep("witnessgen") = "flush"
    /\ NextStep("flush") = "stdin"
    /\ NextStep("stdin") = "provespan"
    /\ NextStep("provespan") = "save"
    /\ NextStep("save") = "sleep"
    /\ NextStep("sleep") = "load"
    /\ NextStep("load") = "setup2"
    /\ NextStep("setup2") = "headers"
    /\ NextStep("headers") = "aggstdin"
    /\ NextStep("aggstdin") = "setupagg"
    /\ NextStep("setupagg") = "proveagg"
  BY DEF NextStep, Order

\* The values pc may take are the steps of Order and the ways a run ends.
LEMMA PcValues ==
    {Order[i] : i \in 1 .. 15} =
        {"start", "fetcher", "hostargs", "witnessgen", "flush", "stdin",
         "provespan", "save", "sleep", "load", "setup2", "headers",
         "aggstdin", "setupagg", "proveagg"}
  BY DEF Order

(***************************************************************************)
(* TypeOK with the set of pc values written out, so that the provers need *)
(* not compute the range of Order at every step.                         *)
(***************************************************************************)
PcSet == {"start", "fetcher", "hostargs", "witnessgen", "flush", "stdin",
          "provespan", "save", "sleep", "load", "setup2", "headers",
          "aggstdin", "setupagg", "proveagg"} \cup Terminal

TypeAlt ==
    /\ run \in 1 .. MaxRuns
    /\ pc \in PcSet
    /\ DOMAIN disk \subseteq Paths
    /\ \A f \in DOMAIN disk : disk[f] \in Files
    /\ active \in Circuits \cup {"none"}
    /\ span \in SpanOrNone
    /\ loaded \in SpanOrNone
    /\ agg \in AggOrNone

LEMMA TypeAltIff == (TypeOK <=> TypeAlt) /\ (TypeOK' <=> TypeAlt')
  BY PcValues DEF TypeOK, TypeAlt, PcSet

\* A non-empty sequence of SpanOrNone is <<q[1]>> with q[1] a span proof.
LEMMA SpanOrNoneElim ==
    ASSUME NEW q \in SpanOrNone, q # <<>>
    PROVE  q[1] \in SpanProofs /\ q = <<q[1]>>
  BY DEF SpanOrNone

LEMMA MInvInit == Init => MInv
  <1> SUFFICES ASSUME Init PROVE MInv
    OBVIOUS
  <1>1. run \in 1 .. MaxRuns
    BY MaxRunsAssumption DEF Init
  <1>2. pc \in {Order[i] : i \in 1 .. 15} \cup Terminal
    BY PcValues DEF Init
  <1>3. DOMAIN disk \subseteq Paths /\ \A f \in DOMAIN disk : disk[f] \in Files
    <2>1. Whole(Stale) \in Files /\ Cut(Stale) \in Files
      BY MaxRunsAssumption DEF Whole, Cut, Stale, Files, Circuits
    <2>2. QED
      BY <2>1 DEF Init, Paths
  <1>4. QED
    BY <1>1, <1>2, <1>3
       DEF Init, MInv, TypeOK, Circuits, SpanOrNone, AggOrNone,
           SpanSteps, HoldSteps, SavedSteps, LoadedSteps

\* The path the script saves to and the one it loads from name the same
\* file: the doubled slash of format!("{}/{}-{}.bin", "proofs/", ..) is
\* harmless.
LEMMA SameFile == SavePath = LoadPath
  BY DEF SavePath, LoadPath, PathOf, L2Start, L2End

\* Writing a file of the right type at SavePath keeps the disk typed, and
\* the file is there afterwards.
LEMMA WriteFileType ==
    ASSUME TypeOK, NEW x \in Files
    PROVE  LET d == WriteFile(SavePath, x)
           IN  /\ DOMAIN d \subseteq Paths
               /\ \A f \in DOMAIN d : d[f] \in Files
               /\ LoadPath \in DOMAIN d
               /\ d[LoadPath] = x
  BY SameFile DEF TypeOK, WriteFile, Paths

\* The span proof a run holds from the save on, and its files.
OwnSpan == [run |-> run, circuit |-> "range"]

LEMMA OwnSpanTypes ==
    ASSUME TypeOK
    PROVE  /\ OwnSpan \in SpanProofs
           /\ Whole(OwnSpan) \in Files /\ Cut(OwnSpan) \in Files
           /\ <<OwnSpan>> \in SpanOrNone
           /\ <<[over |-> OwnSpan, circuit |-> "agg"]>> \in AggOrNone
  <1>1. OwnSpan \in SpanProofs
    BY DEF TypeOK, SpanProofs, Circuits, OwnSpan
  <1>2. Whole(OwnSpan) \in Files /\ Cut(OwnSpan) \in Files
    BY DEF TypeOK, Whole, Cut, Files, Circuits, OwnSpan
  <1>3. QED
    BY <1>1, <1>2 DEF SpanOrNone, AggOrNone, Circuits

\* Each step of a run, a kill, or a restart, keeps MInv.
LEMMA MInvStep == MInv /\ [Next]_mvars => MInv'
  <1> SUFFICES ASSUME MInv, [Next]_mvars PROVE MInv'
    OBVIOUS
  <1> DEFINE x == OwnSpan
  <1> USE TypeAltIff, NextStepValues
      DEF MInv, TypeAlt, PcSet, SpanSteps, HoldSteps, SavedSteps, LoadedSteps,
          Terminal, Circuits
  <1>1. CASE Start
    <2>1. /\ pc = "start" /\ pc' = "fetcher" /\ active' = "range"
          /\ UNCHANGED <<run, disk, span, loaded, agg>>
      BY <1>1 DEF Start
    <2>2. TypeAlt'
      BY <2>1
    <2>3. QED
      BY <2>1, <2>2
  <1>2. CASE CreateFetcher
    <2>1. /\ pc = "fetcher" /\ pc' \in {"hostargs", "panic"}
          /\ UNCHANGED <<run, disk, active, span, loaded, agg>>
      BY <1>2 DEF CreateFetcher, Call
    <2>2. TypeAlt'
      BY <2>1
    <2>3. QED
      BY <2>1, <2>2
  <1>3. CASE HostArgs
    <2>1. /\ pc = "hostargs" /\ pc' \in {"witnessgen", "err"}
          /\ UNCHANGED <<run, disk, active, span, loaded, agg>>
      BY <1>3 DEF HostArgs, Call
    <2>2. TypeAlt'
      BY <2>1
    <2>3. QED
      BY <2>1, <2>2
  <1>4. CASE SpawnWitnessgen
    <2>1. /\ pc = "witnessgen" /\ pc' \in {"flush", "err"}
          /\ UNCHANGED <<run, disk, active, span, loaded, agg>>
      BY <1>4 DEF SpawnWitnessgen, Call
    <2>2. TypeAlt'
      BY <2>1
    <2>3. QED
      BY <2>1, <2>2
  <1>5. CASE FlushWitnessgen
    <2>1. /\ pc = "flush" /\ pc' \in {"stdin", "err"}
          /\ UNCHANGED <<run, disk, active, span, loaded, agg>>
      BY <1>5 DEF FlushWitnessgen, Call
    <2>2. TypeAlt'
      BY <2>1
    <2>3. QED
      BY <2>1, <2>2
  <1>6. CASE ProofStdin
    <2>1. /\ pc = "stdin" /\ pc' \in {"provespan", "err"}
          /\ UNCHANGED <<run, disk, active, span, loaded, agg>>
      BY <1>6 DEF ProofStdin, Call
    <2>2. TypeAlt'
      BY <2>1
    <2>3. QED
      BY <2>1, <2>2
  <1>7. CASE ProveSpan
    <2>1. pc = "provespan" /\ active = "range"
      BY <1>7 DEF ProveSpan
    <2>2. CASE span' = <<x>> /\ pc' = "save"
               /\ UNCHANGED <<run, disk, active, loaded, agg>>
      <3>1. TypeAlt'
        BY <2>2, OwnSpanTypes
      <3>2. QED
        BY <2>1, <2>2, <3>1 DEF OwnSpan
    <2>3. CASE pc' = "panic" /\ UNCHANGED <<run, disk, active, span, loaded, agg>>
      <3>1. TypeAlt'
        BY <2>3
      <3>2. QED
        BY <2>1, <2>3, <3>1
    <2>4. QED
      BY <2>1, <2>2, <2>3, <1>7 DEF ProveSpan, OwnSpan
  <1>8. CASE Save
    <2>1. pc = "save" /\ span = <<x>> /\ UNCHANGED <<run, active, span, loaded, agg>>
      BY <1>8 DEF Save, OwnSpan
    <2>2. CASE disk' = WriteFile(SavePath, Whole(x)) /\ pc' = "sleep"
      <3>1. Whole(x) = Whole(span[1])
        BY <2>1
      <3>2. TypeAlt'
        BY <2>1, <2>2, OwnSpanTypes, WriteFileType
      <3>3. QED
        BY <2>1, <2>2, <3>1, <3>2, OwnSpanTypes, WriteFileType
    <2>3. CASE disk' = disk /\ pc' = "panic"
      <3>1. TypeAlt'
        BY <2>1, <2>3
      <3>2. QED
        BY <2>1, <2>3, <3>1
    <2>4. CASE disk' = WriteFile(SavePath, Cut(x)) /\ pc' = "panic"
      <3>1. TypeAlt'
        BY <2>1, <2>4, OwnSpanTypes, WriteFileType
      <3>2. QED
        BY <2>1, <2>4, <3>1
    <2>5. QED
      BY <1>8, <2>1, <2>2, <2>3, <2>4 DEF Save
  <1>9. CASE Sleep
    <2>1. /\ pc = "sleep" /\ pc' = "load" /\ active' = "none"
          /\ UNCHANGED <<run, disk, span, loaded, agg>>
      BY <1>9 DEF Sleep
    <2>2. TypeAlt'
      BY <2>1
    <2>3. QED
      BY <2>1, <2>2
  <1>10. CASE Load
    <2>1. pc = "load" /\ span = <<x>> /\ disk[LoadPath] = Whole(x)
          /\ LoadPath \in DOMAIN disk
      BY <1>10 DEF Load, OwnSpan
    <2>2. loaded' = span /\ pc' = "setup2"
          /\ UNCHANGED <<run, disk, active, span, agg>>
      BY <1>10, <2>1 DEF Load, Whole, OwnSpan
    <2>3. TypeAlt'
      BY <2>1, <2>2
    <2>4. QED
      BY <2>1, <2>2, <2>3
  <1>11. CASE Setup2
    <2>1. /\ pc = "setup2" /\ pc' = "headers" /\ active' = "range"
          /\ UNCHANGED <<run, disk, span, loaded, agg>>
      BY <1>11 DEF Setup2
    <2>2. TypeAlt'
      BY <2>1
    <2>3. QED
      BY <2>1, <2>2
  <1>12. CASE Headers
    <2>1. /\ pc = "headers" /\ pc' \in {"aggstdin", "err"}
          /\ UNCHANGED <<run, disk, active, span, loaded, agg>>
      BY <1>12 DEF Headers, Call
    <2>2. TypeAlt'
      BY <2>1
    <2>3. QED
      BY <2>1, <2>2
  <1>13. CASE AggStdin
    <2>1. /\ pc = "aggstdin" /\ pc' \in {"setupagg", "panic"}
          /\ UNCHANGED <<run, disk, active, span, loaded, agg>>
      BY <1>13 DEF AggStdin, Call
    <2>2. TypeAlt'
      BY <2>1
    <2>3. QED
      BY <2>1, <2>2
  <1>14. CASE SetupAgg
    <2>1. /\ pc = "setupagg" /\ pc' = "proveagg" /\ active' = "agg"
          /\ UNCHANGED <<run, disk, span, loaded, agg>>
      BY <1>14 DEF SetupAgg
    <2>2. TypeAlt'
      BY <2>1
    <2>3. QED
      BY <2>1, <2>2
  <1>15. CASE ProveAgg
    <2>1. pc = "proveagg" /\ active = "agg" /\ loaded = <<x>> /\ span = <<x>>
      BY <1>15 DEF ProveAgg, OwnSpan
    <2>2. CASE agg' = <<[over |-> x, circuit |-> "agg"]>> /\ pc' = "ok"
               /\ UNCHANGED <<run, disk, active, span, loaded>>
      <3>1. TypeAlt'
        BY <2>2, OwnSpanTypes
      <3>2. QED
        BY <2>1, <2>2, <3>1
    <2>3. CASE pc' = "panic" /\ UNCHANGED <<run, disk, active, span, loaded, agg>>
      <3>1. TypeAlt'
        BY <2>3
      <3>2. QED
        BY <2>1, <2>3, <3>1
    <2>4. QED
      BY <1>15, <2>1, <2>2, <2>3 DEF ProveAgg
  <1>16. CASE Crash
    <2>1. pc \notin Terminal /\ pc' = "killed"
          /\ UNCHANGED <<run, active, span, loaded, agg>>
      BY <1>16 DEF Crash
    <2>2. agg = <<>>
      BY <2>1
    <2>3. CASE disk' = disk
      <3>1. TypeAlt'
        BY <2>1, <2>3
      <3>2. QED
        BY <2>1, <2>2, <2>3, <3>1
    <2>4. CASE pc = "save" /\ disk' = WriteFile(SavePath, Cut(x))
      <3>1. TypeAlt'
        BY <2>1, <2>4, OwnSpanTypes, WriteFileType
      <3>2. QED
        BY <2>1, <2>2, <2>4, <3>1
    <2>5. pc = "save" => span[1] = x
      BY DEF OwnSpan
    <2>6. QED
      BY <1>16, <2>3, <2>4, <2>5 DEF Crash
  <1>17. CASE Restart
    <2>1. /\ run < MaxRuns /\ run' = run + 1 /\ pc' = "start"
          /\ active' = "none" /\ span' = <<>> /\ loaded' = <<>> /\ agg' = <<>>
          /\ UNCHANGED disk
      BY <1>17 DEF Restart
    <2>2. run' \in 1 .. MaxRuns
      BY <2>1, MaxRunsAssumption
    <2>3. TypeAlt'
      BY <2>1, <2>2 DEF SpanOrNone, AggOrNone
    <2>4. QED
      BY <2>1, <2>3
  <1>18. CASE UNCHANGED mvars
    <2>1. UNCHANGED <<run, pc, disk, active, span, loaded, agg>>
      BY <1>18 DEF mvars
    <2>2. QED
      BY <2>1
  <1>19. QED
    BY <1>1, <1>2, <1>3, <1>4, <1>5, <1>6, <1>7, <1>8, <1>9, <1>10, <1>11,
       <1>12, <1>13, <1>14, <1>15, <1>16, <1>17, <1>18 DEF Next

\* MInv holds in every state of every behaviour of the script, however
\* often it is killed and restarted.
THEOREM MInvHolds == MSpec => []MInv
  BY MInvInit, MInvStep, PTL DEF MSpec

\* Type correctness of the script model: every variable keeps its type,
\* through kills mid-save and restarts over a left-over proofs directory.
THEOREM MinimalTypeCorrect == MSpec => []TypeOK
  <1>1. MInv => TypeOK
    BY DEF MInv
  <1>2. QED
    BY MInvHolds, <1>1, PTL

\* The aggregation proof the script makes (line 138-146) is made with the
\* aggregation circuit, over the range proof this same run proved and saved
\* (lines 87-103), never over a file left by an earlier or killed run.
THEOREM AggOverOwnSpanHolds == MSpec => []AggOverOwnSpan
  <1>1. MInv => AggOverOwnSpan
    BY DEF MInv, AggOverOwnSpan, HoldSteps
  <1>2. QED
    BY MInvHolds, <1>1, PTL

=============================================================================
