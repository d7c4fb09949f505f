\* The stand-alone script, killed and restarted up to three times over one
\* proofs directory.  The last run stops: the script exits.
CONSTANT MaxRuns <- MCMaxRuns
SPECIFICATION MSpec
INVARIANT TypeOK
INVARIANT AggOverOwnSpan
CHECK_DEADLOCK FALSE
