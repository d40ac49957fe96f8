---------------------------- MODULE MCExecProcess ----------------------------
(* Small instances of ExecProcess.  The streams differ in nothing, so they  *)
(* are a symmetry set of the runs, which check no liveness.                 *)
EXTENDS ExecProcess, TLC

CONSTANTS out, err

Symmetry == Permutations(Stream)

\* Once the client is not connected it never is again: the tasks and the reads of
\* the server take no more step, and no action or property looks at their state
\* but for the output that is retained.  States that differ in it are one.
View ==
  <<IF Connected THEN <<process, task, left, request>> ELSE process.output,
    log, wire, down, rpc, inbox, reader, client, consumer>>
=============================================================================
