------------------------------- MODULE MCRun -------------------------------
(* Small instances of RunOrchestrator for TLC. *)
EXTENDS Refinement

CONSTANTS a, b, c, d, e, f, g, h

\* A workload of two VMs, or two workloads one of which has a Service, waiting
\* for readiness or not, with a pool of one or without a limit.
Deploy == [req : {<<a>>, <<b, h>>}, dry : {FALSE}, wait : BOOLEAN, limit : {0, 1}]
\* Every way planning and building can go wrong, and a name requested twice.
Awkward == [req : {<<b, c>>, <<b, d>>, <<b, e>>, <<b, f>>, <<b, g>>, <<c>>, <<b, b>>},
            dry : {FALSE}, wait : {TRUE}, limit : {1}]
DryRuns == [req : {<<b, c>>, <<b, e>>, <<b, f>>, <<b, g>>}, dry : {TRUE}, wait : {TRUE}, limit : {1}]
AnyRun == Deploy \cup Awkward \cup DryRuns
Count == [w \in Workloads |-> IF w = a THEN 2 ELSE 1]

\* Two runs over the same names.
Same == [req : {<<b>>}, dry : {FALSE}, wait : {TRUE}, limit : {1}]

=============================================================================
