----------------------------- MODULE MCVirtwork -----------------------------
(* Small instances of Virtwork for TLC. *)
EXTENDS Virtwork, TLC

CONSTANTS a, b, r1, r2, r3, c1, c2

\* Nothing tells the cleanups apart before they start.
Alike == Permutations(Cleanups)

One == [w \in Workloads |-> 1]

Plain(reqs) == [req : reqs, dry : {FALSE}, wait : {FALSE}, limit : {1}]
RunA == Plain({<<a>>})

AnyCleanup ==
  [target : {NoRun}, dry : {FALSE}, yes : BOOLEAN, deleteNS : BOOLEAN]
    \cup [target : {r1}, dry : BOOLEAN, yes : {FALSE}, deleteNS : {FALSE}]
AllOrR1 == [target : {NoRun, r1}, dry : {FALSE}, yes : {TRUE}, deleteNS : {FALSE}]
CleanAll == [target : {NoRun}, dry : {FALSE}, yes : {TRUE}, deleteNS : {FALSE}]
\* One cleanup of r1 only, another of everything that also deletes the
\* namespace and may have to ask.
Beside == [target : {r1}, dry : {FALSE}, yes : {FALSE}, deleteNS : {FALSE}]
            \cup [target : {NoRun}, dry : {FALSE}, yes : {FALSE}, deleteNS : {TRUE}]
CleanR1 == [target : {r1}, dry : {FALSE}, yes : {FALSE}, deleteNS : {FALSE}]
=============================================================================
