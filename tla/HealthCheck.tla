------------------------------ MODULE HealthCheck ------------------------------
(***************************************************************************)
(* The health check (src/Health Check Script                               *)
(* scripts/deploy-tools/health-check.ts): it asks for the RPC node, reads  *)
(* the accounts of the configured programs one after another, asks for the *)
(* API and saves a report, in a loop if it is told to.                     *)
(***************************************************************************)
EXTENDS Integers, Sequences

CONSTANTS Program, None,
          programIds      \* Environment.getProgramIds: a sequence of programs,
                          \* None where no id is configured

VARIABLES chain,
          continuous,     \* --continuous
          checker,        \* the running check: its place and what it found
          report          \* the last report that was saved

healthVars == <<continuous, checker, report>>

NewCheck == [pc |-> "rpc", rpc |-> None, programs |-> <<>>, api |-> None]

HealthInit ==
    /\ continuous \in BOOLEAN
    /\ checker = NewCheck
    /\ report = None

(* A mutant of AfterRpc: a node that does not answer ends the check.       *)
Rethrown(healthy) ==
    checker' = IF healthy THEN [checker EXCEPT !.pc = "programs", !.rpc = TRUE]
               ELSE [checker EXCEPT !.pc = "exited"]

(* The error of the node is caught: the other checks are made as well.     *)
AfterRpc(healthy) == checker' = [checker EXCEPT !.pc = "programs", !.rpc = healthy]

(* Latency and age of the slot make issues, of which the report only tells.*)
checkRPC ==
    /\ checker.pc = "rpc"
    /\ \E healthy \in BOOLEAN : AfterRpc(healthy)
    /\ UNCHANGED <<chain, continuous, report>>

(* A mutant of executable: any account is good enough.                     *)
ExistsIsEnough(p) == chain[p] # "absent"

executable(p) == chain[p] = "program"

(* The next program is read, unless the node does not answer.              *)
checkPrograms ==
    /\ checker.pc = "programs"
    /\ LET n == Len(checker.programs) + 1
           p == programIds[n]
       IN  \E answered \in BOOLEAN :
              checker' = [checker EXCEPT
                  !.programs = Append(@, p # None /\ answered /\ executable(p)),
                  !.pc = IF n = Len(programIds) THEN "api" ELSE "programs"]
    /\ UNCHANGED <<chain, continuous, report>>

(* None: the API is not running, and the check is skipped.  Those of the   *)
(* database and of Redis are not implemented.                              *)
checkAPI ==
    /\ checker.pc = "api"
    /\ \E healthy \in {TRUE, FALSE, None} :
          checker' = [checker EXCEPT !.pc = "save", !.api = healthy]
    /\ UNCHANGED <<chain, continuous, report>>

saveReport ==
    /\ checker.pc = "save"
    /\ report' = [rpc |-> checker.rpc, programs |-> checker.programs, api |-> checker.api]
    /\ checker' = [checker EXCEPT !.pc = IF continuous THEN "asleep" ELSE "finished"]
    /\ UNCHANGED <<chain, continuous>>

(* The directory or the file cannot be written; nothing catches this.      *)
saveReportFails ==
    /\ checker.pc = "save"
    /\ checker' = [checker EXCEPT !.pc = "failed"]
    /\ UNCHANGED <<chain, continuous, report>>

(* The interval of runContinuousCheck is over.                             *)
runContinuousCheck ==
    /\ checker.pc = "asleep"
    /\ checker' = NewCheck
    /\ UNCHANGED <<chain, continuous, report>>

HealthStep ==
    \/ checkRPC \/ checkPrograms \/ checkAPI
    \/ saveReport \/ saveReportFails \/ runContinuousCheck

=============================================================================
