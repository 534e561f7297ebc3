------------------------------ MODULE Operations ------------------------------
(***************************************************************************)
(* The scripts around the programs, as an operator uses them: the          *)
(* deployment and the health check at the same time, on one cluster; or    *)
(* the checklist tracker, which shares nothing with them, on its own.      *)
(***************************************************************************)
EXTENDS Integers, Sequences, FiniteSets

CONSTANTS Program, programs, None, MaxFaults, programIds,
          Files, MaxFiles, Phase, Owner, Missing

(* A configuration names at least one program, and None stands for none.   *)
ASSUME OperationsAssumption ==
    /\ programs \in Seq(Program) /\ programs # <<>>
    /\ programIds \in Seq(Program \cup {None}) /\ programIds # <<>>
    /\ None \notin Program
    /\ MaxFaults \in Nat
    /\ MaxFiles \in Nat \ {0}
    /\ Phase \subseteq Nat

VARIABLES session,        \* what the operator does: "cluster" or "checklists"
          ids, chain, built, script, deploymentInfo, faults,
          continuous, checker, report,
          given, options, tracker

D == INSTANCE Deployment
H == INSTANCE HealthCheck
T == INSTANCE ChecklistTracker

(* What the tracker may be given: nothing but lines, whatever their order.  *)
ASSUME ChecklistAssumption ==
    /\ Files \subseteq Seq(T!Line)
    /\ None \notin Nat
    /\ {None, Missing} \cap Files = {}

vars == <<session, ids, chain, built, script, deploymentInfo, faults,
          continuous, checker, report, given, options, tracker>>

Init ==
    \/ /\ session = "cluster"
       /\ D!DeploymentInit /\ H!HealthInit
       /\ given = <<>> /\ options = None /\ tracker = None
    \/ /\ session = "checklists"
       /\ T!TrackerInit
       /\ ids = [p \in Program |-> "key"] /\ chain = [p \in Program |-> "absent"]
       /\ built = {} /\ script = [pc |-> "exited", results |-> <<>>]
       /\ deploymentInfo = None /\ faults = 0
       /\ continuous = FALSE /\ checker = H!NewCheck /\ report = None

Deploying ==
    /\ session = "cluster"
    /\ D!DeploymentStep
    /\ UNCHANGED <<session, continuous, checker, report, given, options, tracker>>

DeployingFails ==
    /\ session = "cluster"
    /\ D!DeploymentFault
    /\ UNCHANGED <<session, continuous, checker, report, given, options, tracker>>

Checking ==
    /\ session = "cluster"
    /\ H!HealthStep
    /\ UNCHANGED <<session, ids, built, script, deploymentInfo, faults,
                   given, options, tracker>>

Tracking ==
    /\ session = "checklists"
    /\ T!TrackerStep
    /\ UNCHANGED <<session, ids, chain, built, script, deploymentInfo, faults,
                   continuous, checker, report>>

Next == Deploying \/ DeployingFails \/ Checking \/ Tracking

Spec == Init /\ [][Next]_vars

(* The operator starts the deployment again until it has been done, and    *)
(* neither script is suspended for ever.                                   *)
FairSpec ==
    /\ Spec
    /\ WF_vars(Deploying)
    /\ WF_vars(Checking)
    /\ WF_vars(Tracking)

-----------------------------------------------------------------------------
(* deployment-info.json is written once and names every configured         *)
(* program; each has a valid id with an account on the cluster, and one    *)
(* that this script deployed is a program, whatever failed and was         *)
(* repeated before.                                                        *)
SavedMeansDeployed ==
    deploymentInfo # None =>
        /\ Len(deploymentInfo) = Len(programs)
        /\ \A i \in DOMAIN programs :
              /\ deploymentInfo[i].programId = programs[i]
              /\ ids[programs[i]] # "invalid" /\ chain[programs[i]] # "absent"
              /\ deploymentInfo[i].signature = "DeploymentSuccessful"
                     => chain[programs[i]] = "program"

(* A program that a report calls healthy can be executed, also when the    *)
(* check ran while the deployment was going on, failing or being repeated. *)
HealthyIsDeployed ==
    report # None =>
        \A n \in DOMAIN report.programs :
            report.programs[n] => programIds[n] # None /\ chain[programIds[n]] = "program"

(* A program with a valid id that the CLI can deploy, or is there already.  *)
Deliverable(p) ==
    ids[p] = "deployable" \/ (ids[p] = "key" /\ chain[p] # "absent")

(* After any bounded number of failures and kills the script completes, if *)
(* every program of its configuration can be delivered: what an earlier    *)
(* run left behind on the cluster does not stop a later one.  (One id that *)
(* is not valid, such as the second of the default configuration, stops    *)
(* every run.)                                                             *)
DeploymentCompletes ==
    (session = "cluster" /\ \A i \in DOMAIN programs : Deliverable(programs[i]))
        ~> deploymentInfo # None

(* The loop of the health check outlives a node, a program or an API that  *)
(* does not answer: only a disk that cannot be written ends it.            *)
MonitoringGoesOn ==
    (session = "cluster" /\ continuous) =>
        []<>(checker.pc = "rpc") \/ <>(checker.pc = "failed")

(* The items of the files that could be read, counted from the files: an   *)
(* item belongs to the last phase above it.                                *)
Counted(p) ==
    LET Under(n, i) ==
            /\ given[n][i].kind = "item"
            /\ \E h \in 1..(i - 1) : /\ given[n][h].kind = "phase"
                                     /\ given[n][h].number = p
                                     /\ \A j \in (h + 1)..i : given[n][j].kind # "phase"
    IN  Cardinality(UNION {{n} \X {i \in DOMAIN given[n] : Under(n, i)} :
                           n \in {m \in DOMAIN given : given[m] # None}})

(* However often the report is made (for the display, for the file, for    *)
(* the exit code), an item is counted once, under its own phase.           *)
SummaryCountsOnce ==
    (session = "checklists" /\ tracker.nextSteps # {}) =>
        \A p \in Phase : tracker.summary.byPhase[p].total = Counted(p)

=============================================================================
