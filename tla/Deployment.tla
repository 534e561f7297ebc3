------------------------------ MODULE Deployment ------------------------------
(***************************************************************************)
(* The deployment script (src/deploy-programs.ts): it deploys the programs *)
(* of its configuration one after another, exits at the first that fails   *)
(* and writes deployment-info.json when all are there.  An operator starts *)
(* it again as long as the file is missing, with the configuration that it *)
(* has.                                                                    *)
(***************************************************************************)
EXTENDS Integers, Sequences

CONSTANTS Program,
          programs,       \* config.programs: a sequence of Program
          None,
          MaxFaults       \* bound: how often a step of the script goes wrong

VARIABLES ids,            \* what the configured id of each program is worth
          chain,          \* what is at each program id
          built,          \* the programs whose binary is on disk
          script,         \* the running script: its place and its results
          deploymentInfo, \* the results in deployment-info.json
          faults

deployVars == <<ids, chain, built, script, deploymentInfo, faults>>

(* An id may be none that PublicKey takes; and whether the command line of *)
(* deployProgram can make a program at one that it takes (with a key that  *)
(* can sign, and a CLI that knows its options) is not up to the script.    *)
Id == {"invalid", "key", "deployable"}

Account == {"absent", "data", "program"}

Result == [programId : Program, signature : {"AlreadyDeployed", "DeploymentSuccessful"}]

DeploymentInit ==
    /\ ids \in [Program -> Id]
    /\ chain \in [Program -> Account]
    /\ \A p \in Program : ids[p] = "invalid" => chain[p] = "absent"
    /\ built \in SUBSET Program
    /\ script = [pc |-> "exited", results |-> <<>>]
    /\ deploymentInfo = None
    /\ faults = 0

(* The program whose turn it is.                                           *)
program == programs[Len(script.results) + 1]

Fault == faults < MaxFaults /\ faults' = faults + 1

exit == script' = [script EXCEPT !.pc = "exited"]

(* loadConfig, loadKeypair and the balance, which is only reported.        *)
main ==
    /\ script.pc = "exited"
    /\ deploymentInfo = None
    /\ script' = [pc |-> "binary", results |-> <<>>]
    /\ UNCHANGED <<ids, chain, built, deploymentInfo, faults>>

(* No keypair at keypairPath, or no answer to getBalance.                  *)
mainFails ==
    /\ script.pc = "binary" /\ script.results = <<>>
    /\ Fault
    /\ exit
    /\ UNCHANGED <<ids, chain, built, deploymentInfo>>

(* new PublicKey throws: the script ends, whatever it has deployed before. *)
IdFails ==
    /\ script.pc = "binary"
    /\ ids[program] = "invalid"
    /\ exit
    /\ UNCHANGED <<ids, chain, built, deploymentInfo, faults>>

(* A binary that is missing is built, and all are.                         *)
FindBinary ==
    /\ script.pc = "binary"
    /\ ids[program] # "invalid"
    /\ built' = IF program \in built THEN built ELSE Program
    /\ script' = [script EXCEPT !.pc = "lookup"]
    /\ UNCHANGED <<ids, chain, deploymentInfo, faults>>

BuildFails ==
    /\ script.pc = "binary"
    /\ ids[program] # "invalid" /\ program \notin built
    /\ Fault
    /\ exit
    /\ UNCHANGED <<ids, chain, built, deploymentInfo>>

(* initializeProgram only logs.                                            *)
Deployed(signature) ==
    LET results == Append(script.results, [programId |-> program, signature |-> signature])
    IN  script' = [pc |-> IF Len(results) = Len(programs) THEN "save" ELSE "binary",
                   results |-> results]

(* A mutant of Found: a program that is there already is an error.         *)
FoundIsError == exit

(* Any account at the id will do.                                          *)
Found == Deployed("AlreadyDeployed")

LookUp ==
    /\ script.pc = "lookup"
    /\ IF chain[program] # "absent" THEN Found
       ELSE script' = [script EXCEPT !.pc = "deploy"]
    /\ UNCHANGED <<ids, chain, built, deploymentInfo, faults>>

(* A look-up that fails is taken for a program that is not deployed.       *)
LookUpFails ==
    /\ script.pc = "lookup"
    /\ Fault
    /\ script' = [script EXCEPT !.pc = "deploy"]
    /\ UNCHANGED <<ids, chain, built, deploymentInfo>>

(* A mutant of DeployFails: the loop goes on with the next program.        *)
KeepGoing == Deployed("DeploymentSuccessful")

DeployFails == exit

(* solana program deploy: if it can, it makes or upgrades a program;       *)
(* another account is not touched.                                         *)
deployProgram ==
    /\ script.pc = "deploy"
    /\ IF ids[program] = "deployable" /\ chain[program] # "data"
       THEN /\ chain' = [chain EXCEPT ![program] = "program"]
            /\ Deployed("DeploymentSuccessful")
       ELSE DeployFails /\ UNCHANGED chain
    /\ UNCHANGED <<ids, built, deploymentInfo, faults>>

(* The command fails, whether or not the program has arrived on chain.     *)
deployProgramFails ==
    /\ script.pc = "deploy"
    /\ Fault
    /\ \/ UNCHANGED chain
       \/ /\ ids[program] = "deployable" /\ chain[program] = "absent"
          /\ chain' = [chain EXCEPT ![program] = "program"]
    /\ DeployFails
    /\ UNCHANGED <<ids, built, deploymentInfo>>

saveDeploymentInfo ==
    /\ script.pc = "save"
    /\ deploymentInfo' = script.results
    /\ script' = [script EXCEPT !.pc = "finished"]
    /\ UNCHANGED <<ids, chain, built, faults>>

(* The script is killed: what it has done on chain stays.                  *)
Crash ==
    /\ script.pc \notin {"exited", "finished"}
    /\ Fault
    /\ exit
    /\ UNCHANGED <<ids, chain, built, deploymentInfo>>

DeploymentStep ==
    \/ main \/ IdFails \/ FindBinary \/ LookUp \/ deployProgram \/ saveDeploymentInfo

DeploymentFault ==
    \/ mainFails \/ BuildFails \/ LookUpFails \/ deployProgramFails \/ Crash

=============================================================================
