--------------------------- MODULE Operations_proofs ---------------------------
(***************************************************************************)
(* What the deployment saves and what the health check reports is so, for  *)
(* every configuration, every number of failures and every interleaving    *)
(* of the two scripts; and the report of the checklist tracker counts what *)
(* is in the files.                                                        *)
(***************************************************************************)
EXTENDS Operations, FiniteSetTheorems, SequenceTheorems, WellFoundedInduction, TLAPS

ScriptType == [pc : {"exited", "binary", "lookup", "deploy", "save", "finished"},
               results : Seq(D!Result)]

CheckerType == [pc : {"rpc", "programs", "api", "save", "asleep", "finished", "failed"},
                rpc : BOOLEAN \cup {None}, programs : Seq(BOOLEAN), api : BOOLEAN \cup {None}]

TypeOK ==
    /\ ids \in [Program -> D!Id]
    /\ chain \in [Program -> D!Account]
    /\ script \in ScriptType
    /\ checker \in CheckerType

(* The results of a script so far, in the order of the configuration.      *)
Grounded(results, state) ==
    \A i \in 1..Len(results) :
        /\ results[i].programId = programs[i]
        /\ state[programs[i]] # "absent"
        /\ results[i].signature = "DeploymentSuccessful" => state[programs[i]] = "program"

ScriptOK ==
    /\ Len(script.results) <= Len(programs)
    /\ script.pc \in {"binary", "lookup", "deploy"} => Len(script.results) < Len(programs)
    /\ script.pc = "save" => Len(script.results) = Len(programs)
    /\ Grounded(script.results, chain)

Healthy(programHealth, state) ==
    \A n \in DOMAIN programHealth :
        programHealth[n] => programIds[n] # None /\ state[programIds[n]] = "program"

CheckerOK ==
    /\ Len(checker.programs) <= Len(programIds)
    /\ checker.pc = "rpc" => checker.programs = <<>>
    /\ checker.pc = "programs" => Len(checker.programs) < Len(programIds)
    /\ Healthy(checker.programs, chain)

(* The inductive invariant.  A report outlives the check that made it.     *)
ReportOK ==
    report # None =>
        /\ report.programs \in Seq(BOOLEAN)
        /\ Len(report.programs) <= Len(programIds)
        /\ Healthy(report.programs, chain)

(* There is no account at what is no id.                                   *)
IdsOK == \A p \in Program : ids[p] = "invalid" => chain[p] = "absent"

IInv == TypeOK /\ IdsOK /\ ScriptOK /\ CheckerOK /\ SavedMeansDeployed /\ ReportOK

(* A program that is on chain stays there, no account disappears, and none *)
(* comes to be at what is no id.                                           *)
Kept ==
    /\ UNCHANGED ids
    /\ \A p \in Program : ids[p] = "invalid" => chain'[p] = chain[p]
    /\ chain' \in [Program -> D!Account]
    /\ \A p \in Program : /\ chain[p] # "absent" => chain'[p] # "absent"
                          /\ chain[p] = "program" => chain'[p] = "program"

-----------------------------------------------------------------------------
(* What a configuration is, entry by entry.                                *)
LEMMA Configuration ==
    /\ Len(programs) \in Nat /\ Len(programs) > 0 /\ DOMAIN programs = 1..Len(programs)
    /\ \A i \in 1..Len(programs) : programs[i] \in Program
    /\ Len(programIds) \in Nat /\ Len(programIds) > 0
    /\ \A i \in 1..Len(programIds) : programIds[i] \in Program \cup {None}
  BY OperationsAssumption

(* One more entry at the end of a sequence.                                *)
LEMMA Appended ==
    ASSUME NEW seq \in Seq(D!Result), NEW e \in D!Result
    PROVE  /\ Len(seq) \in Nat
           /\ Append(seq, e) \in Seq(D!Result)
           /\ Len(Append(seq, e)) = Len(seq) + 1
           /\ \A i \in 1..(Len(seq) + 1) :
                 Append(seq, e)[i] = IF i = Len(seq) + 1 THEN e ELSE seq[i]
  OBVIOUS

(* The parts of a script and of a check.                                   *)
LEMMA Parts ==
    ASSUME TypeOK
    PROVE  /\ script = [pc |-> script.pc, results |-> script.results]
           /\ script.results \in Seq(D!Result) /\ Len(script.results) \in Nat
           /\ checker = [pc |-> checker.pc, rpc |-> checker.rpc,
                         programs |-> checker.programs, api |-> checker.api]
           /\ checker.rpc \in BOOLEAN \cup {None} /\ checker.api \in BOOLEAN \cup {None}
           /\ checker.programs \in Seq(BOOLEAN) /\ Len(checker.programs) \in Nat
  <1>1. script.results \in Seq(D!Result) /\ checker.programs \in Seq(BOOLEAN)
    BY DEF TypeOK, ScriptType, CheckerType
  <1> QED
    BY <1>1 DEF TypeOK, ScriptType, CheckerType

(* A running script has a program whose turn it is.                        *)
LEMMA Turn ==
    ASSUME IInv, script.pc \in {"binary", "lookup", "deploy"}
    PROVE  /\ D!program \in Program
           /\ Len(script.results) + 1 \in 1..Len(programs)
           /\ D!program = programs[Len(script.results) + 1]
  <1>1. Len(script.results) + 1 \in 1..Len(programs)
    BY Parts, Configuration DEF IInv, ScriptOK
  <1> QED
    BY <1>1, Configuration DEF D!program

(* The scripts begin with nothing done.                                    *)
LEMMA InitialState == Init => IInv
  <1> SUFFICES ASSUME Init PROVE IInv
      OBVIOUS
  <1>1. /\ ids \in [Program -> D!Id] /\ chain \in [Program -> D!Account] /\ IdsOK
        /\ script = [pc |-> "exited", results |-> <<>>]
        /\ deploymentInfo = None
        /\ checker = [pc |-> "rpc", rpc |-> None, programs |-> <<>>, api |-> None]
        /\ report = None
    <2>1. CASE session = "cluster" /\ D!DeploymentInit /\ H!HealthInit
      BY <2>1 DEF D!DeploymentInit, H!HealthInit, H!NewCheck, IdsOK
    <2>2. CASE ids = [p \in Program |-> "key"] /\ chain = [p \in Program |-> "absent"] /\ script = [pc |-> "exited", results |-> <<>>]
               /\ deploymentInfo = None /\ checker = H!NewCheck /\ report = None
      BY <2>2 DEF H!NewCheck, D!Account, D!Id, IdsOK
    <2> QED
      BY <2>1, <2>2 DEF Init
  <1>2. TypeOK
    BY <1>1 DEF TypeOK, ScriptType, CheckerType
  <1>3. ScriptOK /\ CheckerOK
    BY <1>1, OperationsAssumption DEF ScriptOK, CheckerOK, Grounded, Healthy
  <1> QED
    BY <1>1, <1>2, <1>3 DEF IInv, SavedMeansDeployed, ReportOK

(* What was so of an earlier chain is so of a later one.                   *)
LEMMA StillGrounded ==
    ASSUME Kept, NEW results \in Seq(D!Result), Len(results) <= Len(programs),
           Grounded(results, chain)
    PROVE  Grounded(results, chain')
  <1> SUFFICES ASSUME NEW i \in 1..Len(results)
               PROVE  /\ results[i].programId = programs[i]
                      /\ chain'[programs[i]] # "absent"
                      /\ results[i].signature = "DeploymentSuccessful"
                            => chain'[programs[i]] = "program"
    BY DEF Grounded
  <1>1. programs[i] \in Program
    BY OperationsAssumption
  <1> QED
    BY <1>1 DEF Grounded, Kept

LEMMA StillHealthy ==
    ASSUME Kept, NEW health \in Seq(BOOLEAN), Len(health) <= Len(programIds),
           Healthy(health, chain)
    PROVE  Healthy(health, chain')
  <1> SUFFICES ASSUME NEW n \in DOMAIN health, health[n]
               PROVE  programIds[n] # None /\ chain'[programIds[n]] = "program"
    BY DEF Healthy
  <1>1. programIds[n] \in Program
    BY OperationsAssumption DEF Healthy
  <1> QED
    BY <1>1 DEF Healthy, Kept

(* deployment-info.json goes on being true.                                *)
LEMMA StillSaved ==
    ASSUME SavedMeansDeployed, Kept, UNCHANGED deploymentInfo
    PROVE  SavedMeansDeployed'
  <1> SUFFICES ASSUME deploymentInfo # None, NEW i \in DOMAIN programs
               PROVE  /\ ids'[programs[i]] # "invalid" /\ chain'[programs[i]] # "absent"
                      /\ deploymentInfo[i].signature = "DeploymentSuccessful"
                            => chain'[programs[i]] = "program"
    BY DEF SavedMeansDeployed
  <1>1. programs[i] \in Program
    BY OperationsAssumption
  <1> QED
    BY <1>1 DEF SavedMeansDeployed, Kept

(* What the health check has found goes on being true, as long as neither  *)
(* it nor its report changes.                                              *)
LEMMA StillReported ==
    ASSUME IInv, Kept, UNCHANGED <<checker, report>>
    PROVE  checker' \in CheckerType /\ CheckerOK' /\ ReportOK'
  <1>1. Healthy(checker.programs, chain')
    BY StillHealthy DEF IInv, CheckerOK, TypeOK, CheckerType
  <1>2. ASSUME report # None PROVE Healthy(report.programs, chain')
    BY <1>2, StillHealthy DEF IInv, ReportOK
  <1> QED
    BY <1>1, <1>2 DEF IInv, TypeOK, CheckerOK, ReportOK, Healthy

-----------------------------------------------------------------------------
(* A result that is true, after results that are.                          *)
LEMMA GroundedAppended ==
    ASSUME NEW results \in Seq(D!Result), NEW result \in D!Result, NEW state,
           Len(results) < Len(programs), Grounded(results, state),
           result.programId = programs[Len(results) + 1],
           state[programs[Len(results) + 1]] # "absent",
           result.signature = "DeploymentSuccessful"
               => state[programs[Len(results) + 1]] = "program"
    PROVE  Grounded(Append(results, result), state)
  <1>0. /\ Len(results) \in Nat /\ Len(Append(results, result)) = Len(results) + 1
        /\ \A i \in 1..(Len(results) + 1) :
              Append(results, result)[i] = IF i = Len(results) + 1 THEN result ELSE results[i]
    BY Appended
  <1> DEFINE more == Append(results, result)
             n == Len(results) + 1
  <1> HIDE DEF more
  <1> SUFFICES ASSUME NEW i \in 1..n
               PROVE  /\ more[i].programId = programs[i]
                      /\ state[programs[i]] # "absent"
                      /\ more[i].signature = "DeploymentSuccessful"
                            => state[programs[i]] = "program"
    BY <1>0 DEF Grounded, more
  <1>1. CASE i = n
    BY <1>0, <1>1 DEF more
  <1>2. CASE i # n
    <2>1. i \in 1..Len(results)
      <3>1. Len(results) \in Nat
        BY <1>0
      <3> QED
        BY <1>2, <3>1
    <2>2. more[i] = results[i]
      BY <1>0, <1>2 DEF more
    <2> QED
      BY <2>1, <2>2 DEF Grounded
  <1> QED
    BY <1>1, <1>2

(* The script goes on with one more result, or saves them.                 *)
LEMMA NextPlace ==
    ASSUME NEW results \in Seq(D!Result), Len(results) <= Len(programs),
           Grounded(results, chain'),
           script' = [pc |-> IF Len(results) = Len(programs) THEN "save" ELSE "binary",
                      results |-> results]
    PROVE  script' \in ScriptType /\ ScriptOK'
  <1>1. /\ script' \in ScriptType /\ script'.results = results
        /\ script'.pc = IF Len(results) = Len(programs) THEN "save" ELSE "binary"
    BY DEF ScriptType
  <1>2. Grounded(script'.results, chain')
    BY <1>1
  <1>3. Len(results) \in Nat /\ Len(programs) \in Nat
    BY Configuration
  <1>4. CASE Len(results) = Len(programs)
    BY <1>1, <1>2, <1>3, <1>4 DEF ScriptOK
  <1>5. CASE Len(results) < Len(programs)
    BY <1>1, <1>2, <1>3, <1>5 DEF ScriptOK
  <1> QED
    BY <1>3, <1>4, <1>5

(* One more result, for the program whose turn it is.                      *)
LEMMA OneMore ==
    ASSUME IInv, Kept, NEW signature \in {"AlreadyDeployed", "DeploymentSuccessful"},
           script.pc \in {"lookup", "deploy"}, D!Deployed(signature),
           chain'[D!program] # "absent",
           signature = "DeploymentSuccessful" => chain'[D!program] = "program"
    PROVE  script' \in ScriptType /\ ScriptOK'
  <1> DEFINE result == [programId |-> D!program, signature |-> signature]
             results == Append(script.results, result)
  <1>1. /\ D!program \in Program /\ D!program = programs[Len(script.results) + 1]
        /\ Len(script.results) + 1 \in 1..Len(programs)
    BY Turn
  <1>2. result \in D!Result /\ result.programId = D!program /\ result.signature = signature
    BY <1>1 DEF D!Result
  <1>3. script' = [pc |-> IF Len(results) = Len(programs) THEN "save" ELSE "binary",
                   results |-> results]
    BY DEF D!Deployed
  <1>4. script.results \in Seq(D!Result) /\ Len(script.results) < Len(programs)
    <2>1. script.results \in Seq(D!Result) /\ Len(script.results) \in Nat
      BY Parts DEF IInv
    <2>2. Len(programs) \in Nat
      BY Configuration
    <2> QED
      BY <1>1, <2>1, <2>2
  <1>5. Grounded(script.results, chain')
    BY <1>4, StillGrounded DEF IInv, ScriptOK
  <1> HIDE DEF result
  <1>6. Grounded(results, chain')
    <2>1. /\ chain'[programs[Len(script.results) + 1]] # "absent"
          /\ result.programId = programs[Len(script.results) + 1]
          /\ result.signature = "DeploymentSuccessful"
                => chain'[programs[Len(script.results) + 1]] = "program"
      BY <1>1, <1>2
    <2> QED
      BY <1>2, <1>4, <1>5, <2>1, GroundedAppended
  <1>7. results \in Seq(D!Result) /\ Len(results) <= Len(programs)
    <2>1. results \in Seq(D!Result) /\ Len(results) = Len(script.results) + 1
      BY <1>2, <1>4, Appended
    <2>2. Len(script.results) \in Nat /\ Len(programs) \in Nat
      BY <1>4, Configuration
    <2> HIDE DEF results
    <2> QED
      BY <1>4, <2>1, <2>2
  <1> HIDE DEF results
  <1> QED
    BY <1>3, <1>6, <1>7, NextPlace

(* The script goes elsewhere with the results it has.                      *)
LEMMA ScriptMoves ==
    ASSUME IInv, Kept, NEW pc \in {"exited", "lookup", "deploy", "finished"},
           script' = [script EXCEPT !.pc = pc],
           pc \in {"lookup", "deploy"} => script.pc \in {"binary", "lookup"}
    PROVE  script' \in ScriptType /\ ScriptOK'
  <1>1. script' = [pc |-> pc, results |-> script.results]
    BY DEF IInv, TypeOK, ScriptType
  <1>2. Grounded(script.results, chain')
    BY StillGrounded DEF IInv, ScriptOK, TypeOK, ScriptType
  <1> QED
    BY <1>1, <1>2 DEF IInv, TypeOK, ScriptType, ScriptOK

(* The steps of the deployment script.                                     *)
LEMMA DeploymentPreserves ==
    ASSUME IInv, D!DeploymentStep, UNCHANGED <<checker, report>>
    PROVE  IInv'
  <1> USE DEF IInv
  <1>1. ASSUME Kept, script' \in ScriptType /\ ScriptOK', UNCHANGED deploymentInfo
        PROVE  IInv'
    BY <1>1, StillReported, StillSaved DEF TypeOK, Kept, IdsOK
  <1>2. ASSUME UNCHANGED <<ids, chain>> PROVE Kept
    BY <1>2 DEF Kept, TypeOK
  <1>3. ASSUME D!main PROVE IInv'
    <2>1. script' \in ScriptType /\ ScriptOK'
      <3>1. <<>> \in Seq(D!Result) /\ Len(<<>>) = 0 /\ Grounded(<<>>, chain')
        BY DEF Grounded
      <3>2. Len(<<>>) # Len(programs) /\ Len(<<>>) <= Len(programs)
        BY <3>1, Configuration
      <3> QED
        BY <1>3, <3>1, <3>2, NextPlace DEF D!main
    <2> QED
      BY <1>1, <1>2, <1>3, <2>1 DEF D!main
  <1>4. ASSUME D!FindBinary PROVE IInv'
    BY <1>1, <1>2, <1>4, ScriptMoves DEF D!FindBinary
  <1>8. ASSUME D!IdFails PROVE IInv'
    BY <1>1, <1>2, <1>8, ScriptMoves DEF D!IdFails, D!exit
  <1>5. ASSUME D!LookUp PROVE IInv'
    <2>1. CASE chain[D!program] # "absent" /\ D!Found
      BY <1>1, <1>2, <1>5, <2>1, OneMore DEF D!LookUp, D!Found
    <2>2. CASE script' = [script EXCEPT !.pc = "deploy"]
      BY <1>1, <1>2, <1>5, <2>2, ScriptMoves DEF D!LookUp
    <2> QED
      BY <1>5, <2>1, <2>2 DEF D!LookUp
  <1>6. ASSUME D!deployProgram PROVE IInv'
    <2>1. CASE D!DeployFails /\ UNCHANGED chain
      BY <1>1, <1>2, <1>6, <2>1, ScriptMoves DEF D!deployProgram, D!DeployFails, D!exit
    <2>2. CASE /\ ids[D!program] = "deployable"
               /\ chain' = [chain EXCEPT ![D!program] = "program"]
               /\ D!Deployed("DeploymentSuccessful")
      <3>1. D!program \in Program
        BY <1>6, Turn DEF D!deployProgram
      <3>2. Kept /\ chain'[D!program] = "program"
        BY <1>6, <2>2, <3>1 DEF Kept, TypeOK, D!Account, D!deployProgram
      <3> QED
        BY <1>1, <1>6, <2>2, <3>2, OneMore DEF D!deployProgram
    <2> QED
      BY <1>6, <2>1, <2>2 DEF D!deployProgram
  <1>7. ASSUME D!saveDeploymentInfo PROVE IInv'
    <2>1. Kept
      BY <1>2, <1>7 DEF D!saveDeploymentInfo
    <2>2. script' \in ScriptType /\ ScriptOK'
      BY <1>7, <2>1, ScriptMoves DEF D!saveDeploymentInfo
    <2>3. SavedMeansDeployed'
      <3>1. /\ deploymentInfo' = script.results /\ UNCHANGED <<ids, chain>>
            /\ Len(script.results) = Len(programs) /\ Grounded(script.results, chain)
        BY <1>7 DEF D!saveDeploymentInfo, ScriptOK
      <3> QED
        BY <3>1, Configuration DEF SavedMeansDeployed, Grounded, IdsOK
    <2> QED
      BY <2>1, <2>2, <2>3, StillReported DEF TypeOK, Kept, IdsOK
  <1> QED
    BY <1>3, <1>4, <1>5, <1>6, <1>7, <1>8 DEF D!DeploymentStep

(* What goes wrong in the deployment script.                               *)
LEMMA FaultPreserves ==
    ASSUME IInv, D!DeploymentFault, UNCHANGED <<checker, report>>
    PROVE  IInv'
  <1> USE DEF IInv
  <1>1. ASSUME Kept, script' \in ScriptType /\ ScriptOK', UNCHANGED deploymentInfo
        PROVE  IInv'
    BY <1>1, StillReported, StillSaved DEF TypeOK, Kept, IdsOK
  <1>2. ASSUME NEW pc \in {"exited", "deploy"}, script' = [script EXCEPT !.pc = pc],
               pc = "deploy" => script.pc = "lookup",
               UNCHANGED <<ids, chain, deploymentInfo>>
        PROVE  IInv'
    <2>1. Kept
      BY <1>2 DEF Kept, TypeOK
    <2> QED
      BY <1>1, <1>2, <2>1, ScriptMoves
  <1>3. ASSUME D!deployProgramFails PROVE IInv'
    <2>1. D!program \in Program
      BY <1>3, Turn DEF D!deployProgramFails
    <2>2. Kept
      BY <1>3, <2>1 DEF D!deployProgramFails, Kept, TypeOK, D!Account
    <2> QED
      BY <1>1, <1>3, <2>2, ScriptMoves DEF D!deployProgramFails, D!DeployFails, D!exit
  <1>4. ASSUME D!mainFails \/ D!BuildFails \/ D!Crash PROVE IInv'
    <2>1. script' = [script EXCEPT !.pc = "exited"] /\ UNCHANGED <<ids, chain, deploymentInfo>>
      BY <1>4 DEF D!mainFails, D!BuildFails, D!Crash, D!exit
    <2> QED
      BY <1>2, <2>1
  <1>5. ASSUME D!LookUpFails PROVE IInv'
    BY <1>2, <1>5 DEF D!LookUpFails
  <1> QED
    BY <1>3, <1>4, <1>5 DEF D!DeploymentFault

-----------------------------------------------------------------------------
(* The health check moves on: what it found stays, or is one more program. *)
LEMMA CheckerMoves ==
    ASSUME IInv, UNCHANGED <<ids, chain, script, deploymentInfo>>,
           checker' \in CheckerType, CheckerOK', UNCHANGED report
    PROVE  IInv'
  BY DEF IInv, TypeOK, IdsOK, ScriptOK, SavedMeansDeployed, ReportOK

(* The steps of the health check.                                          *)
LEMMA HealthPreserves ==
    ASSUME IInv, H!HealthStep, UNCHANGED <<ids, script, deploymentInfo>>
    PROVE  IInv'
  <1>0. checker \in CheckerType /\ CheckerOK
    BY DEF IInv, TypeOK
  <1>1. ASSUME H!checkRPC PROVE IInv'
    <2>1. PICK healthy \in BOOLEAN :
             checker' = [checker EXCEPT !.pc = "programs", !.rpc = healthy]
      BY <1>1 DEF H!checkRPC, H!AfterRpc
    <2>2. checker' = [pc |-> "programs", rpc |-> healthy,
                      programs |-> checker.programs, api |-> checker.api]
      BY <1>0, <2>1, Parts DEF CheckerType
    <2>3. checker' \in CheckerType
      BY <2>2, Parts DEF CheckerType, IInv
    <2>4. CheckerOK' /\ UNCHANGED <<chain, report>>
      <3>1. UNCHANGED <<chain, report>> /\ checker'.programs = checker.programs
        BY <1>1, <2>2 DEF H!checkRPC
      <3>2. checker.programs = <<>> /\ Len(<<>>) < Len(programIds)
        BY <1>1, <1>0, Configuration DEF CheckerOK, H!checkRPC
      <3> QED
        BY <1>0, <2>2, <3>1, <3>2 DEF CheckerOK
    <2> QED
      BY <2>3, <2>4, CheckerMoves
  <1>2. ASSUME H!checkPrograms PROVE IInv'
    <2> DEFINE n == Len(checker.programs) + 1
    <2>1. PICK answered \in BOOLEAN :
             checker' = [checker EXCEPT
                !.programs = Append(@, programIds[n] # None /\ answered /\ H!executable(programIds[n])),
                !.pc = IF n = Len(programIds) THEN "api" ELSE "programs"]
      BY <1>2 DEF H!checkPrograms
    <2> DEFINE found == programIds[n] # None /\ answered /\ chain[programIds[n]] = "program"
               health == Append(checker.programs, found)
    <2>2. /\ checker.programs \in Seq(BOOLEAN)
          /\ n \in 1..Len(programIds)
      BY <1>0, <1>2, Parts, Configuration DEF IInv, CheckerOK, H!checkPrograms
    <2>3. /\ health \in Seq(BOOLEAN) /\ Len(health) = n
          /\ \A i \in 1..Len(checker.programs) : health[i] = checker.programs[i]
          /\ health[n] = found
      BY <2>2
    <2>4. Healthy(health, chain)
      <3> SUFFICES ASSUME NEW i \in 1..n, health[i]
                   PROVE  programIds[i] # None /\ chain[programIds[i]] = "program"
        BY <2>3 DEF Healthy
      <3>1. CASE i = n
        BY <2>3, <3>1
      <3>2. CASE i \in 1..Len(checker.programs)
        BY <1>0, <2>3, <3>2 DEF CheckerOK, Healthy
      <3> QED
        BY <2>2, <3>1, <3>2
    <2>5. checker' = [checker EXCEPT !.programs = health,
                                     !.pc = IF n = Len(programIds) THEN "api" ELSE "programs"]
      BY <2>1 DEF H!executable
    <2>6. UNCHANGED <<chain, report>>
      BY <1>2 DEF H!checkPrograms
    <2> HIDE DEF health
    <2>7. checker' = [pc |-> IF n = Len(programIds) THEN "api" ELSE "programs", rpc |-> checker.rpc,
                      programs |-> health, api |-> checker.api]
      BY <1>0, <2>5 DEF CheckerType
    <2>8. checker' \in CheckerType
      BY <2>3, <2>7, Parts DEF CheckerType, IInv
    <2>9. CheckerOK'
      <3>1. /\ checker'.programs = health /\ Len(health) = n
            /\ n \in Nat /\ Len(programIds) \in Nat /\ n <= Len(programIds)
            /\ checker'.pc # "rpc" /\ (checker'.pc = "programs" => n # Len(programIds))
        BY <2>2, <2>3, <2>7, Configuration
      <3>2. Healthy(checker'.programs, chain')
        BY <2>4, <2>6, <3>1
      <3> QED
        BY <3>1, <3>2 DEF CheckerOK
    <2> QED
      BY <2>6, <2>8, <2>9, CheckerMoves
  <1>3. ASSUME H!checkAPI PROVE IInv'
    BY <1>0, <1>3, CheckerMoves DEF H!checkAPI, CheckerType, CheckerOK
  <1>4. ASSUME H!saveReport PROVE IInv'
    <2>1. checker' \in CheckerType /\ CheckerOK' /\ UNCHANGED chain
      BY <1>0, <1>4 DEF H!saveReport, CheckerType, CheckerOK
    <2>2. ReportOK'
      BY <1>0, <1>4 DEF H!saveReport, CheckerType, CheckerOK, ReportOK
    <2> QED
      BY <2>1, <2>2 DEF IInv, TypeOK, IdsOK, ScriptOK, SavedMeansDeployed
  <1>5. ASSUME H!saveReportFails PROVE IInv'
    BY <1>0, <1>5, CheckerMoves DEF H!saveReportFails, CheckerType, CheckerOK
  <1>6. ASSUME H!runContinuousCheck PROVE IInv'
    <2>1. checker' \in CheckerType /\ CheckerOK'
      BY <1>6, OperationsAssumption
      DEF H!runContinuousCheck, H!NewCheck, CheckerType, CheckerOK, Healthy
    <2> QED
      BY <1>6, <2>1, CheckerMoves DEF H!runContinuousCheck
  <1> QED
    BY <1>1, <1>2, <1>3, <1>4, <1>5, <1>6 DEF H!HealthStep

(* Every step preserves the invariant.                                     *)
LEMMA Step == IInv /\ [Next]_vars => IInv'
  <1> SUFFICES ASSUME IInv, [Next]_vars PROVE IInv'
      OBVIOUS
  <1>1. CASE Deploying
    BY <1>1, DeploymentPreserves DEF Deploying
  <1>2. CASE DeployingFails
    BY <1>2, FaultPreserves DEF DeployingFails
  <1>3. CASE Checking
    BY <1>3, HealthPreserves DEF Checking
  <1>4. CASE Tracking \/ UNCHANGED vars
    BY <1>4 DEF Tracking, vars, IInv, TypeOK, IdsOK, ScriptOK, CheckerOK,
                  SavedMeansDeployed, ReportOK
  <1> QED
    BY <1>1, <1>2, <1>3, <1>4 DEF Next

-----------------------------------------------------------------------------
(* The results of the scripts are true at every moment of every session.   *)
THEOREM ResultsAreTrue == Spec => []IInv
  BY InitialState, Step, PTL DEF Spec

(* What deployment-info.json says: a valid id with an account for every    *)
(* program, and a program where this script deployed one, for every        *)
(* configuration and however often the script failed before                *)
(* (deploy-programs.ts 138-212, 296-324).                                  *)
THEOREM SavedIsDeployed == Spec => []SavedMeansDeployed
  <1>1. IInv => SavedMeansDeployed
    BY DEF IInv
  <1> QED
    BY <1>1, ResultsAreTrue, PTL

(* What a report of the health check calls healthy can be executed, for    *)
(* every configuration and every interleaving with a deployment            *)
(* (health-check.ts 183-210).                                              *)
THEOREM ReportsAreTrue == Spec => []HealthyIsDeployed
  <1>1. IInv => HealthyIsDeployed
    BY DEF IInv, ReportOK, Healthy, HealthyIsDeployed
  <1> QED
    BY <1>1, ResultsAreTrue, PTL

(* No step of either script takes a program or an account off the chain.   *)
THEOREM NothingDisappears == Spec => [][Kept]_chain
  <1>1. IInv /\ [Next]_vars => [Kept]_chain
    <2> SUFFICES ASSUME IInv, [Next]_vars, chain' # chain PROVE Kept
      OBVIOUS
    <2>1. chain' \in [Program -> D!Account]
      BY Step DEF IInv, TypeOK
    <2>2. CASE D!deployProgram \/ D!deployProgramFails
      <3>1. D!program \in Program
        BY <2>2, Turn DEF D!deployProgram, D!deployProgramFails
      <3> QED
        BY <2>1, <2>2, <3>1 DEF D!deployProgram, D!deployProgramFails, Kept, IInv, TypeOK
    <2>3. D!deployProgram \/ D!deployProgramFails
      BY DEF Next, Deploying, DeployingFails, Checking, Tracking, vars,
             D!DeploymentStep, D!main, D!IdFails, D!FindBinary, D!LookUp, D!saveDeploymentInfo,
             D!DeploymentFault, D!mainFails, D!BuildFails, D!LookUpFails, D!Crash,
             H!HealthStep, H!checkRPC, H!checkPrograms, H!checkAPI, H!saveReport,
             H!saveReportFails, H!runContinuousCheck
    <2> QED
      BY <2>2, <2>3
  <1> QED
    BY <1>1, ResultsAreTrue, PTL DEF Spec

-----------------------------------------------------------------------------
(* An instance has its own Cardinality, of the same definition.            *)
LEMMA Counting ==
    ASSUME NEW S
    PROVE  T!Cardinality(S) = Cardinality(S)
BY DEF T!Cardinality, Cardinality, T!IsFiniteSet, IsFiniteSet

(* Of some subsets of a finite set, one has no other below it.             *)
LEMMA SmallestMember ==
    ASSUME NEW S, IsFiniteSet(S), NEW F \in SUBSET SUBSET S, F # {}
    PROVE  \E A \in F : \A B \in F : B \subseteq A => B = A
<1> DEFINE R == StrictSubsetOrdering(S)
<1>1. IsWellFoundedOn(R, SUBSET S)
  BY FS_StrictSubsetOrderingWellFounded, FS_FiniteSubsetsOfFinite
<1>2. \E A \in F : \A B \in F : ~ (<<B, A>> \in R)
  <2> HIDE DEF R
  <2>1. F \subseteq SUBSET S
    OBVIOUS
  <2> QED BY <1>1, <2>1, WFMin
<1>3. PICK A \in F : \A B \in F : ~ (<<B, A>> \in R)
  BY <1>2
<1>4. ASSUME NEW B \in F, B \subseteq A, B # A PROVE FALSE
  <2>1. <<B, A>> \in (SUBSET S) \X (SUBSET S)
    OBVIOUS
  <2>2. <<B, A>> \in R
    BY <1>4, <2>1 DEF StrictSubsetOrdering
  <2> QED BY <2>2, <1>3
<1> QED BY <1>4

(* A set of numbers up to n has a greatest: few are above it.              *)
LEMMA Greatest ==
    ASSUME NEW n \in Nat, NEW Marked \in SUBSET (1..n), Marked # {}
    PROVE  \E m \in Marked : \A j \in Marked : m >= j
<1> DEFINE Above == [k \in Marked |-> {j \in Marked : j > k}]
           F == {Above[k] : k \in Marked}
<1>1. IsFiniteSet(Marked)
  <2>1. IsFiniteSet(1..n)
    BY FS_Interval
  <2> QED BY <2>1, FS_Subset
<1>6. Marked \subseteq Nat
  OBVIOUS
<1>2. F \in SUBSET SUBSET Marked /\ F # {}
  OBVIOUS
<1> HIDE DEF F, Above
<1>7. \E A \in F : \A B \in F : B \subseteq A => B = A
  <2> DEFINE S == Marked
  <2>1. IsFiniteSet(S) /\ F \in SUBSET SUBSET S /\ F # {}
    BY <1>1, <1>2
  <2> HIDE DEF S
  <2> QED BY <2>1, SmallestMember
<1>3. PICK A \in F : \A B \in F : B \subseteq A => B = A
  BY <1>7
<1> USE DEF F, Above
<1>4. PICK m \in Marked : A = Above[m]
  OBVIOUS
<1>5. ASSUME NEW j \in Marked, j > m PROVE FALSE
  <2>1. Above[j] \in F
    OBVIOUS
  <2>3. Above[j] \subseteq A
    <3> SUFFICES ASSUME NEW x \in Marked, x > j PROVE x > m
      BY <1>4
    <3> QED BY <1>5, <1>6
  <2>2. j \in A /\ j \notin Above[j]
    BY <1>4, <1>5
  <2> QED BY <1>3, <2>1, <2>2, <2>3
<1> QED BY <1>6, <1>5

(* How many members of a set of numbers are up to n.                       *)
Rank(R, n) == Cardinality({j \in R : j <= n})

(* The members of a set of numbers are numbered without gaps.              *)
LEMMA Ranks ==
    ASSUME NEW m \in Nat, NEW R \in SUBSET (1..m)
    PROVE  /\ IsFiniteSet(R) /\ Cardinality(R) \in Nat
           /\ \A n \in R : Rank(R, n) \in 1..Cardinality(R)
           /\ \A n, k \in R : Rank(R, n) = Rank(R, k) => n = k
           /\ \A k \in 1..Cardinality(R) : \E n \in R : Rank(R, n) = k
<1> DEFINE Upto(n) == {j \in R : j <= n}
           c == Cardinality(R)
           f == [n \in R |-> Rank(R, n)]
<1>1. IsFiniteSet(R) /\ c \in Nat /\ R \subseteq Nat
  <2>1. IsFiniteSet(1..m)
    BY FS_Interval
  <2>2. IsFiniteSet(R)
    BY <2>1, FS_Subset
  <2> QED BY <2>2, FS_CardinalityType
<1>2. ASSUME NEW n \in R
      PROVE  Rank(R, n) \in 1..c /\ IsFiniteSet(Upto(n)) /\ Rank(R, n) = Cardinality(Upto(n))
  <2>1. Upto(n) \in SUBSET R /\ n \in Upto(n)
    BY <1>1
  <2>2. IsFiniteSet(Upto(n)) /\ Cardinality(Upto(n)) <= c
    BY <1>1, <2>1, FS_Subset
  <2>3. Cardinality(Upto(n)) \in Nat /\ Cardinality(Upto(n)) # 0
    BY <2>1, <2>2, FS_CardinalityType, FS_EmptySet
  <2> QED BY <1>1, <2>2, <2>3 DEF Rank
<1>3. ASSUME NEW n \in R, NEW k \in R, n < k PROVE Rank(R, n) # Rank(R, k)
  <2>1. Upto(n) \in SUBSET Upto(k) /\ k \in Upto(k) /\ k \notin Upto(n)
    <3>1. k <= k /\ ~(k <= n)
      BY <1>1, <1>3
    <3>2. ASSUME NEW x \in R, x <= n PROVE x <= k
      BY <1>1, <1>3, <3>2
    <3> QED BY <3>1, <3>2
  <2> HIDE DEF Upto
  <2>2. Cardinality(Upto(k)) # Cardinality(Upto(n))
    BY <1>2, <2>1, FS_Subset
  <2> QED BY <1>2, <2>2
<1>4. ASSUME NEW n \in R, NEW k \in R, Rank(R, n) = Rank(R, k) PROVE n = k
  <2>1. n < k \/ k < n \/ n = k
    BY <1>1
  <2> QED BY <2>1, <1>3, <1>4
<1>5. f \in Injection(R, 1..c)
  BY <1>2, <1>4 DEF Injection, IsInjective
<1>6. IsFiniteSet(1..c) /\ Cardinality(1..c) = c
  BY <1>1, FS_Interval
<1>7. f \in Surjection(R, 1..c)
  BY <1>5, <1>6, FS_Injection
<1>8. \A k \in 1..c : \E n \in R : Rank(R, n) = k
  BY <1>7 DEF Surjection
<1> QED BY <1>1, <1>2, <1>4, <1>8

(* Line i is an item, and the last heading above it is that of phase p.    *)
UnderPhase(lines, i, p) ==
    /\ lines[i].kind = "item"
    /\ \E h \in 1..(i - 1) : /\ lines[h].kind = "phase"
                             /\ lines[h].number = p
                             /\ \A j \in (h + 1)..i : lines[j].kind # "phase"

(* currentPhase at an item is the phase of the last heading above it.      *)
LEMMA PhaseIsAbove ==
    ASSUME NEW lines \in Seq(T!Line), NEW i \in DOMAIN lines, NEW p \in Nat,
           lines[i].kind = "item"
    PROVE  T!PhaseAt(lines, i) = p <=> UnderPhase(lines, i, p)
<1> DEFINE Heads == {k \in 1..i : lines[k].kind = "phase"}
<1>1. i \in Nat /\ i >= 1 /\ \A k \in 1..i : lines[k] \in T!Line
  OBVIOUS
<1>2. CASE Heads = {}
  <2>1. T!PhaseAt(lines, i) = None
    BY <1>2 DEF T!PhaseAt
  <2>2. ~UnderPhase(lines, i, p)
    BY <1>1, <1>2 DEF UnderPhase
  <2> QED BY <2>1, <2>2, ChecklistAssumption
<1>3. CASE Heads # {}
  <2>1. PICK m \in Heads : \A j \in Heads : m >= j
    <3>1. Heads \in SUBSET (1..i)
      OBVIOUS
    <3> HIDE DEF Heads
    <3> QED BY <1>1, <1>3, <3>1, Greatest
  <2>2. (CHOOSE k \in Heads : \A j \in Heads : k >= j) = m
    BY <2>1, <1>1
  <2>3. T!PhaseAt(lines, i) = lines[m].number
    BY <1>3, <2>2 DEF T!PhaseAt
  <2>4. m \in 1..(i - 1) /\ lines[m].kind = "phase"
    BY <1>1, <2>1
  <2>5. \A j \in (m + 1)..i : lines[j].kind # "phase"
    BY <1>1, <2>1
  <2>6. ASSUME NEW h \in 1..(i - 1), lines[h].kind = "phase",
               \A j \in (h + 1)..i : lines[j].kind # "phase"
        PROVE  h = m
    BY <1>1, <2>1, <2>4, <2>6
  <2> QED BY <2>3, <2>4, <2>5, <2>6 DEF UnderPhase
<1> QED BY <1>2, <1>3

-----------------------------------------------------------------------------
(* The files that the tracker is given, those that can be read, the k-th   *)
(* of them, and what is loaded of them.                                    *)
Given == given \in UNION {[1..n -> Files \cup {None, Missing}] : n \in 1..MaxFiles}

NoneMissing == \A n \in DOMAIN given : given[n] # Missing

Readable == {n \in DOMAIN given : given[n] # None}

At(k) == CHOOSE n \in Readable : Cardinality({j \in Readable : j <= n}) = k

Loaded == [k \in 1..Cardinality(Readable) |-> T!parseChecklist(given[At(k)])]

(* The files that can be read are numbered in their order.                 *)
LEMMA Numbered ==
    ASSUME Given, NoneMissing
    PROVE  /\ IsFiniteSet(Readable) /\ Cardinality(Readable) \in Nat
           /\ \A n \in Readable : given[n] \in Seq(T!Line)
           /\ \A n \in Readable : Rank(Readable, n) \in 1..Cardinality(Readable)
           /\ \A n \in Readable : At(Rank(Readable, n)) = n
           /\ \A k \in 1..Cardinality(Readable) :
                 At(k) \in Readable /\ Rank(Readable, At(k)) = k
<1> DEFINE R == Readable
<1>1. PICK m \in 1..MaxFiles : given \in [1..m -> Files \cup {None, Missing}]
  BY DEF Given
<1>2. m \in Nat /\ R \in SUBSET (1..m)
  BY <1>1, OperationsAssumption DEF Readable
<1>3. \A n \in R : given[n] \in Seq(T!Line)
  BY <1>1, ChecklistAssumption DEF Readable, NoneMissing
<1>4. \A k : At(k) = CHOOSE n \in R : Rank(R, n) = k
  BY DEF At, Rank
<1> HIDE DEF R
<1>5. /\ IsFiniteSet(R) /\ Cardinality(R) \in Nat
      /\ \A n \in R : Rank(R, n) \in 1..Cardinality(R)
      /\ \A n, k \in R : Rank(R, n) = Rank(R, k) => n = k
      /\ \A k \in 1..Cardinality(R) : \E n \in R : Rank(R, n) = k
  BY <1>2, Ranks
<1>6. ASSUME NEW k \in 1..Cardinality(R) PROVE At(k) \in R /\ Rank(R, At(k)) = k
  BY <1>4, <1>5
<1>7. ASSUME NEW n \in R PROVE At(Rank(R, n)) = n
  <2>1. At(Rank(R, n)) \in R /\ Rank(R, At(Rank(R, n))) = Rank(R, n)
    BY <1>5, <1>6
  <2> QED BY <2>1, <1>5
<1> QED BY <1>3, <1>5, <1>6, <1>7 DEF R

(* The item that is parsed from a line.                                    *)
Item(n, i) ==
    [line |-> i, phase |-> T!PhaseAt(given[n], i), owner |-> given[n][i].owner,
     completed |-> given[n][i].completed, late |-> given[n][i].late]

(* The items of a phase in the files, and in what was loaded of them.      *)
InFiles(p) ==
    UNION {{n} \X {i \in DOMAIN given[n] : UnderPhase(given[n], i, p)} : n \in Readable}

InChecklists(p) == T!OfPhase(T!AllItems(Loaded), p)

(* What is in the files is finite.                                         *)
LEMMA FilesAreFinite ==
    ASSUME Given, NoneMissing, NEW p \in Nat
    PROVE  IsFiniteSet(InFiles(p))
<1> DEFINE X == [n \in Readable |->
                    {n} \X {i \in DOMAIN given[n] : UnderPhase(given[n], i, p)}]
           S == {X[n] : n \in Readable}
<1>1. ASSUME NEW n \in Readable PROVE IsFiniteSet(X[n])
  <2> DEFINE lines == given[n]
             I == {i \in DOMAIN lines : UnderPhase(lines, i, p)}
  <2>1. lines \in Seq(T!Line)
    BY Numbered
  <2>2. Len(lines) \in Nat /\ DOMAIN lines = 1..Len(lines)
    BY <2>1
  <2>3. IsFiniteSet(1..Len(lines))
    BY <2>2, FS_Interval
  <2>4. I \in SUBSET (1..Len(lines))
    BY <2>2
  <2>5. IsFiniteSet(I)
    BY <2>3, <2>4, FS_Subset
  <2>6. IsFiniteSet({n})
    BY FS_Singleton
  <2> HIDE DEF I
  <2>7. IsFiniteSet({n} \X I)
    BY <2>5, <2>6, FS_Product
  <2> QED BY <2>7 DEF I
<1>2. X \in Surjection(Readable, S)
  BY DEF Surjection
<1>3. IsFiniteSet(Readable)
  BY Numbered
<1>5. \A T0 \in S : IsFiniteSet(T0)
  BY <1>1
<1>6. InFiles(p) = UNION S
  BY DEF InFiles
<1> HIDE DEF X, S
<1>4. IsFiniteSet(S)
  BY <1>2, <1>3, FS_Surjection
<1> QED BY <1>4, <1>5, <1>6, FS_UNION

(* The items of a loaded file that belong to a phase.                      *)
LEMMA ParsedItems ==
    ASSUME Given, NoneMissing, NEW p \in Nat, NEW n \in Readable, NEW item
    PROVE  (item \in T!parseChecklist(given[n]).items /\ item.phase = p)
               <=> \E i \in DOMAIN given[n] : UnderPhase(given[n], i, p) /\ item = Item(n, i)
<1> DEFINE lines == given[n]
<1>1. lines \in Seq(T!Line)
  BY Numbered
<1>2. T!parseChecklist(lines).items =
          {Item(n, i) : i \in {k \in DOMAIN lines : lines[k].kind = "item"
                                                    /\ T!PhaseAt(lines, k) # None}}
  BY DEF T!parseChecklist, Item
<1>3. \A i : Item(n, i).phase = T!PhaseAt(lines, i)
  BY DEF Item
<1>4. ASSUME NEW i \in DOMAIN lines
      PROVE  (lines[i].kind = "item" /\ T!PhaseAt(lines, i) = p) <=> UnderPhase(lines, i, p)
  BY <1>1, PhaseIsAbove DEF UnderPhase
<1>5. p # None
  BY ChecklistAssumption
<1> HIDE DEF lines
<1>6. (item \in T!parseChecklist(lines).items /\ item.phase = p)
          <=> \E i \in DOMAIN lines : UnderPhase(lines, i, p) /\ item = Item(n, i)
  BY <1>2, <1>3, <1>4, <1>5
<1> QED BY <1>6 DEF lines

(* Each item of the files is loaded once.                                  *)
LEMMA LoadedOnce ==
    ASSUME Given, NoneMissing, NEW p \in Nat
    PROVE  ExistsBijection(InFiles(p), InChecklists(p))
<1> DEFINE P == InFiles(p)
           Q == InChecklists(p)
           c == Cardinality(Readable)
           f == [x \in P |-> <<Rank(Readable, x[1]), Item(x[1], x[2])>>]
<1>1. \A x : x \in P <=>
          \E n \in Readable : \E i \in DOMAIN given[n] :
              UnderPhase(given[n], i, p) /\ x = <<n, i>>
  BY DEF InFiles
<1>2. ASSUME NEW y
      PROVE  y \in Q <=>
          \E k \in 1..c : \E i \in DOMAIN given[At(k)] :
              UnderPhase(given[At(k)], i, p) /\ y = <<k, Item(At(k), i)>>
  <2>1. y \in Q <=>
            \E k \in 1..c : \E item \in T!parseChecklist(given[At(k)]).items :
                y = <<k, item>> /\ item.phase = p
    BY DEF InChecklists, T!OfPhase, T!AllItems, Loaded
  <2>2. \A k \in 1..c : At(k) \in Readable
    BY Numbered
  <2> QED BY <2>1, <2>2, ParsedItems
<1>3. ASSUME NEW x \in P PROVE f[x] \in Q
  <2>4. PICK n \in Readable : \E i \in DOMAIN given[n] :
            UnderPhase(given[n], i, p) /\ x = <<n, i>>
    BY <1>1
  <2>1. PICK i \in DOMAIN given[n] : UnderPhase(given[n], i, p) /\ x = <<n, i>>
    BY <2>4
  <2>2. Rank(Readable, n) \in 1..c /\ At(Rank(Readable, n)) = n
    BY Numbered
  <2>3. f[x] = <<Rank(Readable, n), Item(n, i)>>
    BY <2>1
  <2> QED BY <2>1, <2>2, <2>3, <1>2
<1>4. ASSUME NEW x \in P, NEW y \in P, f[x] = f[y] PROVE x = y
  <2>6. PICK n \in Readable : \E i \in DOMAIN given[n] : x = <<n, i>>
    BY <1>1
  <2>1. PICK i \in DOMAIN given[n] : x = <<n, i>>
    BY <2>6
  <2>7. PICK m \in Readable : \E j \in DOMAIN given[m] : y = <<m, j>>
    BY <1>1
  <2>2. PICK j \in DOMAIN given[m] : y = <<m, j>>
    BY <2>7
  <2>3. Rank(Readable, n) = Rank(Readable, m) /\ Item(n, i) = Item(m, j)
    BY <1>4, <2>1, <2>2
  <2>4. Item(n, i).line = i /\ Item(m, j).line = j
    BY DEF Item
  <2>5. n = m
    BY <2>3, Numbered
  <2> QED BY <2>1, <2>2, <2>3, <2>4, <2>5
<1>5. ASSUME NEW y \in Q PROVE \E x \in P : f[x] = y
  <2>1. PICK k \in 1..c : \E i \in DOMAIN given[At(k)] :
            UnderPhase(given[At(k)], i, p) /\ y = <<k, Item(At(k), i)>>
    BY <1>2
  <2>2. PICK i \in DOMAIN given[At(k)] :
            UnderPhase(given[At(k)], i, p) /\ y = <<k, Item(At(k), i)>>
    BY <2>1
  <2>3. At(k) \in Readable /\ Rank(Readable, At(k)) = k
    BY Numbered
  <2>4. <<At(k), i>> \in P
    BY <1>1, <2>2, <2>3
  <2>5. f[<<At(k), i>>] = y
    BY <2>2, <2>3, <2>4
  <2> QED BY <2>4, <2>5
<1> HIDE DEF P, Q, f
<1>6. f \in Bijection(P, Q)
  <2>1. f \in [P -> Q]
    BY <1>3 DEF f
  <2> QED BY <2>1, <1>4, <1>5 DEF Bijection, Injection, Surjection, IsInjective
<1> QED BY <1>6 DEF ExistsBijection, P, Q

(* The report counts what is in the files.                                 *)
LEMMA CountedOnce ==
    ASSUME Given, NoneMissing, NEW p \in Phase
    PROVE  T!Analysis(Loaded).byPhase[p].total = Counted(p)
<1>1. p \in Nat
  BY OperationsAssumption
<1>2. /\ IsFiniteSet(InChecklists(p))
      /\ Cardinality(InChecklists(p)) = Cardinality(InFiles(p))
  BY <1>1, FilesAreFinite, LoadedOnce, FS_Bijection
<1>3. Cardinality(InChecklists(p)) \in Nat
  BY <1>2, FS_CardinalityType
<1>4. \A items : T!Sums(items).total = Cardinality(items)
  BY Counting DEF T!Sums
<1>5. T!NoSummary.byPhase[p].total = 0
  BY <1>4, FS_EmptySet DEF T!NoSummary
<1>6. T!Analysis(Loaded).byPhase[p].total
          = T!NoSummary.byPhase[p].total + T!Sums(InChecklists(p)).total
  BY DEF T!Analysis, T!Summed, T!Plus, InChecklists
<1>7. T!Analysis(Loaded).byPhase[p].total = Cardinality(InFiles(p))
  BY <1>2, <1>3, <1>4, <1>5, <1>6
<1>8. Counted(p) = Cardinality(InFiles(p))
  BY DEF Counted, InFiles, UnderPhase, Readable
<1> QED BY <1>7, <1>8

(* The inductive invariant of the tracker: a report that was made, at      *)
(* whatever place, is the analysis of what could be read.                  *)
TrackerOK ==
    session = "checklists" =>
        /\ Given
        /\ tracker = [pc |-> tracker.pc, checklists |-> tracker.checklists,
                      summary |-> tracker.summary,
                      recommendations |-> tracker.recommendations,
                      nextSteps |-> tracker.nextSteps]
        /\ tracker.pc \in {"display", "save", "exit"} =>
               NoneMissing /\ tracker.checklists = Loaded
        /\ tracker.pc = "load" => tracker.nextSteps = {}
        /\ tracker.nextSteps # {} => NoneMissing /\ tracker.summary = T!Analysis(Loaded)

(* The tracker begins with no report.                                      *)
LEMMA TrackerBegins == Init => TrackerOK
BY DEF Init, T!TrackerInit, TrackerOK, Given

(* What is derived from the files changes only with them.                  *)
LEMMA FilesStay ==
    given' = given =>
        /\ Given' = Given /\ NoneMissing' = NoneMissing /\ Loaded' = Loaded
        /\ T!Analysis(Loaded)' = T!Analysis(Loaded)
BY DEF Given, NoneMissing, Loaded, Readable, At, T!parseChecklist, T!PhaseAt,
       T!Analysis, T!Summed, T!NoSummary, T!AllItems, T!Phases, T!OfPhase, T!OfOwner

(* Every step of a session keeps the invariant of the tracker.             *)
LEMMA TrackerGoesOn ==
    ASSUME TrackerOK, [Next]_vars
    PROVE  TrackerOK'
<1>1. CASE session = "checklists" /\ Tracking
  <2> USE <1>1
  <2>1. session' = "checklists" /\ given' = given
    BY DEF Tracking, T!TrackerStep, T!FileNotFound, T!loadChecklists, T!displayReport,
           T!saveReport, T!main
  <2>2. /\ Given' = Given /\ NoneMissing' = NoneMissing /\ Loaded' = Loaded
        /\ T!Analysis(Loaded)' = T!Analysis(Loaded)
    BY <2>1, FilesStay
  <2>3. Given
    BY DEF TrackerOK
  <2>4. CASE T!FileNotFound
    BY <2>1, <2>2, <2>3, <2>4 DEF T!FileNotFound, TrackerOK
  <2>5. CASE T!loadChecklists
    <3>1. NoneMissing
      BY <2>5 DEF T!loadChecklists, NoneMissing
    <3>3. tracker' = [tracker EXCEPT !.pc = "display",
                 !.checklists = [k \in 1..T!Cardinality(Readable) |->
                     T!parseChecklist(given[CHOOSE n \in Readable :
                         T!Cardinality({j \in Readable : j <= n}) = k])]]
      BY <2>5 DEF T!loadChecklists, Readable
    <3>2. tracker' = [tracker EXCEPT !.pc = "display", !.checklists = Loaded]
      BY <3>3 DEF Loaded, At, T!Cardinality, Cardinality, T!IsFiniteSet, IsFiniteSet
    <3> QED BY <2>1, <2>2, <2>3, <2>5, <3>1, <3>2 DEF T!loadChecklists, TrackerOK
  <2>6. CASE \/ T!displayReport \/ T!saveReport \/ T!main
    <3> DEFINE new(pc) == [tracker EXCEPT !.pc = pc,
                              !.summary = T!Analysis(Loaded),
                              !.recommendations = T!generateRecommendations(T!Analysis(Loaded)),
                              !.nextSteps = T!NextSteps(T!Analysis(Loaded))]
    <3>1. NoneMissing /\ tracker.checklists = Loaded
      BY <2>6 DEF T!displayReport, T!saveReport, T!main, TrackerOK
    <3>2. \A pc : T!Analysed(pc) = new(pc)
      BY <3>1 DEF T!Analysed
    <3>3. \E pc \in {"save", "exit", "failed", "ok"} :
              tracker' = new(pc) \/ tracker' = [tracker EXCEPT !.pc = pc]
      BY <2>6, <3>1, <3>2 DEF T!displayReport, T!saveReport, T!main
    <3> HIDE DEF Tracking
    <3> QED BY <2>1, <2>2, <2>3, <3>1, <3>3 DEF TrackerOK
  <2> QED BY <2>4, <2>5, <2>6 DEF Tracking, T!TrackerStep
<1>2. CASE session # "checklists" /\ session' = session
  BY <1>2 DEF TrackerOK
<1>4. CASE UNCHANGED <<session, given, tracker>>
  BY <1>4, FilesStay DEF TrackerOK
<1>3. CASE session = "cluster" /\ (Deploying \/ DeployingFails \/ Checking)
  BY <1>2, <1>3 DEF Deploying, DeployingFails, Checking
<1> QED BY <1>1, <1>2, <1>3, <1>4 DEF Next, Deploying, DeployingFails, Checking, Tracking, vars

(* The report has as many items of a phase as there are in the files that  *)
(* could be read, for all files and however often it was made              *)
(* (checklist-tracker.js, analyze and parseChecklist).                       *)
THEOREM ReportCountsItems == Spec => []SummaryCountsOnce
<1>1. TrackerOK => SummaryCountsOnce
  BY CountedOnce DEF TrackerOK, SummaryCountsOnce
<1> QED BY <1>1, TrackerBegins, TrackerGoesOn, PTL DEF Spec

=============================================================================
