---------------------------- MODULE Deployment_proofs ----------------------------
(***************************************************************************)
(* Proofs about the deployment commands: types, what Terraform reads, what *)
(* success means and the exit code of an interrupted command.              *)
(***************************************************************************)
EXTENDS Deployment, TLAPS

USE DEF TerraformCommands, Steps, Models, NoApps, vars


(* While Terraform runs the command is at the step of that name. *)
LEMMA NoChildOutside ==
    TypeOK /\ cli.step \notin TerraformCommands => child = NoChild
BY DEF TypeOK, ChildRecords

(* Exit and GoTo change the step, the exit code and the work that is left.     *)
SameCommand ==
    /\ cli'.command = cli.command /\ cli'.yes = cli.yes /\ cli'.cleanup = cli.cleanup
    /\ cli'.target = cli.target /\ cli'.built = cli.built
    /\ cli'.interrupted = cli.interrupted

LEMMA ExitFields ==
    ASSUME cli \in CliRecords, NEW code \in {0, 1, 2, 130}, Exit(code)
    PROVE  /\ cli' \in CliRecords
           /\ cli'.step = "exited" /\ cli'.exitCode = code /\ cli'.todo = {}
           /\ SameCommand
BY DEF Exit, CliRecords, SameCommand

LEMMA GoToFields ==
    ASSUME cli \in CliRecords, NEW step \in Steps, GoTo(step)
    PROVE  /\ cli' \in CliRecords
           /\ cli'.step = step /\ cli'.exitCode = cli.exitCode /\ cli'.todo = cli.todo
           /\ SameCommand
BY DEF GoTo, CliRecords, SameCommand

(* What a command does after a Terraform that has succeeded. *)
LEMMA AfterTerraformFields ==
    ASSUME cli \in CliRecords, infra \in [Apps -> Versions \cup {None, Torn}],
           cli.step \in TerraformCommands, AfterTerraform
    PROVE  /\ cli' \in CliRecords /\ SameCommand
           /\ \/ /\ cli.step = "init" /\ cli'.exitCode = cli.exitCode
                 /\ cli'.step = IF cli.command = "destroy" THEN "destroy" ELSE "plan"
              \/ /\ cli.step = "plan" /\ cli.command = "apply"
                 /\ cli'.step = "apply" /\ cli'.exitCode = cli.exitCode
              \/ /\ cli.step = "destroy" /\ cli'.step = "cleaning"
                 /\ cli'.exitCode = cli.exitCode
              \/ /\ cli.step # "init" /\ ~(cli.step = "plan" /\ cli.command = "apply")
                 /\ cli'.step = "exited" /\ cli'.exitCode = 0
<1>1. CASE cli.step = "init"
  <2> DEFINE next == IF cli.command = "destroy" THEN "destroy" ELSE "plan"
  <2>1. next \in Steps /\ GoTo(next)
    BY <1>1 DEF AfterTerraform
  <2>2. QED
    BY <1>1, <2>1, GoToFields
<1>2. CASE cli.step = "plan" /\ cli.command = "apply"
  BY <1>2, GoToFields DEF AfterTerraform
<1>3. CASE cli.step = "destroy" /\ cli.cleanup
  <2> DEFINE files == {a \in Apps : infra[a] # None}
  <2>1. cli' = [cli EXCEPT !.step = "cleaning", !.todo = files]
    BY <1>3 DEF AfterTerraform
  <2>2. files \in SUBSET Apps
    OBVIOUS
  <2> HIDE DEF files
  <2>3. QED
    BY <1>3, <2>1, <2>2 DEF CliRecords, SameCommand
<1>4. CASE ~(cli.step = "init") /\ ~(cli.step = "plan" /\ cli.command = "apply")
             /\ ~(cli.step = "destroy" /\ cli.cleanup)
  BY <1>4, ExitFields DEF AfterTerraform
<1>5. QED
  BY <1>1, <1>2, <1>3, <1>4

LEMMA TypeInvariant == TypeOK /\ [Next]_vars => TypeOK'
<1> USE DeploymentAssumption
<1> SUFFICES ASSUME TypeOK, [Next]_vars PROVE TypeOK'
  OBVIOUS
<1>0. cli.step \notin TerraformCommands => child = NoChild
  BY NoChildOutside
<1>1. CASE EditProject
  BY <1>1 DEF TypeOK, EditProject
<1>2. CASE RunMaterialize
  <2>1. PICK target \in Apps \cup {AllApps}, built \in Models,
             step \in {"generating", "exited"}, code \in {0, 2} :
          cli' = [Idle EXCEPT !.command = "materialize", !.target = target,
                              !.built = built, !.step = step, !.exitCode = code]
    BY <1>2 DEF RunMaterialize
  <2>3. "materialize" \in Commands
    BY <1>2 DEF RunMaterialize
  <2>4. cli' \in CliRecords
    BY <2>1, <2>3 DEF Idle, CliRecords
  <2>2. QED
    BY <1>0, <1>2, <2>4 DEF TypeOK, RunMaterialize
<1>3. CASE \E c \in {"plan", "apply"} : RunPlanOrApply(c)
  <2>3. PICK command \in Commands :
          cli' = [Idle EXCEPT !.command = command, !.step = "building"]
    BY <1>3 DEF RunPlanOrApply
  <2>1. cli' \in CliRecords
    BY <2>3 DEF Idle, CliRecords
  <2>2. QED
    BY <1>0, <1>3, <2>1 DEF TypeOK, RunPlanOrApply
<1>4. CASE RunDestroy
  <2>3. PICK yes \in BOOLEAN, cleanup \in BOOLEAN,
             step \in {"init", "prompting", "exited"}, code \in {0, 2} :
          cli' = [Idle EXCEPT !.command = "destroy", !.yes = yes, !.cleanup = cleanup,
                              !.step = step, !.exitCode = code]
    BY <1>4 DEF RunDestroy
  <2>4. "destroy" \in Commands
    BY <1>4 DEF RunDestroy
  <2>1. cli' \in CliRecords
    BY <2>3, <2>4 DEF Idle, CliRecords
  <2>2. QED
    BY <1>0, <1>4, <2>1 DEF TypeOK, RunDestroy
<1>5. CASE AnswerPrompt
  <2>1. cli' \in CliRecords
    BY <1>5, ExitFields, GoToFields DEF TypeOK, AnswerPrompt
  <2>2. QED
    BY <1>0, <1>5, <2>1 DEF TypeOK, AnswerPrompt
<1>6. CASE BuildSucceeds \/ BuildFails
  <2>3. ASSUME BuildSucceeds PROVE cli' \in CliRecords
    BY <2>3 DEF TypeOK, BuildSucceeds, CliRecords
  <2>4. ASSUME BuildFails PROVE cli' \in CliRecords
    BY <2>4, ExitFields DEF TypeOK, BuildFails
  <2>1. cli' \in CliRecords
    BY <1>6, <2>3, <2>4
  <2>2. QED
    BY <1>0, <1>6, <2>1 DEF TypeOK, BuildSucceeds, BuildFails
<1>7. CASE Generate \/ GenerationFails
  <2>3. Generated \in SUBSET Apps
    BY DEF Generated
  <2>4. ASSUME Generate PROVE cli' \in CliRecords
    BY <2>3, <2>4 DEF TypeOK, Generate, CliRecords
  <2>5. ASSUME GenerationFails PROVE cli' \in CliRecords
    BY <2>5, ExitFields DEF TypeOK, GenerationFails
  <2>1. cli' \in CliRecords
    BY <1>7, <2>4, <2>5
  <2>2. QED
    BY <1>0, <1>7, <2>1 DEF TypeOK, Generate, GenerationFails
<1>8. CASE WriteFile
  BY <1>0, <1>8 DEF TypeOK, WriteFile, CliRecords
<1>9. CASE WriteFails
  <2>1. cli' \in CliRecords
    BY <1>9, ExitFields DEF TypeOK, WriteFails
  <2>2. QED
    BY <1>0, <1>9, <2>1 DEF TypeOK, WriteFails
<1>10. CASE RemoveStale
  BY <1>0, <1>10 DEF TypeOK, RemoveStale, Stale
<1>11. CASE FinishWriting
  <2>1. cli' \in CliRecords
    BY <1>11, ExitFields, GoToFields DEF TypeOK, FinishWriting
  <2>2. QED
    BY <1>0, <1>11, <2>1 DEF TypeOK, FinishWriting
<1>12. CASE Spawn
  BY <1>12 DEF TypeOK, Spawn, ChildRecords
<1>13. CASE SpawnFails
  BY <1>13 DEF TypeOK, SpawnFails, Exit, CliRecords
<1>14. CASE CloseEvent
  <2>1. cli' \in CliRecords
    BY <1>14, ExitFields, AfterTerraformFields DEF TypeOK, CloseEvent, ChildRecords
  <2>2. QED
    BY <1>0, <1>14, <2>1 DEF TypeOK, CloseEvent
<1>15. CASE Backstop
  BY <1>15 DEF TypeOK, Backstop, Exit, CliRecords
<1>16. CASE CleanFile
  BY <1>0, <1>16 DEF TypeOK, CleanFile, CliRecords
<1>17. CASE FinishCleaning
  BY <1>0, <1>17 DEF TypeOK, FinishCleaning, Exit, CliRecords
<1>18. CASE ChildSucceeds
  BY <1>18 DEF TypeOK, ChildSucceeds, CanWork, WorkDone, Goal, ChildRecords
<1>19. CASE ChildFails
  BY <1>19 DEF TypeOK, ChildFails, CanWork, WorkBroken, Goal, ChildRecords
<1>20. CASE OrphanEnds
  BY <1>20 DEF TypeOK, OrphanEnds, CanWork, WorkBroken, Goal, ChildRecords
<1>21. CASE InterruptCommand
  <2>1. cli' \in CliRecords
    BY <1>21, ExitFields DEF TypeOK, InterruptCommand
  <2>2. QED
    BY <1>0, <1>21, <2>1 DEF TypeOK, InterruptCommand, PressCtrlC
<1>22. CASE InterruptTerraform
  <2>1. cli' \in CliRecords /\ cli'.step = cli.step
    BY <1>22 DEF TypeOK, InterruptTerraform, CliRecords
  <2>2. child' \in ChildRecords /\ child'.command = child.command
    BY <1>22 DEF TypeOK, InterruptTerraform, ChildRecords
  <2>3. QED
    BY <1>22, <2>1, <2>2 DEF TypeOK, InterruptTerraform, PressCtrlC
<1>23. CASE UNCHANGED vars
  BY <1>23 DEF TypeOK
<1>24. QED
  BY <1>1, <1>2, <1>3, <1>4, <1>5, <1>6, <1>7, <1>8, <1>9, <1>10, <1>11, <1>12, <1>13,
     <1>14, <1>15, <1>16, <1>17, <1>18, <1>19, <1>20, <1>21, <1>22, <1>23
     DEF Next, RunCommand, CommandStep, ChildStep
-----------------------------------------------------------------------------
(* The inductive invariant. *)

StepOfCommand ==
    /\ cli.step = "apply" => cli.command = "apply"
    /\ cli.step \in {"building", "plan"} => cli.command \in {"plan", "apply"}
    /\ cli.step = "init" => cli.command \in {"plan", "apply", "destroy"}
    /\ cli.step \in {"generating", "writing"} =>
         cli.command \in {"materialize", "plan", "apply"}
    /\ cli.step \in {"destroy", "prompting", "cleaning"} => cli.command = "destroy"
    /\ cli.command \in {"plan", "apply"} => cli.target = AllApps

(* What is no longer to be written is written. *)
FilesWritten ==
    cli.step = "writing" =>
        /\ cli.todo \subseteq Generated
        /\ \A a \in Generated \ cli.todo : infra[a] = cli.built[a]

(* From init to the end of Terraform the files are those of this run. *)
InfraIsBuilt ==
    cli.command \in {"plan", "apply"} /\ cli.step \in TerraformCommands =>
        /\ infra = cli.built
        /\ child # NoChild => child.config = cli.built

StateIsFree == \A o \in orphans : ~Locked(o)

(* A child that holds the lock is alone ... *)
LockIsExclusive == child # NoChild /\ Locked(child) => StateIsFree

(* ... and what it has done stays done. *)
WorkIsDone ==
    child # NoChild /\ child.state = "succeeded" =>
        /\ child.locked
        /\ child.command = "apply" => deployed = child.config
        /\ child.command = "destroy" => deployed = NoApps

Applied == cli.command = "apply" /\ cli.step = "exited" /\ cli.exitCode = 0

EndsFree == Applied \/ cli.step = "cleaning" => StateIsFree

ExitCodePending == cli.step # "exited" => cli.exitCode = 0

InterruptedHasChild ==
    cli.interrupted /\ cli.step \in TerraformCommands => child # NoChild

IInv ==
    /\ TypeOK /\ StepOfCommand /\ FilesWritten /\ InfraIsBuilt
    /\ LockIsExclusive /\ WorkIsDone /\ EndsFree
    /\ ExitCodePending /\ InterruptedHasChild
    /\ AppliedIsBuilt /\ CleanupAfterDestroy /\ InterruptedExits130

USE DEF StepOfCommand, FilesWritten, InfraIsBuilt, LockIsExclusive, WorkIsDone, EndsFree,
        ExitCodePending, InterruptedHasChild, Applied, AppliedIsBuilt, CleanupAfterDestroy,
        InterruptedExits130

LEMMA InitInvariant == Init => IInv
BY DeploymentAssumption, NoChildAssumption
   DEF Init, IInv, TypeOK, Idle, CliRecords, StateIsFree, Generated

(* A command that ends without success and without a child claims nothing. *)
LEMMA FailingKeeps ==
    ASSUME IInv, TypeOK', NEW code \in {1, 2, 130}, Exit(code), child' = NoChild,
           cli.interrupted => code = 130
    PROVE  IInv'
BY ExitFields DEF IInv, TypeOK, SameCommand

LEMMA InductiveInvariant == IInv /\ [Next]_vars => IInv'
<1> SUFFICES ASSUME IInv, [Next]_vars PROVE IInv'
  OBVIOUS
<1>0. TypeOK /\ TypeOK'
  BY TypeInvariant DEF IInv
<1>a. cli.step \notin TerraformCommands => child = NoChild
  BY <1>0, NoChildOutside
<1>b. cli.step \notin TerraformCommands \cup {"exited"} => ~cli.interrupted
  BY DEF IInv
<1>1. CASE EditProject
  BY <1>0, <1>1 DEF IInv, EditProject, Generated, StateIsFree
<1>2. CASE RunMaterialize
  BY <1>0, <1>a, <1>2 DEF IInv, RunMaterialize, Idle
<1>3. CASE \E c \in {"plan", "apply"} : RunPlanOrApply(c)
  BY <1>0, <1>a, <1>3 DEF IInv, RunPlanOrApply, Idle
<1>4. CASE RunDestroy
  BY <1>0, <1>a, <1>4 DEF IInv, RunDestroy, Idle
<1>5. CASE AnswerPrompt
  <2>1. CASE GoTo("init")
    <3>1. cli'.step = "init" /\ cli'.exitCode = cli.exitCode /\ SameCommand
      BY <1>0, <2>1, GoToFields DEF TypeOK
    <3>2. QED
      BY <1>0, <1>a, <1>5, <3>1 DEF IInv, AnswerPrompt, SameCommand
  <2>2. CASE Exit(0)
    <3>1. cli'.step = "exited" /\ SameCommand
      BY <1>0, <2>2, ExitFields DEF TypeOK
    <3>2. QED
      BY <1>0, <1>a, <1>b, <1>5, <3>1 DEF IInv, AnswerPrompt, SameCommand
  <2>3. QED
    BY <1>5, <2>1, <2>2 DEF AnswerPrompt
<1>6. CASE BuildSucceeds
  BY <1>0, <1>a, <1>6 DEF IInv, BuildSucceeds, TypeOK, CliRecords
<1>7. CASE BuildFails
  <2>1. PICK code \in {1, 2} : Exit(code)
    BY <1>7 DEF BuildFails
  <2>2. child' = NoChild /\ ~cli.interrupted
    BY <1>a, <1>b, <1>7 DEF BuildFails
  <2>3. QED
    BY <1>0, <2>1, <2>2, FailingKeeps
<1>8. CASE Generate
  <2>1. /\ cli'.step = "writing" /\ cli'.todo = Generated /\ SameCommand
        /\ cli'.exitCode = cli.exitCode
    BY <1>0, <1>8 DEF Generate, TypeOK, CliRecords, SameCommand
  <2>2. Generated' = Generated
    BY <2>1 DEF Generated, SameCommand
  <2>3. QED
    BY <1>0, <1>a, <1>b, <1>8, <2>1, <2>2 DEF IInv, Generate, SameCommand
<1>9. CASE GenerationFails
  <2>1. Exit(1) /\ child' = NoChild /\ ~cli.interrupted
    BY <1>a, <1>b, <1>9 DEF GenerationFails
  <2>2. QED
    BY <1>0, <2>1, FailingKeeps
<1>10. CASE WriteFile
  BY <1>0, <1>a, <1>10 DEF IInv, WriteFile, TypeOK, CliRecords, Generated
<1>11. CASE WriteFails
  <2>1. Exit(1) /\ child' = NoChild /\ ~cli.interrupted
    BY <1>a, <1>b, <1>11 DEF WriteFails
  <2>2. QED
    BY <1>0, <2>1, FailingKeeps
<1>12. CASE RemoveStale
  BY <1>0, <1>a, <1>12 DEF IInv, RemoveStale, Stale, TypeOK, Generated
<1>13. CASE FinishWriting
  <2>1. CASE cli.command = "materialize"
    <3>1. cli'.step = "exited" /\ SameCommand
      BY <1>0, <1>13, <2>1, ExitFields DEF FinishWriting, TypeOK
    <3>2. QED
      BY <1>0, <1>a, <1>b, <1>13, <2>1, <3>1 DEF IInv, FinishWriting, SameCommand
  <2>2. CASE cli.command # "materialize"
    <3>1. \A a \in Apps : infra[a] = cli.built[a]
      BY <1>0, <1>13, <2>2 DEF IInv, FinishWriting, Stale, Generated, TypeOK, CliRecords
    <3>2. infra = cli.built
      BY <1>0, <3>1 DEF TypeOK, CliRecords
    <3>3. cli'.step = "init" /\ cli'.exitCode = cli.exitCode /\ SameCommand
      BY <1>0, <1>13, <2>2, GoToFields DEF FinishWriting, TypeOK
    <3>4. QED
      BY <1>0, <1>a, <1>b, <1>13, <2>2, <3>2, <3>3 DEF IInv, FinishWriting, SameCommand
  <2>3. QED
    BY <2>1, <2>2
<1>14. CASE Spawn
  BY <1>0, <1>14 DEF IInv, Spawn, Locked, StateIsFree, Generated
<1>15. CASE SpawnFails
  BY <1>0, <1>15, FailingKeeps DEF IInv, SpawnFails
<1>16. CASE CloseEvent
  <2>1. child' = NoChild /\ cli.step = child.command /\ cli.step \in TerraformCommands
    BY <1>0, <1>16 DEF CloseEvent, TypeOK, ChildRecords
  <2>2. CASE cli.interrupted
    BY <1>0, <1>16, <2>1, <2>2, FailingKeeps DEF CloseEvent
  <2>3. CASE ~cli.interrupted /\ child.state # "succeeded"
    BY <1>0, <1>16, <2>1, <2>3, FailingKeeps DEF CloseEvent
  <2>4. CASE ~cli.interrupted /\ child.state = "succeeded"
    <3>1. AfterTerraform /\ UNCHANGED <<infra, deployed, orphans>>
      BY <1>16, <2>4 DEF CloseEvent
    <3>2. SameCommand
      BY <1>0, <2>1, <3>1, AfterTerraformFields DEF TypeOK
    <3>3. /\ child # NoChild /\ child.locked
          /\ child.command # "init" => StateIsFree
      BY <1>16, <2>4 DEF IInv, CloseEvent, Locked
    <3>4. StateIsFree => StateIsFree'
      BY <3>1 DEF StateIsFree, Locked
    <3>5. CASE cli'.step \in TerraformCommands /\ cli'.exitCode = cli.exitCode
               /\ StepOfCommand'
      BY <1>0, <2>1, <2>4, <3>1, <3>2, <3>5 DEF IInv, SameCommand
    <3>6. CASE cli.step = "destroy" /\ cli'.step = "cleaning"
               /\ cli'.exitCode = cli.exitCode
      BY <1>0, <2>1, <2>4, <3>1, <3>2, <3>3, <3>4, <3>6 DEF IInv, SameCommand
    <3>7. CASE /\ cli.step # "init" /\ ~(cli.step = "plan" /\ cli.command = "apply")
               /\ cli'.step = "exited" /\ cli'.exitCode = 0
      BY <1>0, <2>1, <2>4, <3>1, <3>2, <3>3, <3>4, <3>7 DEF IInv, SameCommand
    <3>8. CASE /\ cli.step = "init" /\ cli'.exitCode = cli.exitCode
               /\ cli'.step = IF cli.command = "destroy" THEN "destroy" ELSE "plan"
      BY <3>2, <3>5, <3>8 DEF IInv, SameCommand
    <3>9. CASE /\ cli.step = "plan" /\ cli.command = "apply"
               /\ cli'.step = "apply" /\ cli'.exitCode = cli.exitCode
      BY <3>2, <3>5, <3>9 DEF IInv, SameCommand
    <3>10. QED
      BY <1>0, <2>1, <3>1, <3>6, <3>7, <3>8, <3>9, AfterTerraformFields DEF TypeOK
  <2>5. QED
    BY <2>2, <2>3, <2>4
<1>17. CASE Backstop
  BY <1>0, <1>17, FailingKeeps DEF IInv, Backstop
<1>18. CASE CleanFile
  BY <1>0, <1>a, <1>18 DEF IInv, CleanFile, TypeOK, CliRecords, StateIsFree
<1>19. CASE FinishCleaning
  <2>1. cli'.step = "exited" /\ SameCommand
    BY <1>0, <1>19, ExitFields DEF FinishCleaning, TypeOK
  <2>2. QED
    BY <1>0, <1>a, <1>b, <1>19, <2>1 DEF IInv, FinishCleaning, SameCommand
<1>20. CASE ChildSucceeds
  <2>1. /\ child # NoChild /\ child \in ChildRecords /\ child.locked
        /\ child' \in ChildRecords /\ child'.state = "succeeded"
        /\ child'.command = child.command /\ child'.config = child.config
        /\ child'.locked = child.locked /\ child'.asks = child.asks
    BY <1>0, <1>20 DEF ChildSucceeds, CanWork, TypeOK, ChildRecords
  <2>2. cli.step \in TerraformCommands /\ UNCHANGED <<infra, cli, orphans>>
    BY <1>0, <1>20, <2>1 DEF ChildSucceeds, TypeOK, ChildRecords
  <2>3. StateIsFree' <=> StateIsFree
    BY <2>2 DEF StateIsFree, Locked
  <2>4. LockIsExclusive'
    BY <2>1, <2>3 DEF IInv, Locked
  <2>5. /\ child.command = "apply" => deployed' = child.config
        /\ child.command = "destroy" => deployed' = NoApps
    BY <1>20 DEF ChildSucceeds, WorkDone, Goal
  <2>6. WorkIsDone'
    BY <2>1, <2>5
  <2>7. InfraIsBuilt'
    BY <2>1, <2>2 DEF IInv
  <2>8. FilesWritten' /\ EndsFree' /\ AppliedIsBuilt' /\ CleanupAfterDestroy'
    BY <2>2
  <2>9. InterruptedHasChild'
    BY <2>1, NoChildAssumption
  <2>10. QED
    BY <1>0, <2>2, <2>4, <2>6, <2>7, <2>8, <2>9 DEF IInv
<1>21. CASE ChildFails
  <2>1. /\ child # NoChild /\ child \in ChildRecords
        /\ child' \in ChildRecords /\ child'.state = "failed"
        /\ child'.command = child.command /\ child'.config = child.config
        /\ child'.locked = child.locked
    BY <1>0, <1>21 DEF ChildFails, TypeOK, ChildRecords
  <2>2. cli.step \in TerraformCommands /\ UNCHANGED <<infra, cli, orphans>>
    BY <1>0, <1>21, <2>1 DEF ChildFails, TypeOK, ChildRecords
  <2>3. StateIsFree' <=> StateIsFree
    BY <2>2 DEF StateIsFree, Locked
  <2>4. LockIsExclusive'
    BY <2>1, <2>3 DEF IInv, Locked
  <2>5. WorkIsDone' /\ InfraIsBuilt'
    BY <2>1, <2>2 DEF IInv
  <2>6. FilesWritten' /\ EndsFree' /\ AppliedIsBuilt' /\ CleanupAfterDestroy'
    BY <2>2
  <2>7. InterruptedHasChild'
    BY <2>1, NoChildAssumption
  <2>8. QED
    BY <1>0, <2>2, <2>4, <2>5, <2>6, <2>7 DEF IInv
<1>22. CASE OrphanEnds
  <2>1. PICK o \in orphans :
           /\ orphans' = orphans \ {o}
           /\ IF CanWork(o) /\ ~o.asks THEN WorkBroken(o) ELSE UNCHANGED deployed
    BY <1>22 DEF OrphanEnds
  <2>2. UNCHANGED <<infra, cli, child>>
    BY <1>22 DEF OrphanEnds
  <2>3. StateIsFree => StateIsFree'
    BY <2>1 DEF StateIsFree
  <2>4. StateIsFree => deployed' = deployed
    <3>1. CASE CanWork(o) /\ ~o.asks
      <4>1. StateIsFree => Goal(o) = deployed
        BY <2>1, <3>1 DEF StateIsFree, Locked, CanWork, Goal
      <4>2. QED
        BY <1>0, <2>1, <3>1, <4>1 DEF WorkBroken, TypeOK
    <3>2. QED
      BY <2>1, <3>1
  <2>5. LockIsExclusive' /\ EndsFree'
    BY <2>2, <2>3 DEF IInv, Locked
  <2>6. WorkIsDone'
    BY <2>2, <2>4 DEF IInv, Locked
  <2>7. AppliedIsBuilt' /\ CleanupAfterDestroy'
    BY <2>2, <2>4 DEF IInv
  <2>8. FilesWritten'
    BY <2>2 DEF IInv, Generated
  <2>9. QED
    BY <1>0, <2>2, <2>5, <2>6, <2>7, <2>8 DEF IInv
<1>23. CASE InterruptCommand
  <2>1. child' = NoChild /\ UNCHANGED <<deployed, orphans>> /\ ~cli.interrupted
    BY <1>b, <1>23 DEF IInv, InterruptCommand
  <2>2. CASE cli.step = "prompting"
    <3>1. cli'.step = "exited" /\ SameCommand
      BY <1>0, <1>23, <2>2, ExitFields DEF InterruptCommand, TypeOK
    <3>2. QED
      BY <1>0, <2>1, <2>2, <3>1 DEF IInv, SameCommand
  <2>3. CASE cli.step # "prompting"
    BY <1>0, <1>23, <2>1, <2>3, FailingKeeps DEF InterruptCommand
  <2>4. QED
    BY <2>2, <2>3
<1>24. CASE InterruptTerraform
  BY <1>0, <1>24, NoChildAssumption
  DEF IInv, InterruptTerraform, TypeOK, CliRecords, ChildRecords, Locked, StateIsFree
<1>25. CASE UNCHANGED vars
  BY <1>0, <1>25 DEF IInv, Generated, StateIsFree
<1>26. QED
  BY <1>1, <1>2, <1>3, <1>4, <1>5, <1>6, <1>7, <1>8, <1>9, <1>10, <1>11, <1>12, <1>13,
     <1>14, <1>15, <1>16, <1>17, <1>18, <1>19, <1>20, <1>21, <1>22, <1>23, <1>24, <1>25
     DEF Next, RunCommand, CommandStep, ChildStep

LEMMA Invariant == Spec => []IInv
BY InitInvariant, InductiveInvariant, PTL DEF Spec

(* Every reachable state of the deployment commands is well typed. *)
THEOREM TypeCorrect == Spec => []TypeOK
<1>1. IInv => TypeOK
  BY DEF IInv
<1>2. QED
  BY <1>1, Invariant, PTL

(* plan and apply read exactly the files their own run has generated, whatever *)
(* earlier runs have left in infra/ (writeGeneratedTerraform).                 *)
THEOREM GeneratedIsRead == Spec => []ReadsWhatWasGenerated
<1>1. IInv => ReadsWhatWasGenerated
  BY DEF IInv, TypeOK, ReadsWhatWasGenerated
<1>2. QED
  BY <1>1, Invariant, PTL

(* After an apply that has exited with 0 what is deployed is what this run has *)
(* built, although Terraform processes of interrupted commands may be at work  *)
(* (applyAction).                                                              *)
THEOREM SuccessIsDeployed == Spec => []AppliedIsBuilt
<1>1. IInv => AppliedIsBuilt
  BY DEF IInv
<1>2. QED
  BY <1>1, Invariant, PTL

(* destroy --cleanup only removes files when nothing is deployed any more      *)
(* (destroyAction).                                                            *)
THEOREM CleanupSafe == Spec => []CleanupAfterDestroy
<1>1. IInv => CleanupAfterDestroy
  BY DEF IInv
<1>2. QED
  BY <1>1, Invariant, PTL

(* A command interrupted while Terraform runs exits with 130, in whatever      *)
(* order the child's exit, its close event and the timer come                  *)
(* (spawnTerraform).                                                           *)
THEOREM InterruptReported == Spec => []InterruptedExits130
<1>1. IInv => InterruptedExits130
  BY DEF IInv
<1>2. QED
  BY <1>1, Invariant, PTL
=============================================================================
