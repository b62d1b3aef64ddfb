------------------------------ MODULE Deployment ------------------------------
(***************************************************************************)
(* The commands of pilot that deploy (packages/pilot/src/cli): materialize,*)
(* plan, apply and destroy, one after another in one project, with the     *)
(* generated files they leave in infra/ and the Terraform processes they   *)
(* start.  The user edits the project, answers the prompt and presses      *)
(* Ctrl-C.                                                                 *)
(*                                                                         *)
(* Terraform is outside the program: it reads infra/ when it starts, holds *)
(* the lock of its state while it works, and creates and destroys          *)
(* resources one by one.  A version stands for all that the generated file *)
(* of an app contains.                                                     *)
(***************************************************************************)
EXTENDS Naturals

CONSTANTS
    Apps,           \* every app that is ever in apps.yaml
    Versions,       \* what the generated file of an app can contain
    Commands,       \* the commands in use
    Answers,        \* the answers to the prompt of destroy: "y", "n"
    MaxEdits,       \* bound on the edits of the project
    MaxInterrupts,  \* bound on Ctrl-C
    AllApps, None, Torn, NoChild

ASSUME DeploymentAssumption ==
    /\ {AllApps, None, Torn} \cap (Apps \cup Versions) = {}
    /\ None # Torn
    /\ Commands \subseteq {"materialize", "plan", "apply", "destroy"}
    /\ Answers \subseteq {"y", "n"}
    /\ MaxEdits \in Nat /\ MaxInterrupts \in Nat

VARIABLES
    project,   \* the version of each app of apps.yaml
    infra,     \* the generated files in infra/
    deployed,  \* the resources that exist: Terraform's state
    cli,       \* the process of the current or last command
    child,     \* its Terraform process
    orphans,   \* the Terraform processes whose command has ended before them
    edits, interrupts  \* count what MaxEdits and MaxInterrupts bound

vars == <<project, infra, deployed, cli, child, orphans, edits, interrupts>>

TerraformCommands == {"init", "plan", "apply", "destroy"}
Steps == {"building", "generating", "writing", "prompting", "cleaning", "exited"}
           \cup TerraformCommands
Models == [Apps -> Versions \cup {None}]
NoApps == [a \in Apps |-> None]

CliRecords ==
    [command: Commands \cup {"none"}, step: Steps,
     yes: BOOLEAN, cleanup: BOOLEAN, target: Apps \cup {AllApps},
     built: Models,          \* what the build returned
     todo: SUBSET Apps,      \* the files still to be written or cleaned up
     interrupted: BOOLEAN,   \* the flag of spawnTerraform
     exitCode: {0, 1, 2, 130}]

(* locked: the process holds the lock of the state, or needs none. *)
ChildRecords ==
    [command: TerraformCommands, config: [Apps -> Versions \cup {None, Torn}],
     locked: BOOLEAN, asks: BOOLEAN,
     state: {"running", "stopping", "succeeded", "failed"}]

ASSUME NoChildAssumption == NoChild \notin ChildRecords

TypeOK ==
    /\ project \in Models
    /\ infra \in [Apps -> Versions \cup {None, Torn}]
    /\ deployed \in Models
    /\ cli \in CliRecords
    /\ child \in ChildRecords \cup {NoChild}
    /\ child # NoChild => child.command = cli.step
    /\ orphans \subseteq ChildRecords
    /\ edits \in 0..MaxEdits /\ interrupts \in 0..MaxInterrupts

Idle == [command |-> "none", step |-> "exited", yes |-> FALSE, cleanup |-> FALSE,
         target |-> AllApps, built |-> NoApps, todo |-> {}, interrupted |-> FALSE,
         exitCode |-> 0]

Init ==
    /\ project \in Models
    /\ infra = NoApps
    /\ deployed = NoApps
    /\ cli = Idle
    /\ child = NoChild
    /\ orphans = {}
    /\ edits = 0 /\ interrupts = 0

-----------------------------------------------------------------------------
(* The user adds, changes or removes an app. *)
EditProject ==
    /\ edits < MaxEdits
    /\ edits' = edits + 1
    /\ \E a \in Apps : \E v \in (Versions \cup {None}) \ {project[a]} :
          project' = [project EXCEPT ![a] = v]
    /\ UNCHANGED <<infra, deployed, cli, child, orphans, interrupts>>

Exit(code) == cli' = [cli EXCEPT !.step = "exited", !.exitCode = code, !.todo = {}]

GoTo(step) == cli' = [cli EXCEPT !.step = step]

-----------------------------------------------------------------------------
(* The commands up to Terraform. *)

(* materialize reads the project and the artifacts of earlier builds, of       *)
(* whatever version they are.                                                  *)
RunMaterialize ==
    /\ "materialize" \in Commands /\ cli.step = "exited"
    /\ \E target \in Apps \cup {AllApps}, built \in Models :
        /\ \A a \in Apps : built[a] = None <=> project[a] = None
        /\ cli' = [Idle EXCEPT
              !.command = "materialize", !.target = target, !.built = built,
              !.step = IF target = AllApps \/ project[target] # None
                       THEN "generating" ELSE "exited",
              !.exitCode = IF target = AllApps \/ project[target] # None
                           THEN 0 ELSE 2]
    /\ UNCHANGED <<project, infra, deployed, child, orphans, edits, interrupts>>

RunPlanOrApply(command) ==
    /\ command \in Commands \cap {"plan", "apply"} /\ cli.step = "exited"
    /\ cli' = [Idle EXCEPT !.command = command, !.step = "building"]
    /\ UNCHANGED <<project, infra, deployed, child, orphans, edits, interrupts>>

(* destroy asks first, unless --yes is given; without a terminal it refuses.   *)
RunDestroy ==
    /\ "destroy" \in Commands /\ cli.step = "exited"
    /\ \E yes, cleanup, isTTY \in BOOLEAN :
        cli' = [Idle EXCEPT
            !.command = "destroy", !.yes = yes, !.cleanup = cleanup,
            !.step = IF yes THEN "init" ELSE IF isTTY THEN "prompting" ELSE "exited",
            !.exitCode = IF yes \/ isTTY THEN 0 ELSE 2]
    /\ UNCHANGED <<project, infra, deployed, child, orphans, edits, interrupts>>

AnswerPrompt ==
    /\ cli.step = "prompting"
    /\ \/ "y" \in Answers /\ GoTo("init")
       \/ "n" \in Answers /\ Exit(0)
    /\ UNCHANGED <<project, infra, deployed, child, orphans, edits, interrupts>>

(* buildApps returns the project model and an artifact for every app.          *)
BuildSucceeds ==
    /\ cli.step = "building"
    /\ cli' = [cli EXCEPT !.step = "generating", !.built = project]
    /\ UNCHANGED <<project, infra, deployed, child, orphans, edits, interrupts>>

BuildFails ==
    /\ cli.step = "building"
    /\ \E code \in {1, 2} : Exit(code)
    /\ UNCHANGED <<project, infra, deployed, child, orphans, edits, interrupts>>

(* The files of this run: --target drops those of the other apps. *)
Generated == {a \in Apps : cli.built[a] # None /\ cli.target \in {a, AllApps}}

(* dispatch with the extensions, then moves and outputs. *)
Generate ==
    /\ cli.step = "generating"
    /\ cli' = [cli EXCEPT !.step = "writing", !.todo = Generated]
    /\ UNCHANGED <<project, infra, deployed, child, orphans, edits, interrupts>>

(* One of them reports an error: nothing has been written yet. *)
GenerationFails ==
    /\ cli.step = "generating"
    /\ Exit(1)
    /\ UNCHANGED <<project, infra, deployed, child, orphans, edits, interrupts>>

(* writeGeneratedTerraform: write file after file ... *)
WriteFile ==
    /\ cli.step = "writing"
    /\ \E a \in cli.todo :
        /\ infra' = [infra EXCEPT ![a] = cli.built[a]]
        /\ cli' = [cli EXCEPT !.todo = @ \ {a}]
    /\ UNCHANGED <<project, deployed, child, orphans, edits, interrupts>>

(* ... in any call to the file system, writeFile perhaps half-way ... *)
WriteFails ==
    /\ cli.step = "writing"
    /\ \/ UNCHANGED infra
       \/ \E a \in cli.todo : infra' = [infra EXCEPT ![a] = Torn]
    /\ Exit(1)
    /\ UNCHANGED <<project, deployed, child, orphans, edits, interrupts>>

(* ... then remove, one by one, the files that this run did not generate.      *)
Stale == {a \in Apps \ Generated : infra[a] # None}

RemoveStale ==
    /\ cli.step = "writing" /\ cli.todo = {}
    /\ \E a \in Stale : infra' = [infra EXCEPT ![a] = None]
    /\ UNCHANGED <<project, deployed, cli, child, orphans, edits, interrupts>>

(* Mutant: the stale files are left where they are. *)
FinishWritingKeepsStale ==
    /\ cli.step = "writing" /\ cli.todo = {}
    /\ IF cli.command = "materialize" THEN Exit(0) ELSE GoTo("init")
    /\ UNCHANGED <<project, infra, deployed, child, orphans, edits, interrupts>>

FinishWriting ==
    /\ cli.step = "writing" /\ cli.todo = {} /\ Stale = {}
    /\ IF cli.command = "materialize" THEN Exit(0) ELSE GoTo("init")
    /\ UNCHANGED <<project, infra, deployed, child, orphans, edits, interrupts>>

-----------------------------------------------------------------------------
(* Terraform. *)

Locked(t) == t.locked /\ t.command # "init"

(* spawn: destroy gets -auto-approve only with --yes; without it, it asks, when *)
(* there is something to destroy, on its standard input: a pipe that nobody     *)
(* writes to or closes.                                                         *)
Spawn ==
    /\ cli.step \in TerraformCommands /\ child = NoChild
    /\ child' = [command |-> cli.step, config |-> infra,
                 locked |-> cli.step = "init" \/ \A o \in orphans : ~Locked(o),
                 asks |-> cli.step = "destroy" /\ ~cli.yes /\ deployed # NoApps,
                 state |-> "running"]
    /\ UNCHANGED <<project, infra, deployed, cli, orphans, edits, interrupts>>

(* No terraform in the PATH, or no infra/ to run it in. *)
SpawnFails ==
    /\ cli.step \in TerraformCommands /\ child = NoChild
    /\ Exit(1)
    /\ UNCHANGED <<project, infra, deployed, child, orphans, edits, interrupts>>

(* What Terraform wants to have deployed. *)
Goal(t) ==
    CASE t.command = "apply" -> t.config
      [] t.command = "destroy" -> NoApps
      [] OTHER -> deployed

CanWork(t) == t.locked /\ \A a \in Apps : t.config[a] # Torn

(* It has done all its work, or a part of it. *)
WorkDone(t) == deployed' = Goal(t)
WorkBroken(t) ==
    \E done \in SUBSET Apps :
        deployed' = [a \in Apps |-> IF a \in done THEN Goal(t)[a] ELSE deployed[a]]

ChildSucceeds ==
    /\ child # NoChild
    /\ child.state \in {"running", "stopping"}
    /\ CanWork(child) /\ ~child.asks
    /\ WorkDone(child)
    /\ child' = [child EXCEPT !.state = "succeeded"]
    /\ UNCHANGED <<project, infra, cli, orphans, edits, interrupts>>

(* A process that asks for approval goes on waiting until it is told to stop.  *)
ChildFails ==
    /\ child # NoChild
    /\ child.state \in {"running", "stopping"}
    /\ IF CanWork(child)
       THEN IF child.asks THEN child.state = "stopping" /\ UNCHANGED deployed
            ELSE WorkBroken(child)
       ELSE UNCHANGED deployed
    /\ child' = [child EXCEPT !.state = "failed"]
    /\ UNCHANGED <<project, infra, cli, orphans, edits, interrupts>>

(* A process that outlives its command goes on; one that waits for an answer   *)
(* now reads the end of its input.                                             *)
OrphanEnds ==
    /\ \E o \in orphans :
        /\ orphans' = orphans \ {o}
        /\ IF CanWork(o) /\ ~o.asks THEN WorkBroken(o) ELSE UNCHANGED deployed
    /\ UNCHANGED <<project, infra, cli, child, edits, interrupts>>

(* What follows a Terraform command that has succeeded. *)
AfterTerraform ==
    CASE cli.step = "init" -> GoTo(IF cli.command = "destroy" THEN "destroy" ELSE "plan")
      [] cli.step = "plan" /\ cli.command = "apply" -> GoTo("apply")
      [] cli.step = "destroy" /\ cli.cleanup ->
            cli' = [cli EXCEPT !.step = "cleaning",
                               !.todo = {a \in Apps : infra[a] # None}]
      [] OTHER -> Exit(0)

(* Mutant: the result of the child counts although the user has interrupted.   *)
CloseEventIgnoresInterrupt ==
    /\ child # NoChild /\ child.state \in {"succeeded", "failed"}
    /\ child' = NoChild
    /\ IF child.state = "succeeded" THEN AfterTerraform ELSE Exit(1)
    /\ UNCHANGED <<project, infra, deployed, orphans, edits, interrupts>>

(* Mutant: the exit code of the child is not looked at. *)
CloseEventIgnoresCode ==
    /\ child # NoChild /\ child.state \in {"succeeded", "failed"}
    /\ child' = NoChild
    /\ IF cli.interrupted THEN Exit(130) ELSE AfterTerraform
    /\ UNCHANGED <<project, infra, deployed, orphans, edits, interrupts>>

(* child.on('close') *)
CloseEvent ==
    /\ child # NoChild /\ child.state \in {"succeeded", "failed"}
    /\ child' = NoChild
    /\ IF cli.interrupted THEN Exit(130)
       ELSE IF child.state = "succeeded" THEN AfterTerraform ELSE Exit(1)
    /\ UNCHANGED <<project, infra, deployed, orphans, edits, interrupts>>

(* destroy --cleanup unlinks the generated files; an unlink that fails counts  *)
(* as one that has removed its file.                                           *)
CleanFile ==
    /\ cli.step = "cleaning"
    /\ \E a \in cli.todo :
        /\ infra' \in {infra, [infra EXCEPT ![a] = None]}
        /\ cli' = [cli EXCEPT !.todo = @ \ {a}]
    /\ UNCHANGED <<project, deployed, child, orphans, edits, interrupts>>

FinishCleaning ==
    /\ cli.step = "cleaning" /\ cli.todo = {}
    /\ Exit(0)
    /\ UNCHANGED <<project, infra, deployed, child, orphans, edits, interrupts>>

-----------------------------------------------------------------------------
(* Ctrl-C. *)

PressCtrlC == interrupts < MaxInterrupts /\ interrupts' = interrupts + 1

(* Nothing listens: the process dies where it is, perhaps in the middle of a   *)
(* file.  The prompt closes and leaves a promise that never settles: the       *)
(* process runs out of work.                                                   *)
InterruptCommand ==
    /\ cli.step # "exited" /\ child = NoChild
    /\ PressCtrlC
    /\ Exit(IF cli.step = "prompting" THEN 0 ELSE 130)
    /\ \/ UNCHANGED infra
       \/ cli.step = "writing" /\ \E a \in cli.todo : infra' = [infra EXCEPT ![a] = Torn]
    /\ UNCHANGED <<project, deployed, child, orphans, edits>>

(* onSigint: SIGTERM to the child, and a timer.                                *)
InterruptTerraform ==
    /\ child # NoChild /\ ~cli.interrupted
    /\ PressCtrlC
    /\ cli' = [cli EXCEPT !.interrupted = TRUE]
    /\ child' = IF child.state = "running" THEN [child EXCEPT !.state = "stopping"] ELSE child
    /\ UNCHANGED <<project, infra, deployed, orphans, edits>>

(* Mutant: the timer is cleared. *)
BackstopNever == FALSE /\ UNCHANGED vars

(* After two seconds: child.killed says that SIGTERM was sent, and so SIGKILL  *)
(* is not.  The command exits; its child may live on.                          *)
Backstop ==
    /\ child # NoChild /\ cli.interrupted
    /\ orphans' = IF child.state = "stopping" THEN orphans \cup {child} ELSE orphans
    /\ child' = NoChild
    /\ Exit(130)
    /\ UNCHANGED <<project, infra, deployed, edits, interrupts>>

-----------------------------------------------------------------------------
RunCommand == RunMaterialize \/ (\E c \in {"plan", "apply"} : RunPlanOrApply(c)) \/ RunDestroy

CommandStep ==
    \/ AnswerPrompt \/ BuildSucceeds \/ BuildFails \/ Generate \/ GenerationFails
    \/ WriteFile \/ WriteFails \/ RemoveStale \/ FinishWriting
    \/ Spawn \/ SpawnFails \/ CloseEvent \/ Backstop \/ CleanFile \/ FinishCleaning

ChildStep == ChildSucceeds \/ ChildFails

Next ==
    \/ EditProject \/ RunCommand \/ CommandStep \/ ChildStep \/ OrphanEnds
    \/ InterruptCommand \/ InterruptTerraform

Spec == Init /\ [][Next]_vars

(* The event loop and the timer go on and the user answers the prompt; a       *)
(* Terraform that does not wait for an answer ends.  One that was told to stop *)
(* may ignore it for ever.                                                     *)
RunningChildStep == child # NoChild /\ child.state = "running" /\ ChildStep

FairSpec == Spec /\ WF_vars(CommandStep) /\ WF_vars(RunningChildStep)

-----------------------------------------------------------------------------
(* plan and apply read exactly the files this run has generated: no file of an *)
(* earlier run that was interrupted, had failed or had another --target is     *)
(* among them, and none is missing (writeGeneratedTerraform).                  *)
ReadsWhatWasGenerated ==
    child # NoChild /\ child.command \in {"plan", "apply"} => child.config = cli.built

(* When apply ends with success, what is deployed is the project as this run   *)
(* has built it, whatever other commands have left behind, their Terraform     *)
(* processes included (applyAction).                                           *)
AppliedIsBuilt ==
    cli.command = "apply" /\ cli.step = "exited" /\ cli.exitCode = 0 =>
        deployed = cli.built

(* destroy --cleanup removes the description of resources only when they are   *)
(* gone (destroyAction).                                                       *)
CleanupAfterDestroy == cli.step = "cleaning" => deployed = NoApps

(* A command interrupted while Terraform runs exits with 130 and never with    *)
(* the result of the child, in whatever order the child ends, its close event  *)
(* and the timer come (spawnTerraform).                                        *)
InterruptedExits130 ==
    cli.interrupted => cli.step \in TerraformCommands \/ cli.exitCode = 130

(* Every command ends, interrupted or not; destroy is only certain to when it  *)
(* does not have to ask (spawnTerraform).                                      *)
CommandEnds ==
    (cli.step # "exited" /\ (cli.command = "destroy" => cli.yes)) ~> cli.step = "exited"

-----------------------------------------------------------------------------
(* Promises of the documentation that the code does not keep.                  *)

(* No Terraform outlives its command: what ignores SIGTERM is killed after two *)
(* seconds (the comment of onSigint in terraform.ts).                          *)
NoOrphan == orphans = {}

(* destroy proceeds when the user confirms and so comes to an end              *)
(* (specs/021-ycsf-cli/data-model.md, 4.4).                                    *)
ConfirmedDestroyEnds ==
    (cli.command = "destroy" /\ ~cli.yes /\ cli.step = "init") ~> cli.step = "exited"

(* materialize --target touches no file of another app                         *)
(* (specs/014-materializer-dispatch, FR-015).                                  *)
TargetKeepsOthers ==
    [][cli.command = "materialize" /\ cli.step = "writing" =>
          \A a \in Apps : cli.target \notin {a, AllApps} => infra'[a] = infra[a]]_vars
=============================================================================
