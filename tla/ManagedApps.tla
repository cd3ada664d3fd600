----------------------------- MODULE ManagedApps -----------------------------
(***************************************************************************)
(* Managed apps: `memphis apps` imports manifests and runs their actions.  *)
(* An action is planned (host, environment and secrets are checked, its    *)
(* steps are screened), its secrets are resolved a second time, its steps  *)
(* run in a shell one by one, and the registry file is read and rewritten. *)
(* Every command is a process; nothing locks the catalog, the vault's      *)
(* entries or the registry.                                                *)
(***************************************************************************)
EXTENDS Integers, FiniteSets

CONSTANTS
  Procs, Apps,
  Manifests,       \* the contents a manifest file may have
  Builtin,         \* the manifest an app has without a file
  Needs(_),        \* manifest -> names in vaultEnv and vaultFiles
  IsBlocked(_),    \* some step matches the step validator's list
  Keys,            \* the vault keys
  InEnvironment,   \* names the caller's environment has: the vault is not asked
  MaxFaults,       \* bound on failures, kills and changes of the vault or of a file
  MaxCommands      \* bound on commands

VARIABLES
  catalog,         \* app -> its manifest file: a manifest, "none" or "torn"
  source,          \* the file that imports read
  vault,           \* keys whose latest entry exists, verifies and decrypts
  registry,        \* app -> the state recorded, or "none"
  torn,            \* the registry file is being written, or its writer died
  actual,          \* app -> the state its steps left it in (external)
  proc,            \* process -> its stage and what it read
  used,            \* commands begun, faults that happened
  spoiled,         \* history: two updates of the registry overlapped, or one was cut short
  drifted          \* history: apps changed by an action that was not recorded, or by two

vars == <<catalog, source, vault, registry, torn, actual, proc, used, spoiled, drifted>>

Actions == {"install", "start", "stop", "status"}
Idle == [stage |-> "idle", app |-> "none", action |-> "none", manifest |-> Builtin,
         secrets |-> {}, seen |-> [a \in Apps |-> "none"], alone |-> TRUE]

Init ==
  /\ catalog = [a \in Apps |-> "none"] /\ source \in Manifests
  /\ vault \in SUBSET Keys
  /\ registry = [a \in Apps |-> "none"] /\ torn = FALSE
  /\ actual = [a \in Apps |-> "none"]
  /\ proc = [p \in Procs |-> Idle]
  /\ used = [commands |-> 0, faults |-> 0] /\ spoiled = FALSE /\ drifted = {}

Fault == used.faults < MaxFaults /\ used' = [used EXCEPT !.faults = @ + 1]
Begins(p) ==
  proc[p] = Idle /\ used.commands < MaxCommands /\ used' = [used EXCEPT !.commands = @ + 1]
Active == {p \in Procs : proc[p].stage # "idle"}
\* A file of the catalog replaces the built-in manifest; one that cannot be read does not.
Found(a) == IF catalog[a] \in Manifests THEN catalog[a] ELSE Builtin

\* resolveActionVaultEnv and resolveActionVaultFiles: what they could resolve.
Resolved(m) == {k \in Needs(m) : k \in InEnvironment \/ k \in vault}

\* checkManagedAppRequirements and checkActionEnvRequirements: whether platform, node,
\* commands and environment do, which nothing else here depends on.
HostChecks == BOOLEAN
\* planManagedAppAction; with --apply a plan whose requirements fail is refused.
Planned(m) == Needs(m) \subseteq Resolved(m)
ScreenedOnImport(m) == TRUE
Screened(m) == ~ IsBlocked(m)
Plan(p, a, action, suits) ==
  /\ Begins(p)
  /\ suits /\ Screened(Found(a)) /\ Planned(Found(a))
  /\ LET others == {q \in Active : proc[q].app = a /\ proc[q].stage # "importing"} IN
       proc' = [q \in Procs |->
                 IF q = p THEN [Idle EXCEPT !.stage = "planned", !.app = a, !.action = action,
                                            !.manifest = Found(a), !.alone = others = {}]
                 ELSE IF q \in others THEN [proc[q] EXCEPT !.alone = FALSE] ELSE proc[q]]
  /\ UNCHANGED <<catalog, source, vault, registry, torn, actual, spoiled, drifted>>

\* executeManagedAppAction resolves again, and nobody looks at what is missing now.
Resolve(p) ==
  /\ proc[p].stage = "planned"
  /\ proc' = [proc EXCEPT ![p].stage = "first", ![p].secrets = Resolved(proc[p].manifest)]
  /\ UNCHANGED <<catalog, source, vault, registry, torn, actual, used, spoiled, drifted>>

StateAfter(action, before) ==
  CASE action = "install" -> "installed" [] action = "start" -> "running"
    [] action = "stop" -> "stopped" [] OTHER -> before

\* Two steps stand for any number: the first one acts on the app.
RunStep(p) ==
  /\ proc[p].stage \in {"first", "second"}
  /\ IF proc[p].stage = "first"
     THEN /\ actual' = [actual EXCEPT ![proc[p].app] = StateAfter(proc[p].action, @)]
          /\ proc' = [proc EXCEPT ![p].stage = "second"]
     ELSE proc' = [proc EXCEPT ![p].stage = "ran"] /\ UNCHANGED actual
  /\ UNCHANGED <<catalog, source, vault, registry, torn, used, spoiled, drifted>>

\* A step exits with an error: the command throws, and records nothing.
FailStep(p) ==
  /\ proc[p].stage \in {"first", "second"} /\ Fault
  /\ drifted' = IF proc[p].stage = "second" THEN drifted \cup {proc[p].app} ELSE drifted
  /\ proc' = [proc EXCEPT ![p] = Idle]
  /\ UNCHANGED <<catalog, source, vault, registry, torn, actual, spoiled>>

\* recordManagedAppExecution: load, where a file that cannot be parsed counts as empty ...
Updating == {p \in Procs : proc[p].stage \in {"loaded", "saving"}}
LoadRegistry(p) ==
  /\ proc[p].stage = "ran"
  /\ proc' = [proc EXCEPT ![p].stage = "loaded",
                          ![p].seen = IF torn THEN [a \in Apps |-> "none"] ELSE registry]
  /\ spoiled' = (spoiled \/ Updating # {} \/ torn)
  /\ UNCHANGED <<catalog, source, vault, registry, torn, actual, used, drifted>>
BeginSave(p) ==
  /\ proc[p].stage = "loaded"
  /\ proc' = [proc EXCEPT ![p].stage = "saving"] /\ torn' = TRUE
  /\ UNCHANGED <<catalog, source, vault, registry, actual, used, spoiled, drifted>>

\* ... the state after the action, "unknown" when there is no record to keep, ...
Recorded(action, seen) ==
  LET next == StateAfter(action, seen) IN IF next = "none" THEN "unknown" ELSE next
\* ... and save.
Save(p) ==
  LET a == proc[p].app IN
  /\ proc[p].stage = "saving"
  /\ registry' = [proc[p].seen EXCEPT ![a] = Recorded(proc[p].action, @)]
  /\ torn' = FALSE
  /\ drifted' = IF ~ proc[p].alone THEN drifted \cup {a}
                ELSE IF proc[p].action = "status" THEN drifted ELSE drifted \ {a}
  /\ proc' = [proc EXCEPT ![p] = Idle]
  /\ UNCHANGED <<catalog, source, vault, actual, used, spoiled>>

\* `apps import`: the file is validated, an existing one is refused without --force ...
Import(p, a, force) ==
  /\ Begins(p) /\ ~ IsBlocked(source)
  /\ catalog[a] # "none" => force
  /\ proc' = [proc EXCEPT ![p] = [Idle EXCEPT !.stage = "importing", !.app = a,
                                             !.manifest = source]]
  /\ UNCHANGED <<catalog, source, vault, registry, torn, actual, spoiled, drifted>>
\* ... and it is read again and copied as it is then.
Copy(p) ==
  /\ proc[p].stage = "importing"
  /\ catalog' = [catalog EXCEPT ![proc[p].app] = source]
  /\ proc' = [proc EXCEPT ![p] = Idle]
  /\ UNCHANGED <<source, vault, registry, torn, actual, used, spoiled, drifted>>

Kill(p) ==
  /\ proc[p].stage # "idle" /\ Fault
  /\ catalog' = IF proc[p].stage = "importing"
                THEN [catalog EXCEPT ![proc[p].app] = "torn"] ELSE catalog
  /\ spoiled' = (spoiled \/ proc[p].stage = "saving")
  /\ drifted' = IF proc[p].stage \in {"second", "ran", "loaded", "saving"}
                THEN drifted \cup {proc[p].app} ELSE drifted
  /\ proc' = [proc EXCEPT ![p] = Idle]
  /\ UNCHANGED <<source, vault, registry, torn, actual>>

\* Other programs: a vault init or a save in progress, an edit of the file to import.
VaultChanges ==
  /\ Fault /\ vault' \in SUBSET Keys \ {vault}
  /\ UNCHANGED <<catalog, source, registry, torn, actual, proc, spoiled, drifted>>
SourceChanges ==
  /\ Fault /\ source' \in Manifests \ {source}
  /\ UNCHANGED <<catalog, vault, registry, torn, actual, proc, spoiled, drifted>>

Next ==
  \/ VaultChanges \/ SourceChanges
  \/ \E p \in Procs :
       \/ Resolve(p) \/ RunStep(p) \/ FailStep(p) \/ Kill(p)
       \/ LoadRegistry(p) \/ BeginSave(p) \/ Save(p) \/ Copy(p)
       \/ \E a \in Apps, action \in Actions, suits \in HostChecks : Plan(p, a, action, suits)
       \/ \E a \in Apps, force \in BOOLEAN : Import(p, a, force)

Spec == Init /\ [][Next]_vars

-----------------------------------------------------------------------------
(* Properties.                                                             *)

Running == {p \in Procs : proc[p].stage \in {"first", "second", "ran", "loaded", "saving"}}

\* Steps the validator blocks never run, though a manifest that was edited while it was
\* imported got into the catalog: the plan screens what it has read, and runs that.
BlockedStepsNeverRun == \A p \in Running : ~ IsBlocked(proc[p].manifest)

\* When no action runs on an app, the registry has the state its last action left it in:
\* unless an action that had begun to change it failed, was killed or met another one on the
\* same app, and none has been recorded since, or updates of the registry overlapped or one
\* was killed in its write.
RegistryFollowsApps ==
  \A a \in Apps \ drifted :
    spoiled \/ (\E p \in Active : proc[p].app = a) \/
      (IF registry[a] = "unknown" THEN "none" ELSE registry[a]) = actual[a]
=============================================================================
