------------------------------ MODULE HostSetup ------------------------------
(***************************************************************************)
(* How a host gets its configuration: `setup` and the onboarding wizard    *)
(* write .env, `onboarding bootstrap` writes it as the first of its steps, *)
(* `configure` writes config.yaml.  Each looks at the file, asks its       *)
(* questions, and writes later; several run in parallel, and any may be    *)
(* killed.  A server start reads .env under what the shell exports.        *)
(* Of an environment only what decides a start is modelled.                *)
(***************************************************************************)
EXTENDS Integers

CONSTANTS Procs, Absent, MaxCommands, MaxKills

VARIABLES
  shell,       \* what the shell of every command and of the server exports
  env,         \* .env: an environment or Absent
  config,      \* config.yaml: its identity and whether the vault is initialized, or Absent
  proc,        \* process -> what it does
  commands, kills,
  dids,        \* identities generated so far
  reported,    \* history: the last environment reported as written, and how
  identity,    \* history: the first identity that was reported as written
  crossed,     \* history: writers of .env overlapped, or one died in its write
  reread,      \* history: the same for config.yaml
  replaced     \* history: an unforced command replaced what was reported before it began

vars == <<shell, env, config, proc, commands, kills, dids, reported, identity, crossed, reread,
          replaced>>

Blank == [production |-> FALSE, provider |-> "ollama", key |-> FALSE, token |-> FALSE,
          pepper |-> "none"]

\* buildSetupEnv: what setup makes of the answers. A pepper that was typed may be short.
SetupEnv(answers) ==
  [Blank EXCEPT !.provider = IF answers.provider = "remote" THEN "remote" ELSE "local-fallback",
                !.key = answers.key /\ answers.provider = "remote", !.pepper = answers.pepper]
\* buildProfileEnv: the keys of the providers are left blank for the operator to fill in.
ProfileEnv(profile) ==
  [Blank EXCEPT !.production = (profile = "prod"), !.token = TRUE, !.pepper = "good",
                !.provider = IF profile = "prod" THEN "remote" ELSE "local-fallback"]
ProfileEnvWithoutToken(profile) == [ProfileEnv(profile) EXCEPT !.token = FALSE]
Profile(profile) == ProfileEnv(profile)

\* loadConfig: remote providers without key fall back, production wants a token.
ResolveDefaultProvider(e) ==
  IF e.provider = "ollama" \/ (e.provider = "remote" /\ ~ e.key) THEN "local-fallback" ELSE e.provider
ProductionIsSafe(e) == e.production => e.token /\ (ResolveDefaultProvider(e) = "remote" => e.key)
\* At the start dotenv does not override what is exported.
Effective(e) == [e EXCEPT !.production = @ \/ shell = "production", !.token = @ \/ shell = "token"]
Starts(e) == shell # "invalid" /\ ProductionIsSafe(Effective(e))
\* Setup validates with its own values over the exported ones.
ValidateSetupEnv(e) ==
  /\ shell # "invalid" /\ ProductionIsSafe([e EXCEPT !.token = @ \/ shell = "token"])
  /\ e.pepper = "good" /\ (e.provider = "remote" => e.key)

NotReported == [env |-> Absent, by |-> "none", ok |-> FALSE]
Idle == [step |-> "idle", kind |-> "none", force |-> FALSE, before |-> FALSE, out |-> Absent,
         old |-> Absent, at |-> 0, tries |-> 0]
Init ==
  /\ shell \in {"clean", "token", "production", "invalid"}
  /\ env = Absent /\ config = Absent
  /\ proc = [p \in Procs |-> Idle]
  /\ commands = 0 /\ kills = 0 /\ dids = 0
  /\ reported = NotReported /\ identity = 0
  /\ crossed = FALSE /\ reread = FALSE /\ replaced = FALSE

Goes(p, step) == proc' = [proc EXCEPT ![p].step = step]
Ends(p) == proc' = [proc EXCEPT ![p] = Idle]
envState == <<env, reported, crossed, replaced>>
configState == <<config, dids, identity, reread>>

Profiles == {"dev", "prod"}
SetupAnswers == [provider : {"local", "remote"}, key : BOOLEAN, pepper : {"short", "good"}]
Start(p, kind, force, out) ==
  /\ proc[p] = Idle /\ commands < MaxCommands
  /\ commands' = commands + 1
  /\ proc' = [proc EXCEPT ![p] = [Idle EXCEPT !.step = "check", !.kind = kind, !.force = force,
                !.out = out, !.before = reported # NotReported, !.at = 1, !.tries = 1]]
  /\ UNCHANGED <<shell, kills, envState, configState>>
\* --apply refuses a profile for development while the shell says production.
Bootstrap(p, force, profile) ==
  /\ shell = "production" => profile = "prod"
  /\ Start(p, "plan", force, Profile(profile))

-----------------------------------------------------------------------------
\* ensureWritableEnvPath, before the questions of setup; the wizard and --write look when
\* they write.
Writable(p) == proc[p].force \/ env = Absent
\* shouldRetryStep: only the build and the smoke tests get a second attempt.
MaxAttempts(i) == IF i \in {3, 5, 6} THEN 2 ELSE 1
Check(p) ==
  /\ proc[p].step = "check"
  /\ IF Writable(p) THEN Goes(p, "ask") ELSE Ends(p)
  /\ UNCHANGED <<shell, commands, kills, envState, configState>>

\* The questions were answered with no, or Ctrl-C.
Cancel(p) ==
  /\ proc[p].step = "ask" /\ proc[p].kind = "setup"
  /\ Ends(p)
  /\ UNCHANGED <<shell, commands, kills, envState, configState>>

\* writeFileSync truncates, then writes.
InWrite(q) == proc[q].step \in {"ask", "truncated"}
Truncate(p) ==
  /\ proc[p].step = "ask" /\ Goes(p, "truncated")
  /\ env' = Blank
  /\ crossed' = (crossed \/ \E q \in Procs \ {p} : InWrite(q))
  /\ UNCHANGED <<shell, commands, kills, reported, replaced, configState>>
\* A provider that is not reachable by now is a warning in the report, no more.
Report(p) == [env |-> proc[p].out, by |-> proc[p].kind,
              ok |-> proc[p].kind = "setup" => ValidateSetupEnv(proc[p].out)]
WriteEnv(p) ==
  /\ proc[p].step = "truncated"
  /\ env' = proc[p].out
  /\ reported' = Report(p)
  /\ replaced' = (replaced \/ (proc[p].before /\ ~ proc[p].force))
  /\ CASE proc[p].kind = "plan" -> proc' = [proc EXCEPT ![p].step = "plan", ![p].at = 2]
       [] proc[p].kind = "wizard" -> Goes(p, "vault")
       [] OTHER -> Ends(p)
  /\ UNCHANGED <<shell, commands, kills, crossed, configState>>
\* The wizard goes on to the vault, which it initializes (see Vault), skips or cannot open,
\* and prints the credentials.
VaultSetup(p) ==
  /\ proc[p].step = "vault" /\ Ends(p)
  /\ UNCHANGED <<shell, commands, kills, envState, configState>>

\* runHostBootstrapPlan: preflight, build, doctor and the smoke tests, one after the other.
StepSucceeds(p) ==
  /\ proc[p].step = "plan"
  /\ IF proc[p].at = 6 THEN Ends(p) ELSE proc' = [proc EXCEPT ![p].at = @ + 1, ![p].tries = 1]
  /\ UNCHANGED <<shell, commands, kills, envState, configState>>
StepFails(p) ==
  /\ proc[p].step = "plan"
  /\ IF proc[p].tries < MaxAttempts(proc[p].at) THEN proc' = [proc EXCEPT ![p].tries = @ + 1]
     ELSE Ends(p)
  /\ UNCHANGED <<shell, commands, kills, envState, configState>>

-----------------------------------------------------------------------------
\* configure reads what there is; a file that does not parse counts as none.
Configure(p) ==
  /\ proc[p] = Idle /\ commands < MaxCommands
  /\ commands' = commands + 1
  /\ proc' = [proc EXCEPT ![p] = [Idle EXCEPT !.step = "connect", !.kind = "configure",
                !.old = IF config = Blank THEN Absent ELSE config]]
  /\ reread' = (reread \/ config = Blank)
  /\ UNCHANGED <<shell, kills, envState, config, dids, identity>>
\* The prompts end in an error, the provider is not reachable, or it is a dry run.
ConfigureEnds(p) ==
  /\ proc[p].step = "connect" /\ Ends(p)
  /\ UNCHANGED <<shell, commands, kills, envState, configState>>
NewIdentity(old) == dids + 1
SameIdentity(old) == IF old = Absent THEN dids + 1 ELSE old.did
ConfiguredIdentity(old) == SameIdentity(old)
Configured(old, initVault) ==
  [did |-> ConfiguredIdentity(old), initialized |-> initVault \/ (old # Absent /\ old.initialized)]
InConfigure(q) == proc[q].step \in {"connect", "emptied"}
Empty(p, initVault) ==
  LET out == Configured(proc[p].old, initVault) IN
  /\ proc[p].step = "connect"
  /\ proc' = [proc EXCEPT ![p].step = "emptied", ![p].out = out]
  /\ config' = Blank
  /\ dids' = IF out.did > dids THEN out.did ELSE dids
  /\ reread' = (reread \/ \E q \in Procs \ {p} : InConfigure(q))
  /\ UNCHANGED <<shell, commands, kills, identity, envState>>
WriteConfig(p) ==
  /\ proc[p].step = "emptied" /\ Ends(p)
  /\ config' = proc[p].out
  /\ identity' = IF identity = 0 THEN proc[p].out.did ELSE identity
  /\ UNCHANGED <<shell, commands, kills, dids, reread, envState>>

Kill(p) ==
  /\ proc[p] # Idle /\ kills < MaxKills
  /\ kills' = kills + 1
  /\ Ends(p)
  /\ crossed' = (crossed \/ proc[p].step = "truncated")
  /\ reread' = (reread \/ proc[p].step = "emptied")
  /\ UNCHANGED <<shell, env, config, commands, dids, reported, identity, replaced>>

Next ==
  \E p \in Procs :
    \/ \E force \in BOOLEAN, a \in SetupAnswers : Start(p, "setup", force, SetupEnv(a))
    \/ \E force \in BOOLEAN, profile \in Profiles :
         Start(p, "wizard", force, Profile(profile)) \/ Bootstrap(p, force, profile)
    \/ Check(p) \/ Cancel(p) \/ Truncate(p) \/ WriteEnv(p) \/ VaultSetup(p)
    \/ StepSucceeds(p) \/ StepFails(p)
    \/ Configure(p) \/ ConfigureEnds(p) \/ (\E b \in BOOLEAN : Empty(p, b)) \/ WriteConfig(p)
    \/ Kill(p)

Spec == Init /\ [][Next]_vars

-----------------------------------------------------------------------------
(* Properties.                                                             *)

\* Unless writers overlapped or one was killed, .env is what was last reported as written,
\* it was replaced only under --force, and if that report was a success a server starts with
\* it. Two reports are about less than a start: setup validates as if nothing were exported
\* over its file, and a profile is not validated at all.
ReportCoversStart ==
  IF reported.by = "setup" THEN shell # "production" ELSE shell # "invalid"
ReportedFilesStart ==
  crossed \/ reported = NotReported \/ \E p \in Procs : proc[p].step = "truncated"
    \/ /\ env = reported.env /\ ~ replaced
       /\ reported.ok /\ ReportCoversStart => Starts(env)

\* configure keeps the identity that it first reported, however often it is run, unless two
\* runs overlapped or one was killed while it wrote.
IdentityIsKept ==
  reread \/ identity = 0 \/ (\E p \in Procs : proc[p].step = "emptied") \/ config.did = identity
=============================================================================
