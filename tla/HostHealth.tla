------------------------------ MODULE HostHealth ------------------------------
(***************************************************************************)
(* What a server start demands of its host, and what `doctor` says of it.  *)
(* bootstrap() runs its guards one after the other, and only some of them  *)
(* refuse the start; doctor repairs what it can and checks in tiers, with  *)
(* requests to providers between them.  They run as two processes, on a    *)
(* host that may change between any two of their steps.                    *)
(***************************************************************************)
EXTENDS Integers, Sequences, FiniteSets

CONSTANTS
  Facts,         \* what may be wrong with the host: EnvFacts, env (no .env), toolchain, trust,
                 \* iptables, ollama, content and links (of blocks), open (database or port),
                 \* home, blocks (there is none), vault, vectors, yaml, plaintext, did, node
  ModeSets,      \* settings: of trustRequired, revocationRequired, safe, strict, ollama,
                 \* source, redispatch
  MaxWrong,      \* wrong at first
  MaxCommands, MaxChanges

VARIABLES
  wrong,         \* what is wrong with the host now
  modes,         \* the environment's settings
  rules,         \* iptables rules of safe mode; nothing removes one
  server,        \* the step of bootstrap; what it found wrong and put up with
  doctor,        \* the step of doctor, its failures, whether the host changed meanwhile
  report,        \* history: doctor's last verdict, while the host is as it was checked
  commands, changes,
  surprises      \* history: why a start was refused on a host that doctor had found ok

vars == <<wrong, modes, rules, server, doctor, report, commands, changes, surprises>>

\* What the environment of a process says is fixed when it starts.
EnvFacts == {"config", "revocation", "2fa", "pepper"}

-----------------------------------------------------------------------------
(* bootstrap().                                                            *)

Guards == <<"env", "toolchain", "config", "trust", "revocation", "iptables", "ollama", "chains",
            "open", "resume">>
\* evaluateTrustRootStartup, evaluateRevocationCacheStartup, enforceSafeModeNoEgress and the
\* check of ollama apply only where they are required.
Demanded(g) ==
  CASE g = "trust"      -> "trustRequired" \in modes
    [] g = "revocation" -> "revocationRequired" \in modes
    [] g = "iptables"   -> "safe" \in modes
    [] g = "ollama"     -> "ollama" \in modes
    [] OTHER            -> TRUE
\* The rule rejects what the own user sends, to the local host too.
OllamaFails == "ollama" \in wrong \/ rules > 0
\* verifyChainIntegrity hashes every block again; a host without chains passes.
Fails(g, env) ==
  CASE g = "ollama" -> OllamaFails
    [] g = "chains" -> wrong \cap {"content", "links"} # {}
    [] g \in EnvFacts -> g \in env
    [] OTHER -> g \in wrong
Cause(g) == IF g = "chains" /\ "content" \notin wrong THEN "links"
            ELSE IF g = "chains" THEN "content" ELSE g

\* Guards with a security event, which only degrade a server that is not strict.
Noting == {"trust", "revocation", "iptables"}
RefusesAnyway(g) == g \notin Noting
RefusesWhenStrict(g) == g \notin Noting \/ ("strict" \in modes /\ g # "revocation")
Refuses(g) == RefusesWhenStrict(g)
\* The event is a block of the system chain, if that can be read: then there are blocks.
AfterEvent == IF wrong \cap {"content", "links"} = {} THEN wrong \ {"blocks", "home"} ELSE wrong

\* resolveStartupQueueResumePolicy: safe mode keeps what it would hand out again.
ResumesBySetting == "redispatch" \in modes
ResumesUnlessSafe == "redispatch" \in modes /\ "safe" \notin modes
Redispatches == ResumesUnlessSafe

Down == [at |-> 0, env |-> {}, failed |-> {}, resumed |-> FALSE]
NotRunning == [step |-> "idle", env |-> {}, failures |-> {}, changed |-> FALSE]
Init ==
  /\ wrong \in {w \in SUBSET Facts : Cardinality(w) <= MaxWrong}
  /\ modes \in ModeSets
  /\ rules = 0 /\ server = Down /\ doctor = NotRunning
  /\ report = "none" /\ commands = 0 /\ changes = 0 /\ surprises = {}

\* A change of the host outdates a report, and one that is being made.
HostChanges(w, r) ==
  /\ wrong' = w /\ rules' = r
  /\ IF w = wrong /\ r = rules THEN UNCHANGED report ELSE report' = "none"
DoctorMisses(w, r) ==
  doctor' = [doctor EXCEPT !.changed = @ \/ (doctor # NotRunning /\ <<w, r>> # <<wrong, rules>>)]

StartServer ==
  /\ server = Down /\ commands < MaxCommands
  /\ commands' = commands + 1
  /\ server' = [Down EXCEPT !.at = 1, !.env = wrong \cap EnvFacts]
  /\ UNCHANGED <<wrong, modes, rules, doctor, report, changes, surprises>>

Now == Guards[server.at]
Starting == server.at \in DOMAIN Guards
Rules(g) == IF g = "iptables" /\ Demanded(g) THEN rules + 1 ELSE rules
GuardPasses ==
  /\ Starting /\ Now # "resume" /\ ~ (Demanded(Now) /\ Fails(Now, server.env))
  /\ server' = [server EXCEPT !.at = @ + 1]
  /\ HostChanges(wrong, Rules(Now)) /\ DoctorMisses(wrong, Rules(Now))
  /\ UNCHANGED <<modes, commands, changes, surprises>>
GuardIsNoted ==
  /\ Starting /\ Demanded(Now) /\ Fails(Now, server.env) /\ ~ Refuses(Now)
  /\ server' = [server EXCEPT !.at = @ + 1, !.failed = @ \cup {Now}]
  /\ HostChanges(AfterEvent, rules) /\ DoctorMisses(AfterEvent, rules)
  /\ UNCHANGED <<modes, commands, changes, surprises>>
\* The process exits, with a code of its own for trust, hardening and corruption.
GuardRefuses ==
  LET w == IF Now \in Noting THEN AfterEvent ELSE wrong IN
  /\ Starting /\ Demanded(Now) /\ Fails(Now, server.env) /\ Refuses(Now)
  /\ server' = Down
  /\ surprises' = IF report = "ok" THEN surprises \cup {Cause(Now)} ELSE surprises
  /\ HostChanges(w, rules) /\ DoctorMisses(w, rules)
  /\ UNCHANGED <<modes, commands, changes>>
\* resumeRecoveredQueueTasksOnStartup (see TaskQueue), then listen.
Resume ==
  /\ Starting /\ Now = "resume"
  /\ server' = [server EXCEPT !.at = @ + 1, !.resumed = Redispatches]
  /\ UNCHANGED <<wrong, modes, rules, doctor, report, commands, changes, surprises>>
Listening == server.at > Len(Guards)
StopServer ==
  /\ server # Down /\ server' = Down
  /\ UNCHANGED <<wrong, modes, rules, doctor, report, commands, changes, surprises>>

-----------------------------------------------------------------------------
(* runDoctorChecksV2().                                                    *)

\* autoRepair: --fix makes the directories; --force empties the embedding index and rebuilds
\* the index of chains in ./data, neither of which a check looks at.
RunDoctor(fix) ==
  /\ doctor = NotRunning /\ commands < MaxCommands
  /\ commands' = commands + 1
  /\ doctor' = [NotRunning EXCEPT !.step = "dependencies", !.env = wrong \cap EnvFacts]
  /\ HostChanges(IF fix THEN wrong \ {"home"} ELSE wrong, rules)
  /\ UNCHANGED <<modes, server, changes, surprises>>

\* Level pass is asked of required checks only; toolchain and ollama are required by mode.
DependencyFailures ==
  (wrong \cap ({"node"} \cup IF "source" \in modes THEN {"toolchain"} ELSE {}))
    \cup (IF "ollama" \in modes /\ OllamaFails THEN {"ollama"} ELSE {})
\* checkChainIntegrity looks at links and at the form of hashes, not at what was hashed, and
\* wants a block. The environment is parsed, but the outcome is not looked at.
TierOneFacts == {"home", "blocks", "links", "vault", "vectors", "yaml"}
TierOneFactsWithoutLinks == TierOneFacts \ {"links"}
TierOneLooksAt == TierOneFacts
TierFourFacts == {"plaintext", "did"}
Checks(step, next, found) ==
  /\ doctor.step = step
  /\ doctor' = [doctor EXCEPT !.step = next, !.failures = @ \cup found]
  /\ UNCHANGED <<wrong, modes, rules, server, report, commands, changes, surprises>>
CheckDependencies == Checks("dependencies", "tier1", DependencyFailures)
CheckTierOne == Checks("tier1", "tier2", TierOneLooksAt \cap wrong)
\* Tiers 2, 3, 5 and 6 push their checks with required: false, so that what they find decides
\* nothing; but they await providers and the MCP server meanwhile.
NotRequired == {}
CheckProviders == Checks("tier2", "tier4", NotRequired)
CheckTierFour ==
  Checks("tier4", "tier5", (TierFourFacts \cap wrong) \cup ({"2fa", "pepper"} \cap doctor.env))
\* The write probe of --deep makes the directory whose lack is already in the report.
CheckIntegration(deep) ==
  LET w == IF deep THEN wrong \ {"home"} ELSE wrong IN
  /\ doctor.step = "tier5"
  /\ doctor' = [doctor EXCEPT !.step = "report", !.failures = @ \cup NotRequired,
                              !.changed = @ \/ w # wrong]
  /\ HostChanges(w, rules)
  /\ UNCHANGED <<modes, server, commands, changes, surprises>>
Report ==
  /\ doctor.step = "report"
  /\ doctor' = NotRunning
  /\ report' = IF doctor.changed THEN "none" ELSE IF doctor.failures = {} THEN "ok" ELSE "failed"
  /\ UNCHANGED <<wrong, modes, rules, server, commands, changes, surprises>>

\* The host changes under them: a file is lost or repaired, a service stops or starts.
Change(w) ==
  /\ changes < MaxChanges /\ w # wrong
  /\ changes' = changes + 1
  /\ HostChanges(w, rules) /\ DoctorMisses(w, rules)
  /\ UNCHANGED <<modes, server, commands, surprises>>

Next ==
  \/ StartServer \/ GuardPasses \/ GuardIsNoted \/ GuardRefuses \/ Resume \/ StopServer
  \/ \E fix \in BOOLEAN : RunDoctor(fix)
  \/ CheckDependencies \/ CheckTierOne \/ CheckProviders \/ CheckTierFour \/ Report
  \/ \E deep \in BOOLEAN : CheckIntegration(deep)
  \/ \E f \in Facts : Change(wrong \cup {f}) \/ Change(wrong \ {f})

Spec == Init /\ [][Next]_vars

-----------------------------------------------------------------------------
(* Properties.                                                             *)

\* A start on a host that doctor found ok, and that has not changed since, is refused only for
\* what doctor does not look at or does not require.
BlindSpots == {"env", "config", "trust", "iptables", "content", "open"}
              \cup (IF "source" \in modes THEN {} ELSE {"toolchain"})
OkReportsPredictStarts == surprises \subseteq BlindSpots

\* A server that listens has met every demand but those that it records and degrades for. Of
\* these a strict server tolerates only a stale revocation cache, for which it then refuses
\* requests (see HttpServer); and in safe mode it has handed out no queued task.
ListeningIsGuarded ==
  Listening =>
    /\ server.failed \subseteq Noting
    /\ "strict" \in modes => server.failed \subseteq {"revocation"}
    /\ "safe" \in modes => ~ server.resumed
=============================================================================
