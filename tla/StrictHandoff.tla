--------------------------- MODULE StrictHandoff ---------------------------
(***************************************************************************)
(* The strict handoff of an incident: a preflight, an export under profile *)
(* strict-handoff, a verification under profile trust-root-strict that     *)
(* ends with an event on the system chain, and a summary of the three.     *)
(* Export and verification are processes of their own that talk through    *)
(* the files, while other exports overwrite or prune these files, the key  *)
(* bundle is rotated and the trust root replaced.                          *)
(*                                                                         *)
(* Of the command line and the environment the flags below matter:         *)
(*   noReports, noRequire, noEvent   environment variables that turn off   *)
(*                 the reports, their requirement, the event's requirement *)
(*   include       --include-cognitive-summaries                           *)
(*   direct        a public key path in the environment                    *)
(*   sealed, passphrase   encrypted artifacts required, a passphrase given *)
(*   noKey, twoKeys, badKey   signing key: no source, two, an unreadable   *)
(*   preflight     --preflight-only                                        *)
(***************************************************************************)
EXTENDS Integers, FiniteSets

CONSTANTS
  Ids,                 \* signing key ids
  FlagSets,            \* the sets of flags a handoff is called with
  None, Torn,
  Attempts,            \* attempts to append the event (profile default: 2 retries)
  MaxRuns, MaxChanges, MaxFailures, MaxKills

VARIABLES
  bundle,              \* bundle file: [by: the handoff or 0, reports], None or Torn
  manifest,            \* manifest file: [of, reports, sign], None or Torn
  ring,                \* public-key bundle: [keys, signer] or None (no file); signer "root", "other" or None
  trust,               \* roots of the trust root manifest, or None (no file)
  run,                 \* the handoff under way
  chain,               \* verification events on the system chain: [run, ok]
  spent                \* runs, changes, failed appends, kills so far

vars == <<bundle, manifest, ring, trust, run, chain, spent>>

Idle == [step |-> "idle"]
Pairs == 1..2          \* key pair 1 is the one the signing key names
Rings == {r \in [keys : [Ids -> Pairs \cup {None}], signer : {"root", "other", None}] :
            Cardinality({id \in Ids : r.keys[id] # None}) = 1}

Init ==
  /\ bundle = None /\ manifest = None
  /\ ring \in Rings \cup {None} /\ trust \in {{"root"}, {"next"}, None}
  /\ run = Idle /\ chain = {}
  /\ spent = [runs |-> 0, changes |-> 0, failures |-> 0, kills |-> 0]

(***************************************************************************)
(* Preflight and export                                                    *)
(***************************************************************************)
\* The id the manifest is to be signed under: --expected-key-id, else the export's.
Expected(r) == IF r.expected # None THEN r.expected ELSE r.signing
\* collectPreflightErrors looks only at what is given and which files exist.
PreflightPasses(r) ==
  "noKey" \notin r.flags /\ Expected(r) # None /\ ring # None /\ trust # None
Summary(r, ok, stage) == [r EXCEPT !.step = "done", !.ok = ok, !.stage = stage]
Start(flags, signing, expected) ==
  LET r == [step |-> "export", flags |-> flags, signing |-> signing, expected |-> expected,
            no |-> spent.runs + 1, ok |-> FALSE, stage |-> "none",
            saw |-> None, errors |-> FALSE, attempts |-> 0,
            alone |-> TRUE]
  IN
  /\ run.step \in {"idle", "done"} /\ spent.runs < MaxRuns
  /\ spent' = [spent EXCEPT !.runs = @ + 1]
  /\ run' = IF ~ PreflightPasses(r) THEN Summary(r, FALSE, "preflight")
            ELSE IF "preflight" \in flags THEN Summary(r, TRUE, "preflight") ELSE r
  /\ UNCHANGED <<bundle, manifest, ring, trust, chain>>

\* The export throws before it writes anything.
ExportRefuses(flags) ==
  \/ {"twoKeys", "badKey"} \cap flags # {}
  \/ "sealed" \in flags /\ "passphrase" \notin flags
IncludesReports(flags) == "include" \in flags \/ "noReports" \notin flags
Reports(r) == IF IncludesReports(r.flags) THEN r.no ELSE None
WriteBundle ==
  /\ run.step = "export"
  /\ IF ExportRefuses(run.flags)
     THEN run' = Summary(run, FALSE, "export") /\ UNCHANGED bundle
     ELSE /\ bundle' = [by |-> run.no, reports |-> Reports(run)]
          /\ run' = [run EXCEPT !.step = "manifest"]
  /\ UNCHANGED <<manifest, ring, trust, chain, spent>>
\* main: an export that says ok and names its manifest is verified.
Verify(r) == [r EXCEPT !.step = "load"]
\* writeManifest hashes the file as it is now; the digest of the reports is of this export's.
WriteManifest ==
  /\ run.step = "manifest"
  /\ IF bundle = None
     THEN run' = Summary(run, FALSE, "export") /\ UNCHANGED manifest
     ELSE /\ manifest' = [of |-> bundle, reports |-> Reports(run),
                          sign |-> [id |-> run.signing, pair |-> 1]]
          /\ run' = Verify(run)
  /\ UNCHANGED <<bundle, ring, trust, chain, spent>>

(***************************************************************************)
(* Verification: every failed check is noted and the next one made         *)
(***************************************************************************)
\* Profile trust-root-strict, but for what the environment turns off.
ReportsRequired(flags) == "noRequire" \notin flags
EventRequired(flags) == "noEvent" \notin flags
Checked(step, holds) == [run EXCEPT !.step = step, !.errors = @ \/ ~ holds]
\* A file that is whole has every field the parser asks for.
ManifestParses == manifest \notin {None, Torn}
LoadManifest ==
  /\ run.step = "load"
  /\ IF ~ ManifestParses THEN run' = Checked("event", FALSE)
     ELSE run' = [run EXCEPT !.step = "bundle", !.saw = manifest]
  /\ UNCHANGED <<bundle, manifest, ring, trust, chain, spent>>
\* verifyCognitiveSummaryIntegrity: the bundle's reports are the manifest's, and there are
\* some unless the environment does not ask for them.
ReportsMatchUnasked(m, b) == m.reports = b.reports
ReportsMatch(m, b) ==
  /\ m.reports = b.reports
  /\ ReportsRequired(run.flags) => m.reports # None
CheckBundle ==
  /\ run.step = "bundle"
  /\ run' = Checked("keys", /\ bundle \notin {None, Torn}
                            /\ bundle = run.saw.of
                            /\ ReportsMatch(run.saw, bundle))
  /\ UNCHANGED <<bundle, manifest, ring, trust, chain, spent>>
\* verifyKeyBundleProvenance: signed, and by a root that the trust root manifest names.
RingIsSigned == ring # None /\ trust # None /\ ring.signer # None
RingIsTrusted == RingIsSigned /\ ring.signer \in trust
\* resolvePublicKeyPem looks the key up by the manifest's id; verifySignature compares the
\* ids and the key's fingerprint.
KeyIdUnchecked(sign) == TRUE
KeyIdMatches(sign) == sign.id = Expected(run)
SignatureHolds(sign) ==
  LET id == IF sign.id # None THEN sign.id ELSE Expected(run) IN
  KeyIdMatches(sign) /\ ring.keys[id] = sign.pair
CheckKeys ==
  /\ run.step = "keys"
  /\ run' = Checked("event", /\ "direct" \notin run.flags
                             /\ RingIsTrusted
                             /\ SignatureHolds(run.saw.sign))
  /\ UNCHANGED <<bundle, manifest, ring, trust, chain, spent>>

\* writeVerificationChainEvent; a verdict without its event fails the verification, unless
\* the environment does not require the event.
EndsRegardless(written) == run' = Summary(run, ~ run.errors, "verify")
Ends(written) ==
  run' = Summary(run, ~ run.errors /\ (EventRequired(run.flags) => written), "verify")
AppendEvent ==
  /\ run.step = "event"
  /\ chain' = chain \cup {[run |-> run.no, ok |-> ~ run.errors]}
  /\ Ends(TRUE)
  /\ UNCHANGED <<bundle, manifest, ring, trust, spent>>
AppendFails ==
  /\ run.step = "event" /\ spent.failures < MaxFailures
  /\ spent' = [spent EXCEPT !.failures = @ + 1]
  /\ IF run.attempts + 1 < Attempts THEN run' = [run EXCEPT !.attempts = @ + 1]
     ELSE Ends(FALSE)
  /\ UNCHANGED <<bundle, manifest, ring, trust, chain>>

(***************************************************************************)
(* The rest of the host                                                    *)
(***************************************************************************)
Change ==
  /\ spent.changes < MaxChanges /\ spent' = [spent EXCEPT !.changes = @ + 1]
  /\ run' = IF run = Idle THEN run ELSE [run EXCEPT !.alone = FALSE]
  /\ UNCHANGED chain
\* Another export to the same name, under its own profile, writes its bundle and later its
\* manifest, signed or not; its pruning removes both.
OtherBundle(reports) ==
  /\ Change /\ bundle' = [by |-> 0, reports |-> reports]
  /\ UNCHANGED <<manifest, ring, trust>>
OtherManifest(reports, id, pair) ==
  /\ Change /\ bundle \notin {None, Torn}
  /\ manifest' = [of |-> bundle, reports |-> reports, sign |-> [id |-> id, pair |-> pair]]
  /\ UNCHANGED <<bundle, ring, trust>>
Prune == Change /\ bundle' = None /\ manifest' = None /\ UNCHANGED <<ring, trust>>
\* A rotation needs the key of a trusted root, but no signature under the keys it extends.
SigningRoots == IF trust = None THEN {} ELSE trust
BaseKeys == IF ring = None THEN [id \in Ids |-> None] ELSE ring.keys
Rotate(id) ==
  /\ Change /\ BaseKeys[id] = None
  /\ \E root \in SigningRoots : ring' = [keys |-> [BaseKeys EXCEPT ![id] = 2], signer |-> root]
  /\ UNCHANGED <<bundle, manifest, trust>>
ReplaceTrust(roots) == Change /\ trust' = roots /\ UNCHANGED <<bundle, manifest, ring>>
Kill ==
  /\ run.step \notin {"idle", "done"} /\ spent.kills < MaxKills
  /\ spent' = [spent EXCEPT !.kills = @ + 1]
  /\ bundle' \in {bundle} \cup IF run.step = "export" THEN {Torn} ELSE {}
  /\ manifest' \in {manifest} \cup IF run.step = "manifest" THEN {Torn} ELSE {}
  /\ run' = Idle
  /\ UNCHANGED <<ring, trust, chain>>

Next ==
  \/ \E flags \in FlagSets, signing, expected \in Ids \cup {None} : Start(flags, signing, expected)
  \/ WriteBundle \/ WriteManifest \/ LoadManifest \/ CheckBundle \/ CheckKeys
  \/ AppendEvent \/ AppendFails \/ Kill \/ Prune
  \/ \E reports \in {0, None} : OtherBundle(reports)
  \/ \E reports \in {0, None}, id \in Ids, pair \in Pairs : OtherManifest(reports, id, pair)
  \/ \E id \in Ids : Rotate(id)
  \/ \E roots \in {{"root"}, {"next"}} : ReplaceTrust(roots)

Spec == Init /\ [][Next]_vars

(***************************************************************************)
(* Properties                                                              *)
(***************************************************************************)
Finished == run.step = "done" /\ run.stage # "preflight"
\* A handoff that says ok handed over evidence: undisturbed, the files are its own export's,
\* with its reports unless both variables left them out, under the key the trusted bundle
\* has for the id asked for; disturbed, the manifest it read was still consistent and
\* signed under that id.
OkHandoffIsEvidence ==
  Finished /\ run.ok =>
    /\ run.saw.sign.id = Expected(run) /\ run.saw.reports = run.saw.of.reports
    /\ run.saw.reports = None => ~ ReportsRequired(run.flags)
    /\ run.alone =>
         /\ bundle = manifest.of /\ bundle.by = run.no
         /\ ring.signer \in trust /\ ring.keys[Expected(run)] = manifest.sign.pair
\* The chain tells of every finished verification what its summary says, and of an ok one
\* that it was made, unless the environment does not require the event.
ChainTellsVerdicts ==
  Finished => LET told == {e \in chain : e.run = run.no} IN
    /\ \A e \in told : e.ok = run.ok
    /\ run.ok /\ told = {} => ~ EventRequired(run.flags) /\ spent.failures >= Attempts
\* What a preflight does not look at: whether the signing key can be read and is the one
\* the key bundle has under the id, whether --signing-key-id is given and agrees, who signed
\* the key bundle, and what the environment adds.
BlindSpot ==
  \/ ExportRefuses(run.flags) \/ "direct" \in run.flags
  \/ ~ IncludesReports(run.flags) /\ ReportsRequired(run.flags)
  \/ run.signing # Expected(run)
  \/ ring.signer \notin trust \/ ring.keys[Expected(run)] # 1
\* Where a preflight passes, an undisturbed handoff fails on a blind spot, or when no
\* attempt to append the event succeeds, and on nothing else.
PreflightPredicts ==
  Finished /\ run.alone /\ ~ run.ok => BlindSpot \/ spent.failures >= Attempts
=============================================================================
