--------------------------- MODULE IncidentBundle ---------------------------
(***************************************************************************)
(* Incident bundles: the export script writes a bundle, its encrypted      *)
(* companion, prunes the directory and writes a manifest with the bundle's *)
(* hash and a signature; the rotation script adds a signing key to the     *)
(* public-key bundle; the verification script checks a manifest against    *)
(* the files it finds.  Each is a process of its own, none takes a lock,   *)
(* and any may be killed between two of its writes.                        *)
(*                                                                         *)
(* A bundle is abstracted to the number of the export that wrote it, its   *)
(* hash to the bundle, and a key pair to the number of its rotation.       *)
(***************************************************************************)
EXTENDS Integers, Sequences, FiniteSets, SequencesExt

CONSTANTS
  Procs, Names,       \* processes, output paths
  KeyIds, Roots,      \* signing key ids, the roots the trust root manifest names
  Retention,          \* bundles kept in the directory
  None, Torn,         \* no such file, a file killed in its write
  MaxExports, MaxRotations, MaxKills

VARIABLES
  bundle, sealed,     \* name -> bundle file, its .enc companion
  manifest, sealedManifest, \* name -> manifest file, its .enc companion
  order,              \* names of the bundle files, newest first
  ring,               \* public-key bundle: key id -> key pair or None, and its signer
  private,            \* key id -> key pair in the private key file, None or Torn
  proc,               \* process -> what it is doing
  exports, rotations, kills,
  whole,              \* history: name -> the forms last written by an undisturbed export
  crossed             \* history: key ids of rotations that overlapped another one

vars == <<bundle, sealed, manifest, sealedManifest, order, ring, private, proc,
          exports, rotations, kills, whole, crossed>>
fileVars == <<bundle, sealed, manifest, sealedManifest, order>>
keyVars == <<ring, private, rotations, crossed>>

Idle == [step |-> "idle"]
Exporting(p) ==
  proc[p].step \in {"write", "seal", "list", "prune", "manifest", "sealManifest", "done"}
Rotating(p) == proc[p].step \in {"ring", "key"}

Init ==
  /\ bundle = [n \in Names |-> None] /\ sealed = bundle
  /\ manifest = bundle /\ sealedManifest = bundle
  /\ order = <<>>
  /\ ring = [keys |-> [k \in KeyIds |-> None], signer |-> None]
  /\ private = [k \in KeyIds |-> None]
  /\ proc = [p \in Procs |-> Idle]
  /\ exports = 0 /\ rotations = 0 /\ kills = 0
  /\ whole = [n \in Names |-> {}] /\ crossed = {}

(***************************************************************************)
(* Export                                                                  *)
(***************************************************************************)
\* The options: whether to encrypt, to write a manifest, and the signing key read at the
\* start.  A signing key asks for a manifest.
Export(p, n, pass, wanted, key) ==
  /\ proc[p] = Idle /\ exports < MaxExports
  /\ key # None => private[key] \notin {None, Torn}
  /\ exports' = exports + 1
  /\ proc' = [q \in Procs |->
       IF q = p THEN [step |-> "write", name |-> n, data |-> exports + 1, pass |-> pass,
                      wanted |-> wanted \/ key # None,
                      sign |-> IF key = None THEN None ELSE [id |-> key, pair |-> private[key]],
                      listed |-> {}, alone |-> \A r \in Procs : ~ Exporting(r)]
       ELSE IF Exporting(q) THEN [proc[q] EXCEPT !.alone = FALSE] ELSE proc[q]]
  /\ UNCHANGED <<fileVars, keyVars, kills, whole>>

GoOn(p, step) == proc' = [proc EXCEPT ![p].step = step]
Newest(n) == <<n>> \o SelectSeq(order, LAMBDA m : m # n)
WriteBundle(p) ==
  /\ proc[p].step = "write"
  /\ bundle' = [bundle EXCEPT ![proc[p].name] = proc[p].data]
  /\ order' = Newest(proc[p].name)
  /\ GoOn(p, IF proc[p].pass THEN "seal" ELSE "list")
  /\ UNCHANGED <<sealed, manifest, sealedManifest, keyVars, exports, kills, whole>>
\* The script has failed: the files written so far stay.
Fails(p) ==
  /\ proc' = [proc EXCEPT ![p] = Idle]
  /\ whole' = [whole EXCEPT ![proc[p].name] = {}]
  /\ UNCHANGED <<fileVars, keyVars, exports, kills>>
\* writeEncryptedArtifact reads the plain file back.
Seal(p) ==
  LET n == proc[p].name IN
  /\ proc[p].step = "seal"
  /\ IF bundle[n] = None THEN Fails(p)
     ELSE /\ sealed' = [sealed EXCEPT ![n] = bundle[n]]
          /\ GoOn(p, "list")
          /\ UNCHANGED <<bundle, manifest, sealedManifest, order, keyVars, exports, kills, whole>>
\* pruneIncidentBundleHistory lists the directory, then asks each file for its age.
List(p) ==
  /\ proc[p].step = "list"
  /\ proc' = [proc EXCEPT ![p].step = "prune", ![p].listed = ToSet(order)]
  /\ UNCHANGED <<fileVars, keyVars, exports, kills, whole>>
\* Bundles beyond the count, or too old, go with their manifests and companions.
TooMany(listed, kept) ==
  LET mine == SelectSeq(order, LAMBDA m : m \in listed) IN
  {mine[i] : i \in (kept + 1)..Len(mine)}
Without(file, gone) == [n \in Names |-> IF n \in gone THEN None ELSE file[n]]
ManifestsKept(file, gone) == file
ManifestsWithout(file, gone) == Without(file, gone)
AfterPrune(p) ==
  GoOn(p, IF proc[p].wanted THEN "manifest" ELSE "done")
Prune(p, kept) ==
  LET gone == TooMany(proc[p].listed, kept) IN
  /\ proc[p].step = "prune"
  /\ IF ~ proc[p].listed \subseteq ToSet(order) THEN Fails(p)
     ELSE /\ bundle' = Without(bundle, gone) /\ sealed' = Without(sealed, gone)
          /\ manifest' = ManifestsWithout(manifest, gone)
          /\ sealedManifest' = ManifestsWithout(sealedManifest, gone)
          /\ order' = SelectSeq(order, LAMBDA m : m \notin gone)
          /\ AfterPrune(p)
          /\ UNCHANGED <<keyVars, exports, kills, whole>>
\* writeManifest hashes the bundle file as it is now.
WriteManifest(p) ==
  LET n == proc[p].name IN
  /\ proc[p].step = "manifest"
  /\ IF bundle[n] = None THEN Fails(p)
     ELSE /\ manifest' = [manifest EXCEPT ![n] = [of |-> bundle[n], sign |-> proc[p].sign]]
          /\ GoOn(p, IF proc[p].pass THEN "sealManifest" ELSE "done")
          /\ UNCHANGED <<bundle, sealed, sealedManifest, order, keyVars, exports, kills, whole>>
SealManifest(p) ==
  LET n == proc[p].name IN
  /\ proc[p].step = "sealManifest"
  /\ IF manifest[n] = None THEN Fails(p)
     ELSE /\ sealedManifest' = [sealedManifest EXCEPT ![n] = manifest[n]]
          /\ GoOn(p, "done")
          /\ UNCHANGED <<bundle, sealed, manifest, order, keyVars, exports, kills, whole>>
Written(p) == {"plain"} \cup IF proc[p].pass THEN {"sealed"} ELSE {}
Done(p) ==
  LET n == proc[p].name IN
  /\ proc[p].step = "done"
  /\ whole' = [whole EXCEPT ![n] = IF ~ proc[p].alone THEN {}
                                   ELSE IF proc[p].wanted THEN @ \cup Written(p)
                                   ELSE @ \ Written(p)]
  /\ proc' = [proc EXCEPT ![p] = Idle]
  /\ UNCHANGED <<fileVars, keyVars, exports, kills>>
\* Killed: the file it was writing may be half written, and of a bundle it was pruning some
\* files may be gone.
KillExport(p) ==
  LET n == proc[p].name IN
  /\ Exporting(p) /\ kills < MaxKills /\ kills' = kills + 1
  /\ proc' = [proc EXCEPT ![p] = Idle]
  /\ \/ /\ proc[p].step = "write"
        /\ bundle' = [bundle EXCEPT ![n] = Torn] /\ order' = Newest(n)
        /\ whole' = [whole EXCEPT ![n] = {}] /\ UNCHANGED <<sealed, manifest, sealedManifest>>
     \/ /\ proc[p].step = "manifest"
        /\ manifest' = [manifest EXCEPT ![n] = Torn]
        /\ whole' = [whole EXCEPT ![n] = {}] /\ UNCHANGED <<bundle, sealed, sealedManifest, order>>
     \/ /\ proc[p].step = "prune"
        /\ \E m \in TooMany(proc[p].listed, Retention) :
             /\ bundle' = Without(bundle, {m}) /\ order' = SelectSeq(order, LAMBDA o : o # m)
             /\ whole' = [whole EXCEPT ![n] = {}, ![m] = {}]
        /\ UNCHANGED <<sealed, manifest, sealedManifest>>
     \/ /\ proc[p].step \in {"seal", "list", "sealManifest"}
        /\ whole' = [whole EXCEPT ![n] = {}] /\ UNCHANGED fileVars
  /\ UNCHANGED <<keyVars, exports>>

(***************************************************************************)
(* Rotation                                                                *)
(***************************************************************************)
\* Reads the ring, adds a key and signs the whole with a trusted root.
NextKeys(keys, k, pair) == [keys EXCEPT ![k] = pair]
Rotate(p, k, root) ==
  /\ proc[p] = Idle /\ rotations < MaxRotations
  /\ ring # Torn /\ ring.keys[k] = None
  /\ rotations' = rotations + 1
  /\ proc' = [proc EXCEPT ![p] =
       [step |-> "ring", id |-> k, pair |-> rotations + 1,
        ring |-> [keys |-> NextKeys(ring.keys, k, rotations + 1), signer |-> root]]]
  /\ LET others == {proc[q].id : q \in {o \in Procs : Rotating(o)}} IN
       crossed' = IF others = {} THEN crossed ELSE crossed \cup others \cup {k}
  /\ UNCHANGED <<fileVars, ring, private, exports, kills, whole>>
WriteRing(p) ==
  /\ proc[p].step = "ring"
  /\ ring' = proc[p].ring
  /\ GoOn(p, "key")
  /\ UNCHANGED <<fileVars, private, rotations, crossed, exports, kills, whole>>
WriteKey(p) ==
  /\ proc[p].step = "key"
  /\ private' = [private EXCEPT ![proc[p].id] = proc[p].pair]
  /\ proc' = [proc EXCEPT ![p] = Idle]
  /\ UNCHANGED <<fileVars, ring, rotations, crossed, exports, kills, whole>>
\* Killed before it opens the file that it writes in place, or in the middle: a ring that is
\* torn stays so, as no rotation begins with it.
KillRotation(p) ==
  /\ Rotating(p) /\ kills < MaxKills /\ kills' = kills + 1
  /\ ring' \in IF proc[p].step = "ring" THEN {ring, Torn} ELSE {ring}
  /\ private' \in IF proc[p].step = "key" THEN {private, [private EXCEPT ![proc[p].id] = Torn]}
                  ELSE {private}
  /\ proc' = [proc EXCEPT ![p] = Idle]
  /\ UNCHANGED <<fileVars, rotations, crossed, exports, whole>>

(***************************************************************************)
(* Verification                                                            *)
(***************************************************************************)
\* A plain manifest is checked against the plain bundle, an encrypted one against the
\* encrypted bundle, and each falls back on the other file when its own is missing.
FirstFound(files) == IF files[1] = None THEN files[2] ELSE files[1]
BundleFor(n, form) ==
  FirstFound(IF form = "plain" THEN <<bundle[n], sealed[n]>> ELSE <<sealed[n], bundle[n]>>)
ManifestFor(n, form) == IF form = "plain" THEN manifest[n] ELSE sealedManifest[n]
\* parseManifestObject: what was cut short is no manifest.
Parses(file) == file \notin {None, Torn}
\* verifyKeyBundleProvenance and verifySignature.
SignatureHolds(sign) ==
  sign # None => ring # Torn /\ ring.signer \in Roots /\ ring.keys[sign.id] = sign.pair
Verifies(n, form) ==
  /\ Parses(ManifestFor(n, form))
  /\ BundleFor(n, form) = ManifestFor(n, form).of
  /\ SignatureHolds(ManifestFor(n, form).sign)

Next ==
  \E p \in Procs :
    \/ \E n \in Names, pass, wanted \in BOOLEAN, key \in KeyIds \cup {None} :
         Export(p, n, pass, wanted, key)
    \/ WriteBundle(p) \/ Seal(p) \/ List(p) \/ WriteManifest(p) \/ SealManifest(p) \/ Done(p)
    \/ \E kept \in 1..Retention : Prune(p, kept)
    \/ \E k \in KeyIds, root \in Roots : Rotate(p, k, root)
    \/ WriteRing(p) \/ WriteKey(p) \/ KillExport(p) \/ KillRotation(p)

Spec == Init /\ [][Next]_vars

(***************************************************************************)
(* Properties                                                              *)
(***************************************************************************)
\* A manifest that an undisturbed export has written verifies, in each form, for as long as
\* it is there: later exports, prunings, kills and rotations take it away as a whole or keep
\* it valid. The signature is no longer found good once a kill in the middle of its write in
\* place has torn the key ring, or if it is of a key whose rotation overlapped another one,
\* which may have been left out of the ring; everything else is checked then too.
EvidenceStaysValid ==
  \A n \in Names : \A form \in whole[n] :
    LET file == ManifestFor(n, form) IN
    /\ \A p \in Procs : Exporting(p) => proc[p].name # n
    /\ file # None
    => /\ Parses(file) /\ BundleFor(n, form) = file.of
       /\ file.sign = None \/ ring = Torn \/ file.sign.id \in crossed \/ SignatureHolds(file.sign)
=============================================================================
