------------------------------ MODULE Delivery ------------------------------
(***************************************************************************)
(* The protected delivery of one video (src/modules/videos/gumlet-*.ts and *)
(* src/modules/playback/drm-*.ts): handing a stored source to the provider,*)
(* replacing an asset that died there, mirroring the provider's state, and *)
(* the proof that the packaged asset is encrypted.                         *)
(*                                                                         *)
(* A call reads the row, asks the provider and writes in steps of its own; *)
(* call[p] keeps what it has read.  The platform is configured for the     *)
(* provider, and every asset is requested with DRM, in the write that      *)
(* records it, so drmRequested is not kept apart.                          *)
(***************************************************************************)
EXTENDS Naturals, FiniteSetsExt

CONSTANTS
  Workers, Requests,   \* calls in flight: executions of a queued job, and all others
  MaxUploads,          \* bound on the source objects of the video
  MaxAssets,           \* bound on the assets of the provider's allowance
  MaxJobs,             \* bound on the transcode jobs in the queue
  NoCall               \* drmCheckedAt before the first check

ASSUME DeliveryAssumption ==
  /\ Workers \cap Requests = {} /\ NoCall \notin Workers \cup Requests
  /\ MaxUploads \in Nat \ {0} /\ MaxAssets \in Nat \ {0} /\ MaxJobs \in Nat \ {0}

VARIABLES
  row,      \* the videos row; dropped is history: how it came to be Unfound (Videos)
  asset,    \* asset[a]: what the provider holds
  stored,   \* the source objects in the uploads bucket
  issued,   \* the number of source keys presigned so far
  job,      \* job[j]: the queue
  call,     \* call[p]: what a call in flight has read
  served    \* history: the assets signed for on a playable verdict; 0: one the row had left

deliveryVars == <<row, asset, stored, issued, job, call, served>>

Procs == Workers \cup Requests
Assets == 1..MaxAssets
Sources == 1..MaxUploads
JobIds == 1..MaxJobs
TranscodeAttempts == 2

NoVideo ==
  [status |-> "NONE", deleted |-> FALSE, src |-> 0, hls |-> 0, provider |-> "none",
   asset |-> 0, gstatus |-> "none", proof |-> "none", check |-> NoCall, job |-> 0,
   started |-> FALSE, dropped |-> FALSE]

NoAsset == [at |-> "none", src |-> 0, enc |-> FALSE]

NoJob == [at |-> "none", src |-> 0, tries |-> 0, by |-> NoCall]

\* at: where the call is; then: where it goes when the nested call returns; src, asset,
\* job: what it works on; checked: the asset its verification reads; target: the asset a
\* ticket is being made for; saw: the answer, or the plan.
Idle ==
  [at |-> "idle", then |-> "idle", src |-> 0, asset |-> 0, checked |-> 0, job |-> 0, target |-> 0, saw |-> "none"]

\* A lecture without a video; a legacy video that plays; and one whose migration failed
\* and was rolled back, so that it plays from its legacy renditions.
Legacy == [NoVideo EXCEPT !.status = "READY", !.src = 1, !.hls = 1]
RolledBack == [Legacy EXCEPT !.asset = 1, !.gstatus = "errored"]

DeliveryInit ==
  /\ row \in {NoVideo, Legacy, RolledBack}
  /\ asset = [a \in Assets |-> IF a = row.asset THEN [NoAsset EXCEPT !.at = "errored", !.src = 1] ELSE NoAsset]
  /\ stored = IF row = NoVideo THEN {} ELSE {1}
  /\ issued = IF row = NoVideo THEN 0 ELSE 1
  /\ job = [j \in JobIds |-> NoJob]
  /\ call = [p \in Procs |-> Idle]
  /\ served = {}

Exists == row.status # "NONE" /\ ~row.deleted          \* findFirst with notDeleted
OnProvider == row.provider = "gumlet"

Goto(p, c) == call' = [call EXCEPT ![p] = c]
Return(p) == Goto(p, Idle)

\* A nested call of p is over: p goes on with what called it.
Resume(p) ==
  Goto(p, CASE call[p].then = "idle"    -> Idle
            [] call[p].then = "add"     -> [call[p] EXCEPT !.at = "add", !.then = "idle", !.saw = "PROCESSING"]
            [] call[p].then = "adopted" -> [call[p] EXCEPT !.at = "poll", !.then = "poll", !.saw = "none"]
            [] OTHER                    -> call[p])

-----------------------------------------------------------------------------
\* Handing the source to the provider.

\* initUpload: the row is reset for a new source.  The proof of the old asset stays on
\* the row, and the key is written by a statement of its own.
initUpload(p) ==
  /\ call[p] = Idle /\ issued < MaxUploads
  /\ row' = [row EXCEPT !.status = "UPLOADING", !.deleted = FALSE, !.job = 0, !.started = FALSE,
                        !.dropped = FALSE, !.asset = 0, !.gstatus = "none", !.provider = "gumlet"]
  /\ issued' = issued + 1
  /\ Goto(p, [Idle EXCEPT !.at = "key", !.src = issued + 1])
  /\ UNCHANGED <<asset, stored, job, served>>

WriteSourceKey(p) ==
  /\ call[p].at = "key"
  /\ row' = [row EXCEPT !.src = call[p].src]
  /\ Return(p)
  /\ UNCHANGED <<asset, stored, issued, job, served>>

\* createGumletAsset: a new asset, made from the source the row named when it was read.
createGumletAsset(p, s, c) ==
  LET a == Min({b \in Assets : asset[b].at = "none"})
  IN  /\ \E b \in Assets : asset[b].at = "none"
      /\ asset' = [asset EXCEPT ![a] = [NoAsset EXCEPT !.at = "working", !.src = s]]
      /\ Goto(p, [c EXCEPT !.asset = a])

\* buildAdoptionUpdate: a new asset carries no proof.
buildAdoptionUpdate(a) ==
  [row EXCEPT !.provider = "gumlet", !.proof = "none", !.asset = a, !.gstatus = "working",
              !.status = "PROCESSING", !.started = FALSE, !.dropped = FALSE, !.job = 0]

\* sync, up to the provider's answer: a ready asset is verified before anything is stored.
BeginSync(p, c) ==
  /\ Exists /\ row.asset # 0
  /\ IF asset[row.asset].at = "ready"
       THEN Goto(p, [c EXCEPT !.at = "verify", !.asset = row.asset, !.saw = "none"])
       ELSE Goto(p, [c EXCEPT !.at = "store", !.asset = row.asset, !.saw = asset[row.asset].at])
  /\ UNCHANGED asset

\* adopt: an asset that is on record is synced, never created again.
BeginAdopt(p, c) ==
  /\ Exists /\ row.src # 0
  /\ IF row.asset # 0 THEN BeginSync(p, c)
     ELSE createGumletAsset(p, row.src, [c EXCEPT !.at = "record"])

\* markAdopted writes whatever the row has become since adopt read it.
markAdopted(p) ==
  /\ call[p].at = "record"
  /\ row' = buildAdoptionUpdate(call[p].asset)
  /\ Resume(p)
  /\ UNCHANGED <<asset, stored, issued, job, served>>

isTerminalGumletFailure(s) == s = "errored"

\* replaceFailedAsset without an asset id: an earlier replacement was interrupted.
ResumableReplacement ==
  /\ row.asset = 0 /\ row.src # 0
  /\ IF OnProvider THEN row.status = "FAILED" ELSE row.status = "READY"

\* replaceFailedAsset's guards; repairing is allowGumletProviderReplacement.
Replaceable(repairing) ==
  /\ Exists /\ row.asset # 0 /\ row.src # 0
  /\ isTerminalGumletFailure(row.gstatus)
  /\ row.src \in stored
  /\ IF OnProvider THEN repairing ELSE row.status = "READY"

\* replaceFailedAsset up to its claim, which holds the same asset and status it read.
BeginReplace(p, repairing, c) ==
  \/ /\ Replaceable(repairing)
     /\ row' = [row EXCEPT !.gstatus = "replacing"]
     /\ Goto(p, [c EXCEPT !.at = "claimed", !.checked = row.asset, !.src = row.src])
     /\ UNCHANGED asset
  \/ /\ Exists /\ ResumableReplacement /\ (OnProvider => repairing)
     /\ BeginAdopt(p, c)
     /\ UNCHANGED row

\* The replacement asset is created while the dead one is still on the row.
CreateReplacement(p) ==
  /\ call[p].at = "claimed"
  /\ createGumletAsset(p, call[p].src, [call[p] EXCEPT !.at = "commit"])
  /\ UNCHANGED <<row, stored, issued, job, served>>

\* The provider refused: the terminal marker is restored, so the row stays repairable.
RestoreFailed(p) ==
  /\ call[p].at = "claimed"
  /\ row' = IF row.asset = call[p].checked THEN [row EXCEPT !.gstatus = "errored"] ELSE row
  /\ Return(p)
  /\ UNCHANGED <<asset, stored, issued, job, served>>

\* The commit is conditional on the claim; a lost claim leaves an unreferenced asset.
CommitReplacement(p) ==
  /\ call[p].at = "commit"
  /\ row' = IF ~row.deleted /\ row.asset = call[p].checked /\ row.gstatus = "replacing"
              THEN buildAdoptionUpdate(call[p].asset) ELSE row
  /\ Resume(p)
  /\ UNCHANGED <<asset, stored, issued, job, served>>

-----------------------------------------------------------------------------
\* The proof of encryption.

\* evaluate: the platform is configured, so only the row decides.
evaluate(r) ==
  r.provider = "gumlet" /\ r.asset # 0 /\ r.gstatus = "ready" /\ r.proof = "fresh"

\* verify, up to its answer: the row is read, stamped, and the provider and the manifest
\* of the row's asset are read.  "silent": the provider could not be reached.
BeginVerify(p) ==
  /\ call[p].at = "verify"
  /\ \/ /\ ~Exists
        /\ Goto(p, [call[p] EXCEPT !.at = "judge", !.checked = 0, !.saw = "none"])
        /\ UNCHANGED row
     \/ /\ Exists
        /\ row' = [row EXCEPT !.check = p]
        /\ \E s \in (IF row.asset = 0 \/ ~OnProvider THEN {"plain"}
                     ELSE {"silent", CASE asset[row.asset].at = "ready" ->
                                            IF asset[row.asset].enc THEN "proven" ELSE "plain"
                                       [] OTHER -> asset[row.asset].at}) :
             Goto(p, [call[p] EXCEPT !.at = "judge", !.checked = row.asset, !.saw = s])
  /\ UNCHANGED <<asset, stored, issued, job, served>>

\* Mutant: the write of a verdict does not ask which asset the row holds by now.
Owns_Stamp(p) == row.check = p

\* ownedBy: the row still holds the asset and the stamp of this check.
Owns(p) == row.asset = call[p].checked /\ row.check = p

\* The row after a verdict of the provider.
Judged(saw) ==
  CASE saw = "proven" -> [row EXCEPT !.proof = "fresh", !.gstatus = "ready"]
    [] saw = "plain"  -> [row EXCEPT !.proof = "blocked"]
    [] saw \in {"working", "errored"} -> [row EXCEPT !.proof = "blocked", !.gstatus = saw]
    [] OTHER -> row

\* Mutant: a silent provider is trusted, whether there was a proof or not.
withinGrace_Open(c) == c.saw = "silent"

\* ensurePlayable honours an earlier proof while the provider is silent.
withinGrace(c) == c.saw = "silent" /\ c.then = "grace"

\* The verdict of verify as its caller gets it: its own, or the one a newer check stored.
Verdict(p, r) == IF Owns(p) THEN call[p].saw = "proven" ELSE ~r.deleted /\ evaluate(r)

\* resolvePlaybackTarget: the license and the manifest are those of the asset the video's row
\* named when the ticket was begun, whichever the gate looked at.
resolvePlaybackTarget(p, passed) == served' = served \cup {IF call[p].target = passed THEN passed ELSE 0}

\* verify's conditional write, and what its caller does with the verdict.
JudgeVerify(p) ==
  /\ call[p].at = "judge"
  /\ row' = IF Owns(p) THEN Judged(call[p].saw) ELSE row
  /\ LET ok == IF call[p].saw = "silent" THEN FALSE ELSE Verdict(p, row)
     IN  IF call[p].then \in {"serve", "grace"}
           THEN /\ CASE ok -> resolvePlaybackTarget(p, row.asset)
                     [] withinGrace(call[p]) -> resolvePlaybackTarget(p, call[p].asset)
                     [] OTHER -> UNCHANGED served
                /\ Return(p)
           ELSE /\ IF call[p].asset = 0 THEN Return(p)
                   ELSE Goto(p, [call[p] EXCEPT !.at = "store", !.checked = 0,
                                                !.saw = IF ok THEN "proven" ELSE "plain"])
                /\ UNCHANGED served
  /\ UNCHANGED <<asset, stored, issued, job>>

CallVerify(p) ==
  /\ call[p] = Idle /\ Exists
  /\ Goto(p, [Idle EXCEPT !.at = "verify"])
  /\ UNCHANGED <<row, asset, stored, issued, job, served>>

\* handle of the provider's webhook: the event names an asset that has ended one way or
\* the other, and is ignored unless a row holds it.  The payload itself is not believed.
handle(p) ==
  /\ row.asset # 0 /\ asset[row.asset].at \in {"ready", "errored"}
  /\ CallVerify(p)

\* sweep: a ready protected video whose proof is missing or about to lapse.
sweep(p) ==
  /\ OnProvider /\ row.asset # 0 /\ row.status = "READY"
  /\ CallVerify(p)

\* verify asked for by a staff member.
gumletVerify(p) == CallVerify(p)

\* A ticket is issued, or one of before is rotated, which does not ask for the video's status:
\* its row is read ...
BeginPlayback(p) ==
  /\ call[p] = Idle /\ Exists
  /\ row.status = "READY" \/ served # {}
  /\ Goto(p, [Idle EXCEPT !.at = "gate", !.target = row.asset])
  /\ UNCHANGED <<row, asset, stored, issued, job, served>>

\* ... and the gate asks ensurePlayable: a recorded verdict answers at once; one that lapsed is
\* refreshed, and a definitive failure is not asked about again.
ensurePlayable(p) ==
  /\ call[p].at = "gate" /\ Exists
  /\ \/ /\ evaluate(row)
        /\ resolvePlaybackTarget(p, row.asset)
        /\ Return(p)
     \/ /\ ~evaluate(row) /\ OnProvider /\ row.asset # 0
        /\ row.gstatus # "errored" /\ row.proof # "blocked"
        /\ Goto(p, [call[p] EXCEPT !.at = "verify", !.asset = row.asset,
                                   !.then = IF row.proof = "stale" /\ row.gstatus = "ready"
                                              THEN "grace" ELSE "serve"])
        /\ UNCHANGED served
  /\ UNCHANGED <<row, asset, stored, issued, job>>

\* assertStrictDrmGate refuses: no ticket is written.
assertStrictDrmGate(p) ==
  /\ call[p].at = "gate"
  /\ ~(Exists /\ OnProvider /\ row.asset # 0) \/ row.gstatus = "errored" \/ row.proof = "blocked"
  /\ ~(Exists /\ evaluate(row))
  /\ Return(p)
  /\ UNCHANGED <<row, asset, stored, issued, job, served>>

-----------------------------------------------------------------------------
\* Mirroring the provider.

\* The update sync computed from the provider's answer and the verdict.
SyncUpdate(saw) ==
  CASE saw = "proven"  -> [row EXCEPT !.gstatus = "ready", !.status = "READY"]
    [] saw = "plain"   -> [row EXCEPT !.gstatus = "ready", !.status = IF OnProvider THEN "FAILED" ELSE @]
    [] saw = "errored" -> [row EXCEPT !.gstatus = "errored", !.status = IF OnProvider THEN "FAILED" ELSE @]
    [] OTHER           -> [row EXCEPT !.gstatus = saw]

\* sync writes only while the row holds the asset it asked about.
Observed(p) == row.asset = call[p].asset

\* sync of a request: the maintenance sweep, a staff member, or the migration.
sync(p) ==
  /\ call[p] = Idle
  /\ BeginSync(p, Idle)
  /\ UNCHANGED <<row, stored, issued, job, served>>

StoreSync(p) ==
  /\ call[p].at = "store" /\ call[p].then # "poll"
  /\ row' = IF Observed(p) THEN SyncUpdate(call[p].saw) ELSE row
  /\ Resume(p)
  /\ UNCHANGED <<asset, stored, issued, job, served>>

\* adopt and replaceFailedAsset of a staff member.
gumletAdopt(p) ==
  /\ call[p] = Idle
  /\ BeginAdopt(p, Idle)
  /\ UNCHANGED <<row, stored, issued, job, served>>

gumletReplaceFailedAsset(p) ==
  /\ call[p] = Idle
  /\ BeginReplace(p, TRUE, Idle)
  /\ UNCHANGED <<stored, issued, job, served>>

\* planVideo: what the migration does about a row; replacing and repairing are the operator's
\* two permissions (allowAssetReplacement, allowGumletProviderReplacement).
planVideo(r, replacing, repairing) ==
  LET dead == r.src # 0 /\ isTerminalGumletFailure(r.gstatus) IN
  IF r.deleted THEN "skip"
  ELSE IF r.asset # 0
    THEN IF dead /\ (\/ replacing /\ r.provider = "none" /\ r.status = "READY"
                     \/ repairing /\ r.provider = "gumlet")
           THEN "replace" ELSE "verify"
  ELSE IF \/ r.provider = "gumlet" \/ r.src = 0
          \/ r.status \in {"PROCESSING", "QUEUED", "UPLOADING"}
          \/ r.hls = 0 /\ r.status # "READY"
    THEN "skip" ELSE "adopt"

\* run: the whole batch is planned first ...
run(p) ==
  /\ call[p] = Idle /\ row.status # "NONE"
  /\ \E replacing, repairing \in BOOLEAN :
       LET todo == planVideo(row, replacing, repairing) IN
       /\ todo # "skip"
       /\ Goto(p, [Idle EXCEPT !.at = "planned",
                               !.saw = IF todo = "replace" /\ repairing THEN "repair" ELSE todo])
  /\ UNCHANGED <<row, asset, stored, issued, job, served>>

\* ... and runOne carries a plan out on the row as it is by then, or, all attempts refused,
\* leaves it.
runOne(p) ==
  /\ call[p].at = "planned"
  /\ \/ call[p].saw = "verify" /\ BeginSync(p, Idle) /\ UNCHANGED row
     \/ call[p].saw \in {"replace", "repair"} /\ BeginReplace(p, call[p].saw = "repair", Idle)
     \/ call[p].saw = "adopt" /\ BeginAdopt(p, Idle) /\ UNCHANGED row
     \/ Return(p) /\ UNCHANGED <<row, asset>>
  /\ UNCHANGED <<stored, issued, job, served>>

\* The provider packages an asset from the source, refuses it, or loses a ready one.
Provider ==
  /\ \E a \in Assets :
       \/ /\ asset[a].at = "working" /\ asset[a].src \in stored
          /\ \E e \in BOOLEAN : asset' = [asset EXCEPT ![a].at = "ready", ![a].enc = e]
       \/ /\ asset[a].at \in {"working", "ready"}
          /\ asset' = [asset EXCEPT ![a].at = "errored"]
  /\ UNCHANGED <<row, stored, issued, job, call, served>>

\* The TTL of a proof passes; after the grace it counts for nothing.
Lapse ==
  /\ row.proof \in {"fresh", "stale"}
  /\ row' = [row EXCEPT !.proof = IF @ = "fresh" THEN "stale" ELSE "none"]
  /\ UNCHANGED <<asset, stored, issued, job, call, served>>

-----------------------------------------------------------------------------
NestedStep(p) ==
  \/ markAdopted(p) \/ CreateReplacement(p) \/ RestoreFailed(p) \/ CommitReplacement(p)
  \/ BeginVerify(p) \/ JudgeVerify(p) \/ StoreSync(p)

DeliveryStep(p) ==
  \/ initUpload(p) \/ WriteSourceKey(p)
  \/ gumletAdopt(p) \/ gumletReplaceFailedAsset(p) \/ run(p) \/ runOne(p)
  \/ sync(p) \/ handle(p) \/ sweep(p) \/ gumletVerify(p)
  \/ BeginPlayback(p) \/ ensurePlayable(p) \/ assertStrictDrmGate(p)
  \/ NestedStep(p)

DeliveryNext == (\E p \in Requests : DeliveryStep(p)) \/ Provider \/ Lapse
DeliverySpec == DeliveryInit /\ [][DeliveryNext]_deliveryVars

Holds == INSTANCE Protection WITH
  held <- row.asset,
  proven <- row.asset # 0 /\ row.proof \in {"fresh", "stale"},
  encrypted <- {a \in Assets : asset[a].enc}

\* The row implements Protection: whoever replaces, adopts, syncs, verifies or
\* re-uploads meanwhile, a proof is recorded only for the asset that was checked and
\* never survives a change of the asset (the conditional writes of verify and sync).
ImplementsProtection == Holds!ProtectionSpec

\* A license is signed only for an asset that is encrypted, on a verdict that is fresh or
\* honoured in the grace of a silent provider, whoever replaces, syncs and verifies meanwhile;
\* unless the row had moved to another asset since the ticket was begun (ensurePlayable,
\* resolvePlaybackTarget).
ServedIsEncrypted == served \ {0} \subseteq {a \in Assets : asset[a].enc}
=============================================================================
