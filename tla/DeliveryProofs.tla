--------------------------- MODULE DeliveryProofs ---------------------------
(***************************************************************************)
(* Proofs about Delivery and Videos together, for any number of requests,  *)
(* workers, uploads, assets and jobs: the row of a video implements        *)
(* Protection, and no license is signed for an asset that is not           *)
(* encrypted.                                                              *)
(***************************************************************************)
EXTENDS Videos, WellFoundedInduction, TLAPS

\* The words the columns and the calls are written with.
Words ==
  {"active", "add", "adopt", "adopted", "blocked", "claimed", "commit", "confirm",
   "errored", "fresh", "gate", "grace", "gumlet", "idle", "judge", "key", "none", "note",
   "plain", "planned", "poll", "proven", "purge", "ready", "record", "recover", "repair",
   "replace", "replacing", "retry", "route", "serve", "silent", "skip", "stale", "store",
   "transcode", "verify", "waiting", "working", "ARCHIVED", "FAILED", "NONE", "PROCESSING",
   "QUEUED", "READY", "UPLOADING"}

AssetIds == Assets \cup {0}

\* What a call holds, as far as it matters for the asset on the row.
CallRows ==
  [at : Words, then : Words, src : Nat, asset : AssetIds, checked : AssetIds,
   job : Nat, target : AssetIds, saw : Words]

VideoRows ==
  [status : Words, deleted : BOOLEAN, src : Nat, hls : Nat, provider : Words,
   asset : AssetIds, gstatus : Words, proof : Words, check : Procs \cup {NoCall},
   job : Nat, started : BOOLEAN, dropped : BOOLEAN]

AssetStates == {"none", "working", "ready", "errored"}
AssetRows == [at : AssetStates, src : Nat, enc : BOOLEAN]
JobRows == [at : Words, src : Nat, tries : Nat, by : Procs \cup {NoCall}]

\* The types of the variables.
PipelineTypes ==
  /\ row \in VideoRows
  /\ asset \in [Assets -> AssetRows]
  /\ issued \in Nat
  /\ call \in [Procs -> CallRows]
  /\ job \in [JobIds -> JobRows]
  /\ served \subseteq AssetIds

Encrypted == {a \in Assets : asset[a].enc}

\* An asset is encrypted or not from the moment it is ready, and for good.
PackagedOnce == \A a \in Encrypted : asset[a].at \notin {"none", "working"}

\* A call that is about to store the verdict "encrypted" has read it off the asset it checked,
\* and one that may honour an earlier proof while the provider is silent has seen that proof
\* on the asset it works on.
ReadOffAsset(c) ==
  /\ c.at = "judge" /\ c.saw = "proven" => c.checked \in Encrypted
  /\ c.then = "grace" => c.at \in {"verify", "judge"} /\ c.asset \in Encrypted

\* The proof on the row is about the asset on the row.
ProofIsTrue == row.asset # 0 /\ row.proof \in {"fresh", "stale"} => row.asset \in Encrypted

\* The inductive invariant.
PipelineInv ==
  /\ PipelineTypes
  /\ PackagedOnce
  /\ \A p \in Procs : ReadOffAsset(call[p])
  /\ ProofIsTrue
  /\ ServedIsEncrypted

-----------------------------------------------------------------------------
\* Quiet steps: what most of the code does to the asset and its proof, which is nothing.

Proven == {"fresh", "stale"}

\* A call that is neither about to record a proof nor about to honour one.
Harmless(c) == ~(c.at = "judge" /\ c.saw = "proven") /\ c.then # "grace"

CallsKeep ==
  /\ call' \in [Procs -> CallRows]
  /\ \A q \in Procs : call'[q] = call[q] \/ Harmless(call'[q])

RowKeeps ==
  /\ row' \in VideoRows
  /\ row'.asset = row.asset
  /\ row'.proof \in Proven => row.proof \in Proven

AssetKeeps ==
  /\ asset' \in [Assets -> AssetRows]
  /\ Encrypted' = Encrypted /\ PackagedOnce'

Quiet ==
  /\ RowKeeps /\ CallsKeep /\ AssetKeeps
  /\ issued' \in Nat /\ job' \in [JobIds -> JobRows]
  /\ UNCHANGED served

\* A step of the abstract specification, or none.
Refines == [Holds!ProtectionNext]_(Holds!protectionVars)

\* A quiet step keeps the invariant and is, to Protection, a failed check or nothing.
LEMMA QuietKeeps == PipelineInv /\ Quiet => PipelineInv' /\ Refines
  <1> SUFFICES ASSUME PipelineInv, Quiet PROVE PipelineInv' /\ Refines
    OBVIOUS
  <1>1. PipelineTypes'
    BY DEF PipelineInv, PipelineTypes, Quiet, RowKeeps, CallsKeep, AssetKeeps
  <1>2. Encrypted' = Encrypted /\ PackagedOnce' /\ ServedIsEncrypted'
    BY DEF PipelineInv, Quiet, AssetKeeps, Encrypted, ServedIsEncrypted
  <1>3. \A q \in Procs : ReadOffAsset(call[q])'
    BY <1>2 DEF PipelineInv, Quiet, CallsKeep, ReadOffAsset, Harmless
  <1>4. ProofIsTrue'
    BY <1>2 DEF PipelineInv, Quiet, RowKeeps, ProofIsTrue, Proven
  <1>5. Refines
    <2>1. Encrypted' = Encrypted /\ row'.asset = row.asset /\ (row'.proof \in Proven => row.proof \in Proven)
      BY DEF Quiet, RowKeeps, AssetKeeps
    <2>2. CASE row'.asset # 0 /\ row'.proof \in Proven
      BY <2>1, <2>2 DEF Refines, Holds!protectionVars, Proven, Encrypted
    <2>3. CASE ~(row'.asset # 0 /\ row'.proof \in Proven)
      BY <2>1, <2>3 DEF Refines, Holds!ProtectionNext, Holds!Refute, Proven, Encrypted
    <2> QED
      BY <2>2, <2>3
  <1> QED
    BY <1>1, <1>2, <1>3, <1>4, <1>5 DEF PipelineInv

\* Each of them is one of them: cited, so that no other step has to expand the list.
LEMMA Vocabulary ==
  "active" \in Words /\ "add" \in Words /\ "adopt" \in Words /\ "adopted" \in Words /\
  "blocked" \in Words /\ "claimed" \in Words /\ "commit" \in Words /\
  "confirm" \in Words /\ "errored" \in Words /\ "fresh" \in Words /\ "gate" \in Words /\
  "grace" \in Words /\ "gumlet" \in Words /\ "idle" \in Words /\ "judge" \in Words /\
  "key" \in Words /\ "none" \in Words /\ "note" \in Words /\ "plain" \in Words /\
  "planned" \in Words /\ "poll" \in Words /\ "proven" \in Words /\ "purge" \in Words /\
  "ready" \in Words /\ "record" \in Words /\ "recover" \in Words /\ "repair" \in Words /\
  "replace" \in Words /\ "replacing" \in Words /\ "retry" \in Words /\ "route" \in Words /\ "serve" \in Words /\
  "silent" \in Words /\ "skip" \in Words /\ "stale" \in Words /\ "store" \in Words /\
  "transcode" \in Words /\ "verify" \in Words /\ "waiting" \in Words /\
  "working" \in Words /\ "ARCHIVED" \in Words /\ "FAILED" \in Words /\ "NONE" \in Words /\
  "PROCESSING" \in Words /\ "QUEUED" \in Words /\ "READY" \in Words /\
  "UPLOADING" \in Words /\ AssetStates \subseteq Words
  BY DEF Words, AssetStates

\* Idle is a call that does nothing.
LEMMA IdleIsHarmless == Idle \in CallRows /\ Harmless(Idle)
  BY Vocabulary DEF Idle, CallRows, AssetIds, Harmless

\* One call goes somewhere harmless.
LEMMA GotoKeeps ==
  ASSUME PipelineTypes, NEW p \in Procs, NEW c \in CallRows, Goto(p, c),
         c = call[p] \/ Harmless(c)
  PROVE  CallsKeep
  BY DEF PipelineTypes, Goto, CallsKeep

LEMMA ReturnKeeps ==
  ASSUME PipelineTypes, NEW p \in Procs, Return(p)
  PROVE  CallsKeep
  BY IdleIsHarmless, GotoKeeps DEF Return

LEMMA ResumeKeeps ==
  ASSUME PipelineTypes, NEW p \in Procs, Resume(p)
  PROVE  CallsKeep
  <1>1. call[p] \in CallRows
    BY DEF PipelineTypes
  <1> DEFINE c1 == [call[p] EXCEPT !.at = "add", !.then = "idle", !.saw = "PROCESSING"]
             c2 == [call[p] EXCEPT !.at = "poll", !.then = "poll", !.saw = "none"]
  <1>2. c1 \in CallRows /\ Harmless(c1) /\ c2 \in CallRows /\ Harmless(c2)
    BY <1>1, Vocabulary DEF CallRows, Harmless
  <1>3. Goto(p, Idle) \/ Goto(p, c1) \/ Goto(p, c2) \/ Goto(p, call[p])
    BY DEF Resume
  <1> QED
    BY <1>1, <1>2, <1>3, GotoKeeps, IdleIsHarmless

\* FiniteSetsExt's Min picks a member.
LEMMA MinIsMember == ASSUME NEW S \in SUBSET Nat, S # {} PROVE Min(S) \in S
  <1> DEFINE Less == {ss \in Nat \X Nat : ss[1] < ss[2]}
  <1>1. IsWellFoundedOn(Less, Nat)
    BY NatLessThanWellFounded DEF OpToRel
  <1>2. PICK x \in S : \A y \in S : <<y, x>> \notin Less
    <2> HIDE DEF Less
    <2> QED
      BY <1>1, WFMin
  <1>3. ASSUME NEW y \in S PROVE x <= y
    <2>1. <<y, x>> \in Nat \X Nat /\ <<y, x>> \notin Less
      BY <1>2
    <2> QED
      BY <2>1
  <1> QED
    BY <1>3 DEF Min

-----------------------------------------------------------------------------
\* The quiet actions.

\* What stands still is kept.
LEMMA StillKeeps ==
  ASSUME PipelineInv
  PROVE  /\ row' = row => RowKeeps
         /\ call' = call => CallsKeep
         /\ asset' = asset => AssetKeeps
  BY DEF PipelineInv, PipelineTypes, RowKeeps, CallsKeep, AssetKeeps, Encrypted, PackagedOnce

\* Asking the provider about the asset on record.
LEMMA BeginSyncKeeps ==
  ASSUME PipelineInv, NEW p \in Procs, NEW c \in CallRows, c.then # "grace", BeginSync(p, c)
  PROVE  CallsKeep /\ AssetKeeps
  <1>1. row.asset \in Assets /\ asset[row.asset].at \in Words
    BY Vocabulary DEF BeginSync, PipelineInv, PipelineTypes, VideoRows, AssetIds, AssetRows
  <1> DEFINE c1 == [c EXCEPT !.at = "verify", !.asset = row.asset, !.saw = "none"]
             c2 == [c EXCEPT !.at = "store", !.asset = row.asset, !.saw = asset[row.asset].at]
  <1>2. c1 \in CallRows /\ Harmless(c1) /\ c2 \in CallRows /\ Harmless(c2)
    BY <1>1, Vocabulary DEF CallRows, AssetIds, Harmless
  <1>3. Goto(p, c1) \/ Goto(p, c2)
    BY DEF BeginSync
  <1> QED
    BY <1>2, <1>3, GotoKeeps, StillKeeps DEF BeginSync, PipelineInv

\* A new asset has no packages yet, so nothing of it is encrypted.
LEMMA CreateKeeps ==
  ASSUME PipelineInv, NEW p \in Procs, NEW s \in Nat, NEW c \in CallRows, Harmless(c),
         createGumletAsset(p, s, c)
  PROVE  CallsKeep /\ AssetKeeps
  <1> DEFINE free == {b \in Assets : asset[b].at = "none"}
             a == Min(free)
             c1 == [c EXCEPT !.asset = a]
  <1>1. free \in SUBSET Nat /\ free # {}
    BY DEF createGumletAsset, Assets
  <1>2. a \in Assets /\ asset[a].at = "none"
    BY <1>1, MinIsMember
  <1>3. Goto(p, c1) /\ asset' = [asset EXCEPT ![a] = [NoAsset EXCEPT !.at = "working", !.src = s]]
    BY DEF createGumletAsset
  <1>4. c1 \in CallRows /\ Harmless(c1)
    BY <1>2 DEF CallRows, AssetIds, Harmless
  <1>5. CallsKeep
    BY <1>3, <1>4, GotoKeeps DEF PipelineInv
  <1>6. /\ asset'[a] = [at |-> "working", src |-> s, enc |-> FALSE]
        /\ \A b \in Assets \ {a} : asset'[b] = asset[b]
        /\ asset' \in [Assets -> AssetRows]
    <2> HIDE DEF a
    <2> QED
      BY <1>2, <1>3 DEF NoAsset, PipelineInv, PipelineTypes, AssetRows, AssetStates
  <1>7. ~asset[a].enc
    BY <1>2 DEF PipelineInv, PackagedOnce, Encrypted
  <1>8. AssetKeeps
    <2> HIDE DEF a
    <2> QED
      BY <1>2, <1>6, <1>7 DEF PipelineInv, AssetKeeps, PackagedOnce, Encrypted
  <1> QED
    BY <1>5, <1>8

LEMMA BeginAdoptKeeps ==
  ASSUME PipelineInv, NEW p \in Procs, NEW c \in CallRows, c.then # "grace", BeginAdopt(p, c)
  PROVE  CallsKeep /\ AssetKeeps
  <1> DEFINE c1 == [c EXCEPT !.at = "record"]
  <1>1. c1 \in CallRows /\ Harmless(c1)
    BY Vocabulary DEF CallRows, Harmless
  <1>2. row.src \in Nat
    BY DEF PipelineInv, PipelineTypes, VideoRows
  <1> QED
    BY <1>1, <1>2, BeginSyncKeeps, CreateKeeps DEF BeginAdopt

LEMMA BeginReplaceKeeps ==
  ASSUME PipelineInv, NEW p \in Procs, NEW c \in CallRows, c.then # "grace",
         NEW repairing, BeginReplace(p, repairing, c)
  PROVE  CallsKeep /\ AssetKeeps /\ RowKeeps
  <1>1. row \in VideoRows
    BY DEF PipelineInv, PipelineTypes
  <1>2. CASE Replaceable(repairing) /\ row' = [row EXCEPT !.gstatus = "replacing"] /\ UNCHANGED asset
             /\ Goto(p, [c EXCEPT !.at = "claimed", !.checked = row.asset, !.src = row.src])
    <2> DEFINE c1 == [c EXCEPT !.at = "claimed", !.checked = row.asset, !.src = row.src]
    <2>1. c1 \in CallRows /\ Harmless(c1)
      BY <1>1, Vocabulary DEF CallRows, VideoRows, Harmless
    <2>2. CallsKeep /\ AssetKeeps
      BY <1>2, <2>1, GotoKeeps, StillKeeps DEF PipelineInv
    <2>3. RowKeeps
      BY <1>1, <1>2, Vocabulary DEF RowKeeps, VideoRows
    <2> QED
      BY <2>2, <2>3
  <1>3. CASE BeginAdopt(p, c) /\ UNCHANGED row
    BY <1>3, BeginAdoptKeeps, StillKeeps
  <1> QED
    BY <1>2, <1>3 DEF BeginReplace

LEMMA QuietWhen ==
  ASSUME PipelineInv, RowKeeps, CallsKeep, AssetKeeps, UNCHANGED <<issued, job, served>>
  PROVE  Quiet
  BY DEF Quiet, PipelineInv, PipelineTypes

\* What requests do to deliver the video, up to the verdicts on its asset.
QuietDelivery(p) ==
  \/ WriteSourceKey(p) \/ gumletAdopt(p) \/ gumletReplaceFailedAsset(p) \/ run(p) \/ runOne(p)
  \/ sync(p) \/ CallVerify(p) \/ BeginPlayback(p) \/ assertStrictDrmGate(p)
  \/ CreateReplacement(p) \/ RestoreFailed(p) \/ StoreSync(p)

LEMMA DeliveryIsQuiet ==
  ASSUME PipelineInv, NEW p \in Procs, QuietDelivery(p)
  PROVE  Quiet
  <1>0. /\ row \in VideoRows /\ call[p] \in CallRows /\ Idle \in CallRows /\ Idle.then # "grace"
        /\ PipelineTypes
    BY IdleIsHarmless DEF PipelineInv, PipelineTypes, Idle
  <1>1. CASE WriteSourceKey(p)
    <2>1. RowKeeps
      BY <1>0, <1>1 DEF WriteSourceKey, RowKeeps, VideoRows, CallRows
    <2> QED
      BY <1>0, <1>1, <2>1, ReturnKeeps, StillKeeps, QuietWhen DEF WriteSourceKey
  <1>2. CASE gumletAdopt(p)
    BY <1>0, <1>2, BeginAdoptKeeps, StillKeeps, QuietWhen DEF gumletAdopt
  <1>3. CASE gumletReplaceFailedAsset(p)
    BY <1>0, <1>3, BeginReplaceKeeps, QuietWhen DEF gumletReplaceFailedAsset
  <1>4. CASE run(p)
    <2>1. PICK replacing \in BOOLEAN, repairing \in BOOLEAN :
            Goto(p, [Idle EXCEPT !.at = "planned",
                       !.saw = IF planVideo(row, replacing, repairing) = "replace" /\ repairing
                                 THEN "repair" ELSE planVideo(row, replacing, repairing)])
      BY <1>4 DEF run
    <2>2. planVideo(row, replacing, repairing) \in Words
      BY Vocabulary DEF planVideo
    <2> DEFINE plan == IF planVideo(row, replacing, repairing) = "replace" /\ repairing
                         THEN "repair" ELSE planVideo(row, replacing, repairing)
               c == [Idle EXCEPT !.at = "planned", !.saw = plan]
    <2>3. plan \in Words
      BY <2>2, Vocabulary
    <2>4. c \in CallRows /\ Harmless(c)
      <3> HIDE DEF plan
      <3> QED
        BY <2>3, Vocabulary DEF Idle, CallRows, AssetIds, Harmless
    <2>5. CallsKeep
      BY <1>0, <2>1, <2>4, GotoKeeps
    <2> QED
      BY <1>4, <2>5, StillKeeps, QuietWhen DEF run
  <1>5. CASE runOne(p)
    <2>1. CallsKeep /\ AssetKeeps /\ RowKeeps
      BY <1>0, <1>5, BeginSyncKeeps, BeginReplaceKeeps, BeginAdoptKeeps, ReturnKeeps, StillKeeps DEF runOne
    <2> QED
      BY <1>5, <2>1, QuietWhen DEF runOne
  <1>6. CASE sync(p)
    BY <1>0, <1>6, BeginSyncKeeps, StillKeeps, QuietWhen DEF sync
  <1>7. CASE CallVerify(p)
    <2> DEFINE c == [Idle EXCEPT !.at = "verify"]
    <2>1. c \in CallRows /\ Harmless(c)
      BY Vocabulary DEF Idle, CallRows, AssetIds, Harmless
    <2> QED
      BY <1>0, <1>7, <2>1, GotoKeeps, StillKeeps, QuietWhen DEF CallVerify
  <1>8. CASE BeginPlayback(p)
    <2> DEFINE c == [Idle EXCEPT !.at = "gate", !.target = row.asset]
    <2>1. c \in CallRows /\ Harmless(c)
      BY <1>0, Vocabulary DEF Idle, CallRows, VideoRows, AssetIds, Harmless
    <2> QED
      BY <1>0, <1>8, <2>1, GotoKeeps, StillKeeps, QuietWhen DEF BeginPlayback
  <1>9. CASE assertStrictDrmGate(p)
    BY <1>0, <1>9, ReturnKeeps, StillKeeps, QuietWhen DEF assertStrictDrmGate
  <1>10. CASE CreateReplacement(p)
    <2> DEFINE c == [call[p] EXCEPT !.at = "commit"]
    <2>1. call[p].then # "grace"
      BY <1>10 DEF CreateReplacement, PipelineInv, ReadOffAsset
    <2>2. c \in CallRows /\ Harmless(c) /\ call[p].src \in Nat
      BY <1>0, <2>1, Vocabulary DEF CallRows, Harmless
    <2> QED
      BY <1>10, <2>2, CreateKeeps, StillKeeps, QuietWhen DEF CreateReplacement
  <1>11. CASE RestoreFailed(p)
    <2>1. RowKeeps
      BY <1>0, <1>11, Vocabulary DEF RestoreFailed, RowKeeps, VideoRows
    <2> QED
      BY <1>0, <1>11, <2>1, ReturnKeeps, StillKeeps, QuietWhen DEF RestoreFailed
  <1>12. CASE StoreSync(p)
    <2>1. RowKeeps
      BY <1>0, <1>12, Vocabulary DEF StoreSync, SyncUpdate, RowKeeps, VideoRows, CallRows
    <2> QED
      BY <1>0, <1>12, <2>1, ResumeKeeps, StillKeeps, QuietWhen DEF StoreSync
  <1> QED
    BY <1>1, <1>2, <1>3, <1>4, <1>5, <1>6, <1>7, <1>8, <1>9, <1>10, <1>11, <1>12 DEF QuietDelivery

-----------------------------------------------------------------------------
\* The actions that are not quiet.

\* The row leaves its asset for another one, or for none, and takes no proof along.
Moves ==
  /\ row' \in VideoRows
  /\ row'.asset # 0 => row'.proof \notin Proven
  /\ CallsKeep /\ AssetKeeps
  /\ issued' \in Nat /\ job' = job /\ served' = served

\* To Protection, such a step is a move, or a failed check where it ends at the same asset.
LEMMA MovesKeeps == PipelineInv /\ Moves => PipelineInv' /\ Refines
  <1> SUFFICES ASSUME PipelineInv, Moves PROVE PipelineInv' /\ Refines
    OBVIOUS
  <1>1. PipelineTypes'
    BY DEF PipelineInv, PipelineTypes, Moves, CallsKeep, AssetKeeps
  <1>2. Encrypted' = Encrypted /\ PackagedOnce' /\ ServedIsEncrypted'
    BY DEF PipelineInv, Moves, AssetKeeps, Encrypted, ServedIsEncrypted
  <1>3. \A q \in Procs : ReadOffAsset(call[q])'
    BY <1>2 DEF PipelineInv, Moves, CallsKeep, ReadOffAsset, Harmless
  <1>4. ProofIsTrue'
    BY DEF Moves, ProofIsTrue, Proven
  <1>5. Refines
    <2>1. row'.asset \in Assets \cup {0} /\ ~(row'.asset # 0 /\ row'.proof \in Proven)
      BY DEF Moves, VideoRows, AssetIds
    <2>2. CASE row'.asset # row.asset
      <3>1. Holds!Move(row'.asset)
        BY <1>2, <2>1, <2>2 DEF Holds!Move, Proven, Encrypted
      <3> QED
        BY <2>1, <3>1 DEF Refines, Holds!ProtectionNext
    <2>3. CASE row'.asset = row.asset
      BY <1>2, <2>1, <2>3 DEF Refines, Holds!ProtectionNext, Holds!Refute, Proven, Encrypted
    <2> QED
      BY <2>2, <2>3
  <1> QED
    BY <1>1, <1>2, <1>3, <1>4, <1>5 DEF PipelineInv

\* A new upload drops the asset; an adoption and a replacement clear the proof.
LEMMA MovingSteps ==
  ASSUME PipelineInv, NEW p \in Procs,
         initUpload(p) \/ markAdopted(p) \/ CommitReplacement(p)
  PROVE  Moves \/ Quiet
  <1>0. /\ row \in VideoRows /\ call[p] \in CallRows /\ issued \in Nat /\ PipelineTypes
        /\ job \in [JobIds -> JobRows]
    BY DEF PipelineInv, PipelineTypes
  <1>1. CASE initUpload(p)
    <2> DEFINE c == [Idle EXCEPT !.at = "key", !.src = issued + 1]
    <2>1. c \in CallRows /\ Harmless(c)
      <3>1. ASSUME NEW s \in Nat
            PROVE  LET d == [Idle EXCEPT !.at = "key", !.src = s] IN d \in CallRows /\ Harmless(d)
        BY Vocabulary DEF Idle, CallRows, AssetIds, Harmless
      <3>2. issued + 1 \in Nat
        BY <1>0
      <3> QED
        BY <3>1, <3>2
    <2>2. row' \in VideoRows /\ row'.asset = 0
      BY <1>0, <1>1, Vocabulary DEF initUpload, VideoRows, AssetIds
    <2> QED
      BY <1>0, <1>1, <2>1, <2>2, GotoKeeps, StillKeeps DEF initUpload, Moves
  <1>2. ASSUME row' = buildAdoptionUpdate(call[p].asset)
        PROVE  row' \in VideoRows /\ row'.proof \notin Proven
    BY <1>0, <1>2, Vocabulary DEF buildAdoptionUpdate, VideoRows, CallRows, Proven
  <1>3. CASE markAdopted(p)
    BY <1>0, <1>2, <1>3, ResumeKeeps, StillKeeps DEF markAdopted, Moves
  <1>4. CASE CommitReplacement(p)
    <2>1. CallsKeep /\ AssetKeeps /\ UNCHANGED <<issued, job, served>>
      BY <1>0, <1>4, ResumeKeeps, StillKeeps DEF CommitReplacement
    <2>2. CASE row' = row
      BY <2>1, <2>2, StillKeeps, QuietWhen
    <2>3. CASE row' = buildAdoptionUpdate(call[p].asset)
      BY <1>0, <1>2, <2>1, <2>3 DEF Moves
    <2> QED
      BY <1>4, <2>2, <2>3 DEF CommitReplacement
  <1> QED
    BY <1>1, <1>3, <1>4

\* A step of a check: it may record a proof of an encrypted asset, and sign for encrypted ones.
Checks ==
  /\ row' \in VideoRows /\ row'.asset = row.asset
  /\ row'.asset # 0 /\ row'.proof \in Proven => row.proof \in Proven \/ row.asset \in Encrypted
  /\ call' \in [Procs -> CallRows]
  /\ \A q \in Procs : call'[q] = call[q] \/ ReadOffAsset(call'[q])
  /\ served' \subseteq AssetIds /\ served' \ {0} \subseteq Encrypted
  /\ UNCHANGED <<asset, issued, job>>

\* To Protection, it is a check that succeeded, one that failed, or nothing.
LEMMA ChecksKeep == PipelineInv /\ Checks => PipelineInv' /\ Refines
  <1> SUFFICES ASSUME PipelineInv, Checks PROVE PipelineInv' /\ Refines
    OBVIOUS
  <1>1. PipelineTypes'
    BY DEF PipelineInv, PipelineTypes, Checks
  <1>2. Encrypted' = Encrypted /\ PackagedOnce' /\ ServedIsEncrypted'
    BY DEF PipelineInv, Checks, PackagedOnce, Encrypted, ServedIsEncrypted
  <1>3. \A q \in Procs : ReadOffAsset(call[q])'
    BY <1>2 DEF PipelineInv, Checks, ReadOffAsset
  <1>4. ProofIsTrue'
    BY <1>2 DEF PipelineInv, Checks, ProofIsTrue, Proven
  <1>5. Refines
    <2>1. Encrypted' = Encrypted /\ row'.asset = row.asset
      BY <1>2 DEF Checks
    <2>2. CASE ~(row'.asset # 0 /\ row'.proof \in Proven)
      BY <2>1, <2>2 DEF Refines, Holds!ProtectionNext, Holds!Refute, Proven, Encrypted
    <2>3. CASE row'.asset # 0 /\ row'.proof \in Proven /\ row.proof \in Proven
      BY <2>1, <2>3 DEF Refines, Holds!protectionVars, Proven, Encrypted
    <2>4. CASE row'.asset # 0 /\ row'.proof \in Proven /\ row.asset \in Encrypted
      BY <2>1, <2>4 DEF Refines, Holds!ProtectionNext, Holds!Prove, Proven, Encrypted
    <2> QED
      BY <2>2, <2>3, <2>4 DEF Checks
  <1> QED
    BY <1>1, <1>2, <1>3, <1>4, <1>5 DEF PipelineInv

\* One call learns something of the asset.
LEMMA LearnKeeps ==
  ASSUME PipelineTypes, NEW p \in Procs, NEW c \in CallRows, Goto(p, c), ReadOffAsset(c)
  PROVE  /\ call' \in [Procs -> CallRows]
         /\ \A q \in Procs : call'[q] = call[q] \/ ReadOffAsset(call'[q])
  BY DEF PipelineTypes, Goto

\* A check that found the row has read the provider's answer about the asset on it.
LEMMA BeginVerifyChecks ==
  ASSUME PipelineInv, NEW p \in Procs, BeginVerify(p)
  PROVE  Checks
  <1>0. /\ row \in VideoRows /\ call[p] \in CallRows /\ PipelineTypes /\ ReadOffAsset(call[p])
        /\ call[p].at = "verify" /\ served \subseteq AssetIds /\ served \ {0} \subseteq Encrypted
    BY DEF PipelineInv, PipelineTypes, BeginVerify, ServedIsEncrypted, Encrypted
  <1>1. CASE ~Exists /\ UNCHANGED row
             /\ Goto(p, [call[p] EXCEPT !.at = "judge", !.checked = 0, !.saw = "none"])
    <2> DEFINE c == [call[p] EXCEPT !.at = "judge", !.checked = 0, !.saw = "none"]
    <2>1. c \in CallRows /\ ReadOffAsset(c)
      BY <1>0, Vocabulary DEF CallRows, AssetIds, ReadOffAsset
    <2> QED
      BY <1>0, <1>1, <2>1, LearnKeeps DEF BeginVerify, Checks
  <1>2. CASE Exists /\ row' = [row EXCEPT !.check = p]
    <2> DEFINE heard(a) == CASE asset[a].at = "ready" -> IF asset[a].enc THEN "proven" ELSE "plain"
                             [] OTHER -> asset[a].at
    <2>1. PICK s : /\ Goto(p, [call[p] EXCEPT !.at = "judge", !.checked = row.asset, !.saw = s])
                   /\ s \in IF row.asset = 0 \/ ~OnProvider THEN {"plain"} ELSE {"silent", heard(row.asset)}
      BY <1>2 DEF BeginVerify
    <2>2. ASSUME row.asset \in Assets
          PROVE  heard(row.asset) \in Words /\ (heard(row.asset) = "proven" => row.asset \in Encrypted)
      BY <2>2, <1>0, Vocabulary DEF PipelineTypes, AssetRows, AssetStates, Encrypted
    <2>3. s \in Words /\ (s = "proven" => row.asset \in Encrypted)
      BY <2>1, <2>2, <1>0, Vocabulary DEF VideoRows, AssetIds
    <2> DEFINE c == [call[p] EXCEPT !.at = "judge", !.checked = row.asset, !.saw = s]
    <2>4. c \in CallRows /\ ReadOffAsset(c)
      BY <1>0, <2>3, Vocabulary DEF CallRows, VideoRows, ReadOffAsset
    <2>5. row' \in VideoRows /\ row'.asset = row.asset /\ row'.proof = row.proof
      BY <1>0, <1>2 DEF VideoRows
    <2> QED
      BY <1>0, <2>1, <2>4, <2>5, LearnKeeps DEF BeginVerify, Checks
  <1> QED
    BY <1>1, <1>2 DEF BeginVerify

\* The write of a verdict, and the signature it allows, are about the asset that was checked:
\* the check still owns the row, or the row's own proof speaks for the asset on it, or the
\* proof seen before speaks for the asset the grace is granted to.
LEMMA JudgeVerifyChecks ==
  ASSUME PipelineInv, NEW p \in Procs, JudgeVerify(p)
  PROVE  Checks
  <1>0. /\ row \in VideoRows /\ call[p] \in CallRows /\ PipelineTypes /\ ReadOffAsset(call[p])
        /\ call[p].at = "judge" /\ served \subseteq AssetIds /\ served \ {0} \subseteq Encrypted
        /\ ProofIsTrue /\ UNCHANGED <<asset, issued, job>>
    BY DEF PipelineInv, PipelineTypes, JudgeVerify, ServedIsEncrypted, Encrypted
  <1> DEFINE ok == IF call[p].saw = "silent" THEN FALSE ELSE Verdict(p, row)
             c == [call[p] EXCEPT !.at = "store", !.checked = 0, !.saw = IF ok THEN "proven" ELSE "plain"]
  <1>1. row' \in VideoRows /\ row'.asset = row.asset
        /\ (row'.proof \in Proven => row.proof \in Proven \/ row.asset \in Encrypted)
    <2>1. row' = row \/ (row' = Judged(call[p].saw) /\ row.asset = call[p].checked)
      BY DEF JudgeVerify, Owns
    <2>2. CASE row' = row
      BY <1>0, <2>2
    <2>3. CASE row' = Judged(call[p].saw) /\ row.asset = call[p].checked
      <3>1. CASE call[p].saw = "proven"
        BY <1>0, <2>3, <3>1, Vocabulary DEF Judged, VideoRows, ReadOffAsset
      <3>2. CASE call[p].saw # "proven"
        BY <1>0, <2>3, <3>2, Vocabulary DEF Judged, VideoRows, CallRows, Proven
      <3> QED
        BY <3>1, <3>2
    <2> QED
      BY <2>1, <2>2, <2>3
  <1>2. ok => row.asset \in Encrypted
    BY <1>0 DEF Verdict, Owns, evaluate, ReadOffAsset, ProofIsTrue
  <1>3. withinGrace(call[p]) => call[p].asset \in Encrypted
    BY <1>0 DEF withinGrace, ReadOffAsset
  <1>4. ASSUME NEW a \in Encrypted, resolvePlaybackTarget(p, a)
        PROVE  served' \subseteq AssetIds /\ served' \ {0} \subseteq Encrypted
    BY <1>0, <1>4 DEF resolvePlaybackTarget, AssetIds, Encrypted
  <1>5. Idle \in CallRows /\ ReadOffAsset(Idle)
    BY IdleIsHarmless DEF Harmless, ReadOffAsset
  <1>6. CASE call[p].then \in {"serve", "grace"}
    <2>1. /\ Return(p)
          /\ CASE ok -> resolvePlaybackTarget(p, row.asset)
               [] withinGrace(call[p]) -> resolvePlaybackTarget(p, call[p].asset)
               [] OTHER -> UNCHANGED served
      BY <1>6 DEF JudgeVerify
    <2>2. served' \subseteq AssetIds /\ served' \ {0} \subseteq Encrypted
      <3> HIDE DEF ok
      <3> QED
        BY <1>0, <1>2, <1>3, <1>4, <2>1
    <2> QED
      BY <1>0, <1>1, <1>5, <2>1, <2>2, LearnKeeps DEF Checks, Return
  <1>7. CASE call[p].then \notin {"serve", "grace"}
    <2>1. (Return(p) \/ Goto(p, c)) /\ UNCHANGED served
      BY <1>7 DEF JudgeVerify
    <2>2. c \in CallRows /\ ReadOffAsset(c)
      <3> HIDE DEF ok
      <3> QED
        BY <1>0, <1>7, Vocabulary DEF CallRows, AssetIds, ReadOffAsset
    <2> QED
      BY <1>0, <1>1, <1>5, <2>1, <2>2, LearnKeeps DEF Checks, Return
  <1> QED
    BY <1>6, <1>7

\* The gate signs on the row's own verdict, and remembers a lapsed one for the grace.
LEMMA EnsurePlayableChecks ==
  ASSUME PipelineInv, NEW p \in Procs, ensurePlayable(p)
  PROVE  Checks
  <1>0. /\ row \in VideoRows /\ call[p] \in CallRows /\ PipelineTypes
        /\ served \subseteq AssetIds /\ served \ {0} \subseteq Encrypted
        /\ ProofIsTrue /\ UNCHANGED <<row, asset, issued, job>>
    BY DEF PipelineInv, PipelineTypes, ensurePlayable, ServedIsEncrypted, Encrypted
  <1>1. Idle \in CallRows /\ ReadOffAsset(Idle)
    BY IdleIsHarmless DEF Harmless, ReadOffAsset
  <1>2. CASE evaluate(row) /\ resolvePlaybackTarget(p, row.asset) /\ Return(p)
    <2>1. row.asset \in Encrypted
      BY <1>0, <1>2 DEF evaluate, ProofIsTrue
    <2>2. served' \subseteq AssetIds /\ served' \ {0} \subseteq Encrypted
      BY <1>0, <1>2, <2>1 DEF resolvePlaybackTarget, AssetIds, Encrypted
    <2> QED
      BY <1>0, <1>1, <1>2, <2>2, LearnKeeps DEF Checks, Return
  <1> DEFINE next == IF row.proof = "stale" /\ row.gstatus = "ready" THEN "grace" ELSE "serve"
             c == [call[p] EXCEPT !.at = "verify", !.asset = row.asset, !.then = next]
  <1>3. CASE row.asset # 0 /\ Goto(p, c) /\ UNCHANGED served
    <2>1. next \in Words /\ (next = "grace" => row.asset \in Encrypted)
      BY <1>0, <1>3, Vocabulary DEF ProofIsTrue
    <2>2. c \in CallRows /\ ReadOffAsset(c)
      <3> HIDE DEF next
      <3> QED
        BY <1>0, <2>1, Vocabulary DEF CallRows, VideoRows, ReadOffAsset
    <2> QED
      BY <1>0, <1>3, <2>2, LearnKeeps DEF Checks
  <1> QED
    BY <1>2, <1>3 DEF ensurePlayable

\* The provider packages an asset, encrypted or not, or lets go of one.
LEMMA ProviderKeeps ==
  ASSUME PipelineInv, Provider
  PROVE  PipelineInv' /\ Refines
  <1>0. /\ asset \in [Assets -> AssetRows] /\ PipelineTypes /\ PackagedOnce
        /\ UNCHANGED <<row, stored, issued, job, call, served>>
    BY DEF PipelineInv, PipelineTypes, Provider
  <1>1. PICK a \in Assets :
          \/ /\ asset[a].at = "working"
             /\ \E e \in BOOLEAN : asset' = [asset EXCEPT ![a].at = "ready", ![a].enc = e]
          \/ /\ asset[a].at \in {"working", "ready"}
             /\ asset' = [asset EXCEPT ![a].at = "errored"]
    BY DEF Provider
  <1>2. /\ asset' \in [Assets -> AssetRows]
        /\ \A b \in Assets \ {a} : asset'[b] = asset[b]
        /\ asset'[a].at \in {"ready", "errored"}
    BY <1>0, <1>1 DEF AssetRows, AssetStates
  <1>3. Encrypted' = Encrypted \/ Encrypted' = Encrypted \cup {a}
    <2>1. CASE asset' = [asset EXCEPT ![a].at = "errored"]
      BY <1>0, <2>1 DEF Encrypted, AssetRows
    <2>2. CASE /\ asset[a].at = "working"
               /\ \E e \in BOOLEAN : asset' = [asset EXCEPT ![a].at = "ready", ![a].enc = e]
      <3>1. a \notin Encrypted
        BY <1>0, <2>2 DEF PackagedOnce
      <3>2. PICK e \in BOOLEAN : asset' = [asset EXCEPT ![a].at = "ready", ![a].enc = e]
        BY <2>2
      <3>3. asset'[a].enc = e
        BY <1>0, <3>2 DEF AssetRows
      <3> QED
        BY <1>2, <3>1, <3>3 DEF Encrypted
    <2> QED
      BY <1>1, <2>1, <2>2
  <1>4. PackagedOnce'
    BY <1>0, <1>2 DEF PackagedOnce, Encrypted
  <1>5. PipelineInv'
    <2>1. PipelineTypes'
      BY <1>0, <1>2 DEF PipelineTypes
    <2>2. /\ \A q \in Procs : ReadOffAsset(call[q])'
          /\ ProofIsTrue' /\ served' \ {0} \subseteq Encrypted'
      BY <1>0, <1>3 DEF PipelineInv, ReadOffAsset, ProofIsTrue, ServedIsEncrypted, Encrypted
    <2> QED
      BY <1>4, <2>1, <2>2 DEF PipelineInv, ServedIsEncrypted, Encrypted
  <1>6. Refines
    <2>1. CASE Encrypted' = Encrypted
      BY <1>0, <2>1 DEF Refines, Holds!protectionVars, Encrypted
    <2>2. CASE Encrypted' = Encrypted \cup {a}
      <3>1. Holds!Package(a)
        BY <1>0, <2>2 DEF Holds!Package, Encrypted
      <3> QED
        BY <3>1 DEF Refines, Holds!ProtectionNext
    <2> QED
      BY <1>3, <2>1, <2>2
  <1> QED
    BY <1>5, <1>6

-----------------------------------------------------------------------------
\* Uploads, the worker, its failures and the recovery are quiet.

\* The queue keeps its shape.
LEMMA JobKeeps ==
  ASSUME PipelineTypes, NEW p \in Procs, EndJob(p) \/ RetryJob(p)
  PROVE  job' \in [JobIds -> JobRows]
  <1>1. job \in [JobIds -> JobRows] /\ NoJob \in JobRows
    BY Vocabulary DEF PipelineTypes, NoJob, JobRows
  <1>2. CASE EndJob(p)
    BY <1>1, <1>2 DEF EndJob
  <1>3. ASSUME NEW j PROVE [job EXCEPT ![j].at = "waiting", ![j].by = NoCall] \in [JobIds -> JobRows]
    BY <1>1, Vocabulary DEF JobRows
  <1>4. CASE RetryJob(p)
    BY <1>1, <1>3, <1>4 DEF RetryJob
  <1> QED
    BY <1>2, <1>4

LEMMA QuietWithJob ==
  ASSUME PipelineInv, RowKeeps, CallsKeep, AssetKeeps, job' \in [JobIds -> JobRows],
         UNCHANGED <<issued, served>>
  PROVE  Quiet
  BY DEF Quiet, PipelineInv, PipelineTypes

\* What is remembered of a row that was dropped says nothing of its asset or its proof.
LEMMA DropKeeps ==
  ASSUME NEW r \in VideoRows, r.asset = row.asset, r.proof = row.proof, row' = MayDrop(r)
  PROVE  RowKeeps
  BY DEF MayDrop, Unfound, RowKeeps, VideoRows

QuietRequest(p) ==
  \/ completeUpload(p) \/ FinishUpload(p) \/ enqueueTranscode(p) \/ NoteQueued(p)
  \/ recoverStrandedVideos(p) \/ RecoverOne(p) \/ retryProcessing(p) \/ ClearRetried(p) \/ remove(p) \/ purgeObjects(p)

LEMMA RequestIsQuiet ==
  ASSUME PipelineInv, NEW p \in Procs, QuietRequest(p)
  PROVE  Quiet
  <1>0. /\ row \in VideoRows /\ call[p] \in CallRows /\ Idle \in CallRows /\ Idle.then # "grace"
        /\ PipelineTypes /\ job \in [JobIds -> JobRows] /\ NoJob \in JobRows /\ ReadOffAsset(call[p])
    BY IdleIsHarmless, Vocabulary DEF PipelineInv, PipelineTypes, Idle, NoJob, JobRows
  <1>1. CASE completeUpload(p)
    <2> DEFINE c == [Idle EXCEPT !.at = "confirm", !.src = row.src, !.job = row.job, !.saw = row.status]
    <2>1. c \in CallRows /\ Harmless(c)
      BY <1>0, Vocabulary DEF Idle, CallRows, VideoRows, AssetIds, Harmless
    <2> QED
      BY <1>0, <1>1, <2>1, GotoKeeps, StillKeeps, QuietWhen DEF completeUpload
  <1>2. CASE FinishUpload(p)
    <2> DEFINE c == [call[p] EXCEPT !.at = "add", !.job = 0, !.saw = "UPLOADING"]
    <2>1. c \in CallRows /\ Harmless(c)
      BY <1>0, <1>2, Vocabulary DEF FinishUpload, CallRows, Harmless, ReadOffAsset
    <2>2. RowKeeps
      <3> DEFINE r == [row EXCEPT !.started = FALSE]
      <3>1. r \in VideoRows /\ r.asset = row.asset /\ r.proof = row.proof
        BY <1>0 DEF VideoRows
      <3>2. row' = r => RowKeeps
        BY <3>1 DEF RowKeeps
      <3>3. row' = MayDrop(r) \/ row' = r
        BY <1>2 DEF FinishUpload
      <3> QED
        BY <3>1, <3>2, <3>3, DropKeeps
    <2>3. CallsKeep
      BY <1>0, <1>2, <2>1, GotoKeeps, ReturnKeeps DEF FinishUpload
    <2> QED
      BY <1>2, <2>2, <2>3, StillKeeps, QuietWhen DEF FinishUpload
  <1>3. CASE enqueueTranscode(p)
    <2>1. CASE FreeJobs # {} /\ UNCHANGED row
               /\ job' = [job EXCEPT ![Min(FreeJobs)] = [NoJob EXCEPT !.at = "waiting", !.src = call[p].src]]
               /\ Goto(p, [call[p] EXCEPT !.at = "note", !.job = Min(FreeJobs)])
      <3> DEFINE j == Min(FreeJobs)
                 c == [call[p] EXCEPT !.at = "note", !.job = j]
      <3>1. j \in Nat
        BY <2>1, MinIsMember DEF FreeJobs, JobIds
      <3>2. c \in CallRows /\ Harmless(c)
        <4> HIDE DEF j
        <4> QED
          BY <1>0, <1>3, <3>1, Vocabulary DEF enqueueTranscode, CallRows, Harmless, ReadOffAsset
      <3>3. [NoJob EXCEPT !.at = "waiting", !.src = call[p].src] \in JobRows
        BY <1>0, Vocabulary DEF JobRows, NoJob, CallRows
      <3>4. job' \in [JobIds -> JobRows]
        BY <1>0, <2>1, <3>3
      <3>5. CallsKeep
        BY <1>0, <2>1, <3>2, GotoKeeps
      <3> QED
        BY <1>3, <2>1, <3>4, <3>5, StillKeeps, QuietWithJob DEF enqueueTranscode
    <2>2. CASE row' = MayDrop([row EXCEPT !.status = call[p].saw]) /\ Return(p) /\ UNCHANGED job
      <3> DEFINE r == [row EXCEPT !.status = call[p].saw]
      <3>0. r \in VideoRows /\ r.asset = row.asset /\ r.proof = row.proof
        BY <1>0 DEF VideoRows, CallRows
      <3>1. RowKeeps
        BY <2>2, <3>0, DropKeeps
      <3> QED
        BY <1>0, <1>3, <2>2, <3>1, ReturnKeeps, StillKeeps, QuietWhen DEF enqueueTranscode
    <2> QED
      BY <1>3, <2>1, <2>2 DEF enqueueTranscode
  <1>4. CASE NoteQueued(p)
    <2>1. RowKeeps
      BY <1>0, <1>4, Vocabulary DEF NoteQueued, RowKeeps, VideoRows, CallRows
    <2> QED
      BY <1>0, <1>4, <2>1, ReturnKeeps, StillKeeps, QuietWhen DEF NoteQueued
  <1>5. CASE recoverStrandedVideos(p)
    <2> DEFINE c == [Idle EXCEPT !.at = "recover", !.src = row.src, !.job = row.job, !.saw = row.status]
    <2>1. c \in CallRows /\ Harmless(c)
      BY <1>0, Vocabulary DEF Idle, CallRows, VideoRows, AssetIds, Harmless
    <2>2. CallsKeep /\ AssetKeeps
      BY <1>0, <1>5, <2>1, GotoKeeps, BeginSyncKeeps, StillKeeps DEF recoverStrandedVideos
    <2> QED
      BY <1>5, <2>2, StillKeeps, QuietWhen DEF recoverStrandedVideos
  <1>6. CASE RecoverOne(p)
    <2> DEFINE c == [call[p] EXCEPT !.at = "add", !.job = 0, !.saw = "UPLOADING"]
    <2>1. c \in CallRows /\ Harmless(c)
      BY <1>0, <1>6, Vocabulary DEF RecoverOne, CallRows, Harmless, ReadOffAsset
    <2>2. RowKeeps
      BY <1>0, <1>6, Vocabulary, StillKeeps DEF RecoverOne, markFailed, RowKeeps, VideoRows
    <2>3. CallsKeep
      BY <1>0, <1>6, <2>1, GotoKeeps, ReturnKeeps DEF RecoverOne
    <2> QED
      BY <1>6, <2>2, <2>3, StillKeeps, QuietWhen DEF RecoverOne
  <1>7. CASE retryProcessing(p)
    <2> DEFINE c1 == [Idle EXCEPT !.then = "add", !.src = row.src]
               c2 == [Idle EXCEPT !.at = "retry", !.src = row.src, !.saw = "PROCESSING"]
               c3 == [Idle EXCEPT !.at = "retry", !.src = row.src, !.saw = "UPLOADING"]
    <2>1. /\ c1 \in CallRows /\ c1.then # "grace"
          /\ c2 \in CallRows /\ Harmless(c2) /\ c3 \in CallRows /\ Harmless(c3)
      <3>1. row.src \in Nat
        BY <1>0 DEF VideoRows
      <3>2. c1 \in CallRows /\ c1.then # "grace"
        BY <1>0, <3>1, Vocabulary DEF CallRows
      <3>3. c2 \in CallRows /\ c3 \in CallRows
        BY <1>0, <3>1, Vocabulary DEF CallRows
      <3>4. Harmless(c2) /\ Harmless(c3)
        BY <1>0, <3>3 DEF CallRows, Harmless
      <3> QED
        BY <3>2, <3>3, <3>4
    <2>2. CASE BeginReplace(p, TRUE, c1)
      BY <1>7, <2>1, <2>2, BeginReplaceKeeps, QuietWhen DEF retryProcessing
    <2>3. CASE UNCHANGED <<row, asset>> /\ (Goto(p, c2) \/ Goto(p, c3))
      <3>1. CallsKeep
        BY <1>0, <2>1, <2>3, GotoKeeps
      <3> QED
        BY <1>7, <2>3, <3>1, StillKeeps, QuietWhen DEF retryProcessing
    <2> QED
      BY <1>7, <2>2, <2>3 DEF retryProcessing, retryGumletProcessing
  <1>8. CASE remove(p)
    <2> DEFINE c == [Idle EXCEPT !.at = "purge", !.job = row.job]
    <2>1. c \in CallRows /\ Harmless(c)
      BY <1>0, Vocabulary DEF Idle, CallRows, VideoRows, AssetIds, Harmless
    <2>2. RowKeeps
      BY <1>0, <1>8, Vocabulary DEF remove, RowKeeps, VideoRows
    <2> QED
      BY <1>0, <1>8, <2>1, <2>2, GotoKeeps, StillKeeps, QuietWhen DEF remove
  <1>9. CASE purgeObjects(p)
    <2>1. job' \in [JobIds -> JobRows]
      BY <1>0, <1>9 DEF purgeObjects
    <2> QED
      BY <1>0, <1>9, <2>1, ReturnKeeps, StillKeeps, QuietWithJob DEF purgeObjects
  <1>10. CASE ClearRetried(p)
    <2> DEFINE c == [call[p] EXCEPT !.at = "add"]
    <2>1. c \in CallRows /\ Harmless(c)
      BY <1>0, <1>10, Vocabulary DEF ClearRetried, CallRows, Harmless, ReadOffAsset
    <2>2. RowKeeps
      BY <1>0, <1>10 DEF ClearRetried, RowKeeps, VideoRows
    <2> QED
      BY <1>0, <1>10, <2>1, <2>2, GotoKeeps, StillKeeps, QuietWhen DEF ClearRetried
  <1> QED
    BY <1>1, <1>2, <1>3, <1>4, <1>5, <1>6, <1>7, <1>8, <1>9, <1>10 DEF QuietRequest

QuietWork(p) ==
  \/ WorkerTakes(p) \/ WorkerDies(p)
  \/ processFromJob(p) \/ AdoptFromJob(p) \/ AdoptRefused(p) \/ AdoptionNotRecorded(p)
  \/ Transcode(p) \/ TranscodeFails(p) \/ Poll(p) \/ StorePoll(p) \/ PollBudgetSpent(p)

LEMMA WorkIsQuiet ==
  ASSUME PipelineInv, NEW p \in Procs, QuietWork(p)
  PROVE  Quiet
  <1>0. /\ row \in VideoRows /\ call[p] \in CallRows /\ Idle \in CallRows
        /\ PipelineTypes /\ job \in [JobIds -> JobRows] /\ NoJob \in JobRows /\ ReadOffAsset(call[p])
    BY IdleIsHarmless, Vocabulary DEF PipelineInv, PipelineTypes, NoJob, JobRows
  <1>f. row' = markFailed(row) => RowKeeps
    BY <1>0, Vocabulary DEF markFailed, RowKeeps, VideoRows
  <1>1. CASE WorkerTakes(p)
    <2>1. PICK j \in JobIds : process(p, j)
      BY <1>1 DEF WorkerTakes
    <2>2. job[j] \in JobRows /\ j \in Nat
      BY <1>0 DEF JobIds
    <2>3. CASE row' = [row EXCEPT !.status = "PROCESSING", !.started = TRUE, !.dropped = FALSE]
               /\ job' = [job EXCEPT ![j].at = "active", ![j].tries = @ + 1, ![j].by = p]
               /\ Goto(p, [Idle EXCEPT !.at = "route", !.src = job[j].src, !.job = j])
      <3> DEFINE c == [Idle EXCEPT !.at = "route", !.src = job[j].src, !.job = j]
      <3>1. c \in CallRows /\ Harmless(c)
        BY <2>2, Vocabulary DEF Idle, CallRows, JobRows, AssetIds, Harmless
      <3>2. RowKeeps
        BY <1>0, <2>3, Vocabulary DEF RowKeeps, VideoRows
      <3>3. job' \in [JobIds -> JobRows]
        <4>1. ASSUME NEW n \in Nat
              PROVE  [job EXCEPT ![j].at = "active", ![j].tries = n, ![j].by = p] \in [JobIds -> JobRows]
          BY <1>0, Vocabulary DEF JobRows
        <4>2. job[j].tries + 1 \in Nat
          BY <2>2 DEF JobRows
        <4>3. job' = [job EXCEPT ![j].at = "active", ![j].tries = job[j].tries + 1, ![j].by = p]
          BY <2>3
        <4> QED
          BY <4>1, <4>2, <4>3
      <3>4. CallsKeep
        BY <1>0, <2>3, <3>1, GotoKeeps
      <3> QED
        BY <2>1, <3>2, <3>3, <3>4, StillKeeps, QuietWithJob DEF process
    <2>4. CASE job' = [job EXCEPT ![j] = NoJob] /\ UNCHANGED <<row, call>>
      <3>1. job' \in [JobIds -> JobRows]
        BY <1>0, <2>4
      <3> QED
        BY <2>1, <2>4, <3>1, StillKeeps, QuietWithJob DEF process
    <2> QED
      BY <2>1, <2>3, <2>4 DEF process
  <1>2. CASE WorkerDies(p)
    BY <1>0, <1>2, JobKeeps, ReturnKeeps, StillKeeps, QuietWithJob DEF WorkerDies
  <1>3. CASE processFromJob(p)
    <2> DEFINE c1 == [call[p] EXCEPT !.at = "transcode"]
               c2 == [call[p] EXCEPT !.at = "adopt", !.then = "adopted"]
    <2>1. c1 \in CallRows /\ Harmless(c1) /\ c2 \in CallRows /\ Harmless(c2)
      BY <1>0, <1>3, Vocabulary DEF processFromJob, CallRows, Harmless, ReadOffAsset
    <2>2. CallsKeep
      BY <1>0, <1>3, <2>1, GotoKeeps, ReturnKeeps DEF processFromJob
    <2>3. RowKeeps
      BY <1>3, <1>f, StillKeeps DEF processFromJob
    <2>4. job' \in [JobIds -> JobRows]
      BY <1>0, <1>3, JobKeeps DEF processFromJob
    <2> QED
      BY <1>3, <2>2, <2>3, <2>4, StillKeeps, QuietWithJob DEF processFromJob
  <1>4. CASE AdoptFromJob(p)
    <2>1. call[p].then # "grace"
      BY <1>0, <1>4 DEF AdoptFromJob, ReadOffAsset
    <2> QED
      BY <1>0, <1>4, <2>1, BeginAdoptKeeps, StillKeeps, QuietWhen DEF AdoptFromJob
  <1>5. CASE AdoptRefused(p)
    BY <1>0, <1>5, <1>f, JobKeeps, ReturnKeeps, StillKeeps, QuietWithJob DEF AdoptRefused
  <1>6. CASE AdoptionNotRecorded(p)
    BY <1>0, <1>6, JobKeeps, ReturnKeeps, StillKeeps, QuietWithJob DEF AdoptionNotRecorded
  <1>7. CASE Transcode(p)
    <2>1. RowKeeps
      BY <1>0, <1>7, Vocabulary DEF Transcode, markReady, RowKeeps, VideoRows, CallRows
    <2> QED
      BY <1>0, <1>7, <2>1, JobKeeps, ReturnKeeps, StillKeeps, QuietWithJob DEF Transcode
  <1>8. CASE TranscodeFails(p)
    BY <1>0, <1>8, <1>f, JobKeeps, ReturnKeeps, StillKeeps, QuietWithJob DEF TranscodeFails
  <1>9. CASE Poll(p)
    <2>1. call[p].then # "grace"
      BY <1>0, <1>9 DEF Poll, ReadOffAsset
    <2> QED
      BY <1>0, <1>9, <2>1, BeginSyncKeeps, StillKeeps, QuietWhen DEF Poll
  <1>10. CASE StorePoll(p)
    <2> DEFINE c == [call[p] EXCEPT !.at = "poll", !.saw = "working"]
    <2>1. c \in CallRows /\ Harmless(c)
      BY <1>0, <1>10, Vocabulary DEF StorePoll, CallRows, Harmless
    <2>2. CallsKeep
      BY <1>0, <1>10, <2>1, GotoKeeps, ReturnKeeps DEF StorePoll
    <2>3. RowKeeps
      BY <1>0, <1>10, Vocabulary DEF StorePoll, SyncUpdate, RowKeeps, VideoRows, CallRows
    <2>4. job' \in [JobIds -> JobRows]
      BY <1>0, <1>10, JobKeeps DEF StorePoll
    <2> QED
      BY <1>10, <2>2, <2>3, <2>4, StillKeeps, QuietWithJob DEF StorePoll
  <1>11. CASE PollBudgetSpent(p)
    <2> DEFINE r == [row EXCEPT !.status = "PROCESSING",
                                !.gstatus = IF call[p].saw = "working" THEN "working" ELSE "none"]
    <2>0. r \in VideoRows /\ r.asset = row.asset /\ r.proof = row.proof
      BY <1>0, Vocabulary DEF VideoRows
    <2>1. RowKeeps
      <3>1. row' = MayDrop(r)
        BY <1>11 DEF PollBudgetSpent
      <3> QED
        BY <2>0, <3>1, DropKeeps
    <2> QED
      BY <1>0, <1>11, <2>1, JobKeeps, ReturnKeeps, StillKeeps, QuietWithJob DEF PollBudgetSpent
  <1> QED
    BY <1>1, <1>2, <1>3, <1>4, <1>5, <1>6, <1>7, <1>8, <1>9, <1>10, <1>11 DEF QuietWork

\* Time, the queue and the client's upload are quiet.
LEMMA SurroundingsAreQuiet ==
  ASSUME PipelineInv, Lapse \/ PutObject \/ Stall \/ QueueLost
  PROVE  Quiet
  <1>0. /\ row \in VideoRows /\ job \in [JobIds -> JobRows] /\ NoJob \in JobRows
    BY Vocabulary DEF PipelineInv, PipelineTypes, NoJob, JobRows
  <1>1. CASE Lapse
    <2>1. RowKeeps
      BY <1>0, <1>1, Vocabulary DEF Lapse, RowKeeps, VideoRows, Proven
    <2> QED
      BY <1>1, <2>1, StillKeeps, QuietWhen DEF Lapse
  <1>2. CASE PutObject
    BY <1>2, StillKeeps, QuietWhen DEF PutObject
  <1>3. CASE Stall
    <2>1. job' \in [JobIds -> JobRows]
      BY <1>0, <1>3, Vocabulary DEF Stall, JobRows
    <2> QED
      BY <1>3, <2>1, StillKeeps, QuietWithJob DEF Stall
  <1>4. CASE QueueLost
    <2>1. job' \in [JobIds -> JobRows]
      BY <1>0, <1>4 DEF QueueLost
    <2> QED
      BY <1>4, <2>1, StillKeeps, QuietWithJob DEF QueueLost
  <1> QED
    BY <1>1, <1>2, <1>3, <1>4

-----------------------------------------------------------------------------
\* The theorems.

\* A lecture begins without a video, with a legacy one, or with one that was rolled back.
LEMMA PipelineInvInit == DeliveryInit => PipelineInv /\ Holds!ProtectionInit
  <1> SUFFICES ASSUME DeliveryInit PROVE PipelineInv /\ Holds!ProtectionInit
    OBVIOUS
  <1>1. Idle \in CallRows /\ Harmless(Idle) /\ 1 \in Assets
    BY IdleIsHarmless, DeliveryAssumption DEF Assets
  <1>2. row \in VideoRows /\ row.proof = "none"
    <2>1. NoVideo \in VideoRows /\ NoVideo.proof = "none"
      BY Vocabulary DEF NoVideo, VideoRows, AssetIds
    <2>2. Legacy \in VideoRows /\ Legacy.proof = "none"
      BY <2>1, Vocabulary DEF Legacy, VideoRows
    <2>3. RolledBack \in VideoRows /\ RolledBack.proof = "none"
      BY <1>1, <2>2, Vocabulary DEF RolledBack, VideoRows, AssetIds
    <2> QED
      BY <2>1, <2>2, <2>3 DEF DeliveryInit
  <1>3. /\ asset \in [Assets -> AssetRows] /\ Encrypted = {}
    BY DEF DeliveryInit, NoAsset, AssetRows, AssetStates, Encrypted
  <1>4. job \in [JobIds -> JobRows] /\ issued \in Nat
    BY Vocabulary DEF DeliveryInit, NoJob, JobRows
  <1>5. PipelineTypes
    BY <1>1, <1>2, <1>3, <1>4 DEF DeliveryInit, PipelineTypes
  <1>6. PipelineInv
    BY <1>1, <1>2, <1>3, <1>5 DEF DeliveryInit, PipelineInv, PackagedOnce, ReadOffAsset, Harmless,
                                  ProofIsTrue, ServedIsEncrypted
  <1>7. Holds!ProtectionInit
    BY <1>2, <1>3 DEF Holds!ProtectionInit, VideoRows, AssetIds, Encrypted
  <1> QED
    BY <1>6, <1>7

\* Every step of either half keeps the invariant and is a step of Protection, or none.
LEMMA PipelineInvNext ==
  PipelineInv /\ [DeliveryNext \/ VideosNext]_deliveryVars => PipelineInv' /\ Refines
  <1> SUFFICES ASSUME PipelineInv, [DeliveryNext \/ VideosNext]_deliveryVars
               PROVE  PipelineInv' /\ Refines
    OBVIOUS
  <1>1. ASSUME NEW p \in Procs, NestedStep(p) PROVE PipelineInv' /\ Refines
    <2>1. Quiet \/ Moves \/ Checks
      BY <1>1, DeliveryIsQuiet, MovingSteps, BeginVerifyChecks, JudgeVerifyChecks DEF NestedStep, QuietDelivery
    <2> QED
      BY <2>1, QuietKeeps, MovesKeeps, ChecksKeep
  <1>2. ASSUME NEW p \in Procs, DeliveryStep(p) PROVE PipelineInv' /\ Refines
    <2>1. NestedStep(p) \/ Quiet \/ Moves \/ Checks
      BY <1>2, DeliveryIsQuiet, MovingSteps, EnsurePlayableChecks
         DEF DeliveryStep, QuietDelivery, handle, sweep, gumletVerify
    <2> QED
      BY <1>1, <2>1, QuietKeeps, MovesKeeps, ChecksKeep
  <1>3. ASSUME NEW p \in Procs, RequestBegins(p) \/ RequestGoesOn(p) PROVE PipelineInv' /\ Refines
    <2>1. DeliveryStep(p) \/ Quiet
      BY <1>3, RequestIsQuiet DEF RequestBegins, RequestGoesOn, DeliveryStep, QuietRequest
    <2> QED
      BY <1>2, <2>1, QuietKeeps
  <1>4. ASSUME NEW p \in Procs, WorkerTakes(p) \/ WorkerGoesOn(p) \/ WorkerDies(p)
        PROVE  PipelineInv' /\ Refines
    <2>1. NestedStep(p) \/ Quiet
      BY <1>4, WorkIsQuiet DEF WorkerGoesOn, QuietWork
    <2> QED
      BY <1>1, <2>1, QuietKeeps
  <1>5. CASE DeliveryNext
    BY <1>2, <1>5, ProviderKeeps, SurroundingsAreQuiet, QuietKeeps DEF DeliveryNext, Procs
  <1>6. CASE VideosNext
    BY <1>3, <1>4, <1>6, ProviderKeeps, SurroundingsAreQuiet, QuietKeeps DEF VideosNext, Procs
  <1>7. CASE UNCHANGED deliveryVars
    <2>1. Quiet
      BY <1>7, StillKeeps, QuietWhen DEF deliveryVars
    <2> QED
      BY <2>1, QuietKeeps
  <1> QED
    BY <1>5, <1>6, <1>7

\* The invariant holds through uploads, worker deaths, migrations, checks and removals.
THEOREM PipelineSafe == PipelineSpec => []PipelineInv
  BY PipelineInvInit, PipelineInvNext, PTL DEF PipelineSpec

\* No license is signed for an asset that is not encrypted, whatever interleaves with the
\* gate (ensurePlayable, verify, resolvePlaybackTarget).
THEOREM PipelineServesEncrypted == PipelineSpec => []ServedIsEncrypted
  <1>1. PipelineInv => ServedIsEncrypted
    BY DEF PipelineInv
  <1> QED
    BY <1>1, PipelineSafe, PTL

\* The row implements Protection through all of it: a proof is recorded only for the asset
\* that was checked, and none survives a change of the asset.
THEOREM PipelineProtects == PipelineSpec => ImplementsProtection
  <1>1. PipelineInv /\ [DeliveryNext \/ VideosNext]_deliveryVars => [Holds!ProtectionNext]_(Holds!protectionVars)
    BY PipelineInvNext DEF Refines
  <1> QED
    BY <1>1, PipelineInvInit, PipelineSafe, PTL DEF PipelineSpec, ImplementsProtection, Holds!ProtectionSpec

\* The same two facts for the half the runs explore.
LEMMA DeliveryIsPipeline == DeliverySpec => PipelineSpec
  <1>1. [DeliveryNext]_deliveryVars => [DeliveryNext \/ VideosNext]_deliveryVars
    OBVIOUS
  <1> QED
    BY <1>1, PTL DEF DeliverySpec, PipelineSpec

THEOREM DeliveryServesEncrypted == DeliverySpec => []ServedIsEncrypted
  BY DeliveryIsPipeline, PipelineServesEncrypted

THEOREM DeliveryProtects == DeliverySpec => ImplementsProtection
  BY DeliveryIsPipeline, PipelineProtects
=============================================================================
