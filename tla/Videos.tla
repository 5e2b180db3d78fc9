------------------------------- MODULE Videos -------------------------------
(***************************************************************************)
(* The life of one uploaded video (src/modules/videos/videos.service.ts and*)
(* src/jobs/processors/video.processor.ts): presigned uploads, the queue   *)
(* that processes them, the worker, the recovery of what the queue lost,   *)
(* and removal.  Protected delivery is Delivery.                           *)
(*                                                                         *)
(* The queue delivers a job at least once: a stalled job is handed out     *)
(* again while its first execution goes on, and Redis may lose a job.      *)
(* Cutoffs of minutes and hours are not counted: the recovery may find any *)
(* row old enough.                                                         *)
(***************************************************************************)
EXTENDS Delivery

InFlight == {"QUEUED", "PROCESSING"}

\* A row in processing that no later read can find: no start to compare with a cutoff, and no
\* asset to ask the provider about.
Unfound(r) ==
  r.status = "PROCESSING" /\ ~r.started /\ (r.provider # "gumlet" \/ r.asset = 0)

\* A write that may leave the row Unfound with nothing of its own to follow; remembered in
\* dropped.
MayDrop(r) == [r EXCEPT !.dropped = Unfound(r)]

-----------------------------------------------------------------------------
\* Uploading.

\* The client stores the object under a key it was given.
PutObject ==
  /\ \E s \in 1..issued : s \notin stored /\ stored' = stored \cup {s}
  /\ UNCHANGED <<row, asset, issued, job, call, served>>

\* localJobIsLive.
localJobIsLive(j) == j # 0 /\ job[j].at # "none"

\* completeUpload, up to the check of the stored object.
completeUpload(p) ==
  /\ call[p] = Idle /\ Exists /\ row.src \in stored
  /\ row.status # "ARCHIVED"
  /\ Goto(p, [Idle EXCEPT !.at = "confirm", !.src = row.src, !.job = row.job, !.saw = row.status])
  /\ UNCHANGED <<row, asset, stored, issued, job, served>>

\* pruneSupersededSources keeps the object of the key it is given.
pruneSupersededSources(s) == stored' = stored \cap {s}

\* completeUpload returns early for a video in the pipeline, and for one that is ready.
AlreadyQueued(c) == (c.saw \in InFlight /\ localJobIsLive(c.job)) \/ c.saw = "READY"

\* The start is cleared first, whether or not an execution of the job goes on.
FinishUpload(p) ==
  /\ call[p].at = "confirm"
  /\ LET r == [row EXCEPT !.started = FALSE]
     IN  row' = IF AlreadyQueued(call[p]) THEN MayDrop(r) ELSE r
  /\ \/ AlreadyQueued(call[p]) /\ Return(p) /\ UNCHANGED stored
     \/ /\ ~AlreadyQueued(call[p])
        /\ pruneSupersededSources(call[p].src)
        /\ Goto(p, [call[p] EXCEPT !.at = "add", !.job = 0, !.saw = "UPLOADING"])
  /\ UNCHANGED <<asset, issued, job, served>>

\* A job id is a timestamp; the model reuses an id nothing refers to any more.
FreeJobs == {j \in JobIds : job[j].at = "none" /\ row.job # j /\ \A p \in Procs : call[p].job # j}

\* enqueueTranscode: the job is added; if the queue is down the row takes the failure
\* status of the caller (call.saw).
enqueueTranscode(p) ==
  /\ call[p].at = "add"
  /\ \/ /\ FreeJobs # {}
        /\ LET j == Min(FreeJobs)
           IN  /\ job' = [job EXCEPT ![j] = [NoJob EXCEPT !.at = "waiting", !.src = call[p].src]]
               /\ Goto(p, [call[p] EXCEPT !.at = "note", !.job = j])
        /\ UNCHANGED row
     \/ /\ row' = MayDrop([row EXCEPT !.status = call[p].saw])
        /\ Return(p)
        /\ UNCHANGED job
  /\ UNCHANGED <<asset, stored, issued, served>>

\* The row is told about the job after the worker may have taken it.
NoteQueued(p) ==
  /\ call[p].at = "note"
  /\ row' = [row EXCEPT !.status = "QUEUED", !.job = call[p].job]
  /\ Return(p)
  /\ UNCHANGED <<asset, stored, issued, job, served>>

-----------------------------------------------------------------------------
\* The worker.

\* markProcessing claims a row that is alive, in the pipeline and still names the source.
Claimable(s) == ~row.deleted /\ row.src = s /\ row.status \in InFlight \cup {"FAILED"}

EndJob(p) ==
  job' = IF job[call[p].job].by = p THEN [job EXCEPT ![call[p].job] = NoJob] ELSE job

\* The queue hands the job out again while attempts are left.
RetryJob(p) ==
  LET j == call[p].job
  IN  job' = IF job[j].by # p THEN job
             ELSE IF job[j].tries < TranscodeAttempts
               THEN [job EXCEPT ![j].at = "waiting", ![j].by = NoCall]
               ELSE [job EXCEPT ![j] = NoJob]

\* process: a worker takes a job and claims the video, or skips the job.
process(p, j) ==
  /\ call[p] = Idle /\ job[j].at = "waiting"
  /\ \/ /\ Claimable(job[j].src)
        /\ row' = [row EXCEPT !.status = "PROCESSING", !.started = TRUE, !.dropped = FALSE]
        /\ job' = [job EXCEPT ![j].at = "active", ![j].tries = @ + 1, ![j].by = p]
        /\ Goto(p, [Idle EXCEPT !.at = "route", !.src = job[j].src, !.job = j])
     \/ /\ ~Claimable(job[j].src)
        /\ job' = [job EXCEPT ![j] = NoJob]
        /\ UNCHANGED <<row, call>>
  /\ UNCHANGED <<asset, stored, issued, served>>

\* markFailed, whatever the row has become.
markFailed(r) == [r EXCEPT !.status = "FAILED"]

\* processFromJob routes on the row, not on the job: a legacy or removed video goes to
\* ffmpeg, a changed source fails, anything else is adopted.
processFromJob(p) ==
  /\ call[p].at = "route"
  /\ \/ /\ ~Exists \/ ~OnProvider
        /\ Goto(p, [call[p] EXCEPT !.at = "transcode"])
        /\ UNCHANGED <<row, job>>
     \/ /\ Exists /\ OnProvider /\ row.src # call[p].src
        /\ row' = markFailed(row) /\ EndJob(p) /\ Return(p)
     \/ /\ Exists /\ OnProvider /\ row.src = call[p].src
        /\ Goto(p, [call[p] EXCEPT !.at = "adopt", !.then = "adopted"])
        /\ UNCHANGED <<row, job>>
  /\ UNCHANGED <<asset, stored, issued, served>>

\* adopt by the worker.
AdoptFromJob(p) ==
  /\ call[p].at = "adopt"
  /\ BeginAdopt(p, call[p])
  /\ UNCHANGED <<row, stored, issued, job, served>>

\* The provider refuses the asset: for good (the row fails and the job ends), or an error
\* the queue retries.
AdoptRefused(p) ==
  /\ call[p].at = "adopt"
  /\ row' = markFailed(row)
  /\ EndJob(p) \/ RetryJob(p)
  /\ Return(p)
  /\ UNCHANGED <<asset, stored, issued, served>>

\* The database stays away while a created asset is recorded: the job is not retried,
\* since a retry would create another asset (GumletAdoptionNotRecordedError).
AdoptionNotRecorded(p) ==
  /\ call[p].at = "record" /\ p \in Workers
  /\ EndJob(p) /\ Return(p)
  /\ UNCHANGED <<row, asset, stored, issued, served>>

\* markReady, whatever the row has become.
markReady(s) == [row EXCEPT !.status = "READY", !.hls = s]

\* The ffmpeg path: the source is downloaded, probed, transcoded and uploaded.
Transcode(p) ==
  /\ call[p].at = "transcode" /\ call[p].src \in stored
  /\ row' = markReady(call[p].src)
  /\ EndJob(p) /\ Return(p)
  /\ UNCHANGED <<asset, stored, issued, served>>

\* process's catch: the failure is recorded and thrown to the queue.
TranscodeFails(p) ==
  /\ call[p].at = "transcode"
  /\ row' = markFailed(row)
  /\ RetryJob(p) /\ Return(p)
  /\ UNCHANGED <<asset, stored, issued, served>>

\* One round of processFromJob's poll.
Poll(p) ==
  /\ call[p].at = "poll"
  /\ BeginSync(p, call[p])
  /\ UNCHANGED <<row, stored, issued, job, served>>

\* The round is stored; a playable, failed or unprovable asset ends the job.
StorePoll(p) ==
  /\ call[p].at = "store" /\ call[p].then = "poll"
  /\ row' = IF Observed(p) THEN SyncUpdate(call[p].saw) ELSE row
  /\ IF call[p].saw = "working" /\ ~(OnProvider /\ row'.status = "READY")
       THEN Goto(p, [call[p] EXCEPT !.at = "poll", !.saw = "working"]) /\ UNCHANGED job
       ELSE EndJob(p) /\ Return(p)
  /\ UNCHANGED <<asset, stored, issued, served>>

\* The poll budget is spent, or every round failed (a row without an asset counts as an
\* unreachable provider): the row goes back to PROCESSING with the last status seen.
PollBudgetSpent(p) ==
  /\ call[p].at = "poll"
  /\ row' = MayDrop([row EXCEPT !.status = "PROCESSING",
                                !.gstatus = IF call[p].saw = "working" THEN "working" ELSE "none"])
  /\ EndJob(p) /\ Return(p)
  /\ UNCHANGED <<asset, stored, issued, served>>

\* The worker dies, or loses the database: the row keeps its state and the queue hands the
\* job out again.
WorkerDies(p) ==
  /\ p \in Workers /\ call[p] # Idle /\ call[p].at # "record"
  /\ RetryJob(p) /\ Return(p)
  /\ UNCHANGED <<row, asset, stored, issued, served>>

\* The lock of an active job expires: it is handed out again while its execution goes on.
Stall ==
  /\ \E j \in JobIds : /\ job[j].at = "active" /\ job[j].tries < TranscodeAttempts
                       /\ job' = [job EXCEPT ![j].at = "waiting", ![j].by = NoCall]
  /\ UNCHANGED <<row, asset, stored, issued, call, served>>

\* Redis is flushed.
QueueLost ==
  /\ \E j \in JobIds : job[j].at # "none"
  /\ job' = [j \in JobIds |-> NoJob]
  /\ UNCHANGED <<row, asset, stored, issued, call, served>>

-----------------------------------------------------------------------------
\* Recovery, retry and removal.

\* Mutant: only rows with a start time are found, not those waiting for their asset.
Stranded_Started ==
  Exists /\ (row.status = "QUEUED" \/ (row.status = "PROCESSING" /\ row.started))

\* recoverStrandedVideos finds the row; started: processingStartedAt is compared with a
\* cutoff, so a row without one is not found.
Stranded ==
  /\ Exists
  /\ \/ row.status = "QUEUED"
     \/ row.status = "PROCESSING" /\ row.started
     \/ row.status = "PROCESSING" /\ OnProvider /\ row.asset # 0

recoverStrandedVideos(p) ==
  /\ call[p] = Idle /\ Stranded
  /\ IF OnProvider /\ row.asset # 0
       THEN BeginSync(p, Idle)
       ELSE /\ Goto(p, [Idle EXCEPT !.at = "recover", !.src = row.src, !.job = row.job, !.saw = row.status])
            /\ UNCHANGED asset
  /\ UNCHANGED <<row, stored, issued, job, served>>

\* What the sweep does about a row it found, once it has looked at the row's job.
RecoverOne(p) ==
  /\ call[p].at = "recover"
  /\ \/ /\ localJobIsLive(call[p].job) \/ call[p].src = 0
        /\ Return(p) /\ UNCHANGED row
     \/ /\ ~localJobIsLive(call[p].job) /\ call[p].src # 0
        /\ IF call[p].saw = "PROCESSING"
             THEN row' = markFailed(row) /\ Return(p)
             ELSE Goto(p, [call[p] EXCEPT !.at = "add", !.job = 0, !.saw = "UPLOADING"]) /\ UNCHANGED row
  /\ UNCHANGED <<asset, stored, issued, job, served>>

\* retryGumletProcessing: a dead asset is replaced first; otherwise the asset on record,
\* if any, is polled again.
retryGumletProcessing(p) ==
  \/ /\ isTerminalGumletFailure(row.gstatus)
     /\ BeginReplace(p, TRUE, [Idle EXCEPT !.then = "add", !.src = row.src])
  \/ /\ ~isTerminalGumletFailure(row.gstatus)
     /\ ~(row.status \in InFlight /\ localJobIsLive(row.job))
     /\ Goto(p, [Idle EXCEPT !.at = "retry", !.src = row.src, !.saw = "PROCESSING"])
     /\ UNCHANGED <<row, asset>>

\* retryProcessing needs the stored source; a job that is live when it is read refuses it.
retryProcessing(p) ==
  /\ call[p] = Idle /\ Exists /\ row.src \in stored
  /\ IF OnProvider THEN retryGumletProcessing(p)
     ELSE /\ ~(row.status \in InFlight /\ localJobIsLive(row.job))
          /\ Goto(p, [Idle EXCEPT !.at = "retry", !.src = row.src, !.saw = "UPLOADING"])
          /\ UNCHANGED <<row, asset>>
  /\ UNCHANGED <<stored, issued, job, served>>

\* The start is cleared, whatever the row and its job have become, and the job is added anew.
ClearRetried(p) ==
  /\ call[p].at = "retry"
  /\ row' = [row EXCEPT !.started = FALSE]
  /\ Goto(p, [call[p] EXCEPT !.at = "add"])
  /\ UNCHANGED <<asset, stored, issued, job, served>>

\* remove of a video no other lecture uses: the row, then the waiting job and the objects.
remove(p) ==
  /\ call[p] = Idle /\ Exists
  /\ row' = [row EXCEPT !.status = "ARCHIVED", !.deleted = TRUE]
  /\ Goto(p, [Idle EXCEPT !.at = "purge", !.job = row.job])
  /\ UNCHANGED <<asset, stored, issued, job, served>>

purgeObjects(p) ==
  /\ call[p].at = "purge"
  /\ job' = IF call[p].job # 0 /\ job[call[p].job].at = "waiting"
              THEN [job EXCEPT ![call[p].job] = NoJob] ELSE job
  /\ stored' = {}
  /\ Return(p)
  /\ UNCHANGED <<row, asset, issued, served>>

-----------------------------------------------------------------------------
\* A call in flight of a request goes on.
RequestGoesOn(p) ==
  \/ WriteSourceKey(p) \/ FinishUpload(p) \/ enqueueTranscode(p) \/ NoteQueued(p)
  \/ RecoverOne(p) \/ ClearRetried(p) \/ purgeObjects(p) \/ NestedStep(p)

RequestBegins(p) ==
  initUpload(p) \/ completeUpload(p) \/ recoverStrandedVideos(p) \/ retryProcessing(p) \/ remove(p)

WorkerTakes(p) == \E j \in JobIds : process(p, j)

\* An execution of a job goes on, well or badly.
WorkerGoesOn(p) ==
  \/ processFromJob(p) \/ AdoptFromJob(p) \/ AdoptRefused(p) \/ AdoptionNotRecorded(p)
  \/ Transcode(p) \/ TranscodeFails(p)
  \/ Poll(p) \/ StorePoll(p) \/ PollBudgetSpent(p) \/ NestedStep(p)

VideosNext ==
  \/ \E p \in Requests : RequestBegins(p) \/ RequestGoesOn(p)
  \/ \E p \in Workers : WorkerTakes(p) \/ WorkerGoesOn(p) \/ WorkerDies(p)
  \/ PutObject \/ Provider \/ Stall \/ QueueLost

\* A call that was begun ends; the worker takes jobs and the scheduler runs the sweep as
\* long as there is one to take and a row to find; the provider settles every asset.
Fairness ==
  /\ \A p \in Requests : WF_deliveryVars(RequestGoesOn(p)) /\ SF_deliveryVars(recoverStrandedVideos(p))
  /\ \A p \in Workers : WF_deliveryVars(WorkerGoesOn(p)) /\ SF_deliveryVars(WorkerTakes(p))
  /\ WF_deliveryVars(Provider)

VideosSpec == DeliveryInit /\ [][VideosNext]_deliveryVars /\ Fairness

\* Both halves at once: uploads, the worker and its failures, removal, and everything that
\* delivers, verifies, replaces and migrates the video meanwhile.
PipelineSpec == DeliveryInit /\ [][DeliveryNext \/ VideosNext]_deliveryVars

-----------------------------------------------------------------------------
InPipeline == Exists /\ row.status \in InFlight

\* Beyond the recovery, by one of the three writes that may do it.
Abandoned == row.dropped /\ Unfound(row)

\* No video stays queued or processing for good: whatever the worker, the queue, the
\* provider and concurrent retries do, it ends ready, failed, waiting for its upload or
\* removed (recoverStrandedVideos, the poll budget and the unconditional writes).  Three
\* writes can leave a row the recovery does not find, and no other step does: a retry of a
\* video without an asset whose job the queue refuses, an upload confirmed again while it is
\* being processed, and a poll that ends after the video was uploaded anew.
VideoSettles == InPipeline ~> ~InPipeline \/ Abandoned
=============================================================================
