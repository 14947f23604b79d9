---------------------------- MODULE AnalysisJob ----------------------------
(***************************************************************************)
(* The life of an analysis: the upload request (drakrun/web/api.py), the   *)
(* job in Redis (JobRegistry), the worker that runs it (drakrun/analyzer/  *)
(* worker.py), the files it leaves on disk or on S3 (drakrun/lib/          *)
(* s3_storage.py) and what /status answers meanwhile.                      *)
(*                                                                         *)
(* Upload requests, workers and readers interleave at every call to Redis, *)
(* S3 or the file system.  A call may fail, a worker may be killed with    *)
(* the job it runs, and an enqueue may fail after Redis has taken the job. *)
(* analyze_file is one step here that succeeds or raises; its time limit   *)
(* (job_timeout) is one of the ways to raise.                              *)
(***************************************************************************)
EXTENDS JobRegistry

CONSTANTS
  Workers,      (* the workers drakrun-worker-vm-<id>                       *)
  NoJob,        (* a worker that runs nothing                               *)
  Configs,      (* the configurations, of which one is loaded               *)
  Faulty        (* calls may fail and workers may be killed                 *)

ASSUME NoJobAssumption == NoJob \notin Jobs
(* s3: S3 storage is enabled; rm: s3.remove_local_after_upload.             *)
ASSUME ConfigsAssumption == Configs \subseteq [s3 : BOOLEAN, rm : BOOLEAN]
ASSUME FaultyAssumption == Faulty \in BOOLEAN

VARIABLES
  config,   (* the configuration of server and workers                      *)
  api,      (* where the upload request of each job is                      *)
  wpc,      (* where the work-horse of each worker is                       *)
  job,      (* the job each worker runs                                     *)
  sample,   (* the sample is in UPLOADS_DIR                                 *)
  s3sample, (* the sample is on S3                                          *)
  local,    (* metadata.json in ANALYSES_DIR                                *)
  remote,   (* metadata.json on S3                                          *)
  files,    (* the other result files: where they are complete              *)
  outcome   (* how analyze_file ended                                       *)

worker  == <<wpc, job>>
store   == <<sample, s3sample, local, remote, files, outcome>>
vars    == <<config, api, registry, worker, store>>

S3 == config.s3

Init ==
  /\ config \in Configs
  /\ InitRegistry
  /\ api = [j \in Jobs |-> "new"]
  /\ wpc = [w \in Workers |-> "idle"]
  /\ job = [w \in Workers |-> NoJob]
  /\ sample = [j \in Jobs |-> FALSE]
  /\ s3sample = [j \in Jobs |-> FALSE]
  /\ local = [j \in Jobs |-> "none"]
  /\ remote = [j \in Jobs |-> "none"]
  /\ files = [j \in Jobs |-> {}]
  /\ outcome = [j \in Jobs |-> "none"]

----------------------------------------------------------------------------
(* The upload request                                                       *)

(* The sample is saved and hashed; with S3 it goes to the bucket and the    *)
(* local copy is removed.                                                   *)
SaveUpload(j) ==
  /\ api[j] = "new"
  /\ sample' = [sample EXCEPT ![j] = TRUE]
  /\ api' = [api EXCEPT ![j] = IF S3 THEN "put" ELSE "enqueue"]
  /\ UNCHANGED <<config, registry, worker, s3sample, local, remote, files, outcome>>

PutSample(j) ==
  /\ api[j] = "put"
  /\ s3sample' = [s3sample EXCEPT ![j] = TRUE]
  /\ sample' = [sample EXCEPT ![j] = FALSE]
  /\ api' = [api EXCEPT ![j] = "enqueue"]
  /\ UNCHANGED <<config, registry, worker, local, remote, files, outcome>>

EnqueueAnalysis(j) ==
  /\ api[j] = "enqueue"
  /\ Enqueue(j)
  /\ api' = [api EXCEPT ![j] = "accepted"]
  /\ UNCHANGED <<config, worker, store>>

(* A call before the end of the enqueue raises.  It may have been carried   *)
(* out all the same, on S3 or in Redis.                                     *)
UploadFails(j) ==
  /\ Faulty
  /\ api[j] \in {"new", "put", "enqueue"}
  /\ api' = [api EXCEPT ![j] = "undo"]
  /\ \/ UNCHANGED <<registry, s3sample>>
     \/ api[j] = "put" /\ s3sample' = [s3sample EXCEPT ![j] = TRUE] /\ UNCHANGED registry
     \/ api[j] = "enqueue" /\ Enqueue(j) /\ UNCHANGED s3sample
  /\ UNCHANGED <<config, worker, sample, local, remote, files, outcome>>

(* The except branch removes the sample from UPLOADS_DIR and answers 500,   *)
(* whoever needs that file by now.                                          *)
RemoveUpload(j) ==
  /\ api[j] = "undo"
  /\ sample' = [sample EXCEPT ![j] = FALSE]
  /\ api' = [api EXCEPT ![j] = "error"]
  /\ UNCHANGED <<config, registry, worker, s3sample, local, remote, files, outcome>>

(* The listings of AnalysisList delete jobs that have ended from Redis; the *)
(* files of the analysis stay.                                              *)
Truncated(j) ==
  /\ Delete({j})
  /\ UNCHANGED <<config, api, worker, store>>

----------------------------------------------------------------------------
(* The worker                                                               *)

(* rq takes a job off the queue, then registers it as started and forks the *)
(* work-horse.                                                              *)
PopJob(w) ==
  /\ wpc[w] = "idle"
  /\ \E j \in Jobs : Pop(j) /\ job' = [job EXCEPT ![w] = j]
  /\ wpc' = [wpc EXCEPT ![w] = "start"]
  /\ UNCHANGED <<config, api, store>>

StartJob(w) ==
  /\ wpc[w] = "start"
  /\ Start(job[w])
  /\ wpc' = [wpc EXCEPT ![w] = "prepare"]
  /\ UNCHANGED <<config, api, job, store>>

Goto(w, l) == wpc' = [wpc EXCEPT ![w] = l] /\ UNCHANGED job

(* The work-horse has ended and the worker is free.                         *)
Free(w) ==
  /\ wpc' = [wpc EXCEPT ![w] = "idle"]
  /\ job' = [job EXCEPT ![w] = NoJob]

(* worker_analyze up to the first metadata.json, which has no status.       *)
WriteInitialMetadata(w) ==
  /\ wpc[w] = "prepare"
  /\ local' = [local EXCEPT ![job[w]] = "initial"]
  /\ Goto(w, IF S3 THEN "download" ELSE "analyze")
  /\ UNCHANGED <<config, api, registry, sample, s3sample, remote, files, outcome>>

DownloadSample(w) ==
  /\ wpc[w] = "download"
  /\ s3sample[job[w]]
  /\ sample' = [sample EXCEPT ![job[w]] = TRUE]
  /\ Goto(w, "analyze")
  /\ UNCHANGED <<config, api, registry, s3sample, local, remote, files, outcome>>

(* analyze_file needs the sample; it raises for this and other reasons.     *)
AnalyzeFile(w) ==
  /\ wpc[w] = "analyze"
  /\ \E o \in (IF sample[job[w]] THEN {"ok"} ELSE {})
              \cup (IF Faulty \/ ~sample[job[w]] THEN {"raised"} ELSE {}) :
       /\ outcome' = [outcome EXCEPT ![job[w]] = o]
       /\ files' = [files EXCEPT ![job[w]] = IF o = "ok" THEN {"disk"} ELSE {}]
  /\ Goto(w, "finalize")
  /\ UNCHANGED <<config, api, registry, sample, s3sample, local, remote>>

(* Mutant of WriteFinalMetadata: the outcome is not looked at.              *)
AlwaysFinished(w) ==
  /\ wpc[w] = "finalize"
  /\ local' = [local EXCEPT ![job[w]] = "finished"]
  /\ Goto(w, "unlink")
  /\ UNCHANGED <<config, api, registry, sample, s3sample, remote, files, outcome>>

(* Mutant of WriteFinalMetadata: the status rq has for the job overwrites   *)
(* the verdict in the merged dictionary.                                    *)
StatusOverwritten(w) ==
  /\ wpc[w] = "finalize"
  /\ local' = [local EXCEPT ![job[w]] = rq[job[w]]]
  /\ Goto(w, "unlink")
  /\ UNCHANGED <<config, api, registry, sample, s3sample, remote, files, outcome>>

(* The finally block of worker_analyze, one call after the other.           *)
WriteFinalMetadata(w) ==
  /\ wpc[w] = "finalize"
  /\ local' = [local EXCEPT ![job[w]] =
                 IF outcome[job[w]] = "ok" THEN "finished" ELSE "failed"]
  /\ Goto(w, "unlink")
  /\ UNCHANGED <<config, api, registry, sample, s3sample, remote, files, outcome>>

(* rq records how the work-horse ended: worker_analyze raises again what    *)
(* analyze_file raised.                                                     *)
Return(w) ==
  /\ IF outcome[job[w]] = "ok" THEN Finish(job[w]) ELSE Fail(job[w])
  /\ Free(w)

UnlinkSample(w) ==
  /\ wpc[w] = "unlink"
  /\ sample[job[w]]
  /\ sample' = [sample EXCEPT ![job[w]] = FALSE]
  /\ IF S3 THEN Goto(w, "upload") /\ UNCHANGED registry ELSE Return(w)
  /\ UNCHANGED <<config, api, s3sample, local, remote, files, outcome>>

(* options.sample_path.unlink() raises when the file is not there.          *)
SampleMissing(w) ==
  /\ \/ wpc[w] = "unlink" /\ ~sample[job[w]]
     \/ wpc[w] = "download" /\ ~s3sample[job[w]]
  /\ Fail(job[w]) /\ Free(w)
  /\ UNCHANGED <<config, api, store>>

(* Mutant of UploadAnalysis: an upload that stops is taken for complete.    *)
UploadMetadataOnly(w) ==
  /\ wpc[w] = "upload"
  /\ remote' = [remote EXCEPT ![job[w]] = local[job[w]]]
  /\ Goto(w, "cleanup")
  /\ UNCHANGED <<config, api, registry, sample, s3sample, local, files, outcome>>

(* upload_analysis puts the files in the order the directory is walked:     *)
(* metadata.json before or after the others.                                *)
UploadAnalysis(w) ==
  /\ wpc[w] = "upload"
  /\ \/ /\ remote[job[w]] = "none"
        /\ remote' = [remote EXCEPT ![job[w]] = local[job[w]]]
        /\ UNCHANGED files
     \/ /\ "disk" \in files[job[w]] /\ "s3" \notin files[job[w]]
        /\ files' = [files EXCEPT ![job[w]] = @ \cup {"s3"}]
        /\ UNCHANGED remote
  /\ Goto(w, IF remote'[job[w]] # "none" /\ ("disk" \in files[job[w]] => "s3" \in files'[job[w]])
             THEN "cleanup" ELSE "upload")
  /\ UNCHANGED <<config, api, registry, sample, s3sample, local, outcome>>

RemoveLocalAnalysis(w) ==
  /\ wpc[w] = "cleanup"
  /\ IF config.rm
     THEN /\ local' = [local EXCEPT ![job[w]] = "none"]
          /\ files' = [files EXCEPT ![job[w]] = @ \ {"disk"}]
     ELSE UNCHANGED <<local, files>>
  /\ Return(w)
  /\ UNCHANGED <<config, api, sample, s3sample, remote, outcome>>

(* Any other call of worker_analyze raises, or the job's time is up: rq     *)
(* marks the job failed.  A removal of the directory may stop half-way.     *)
WorkerRaises(w) ==
  /\ Faulty
  /\ wpc[w] \in {"prepare", "download", "finalize", "unlink", "upload", "cleanup"}
  /\ \/ UNCHANGED <<local, files>>
     \/ /\ wpc[w] = "cleanup" /\ config.rm
        /\ local' \in {local, [local EXCEPT ![job[w]] = "none"]}
        /\ files' \in {files, [files EXCEPT ![job[w]] = @ \ {"disk"}]}
  /\ Fail(job[w]) /\ Free(w)
  /\ UNCHANGED <<config, api, sample, s3sample, remote, outcome>>

(* The worker dies with its work-horse and is started again; the job stays  *)
(* where it was in Redis.                                                   *)
WorkerKilled(w) ==
  /\ Faulty
  /\ wpc[w] # "idle"
  /\ Free(w)
  /\ UNCHANGED <<config, api, registry, store>>

Orphan(j) == \A w \in Workers : job[w] # j

(* Mutant of AbandonedJob: jobs between queue and registry are forgotten.   *)
StartedOnly(j) ==
  /\ Orphan(j)
  /\ rq[j] = "started" /\ Fail(j)
  /\ UNCHANGED <<config, api, worker, store>>

(* Mutant of AbandonedJob: a failed job is tried again.                     *)
RetryFailed(j) ==
  /\ Orphan(j)
  /\ rq[j] \in {"popped", "started", "failed"}
  /\ rq' = [rq EXCEPT ![j] = IF @ = "failed" THEN "queued" ELSE "failed"]
  /\ UNCHANGED order
  /\ UNCHANGED <<config, api, worker, store>>

(* rq's maintenance fails a job that nobody runs any more: one in the       *)
(* started registry, or one lost between the queue and that registry.       *)
AbandonedJob(j) ==
  /\ Orphan(j)
  /\ Fail(j)
  /\ UNCHANGED <<config, api, worker, store>>

----------------------------------------------------------------------------
Request(j) == SaveUpload(j) \/ PutSample(j) \/ EnqueueAnalysis(j)
              \/ RemoveUpload(j)

Work(w) ==
  \/ StartJob(w) \/ WriteInitialMetadata(w) \/ DownloadSample(w)
  \/ AnalyzeFile(w) \/ WriteFinalMetadata(w) \/ UnlinkSample(w)
  \/ SampleMissing(w) \/ UploadAnalysis(w) \/ RemoveLocalAnalysis(w)

Next ==
  \/ \E j \in Jobs : Request(j) \/ UploadFails(j) \/ Truncated(j) \/ AbandonedJob(j)
  \/ \E w \in Workers : PopJob(w) \/ Work(w) \/ WorkerRaises(w) \/ WorkerKilled(w)

Spec == Init /\ [][Next]_vars

(* Some worker takes the queued jobs, a work-horse goes on until it ends    *)
(* (job_timeout bounds it), and rq's maintenance runs from time to time.    *)
FairSpec ==
  /\ Spec
  /\ \A w \in Workers : WF_vars(Work(w)) /\ WF_vars(PopJob(w))
  /\ \A j \in Jobs : WF_vars(AbandonedJob(j))

----------------------------------------------------------------------------
(* What /status answers: Redis while the job is pending, metadata.json of   *)
(* the storage the server reads after that.                                 *)

Metadata(j) == IF S3 THEN remote[j] ELSE local[j]

Answer(j) ==
  IF rq[j] \in Pending THEN "pending"
  ELSE CASE Metadata(j) = "none"    -> "not_found"
         [] Metadata(j) = "initial" -> "unknown"
         [] OTHER                   -> Metadata(j)

----------------------------------------------------------------------------
(* Properties                                                               *)

TypeOK ==
  /\ config \in Configs
  /\ api \in [Jobs -> {"new", "put", "enqueue", "accepted", "undo", "error"}]
  /\ rq \in [Jobs -> Places]
  /\ order \in Seq(Jobs)
  /\ wpc \in [Workers -> {"idle", "start", "prepare", "download", "analyze", "finalize",
                          "unlink", "upload", "cleanup"}]
  /\ job \in [Workers -> Jobs \cup {NoJob}]
  /\ sample \in [Jobs -> BOOLEAN]
  /\ s3sample \in [Jobs -> BOOLEAN]
  /\ local \in [Jobs -> {"none", "initial", "finished", "failed"}]
  /\ remote \in [Jobs -> {"none", "initial", "finished", "failed"}]
  /\ files \in [Jobs -> SUBSET {"disk", "s3"}]
  /\ outcome \in [Jobs -> {"none", "ok", "raised"}]

(* A job that Redis calls finished is one the server can show: /status says *)
(* finished, all result files are where the server reads them, and the      *)
(* sample is gone from the upload directory.                                *)
FinishedIsServed ==
  \A j \in Jobs : rq[j] = "finished" =>
    /\ Answer(j) = "finished"
    /\ (IF S3 THEN "s3" ELSE "disk") \in files[j]
    /\ ~sample[j]

(* An answer of finished or failed tells how analyze_file ended, whatever   *)
(* failed afterwards.                                                       *)
AnswerIsTrue ==
  \A j \in Jobs :
    /\ Answer(j) = "finished" => outcome[j] = "ok"
    /\ Answer(j) = "failed" => outcome[j] = "raised"

(* The whole of what a client sees through /status is the promise of        *)
(* AnalysisPromise: the verdict is the outcome of the analysis, it is given *)
(* when the job ends and never taken back, also after Redis has forgotten   *)
(* the job.                                                                 *)
Promise == INSTANCE AnalysisPromise WITH
  answer <- [j \in Jobs |-> Answer(j)], verdict <- outcome

ImplementsPromise == Promise!Spec

(* The results of a successful analysis exist somewhere at all times: the   *)
(* local copy goes only after the whole upload.                             *)
ResultsAreKept ==
  \A j \in Jobs : outcome[j] = "ok" => files[j] # {}

(* Every job that reached the queue ends, however workers fail and die.     *)
QueuedJobEnds ==
  \A j \in Jobs : rq[j] = "queued" ~> rq[j] \in Terminal \cup {"absent"}

(* "failed - Analysis is finished but something went wrong during analysis  *)
(* process" (docs/usage/basic_usage.rst:78): a job that has ended is        *)
(* reported as finished or failed.                                          *)
EndedJobHasVerdict ==
  \A j \in Jobs : rq[j] \in Terminal => Answer(j) \in Terminal
============================================================================
