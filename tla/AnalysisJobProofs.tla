------------------------- MODULE AnalysisJobProofs -------------------------
(***************************************************************************)
(* Proofs about AnalysisJob for any number of uploads and workers, any of  *)
(* the configurations and with or without faults.                          *)
(***************************************************************************)
EXTENDS AnalysisJob, TLAPS

(* A worker runs the job that Redis thinks it runs, and no two the same.    *)
Owned ==
  \A w \in Workers :
    /\ wpc[w] = "idle" <=> job[w] = NoJob
    /\ wpc[w] = "start" => rq[job[w]] = "popped"
    /\ wpc[w] \notin {"idle", "start"} => rq[job[w]] = "started"

OneWorkerPerJob ==
  \A v, w \in Workers : job[v] = job[w] /\ job[w] # NoJob => v = w

(* A job comes to Redis once, from its upload.                              *)
EnqueuedOnce ==
  \A j \in Jobs :
    /\ api[j] \in {"new", "put", "enqueue"} => j \notin Enqueued
    /\ j \notin Enqueued => rq[j] = "absent"

Verdict(j) == CASE outcome[j] = "ok"     -> "finished"
                [] outcome[j] = "raised" -> "failed"
                [] OTHER                 -> "none"

Blank(j) == local[j] = "none" /\ remote[j] = "none" /\ files[j] = {} /\ outcome[j] = "none"

Untouched ==
  \A j \in Jobs : j \notin Enqueued \/ rq[j] \in {"queued", "popped"} => Blank(j)

(* What is stored of a job, place by place of its work-horse.               *)
Progress ==
  \A w \in Workers :
    LET j == job[w] IN
    /\ wpc[w] = "prepare" => Blank(j)
    /\ wpc[w] \in {"download", "analyze"} =>
         remote[j] = "none" /\ files[j] = {} /\ outcome[j] = "none"
    /\ wpc[w] \in {"finalize", "unlink"} =>
         /\ remote[j] = "none" /\ outcome[j] # "none" /\ "s3" \notin files[j]
         /\ outcome[j] = "ok" => "disk" \in files[j]
    /\ wpc[w] \in {"unlink", "upload", "cleanup"} => local[j] = Verdict(j)
    /\ wpc[w] \in {"upload", "cleanup"} => S3 /\ ~sample[j] /\ outcome[j] # "none"
    /\ wpc[w] = "upload" /\ outcome[j] = "ok" => "disk" \in files[j]
    /\ wpc[w] = "cleanup" =>
         remote[j] = Verdict(j) /\ (outcome[j] = "ok" => "s3" \in files[j])

(* metadata.json never tells a verdict other than the outcome.              *)
Recorded ==
  \A j \in Jobs :
    /\ local[j] \in {"none", "initial", Verdict(j)}
    /\ remote[j] \in {"none", Verdict(j)}

IInv ==
  /\ TypeOK
  /\ Owned
  /\ OneWorkerPerJob
  /\ EnqueuedOnce
  /\ Untouched
  /\ Progress
  /\ Recorded
  /\ ResultsAreKept
  /\ FinishedIsServed

----------------------------------------------------------------------------
(* Enqueueing adds the job to those that were ever enqueued.                *)
LEMMA EnqueuedAppend ==
  ASSUME order \in Seq(Jobs), NEW j \in Jobs, order' = Append(order, j)
  PROVE  Enqueued' = Enqueued \cup {j}
<1>1. Len(order') = Len(order) + 1 /\ Len(order) \in Nat
  OBVIOUS
<1>2. order'[Len(order) + 1] = j /\ \A n \in 1..Len(order) : order'[n] = order[n]
  OBVIOUS
<1> QED
  BY <1>1, <1>2 DEF Enqueued

LEMMA EnqueuedSame == UNCHANGED order => Enqueued' = Enqueued
  BY DEF Enqueued

(* The end of worker_analyze ends the job and frees the worker.             *)
LEMMA ReturnEnds ==
  ASSUME NEW w \in Workers, Return(w)
  PROVE  /\ \E p \in {"finished", "failed"} : rq' = [rq EXCEPT ![job[w]] = p]
         /\ wpc' = [wpc EXCEPT ![w] = "idle"]
         /\ job' = [job EXCEPT ![w] = NoJob]
         /\ UNCHANGED order
  BY DEF Return, Finish, Fail, Free, Move

LEMMA ReturnTyped ==
  ASSUME NEW w \in Workers, Return(w), TypeOK
  PROVE  /\ (rq \in [Jobs -> Places])' /\ (order \in Seq(Jobs))'
         /\ wpc' \in [Workers -> {"idle", "start", "prepare", "download", "analyze",
                                  "finalize", "unlink", "upload", "cleanup"}]
         /\ job' \in [Workers -> Jobs \cup {NoJob}]
<1>1. PICK p \in {"finished", "failed"} : rq' = [rq EXCEPT ![job[w]] = p]
  BY ReturnEnds
<1>2. rq' \in [Jobs -> Places]
  BY <1>1 DEF TypeOK, Places, Terminal
<1>3. order' \in Seq(Jobs)
  <2>1. order' = order
    BY ReturnEnds
  <2> QED  BY <2>1 DEF TypeOK
<1>4. wpc' \in [Workers -> {"idle", "start", "prepare", "download", "analyze",
                           "finalize", "unlink", "upload", "cleanup"}]
  <2>1. wpc' = [wpc EXCEPT ![w] = "idle"]
    BY ReturnEnds
  <2> QED  BY <2>1 DEF TypeOK
<1>5. job' \in [Workers -> Jobs \cup {NoJob}]
  <2>1. job' = [job EXCEPT ![w] = NoJob]
    BY ReturnEnds
  <2> QED  BY <2>1 DEF TypeOK
<1> QED  BY <1>2, <1>3, <1>4, <1>5

LEMMA EitherOutcome ==
  ASSUME NEW w \in Workers, AnalyzeFile(w)
  PROVE  \E o \in {"ok", "raised"} :
           /\ outcome' = [outcome EXCEPT ![job[w]] = o]
           /\ files' = [files EXCEPT ![job[w]] = IF o = "ok" THEN {"disk"} ELSE {}]
  BY DEF AnalyzeFile

(* The types of the job in Redis, its metadata and files on disk and on S3, *)
(* and the places of the API and of the workers (web/api.py, worker.py).    *)
THEOREM Typing == Spec => []TypeOK
<1>1. Init => TypeOK
  BY DEF Init, InitRegistry, TypeOK, Places
<1>2. TypeOK /\ [Next]_vars => TypeOK'
  <2> SUFFICES ASSUME TypeOK, [Next]_vars PROVE TypeOK'
    OBVIOUS
  <2> USE DEF TypeOK, Places, Pending, Terminal, registry, worker, store, Goto, Free, Move
  <2>1. ASSUME NEW j \in Jobs, Request(j) PROVE TypeOK'
    <3>1. CASE SaveUpload(j)
      BY <3>1 DEF SaveUpload
    <3>2. CASE PutSample(j)
      BY <3>2 DEF PutSample
    <3>3. CASE EnqueueAnalysis(j)
      BY <3>3 DEF EnqueueAnalysis, Enqueue
    <3>4. CASE RemoveUpload(j)
      BY <3>4 DEF RemoveUpload
    <3> QED  BY <2>1, <3>1, <3>2, <3>3, <3>4 DEF Request
  <2>2. ASSUME NEW j \in Jobs, UploadFails(j) PROVE TypeOK'
    <3>1. (rq \in [Jobs -> Places] /\ order \in Seq(Jobs))'
      <4>1. CASE UNCHANGED registry
        BY <4>1
      <4>2. CASE Enqueue(j)
        BY <4>2 DEF Enqueue
      <4> QED  BY <2>2, <4>1, <4>2 DEF UploadFails
    <3>2. s3sample' \in [Jobs -> BOOLEAN]
      BY <2>2 DEF UploadFails
    <3> QED  BY <2>2, <3>1, <3>2 DEF UploadFails
  <2>3. ASSUME NEW j \in Jobs, Truncated(j) PROVE TypeOK'
    BY <2>3 DEF Truncated, Delete
  <2>4. ASSUME NEW j \in Jobs, AbandonedJob(j) PROVE TypeOK'
    BY <2>4 DEF AbandonedJob, Fail
  <2>5. ASSUME NEW w \in Workers, PopJob(w) PROVE TypeOK'
    BY <2>5 DEF PopJob, Pop
  <2>6. ASSUME NEW w \in Workers, Work(w) PROVE TypeOK'
    <3>1. CASE StartJob(w)
      BY <3>1 DEF StartJob, Start
    <3>2. CASE WriteInitialMetadata(w)
      BY <3>2 DEF WriteInitialMetadata
    <3>3. CASE DownloadSample(w)
      BY <3>3 DEF DownloadSample
    <3>4. CASE AnalyzeFile(w)
      <4>1. PICK o \in {"ok", "raised"} :
              /\ outcome' = [outcome EXCEPT ![job[w]] = o]
              /\ files' = [files EXCEPT ![job[w]] = IF o = "ok" THEN {"disk"} ELSE {}]
        BY <3>4, EitherOutcome
      <4>2. (IF o = "ok" THEN {"disk"} ELSE {}) \in SUBSET {"disk", "s3"}
        OBVIOUS
      <4>3. (outcome \in [Jobs -> {"none", "ok", "raised"}])'
        BY <4>1
      <4>4. (files \in [Jobs -> SUBSET {"disk", "s3"}])'
        BY <4>1, <4>2
      <4> QED  BY <3>4, <4>3, <4>4 DEF AnalyzeFile
    <3>5. CASE WriteFinalMetadata(w)
      BY <3>5 DEF WriteFinalMetadata
    <3>6. CASE UnlinkSample(w)
      <4>1. CASE S3
        BY <3>6, <4>1 DEF UnlinkSample
      <4>2. CASE ~S3
        <5>1. Return(w)
          BY <3>6, <4>2 DEF UnlinkSample
        <5> QED  BY <3>6, <5>1, ReturnTyped DEF UnlinkSample
      <4> QED  BY <4>1, <4>2
    <3>7. CASE SampleMissing(w)
      BY <3>7 DEF SampleMissing, Fail
    <3>8. CASE UploadAnalysis(w)
      BY <3>8 DEF UploadAnalysis
    <3>9. CASE RemoveLocalAnalysis(w)
      <4>1. Return(w)
        BY <3>9 DEF RemoveLocalAnalysis
      <4>2. (local \in [Jobs -> {"none", "initial", "finished", "failed"}])'
            /\ (files \in [Jobs -> SUBSET {"disk", "s3"}])'
        BY <3>9 DEF RemoveLocalAnalysis
      <4> QED  BY <3>9, <4>1, <4>2, ReturnTyped DEF RemoveLocalAnalysis
    <3> QED
      BY <2>6, <3>1, <3>2, <3>3, <3>4, <3>5, <3>6, <3>7, <3>8, <3>9 DEF Work
  <2>7. ASSUME NEW w \in Workers, WorkerRaises(w) PROVE TypeOK'
    <3>1. (local \in [Jobs -> {"none", "initial", "finished", "failed"}])'
      BY <2>7 DEF WorkerRaises
    <3>2. (files \in [Jobs -> SUBSET {"disk", "s3"}])'
      <4>1. CASE UNCHANGED files
        BY <4>1
      <4>2. CASE files' = [files EXCEPT ![job[w]] = @ \ {"disk"}]
        BY <4>2
      <4> QED  BY <2>7, <4>1, <4>2 DEF WorkerRaises
    <3> QED  BY <2>7, <3>1, <3>2 DEF WorkerRaises, Fail
  <2>8. ASSUME NEW w \in Workers, WorkerKilled(w) PROVE TypeOK'
    BY <2>8 DEF WorkerKilled
  <2>9. CASE UNCHANGED vars
    BY <2>9 DEF vars
  <2> QED
    BY <2>1, <2>2, <2>3, <2>4, <2>5, <2>6, <2>7, <2>8, <2>9 DEF Next
<1> QED
  BY <1>1, <1>2, PTL DEF Spec

----------------------------------------------------------------------------
(* IInv is inductive: each action moves one job or one worker, and every    *)
(* worker at work has a job to itself.                                      *)
LEMMA Inductive == Spec => []IInv
<1>1. Init => IInv
  BY DEF Init, InitRegistry, IInv, TypeOK, Places, Owned, OneWorkerPerJob, EnqueuedOnce,
     Untouched, Blank, Progress, Recorded, Verdict, ResultsAreKept, FinishedIsServed, Enqueued
<1>2. IInv /\ TypeOK' /\ [Next]_vars => IInv'
  <2> SUFFICES ASSUME IInv, TypeOK', [Next]_vars PROVE IInv'
    OBVIOUS
  <2>0. TypeOK /\ Owned /\ OneWorkerPerJob /\ EnqueuedOnce /\ Untouched /\ Progress
        /\ Recorded /\ ResultsAreKept /\ FinishedIsServed
    BY DEF IInv
  <2> USE <2>0, NoJobAssumption
      DEF IInv, TypeOK, Places, Pending, Terminal, registry, worker, store, Goto, Free, Move,
          Owned, OneWorkerPerJob, EnqueuedOnce, Untouched, Blank, Progress, Recorded,
          Verdict, ResultsAreKept, FinishedIsServed, Answer, Metadata, S3
  <2>1. ASSUME NEW j \in Jobs, Request(j) PROVE IInv'
    <3>1. CASE SaveUpload(j)
      BY <3>1, EnqueuedSame DEF SaveUpload
    <3>2. CASE PutSample(j)
      BY <3>2, EnqueuedSame DEF PutSample
    <3>3. CASE EnqueueAnalysis(j)
      BY <3>3, EnqueuedAppend DEF EnqueueAnalysis, Enqueue
    <3>4. CASE RemoveUpload(j)
      BY <3>4, EnqueuedSame DEF RemoveUpload
    <3> QED  BY <2>1, <3>1, <3>2, <3>3, <3>4 DEF Request
  <2>2. ASSUME NEW j \in Jobs, UploadFails(j) PROVE IInv'
    BY <2>2, EnqueuedAppend, EnqueuedSame DEF UploadFails, Enqueue
  <2>3. ASSUME NEW j \in Jobs, Truncated(j) PROVE IInv'
    BY <2>3, EnqueuedSame DEF Truncated, Delete
  <2>4. ASSUME NEW j \in Jobs, AbandonedJob(j) PROVE IInv'
    BY <2>4, EnqueuedSame DEF AbandonedJob, Fail, Orphan
  <2>5. ASSUME NEW w \in Workers, PopJob(w) PROVE IInv'
    BY <2>5, EnqueuedSame DEF PopJob, Pop
  <2>6. ASSUME NEW w \in Workers, Work(w) PROVE IInv'
    <3>1. CASE StartJob(w)
      BY <3>1, EnqueuedSame DEF StartJob, Start
    <3>2. CASE WriteInitialMetadata(w)
      BY <3>2, EnqueuedSame DEF WriteInitialMetadata
    <3>3. CASE DownloadSample(w)
      BY <3>3, EnqueuedSame DEF DownloadSample
    <3>4. CASE AnalyzeFile(w)
      <4>1. PICK o \in {"ok", "raised"} :
              /\ outcome' = [outcome EXCEPT ![job[w]] = o]
              /\ files' = [files EXCEPT ![job[w]] = IF o = "ok" THEN {"disk"} ELSE {}]
        BY <3>4, EitherOutcome
      <4>2. job[w] \in Jobs /\ rq[job[w]] = "started" /\ outcome[job[w]] = "none"
            /\ remote[job[w]] = "none"
        BY <3>4 DEF AnalyzeFile
      <4>3. /\ outcome'[job[w]] = o /\ files'[job[w]] = (IF o = "ok" THEN {"disk"} ELSE {})
            /\ \A i \in Jobs : i # job[w] => outcome'[i] = outcome[i] /\ files'[i] = files[i]
        BY <4>1, <4>2
      <4>4. Owned' /\ OneWorkerPerJob' /\ EnqueuedOnce'
        BY <3>4, EnqueuedSame DEF AnalyzeFile
      <4>5. Untouched'
        BY <3>4, <4>2, <4>3, EnqueuedSame DEF AnalyzeFile
      <4>6. Progress'
        BY <3>4, <4>2, <4>3 DEF AnalyzeFile
      <4>7. Recorded' /\ ResultsAreKept' /\ FinishedIsServed'
        BY <3>4, <4>2, <4>3 DEF AnalyzeFile
      <4> QED  BY <4>4, <4>5, <4>6, <4>7
    <3>5. CASE WriteFinalMetadata(w)
      BY <3>5, EnqueuedSame DEF WriteFinalMetadata
    <3>6. CASE UnlinkSample(w)
      <4>1. job[w] \in Jobs /\ rq[job[w]] = "started"
        BY <3>6 DEF UnlinkSample
      <4>2. Owned' /\ OneWorkerPerJob' /\ EnqueuedOnce'
        <5>1. CASE S3
          BY <3>6, <4>1, <5>1, EnqueuedSame DEF UnlinkSample
        <5>2. CASE ~S3
          <6>1. Return(w)
            BY <3>6, <5>2 DEF UnlinkSample
          <6>2. PICK p \in {"finished", "failed"} : rq' = [rq EXCEPT ![job[w]] = p]
            BY <6>1, ReturnEnds
          <6>3. /\ wpc' = [wpc EXCEPT ![w] = "idle"] /\ job' = [job EXCEPT ![w] = NoJob]
                /\ UNCHANGED <<order, api>>
            BY <3>6, <6>1, ReturnEnds DEF UnlinkSample
          <6>4. Owned'
            BY <4>1, <6>2, <6>3
          <6>5. OneWorkerPerJob'
            BY <6>3
          <6>6. EnqueuedOnce'
            BY <4>1, <6>2, <6>3, EnqueuedSame
          <6> QED  BY <6>4, <6>5, <6>6
        <5> QED  BY <5>1, <5>2
      <4>3. Untouched'
        BY <3>6, <4>1, EnqueuedSame DEF UnlinkSample, Return, Finish, Fail
      <4>4. Progress'
        BY <3>6, <4>1 DEF UnlinkSample, Return, Finish, Fail
      <4>5. Recorded' /\ ResultsAreKept'
        BY <3>6 DEF UnlinkSample, Return, Finish, Fail
      <4>6. FinishedIsServed'
        BY <3>6, <4>1 DEF UnlinkSample, Return, Finish, Fail
      <4> QED  BY <4>2, <4>3, <4>4, <4>5, <4>6
    <3>7. CASE SampleMissing(w)
      BY <3>7, EnqueuedSame DEF SampleMissing, Fail
    <3>8. CASE UploadAnalysis(w)
      <4>1. job[w] \in Jobs /\ rq[job[w]] = "started"
        BY <3>8 DEF UploadAnalysis
      <4>2. /\ remote'[job[w]] \in {remote[job[w]], Verdict(job[w])}
            /\ files[job[w]] \subseteq files'[job[w]]
            /\ \A i \in Jobs : i # job[w] => remote'[i] = remote[i] /\ files'[i] = files[i]
        BY <3>8, <4>1 DEF UploadAnalysis
      <4>3. Owned' /\ OneWorkerPerJob' /\ EnqueuedOnce'
        BY <3>8, EnqueuedSame DEF UploadAnalysis
      <4>4. Untouched'
        BY <3>8, <4>1, <4>2, EnqueuedSame DEF UploadAnalysis
      <4>5. Progress'
        BY <3>8, <4>1, <4>2 DEF UploadAnalysis
      <4>6. Recorded'
        BY <3>8, <4>1, <4>2 DEF UploadAnalysis
      <4>7. ResultsAreKept'
        <5>1. \A i \in Jobs : files[i] # {} => files'[i] # {}
          <6> SUFFICES ASSUME NEW i \in Jobs, NEW x \in files[i] PROVE x \in files'[i]
            OBVIOUS
          <6> QED  BY <4>2
        <5> QED  BY <3>8, <5>1 DEF UploadAnalysis
      <4>8. FinishedIsServed'
        BY <3>8, <4>1, <4>2 DEF UploadAnalysis
      <4> QED  BY <4>3, <4>4, <4>5, <4>6, <4>7, <4>8
    <3>9. CASE RemoveLocalAnalysis(w)
      <4>1. job[w] \in Jobs /\ rq[job[w]] = "started"
        BY <3>9 DEF RemoveLocalAnalysis
      <4>2. /\ wpc[w] # "cleanup" => UNCHANGED <<local, files>>
            /\ local'[job[w]] \in {local[job[w]], "none"}
            /\ files'[job[w]] \in {files[job[w]], files[job[w]] \ {"disk"}}
            /\ \A i \in Jobs : i # job[w] => local'[i] = local[i] /\ files'[i] = files[i]
        BY <3>9, <4>1 DEF RemoveLocalAnalysis
      <4>3. Owned' /\ OneWorkerPerJob' /\ EnqueuedOnce'
        BY <3>9, EnqueuedSame DEF RemoveLocalAnalysis, Return, Finish, Fail
      <4>4. Untouched'
        BY <3>9, <4>1, <4>2, EnqueuedSame DEF RemoveLocalAnalysis, Return, Finish, Fail
      <4>5. Progress'
        BY <3>9, <4>1, <4>2 DEF RemoveLocalAnalysis, Return, Finish, Fail
      <4>6. Recorded' /\ ResultsAreKept'
        BY <3>9, <4>1, <4>2 DEF RemoveLocalAnalysis, Return, Finish, Fail
      <4>7. FinishedIsServed'
        BY <3>9, <4>1, <4>2 DEF RemoveLocalAnalysis, Return, Finish, Fail
      <4> QED  BY <4>3, <4>4, <4>5, <4>6, <4>7
    <3> QED
      BY <2>6, <3>1, <3>2, <3>3, <3>4, <3>5, <3>6, <3>7, <3>8, <3>9 DEF Work
  <2>7. ASSUME NEW w \in Workers, WorkerRaises(w) PROVE IInv'
    <3>1. job[w] \in Jobs /\ rq[job[w]] = "started"
      BY <2>7 DEF WorkerRaises
    <3>2. /\ wpc[w] # "cleanup" => UNCHANGED <<local, files>>
          /\ local'[job[w]] \in {local[job[w]], "none"}
          /\ files'[job[w]] \in {files[job[w]], files[job[w]] \ {"disk"}}
          /\ \A i \in Jobs : i # job[w] => local'[i] = local[i] /\ files'[i] = files[i]
      BY <2>7, <3>1 DEF WorkerRaises
    <3>3. Owned' /\ OneWorkerPerJob' /\ EnqueuedOnce'
      BY <2>7, EnqueuedSame DEF WorkerRaises, Fail
    <3>4. Untouched'
      BY <2>7, <3>1, <3>2, EnqueuedSame DEF WorkerRaises, Fail
    <3>5. Progress'
      BY <2>7, <3>1, <3>2 DEF WorkerRaises, Fail
    <3>6. Recorded' /\ ResultsAreKept'
      BY <2>7, <3>1, <3>2 DEF WorkerRaises, Fail
    <3>7. FinishedIsServed'
      BY <2>7, <3>1, <3>2 DEF WorkerRaises, Fail
    <3> QED  BY <3>3, <3>4, <3>5, <3>6, <3>7
  <2>8. ASSUME NEW w \in Workers, WorkerKilled(w) PROVE IInv'
    BY <2>8, EnqueuedSame DEF WorkerKilled
  <2>9. CASE UNCHANGED vars
    BY <2>9, EnqueuedSame DEF vars
  <2> QED
    BY <2>1, <2>2, <2>3, <2>4, <2>5, <2>6, <2>7, <2>8, <2>9 DEF Next
<1> QED
  BY <1>1, <1>2, Typing, PTL DEF Spec

----------------------------------------------------------------------------
(* A job that Redis calls finished is reported so, and its results are all  *)
(* where the server reads them.                                             *)
THEOREM FinishedJobIsServed == Spec => []FinishedIsServed
<1>1. IInv => FinishedIsServed
  BY DEF IInv
<1> QED
  BY <1>1, Inductive, PTL

(* What /status says of the verdict is what became of analyze_file.         *)
THEOREM StatusIsTrue == Spec => []AnswerIsTrue
<1>1. IInv => AnswerIsTrue
  BY DEF IInv, TypeOK, Recorded, Verdict, AnswerIsTrue, Answer, Metadata
<1> QED
  BY <1>1, Inductive, PTL

(* The results of a successful analysis are on disk, on S3, or on both.     *)
THEOREM ResultsAreNotLost == Spec => []ResultsAreKept
<1>1. IInv => ResultsAreKept
  BY DEF IInv
<1> QED
  BY <1>1, Inductive, PTL

----------------------------------------------------------------------------
(* The refinement.  A step of AnalysisJob moves the answer and the verdict  *)
(* of one job at most.                                                      *)
Kept(j) == Answer(j)' = Answer(j) /\ outcome'[j] = outcome[j]

OneMove(j) ==
  \/ Answer(j) = "not_found" /\ outcome[j] = "none"
     /\ Answer(j)' = "pending" /\ outcome' = outcome
  \/ Answer(j) = "pending" /\ outcome[j] = "none"
     /\ Answer(j)' = "pending" /\ outcome'[j] \in {"ok", "raised"}
  \/ Answer(j) = "pending" /\ outcome' = outcome
     /\ Answer(j)' \in Promise!Told(j)

(* Such a step is a step of the promise.                                    *)
LEMMA MoveIsPromised ==
  ASSUME NEW j \in Jobs, TypeOK, TypeOK', OneMove(j), \A i \in Jobs \ {j} : Kept(i)
  PROVE  [Promise!Next]_(Promise!vars)
<1> DEFINE a == [i \in Jobs |-> Answer(i)]
           b == [i \in Jobs |-> Answer(i)']
<1>1. b = [a EXCEPT ![j] = Answer(j)']
  BY DEF Kept
<1>2. outcome' = [outcome EXCEPT ![j] = outcome'[j]]
  BY DEF Kept, TypeOK
<1> USE <1>1, <1>2 DEF OneMove
<1>3. Promise!Accept(j) \/ Promise!Conclude(j) \/ Promise!Report(j)
  BY DEF Promise!Accept, Promise!Conclude, Promise!Report
<1> QED
  BY <1>3 DEF Promise!Next

(* A step that ends a job reports what was recorded of it.                  *)
LEMMA EndIsPromised ==
  ASSUME NEW j \in Jobs, TypeOK, TypeOK', Recorded', UNCHANGED <<config, outcome>>,
         rq[j] \in Pending, rq'[j] \in Terminal,
         \A i \in Jobs \ {j} : rq'[i] = rq[i] /\ local'[i] = local[i] /\ remote'[i] = remote[i]
  PROVE  [Promise!Next]_(Promise!vars)
<1>1. \A i \in Jobs \ {j} : Kept(i)
  BY DEF Kept, Answer, Metadata, S3
<1>2. Answer(j) = "pending" /\ Answer(j)' \in {"not_found", "unknown", Metadata(j)'}
  BY DEF Answer, Pending, Terminal
<1>3. Metadata(j)' \in {"none", "initial", Verdict(j)'}
  BY DEF Recorded, Metadata
<1>4. Answer(j)' \in Promise!Told(j)
  BY <1>3 DEF Answer, Pending, Terminal, Verdict, Promise!Told, TypeOK
<1> QED
  BY <1>1, <1>2, <1>4, MoveIsPromised DEF OneMove

(* A step that ends no job and starts none changes no answer, as long as it *)
(* leaves alone the files of those that are not pending.                    *)
LEMMA StayIsPromised ==
  ASSUME TypeOK, TypeOK', UNCHANGED <<config, outcome>>,
         \A i \in Jobs : /\ rq'[i] \in Pending <=> rq[i] \in Pending
                         /\ rq[i] \notin Pending => local'[i] = local[i] /\ remote'[i] = remote[i]
  PROVE  [Promise!Next]_(Promise!vars)
<1>1. \A i \in Jobs : Answer(i)' = Answer(i)
  BY DEF Answer, Metadata, S3
<1> QED
  BY <1>1 DEF Promise!vars

(* AnalysisJob implements AnalysisPromise: every step is one of the promise *)
(* or changes nothing of it.                                                *)
THEOREM PromiseKept == Spec => ImplementsPromise
<1>1. Init => Promise!Init
  BY DEF Init, InitRegistry, Promise!Init, Answer, Metadata, Pending
<1>2. IInv /\ IInv' /\ [Next]_vars => [Promise!Next]_(Promise!vars)
  <2> SUFFICES ASSUME IInv, IInv', [Next]_vars PROVE [Promise!Next]_(Promise!vars)
    OBVIOUS
  <2>0. TypeOK /\ TypeOK' /\ Owned /\ EnqueuedOnce /\ Untouched /\ Progress /\ Recorded'
    BY DEF IInv
  <2> USE <2>0, NoJobAssumption
      DEF registry, worker, store, Goto, Free, Move, Owned
  <2> DEFINE Promised == [Promise!Next]_(Promise!vars)
  <2>a. ASSUME NEW j \in Jobs, Enqueue(j), UNCHANGED <<config, store>> PROVE Promised
    <3>1. Blank(j) /\ rq[j] = "absent"
      BY <2>a DEF Enqueue, EnqueuedOnce, Untouched
    <3>2. Answer(j) = "not_found" /\ Answer(j)' = "pending"
      BY <2>a, <3>1 DEF Enqueue, Answer, Metadata, Blank, Pending, TypeOK
    <3>3. \A i \in Jobs \ {j} : Kept(i)
      BY <2>a DEF Enqueue, Kept, Answer, Metadata, S3, TypeOK
    <3> QED  BY <2>a, <3>1, <3>2, <3>3, MoveIsPromised DEF OneMove, Blank
  <2>1. ASSUME NEW j \in Jobs, Request(j) PROVE Promised
    <3>1. CASE EnqueueAnalysis(j)
      BY <3>1, <2>a DEF EnqueueAnalysis
    <3>2. CASE SaveUpload(j) \/ PutSample(j) \/ RemoveUpload(j)
      BY <3>2, StayIsPromised DEF SaveUpload, PutSample, RemoveUpload
    <3> QED  BY <2>1, <3>1, <3>2 DEF Request
  <2>2. ASSUME NEW j \in Jobs, UploadFails(j) PROVE Promised
    <3>1. CASE UNCHANGED registry
      BY <2>2, <3>1, StayIsPromised DEF UploadFails
    <3>2. CASE Enqueue(j) /\ UNCHANGED s3sample
      BY <2>2, <3>2, <2>a DEF UploadFails
    <3> QED  BY <2>2, <3>1, <3>2 DEF UploadFails
  <2>3. ASSUME NEW j \in Jobs, Truncated(j) PROVE Promised
    BY <2>3, StayIsPromised DEF Truncated, Delete, TypeOK, Pending, Terminal
  <2>4. ASSUME NEW j \in Jobs, AbandonedJob(j) PROVE Promised
    BY <2>4, EndIsPromised DEF AbandonedJob, Fail, TypeOK, Pending, Terminal
  <2>5. ASSUME NEW w \in Workers, PopJob(w) PROVE Promised
    BY <2>5, StayIsPromised DEF PopJob, Pop, TypeOK, Pending
  <2>6. ASSUME NEW w \in Workers, Work(w) PROVE Promised
    <3>1. wpc[w] # "idle" /\ job[w] \in Jobs /\ rq[job[w]] \in Pending
      BY <2>6 DEF Work, StartJob, WriteInitialMetadata, DownloadSample, AnalyzeFile,
         WriteFinalMetadata, UnlinkSample, SampleMissing, UploadAnalysis,
         RemoveLocalAnalysis, TypeOK, Pending
    <3>2. CASE StartJob(w)
      BY <3>1, <3>2, StayIsPromised DEF StartJob, Start, TypeOK, Pending
    <3>3. CASE WriteInitialMetadata(w) \/ DownloadSample(w) \/ WriteFinalMetadata(w)
      BY <3>1, <3>3, StayIsPromised
         DEF WriteInitialMetadata, DownloadSample, WriteFinalMetadata, TypeOK
    <3>4. CASE AnalyzeFile(w)
      <4>1. PICK o \in {"ok", "raised"} : outcome' = [outcome EXCEPT ![job[w]] = o]
        BY <3>4, EitherOutcome
      <4>2. outcome[job[w]] = "none"
        BY <3>4 DEF AnalyzeFile, Progress
      <4>3. Answer(job[w]) = "pending" /\ Answer(job[w])' = "pending"
        BY <3>1, <3>4 DEF AnalyzeFile, Answer
      <4>4. \A i \in Jobs \ {job[w]} : Kept(i)
        BY <3>4, <4>1 DEF AnalyzeFile, Kept, Answer, Metadata, S3, TypeOK
      <4>5. outcome'[job[w]] \in {"ok", "raised"}
        BY <3>1, <4>1 DEF TypeOK
      <4>6. OneMove(job[w])
        BY <4>2, <4>3, <4>5 DEF OneMove
      <4> QED
        BY <3>1, <4>4, <4>6, MoveIsPromised
    <3>5. CASE UnlinkSample(w)
      <4>1. CASE S3
        <5>1. UNCHANGED <<config, rq, local, remote, outcome>>
          BY <3>5, <4>1 DEF UnlinkSample
        <5> QED  BY <5>1, StayIsPromised
      <4>2. CASE ~S3
        <5>1. UNCHANGED <<config, local, remote, outcome>>
          BY <3>5, <4>2 DEF UnlinkSample
        <5>2. rq'[job[w]] \in Terminal /\ \A i \in Jobs \ {job[w]} : rq'[i] = rq[i]
          BY <3>1, <3>5, <4>2 DEF UnlinkSample, Return, Finish, Fail, TypeOK, Terminal
        <5> QED  BY <3>1, <5>1, <5>2, EndIsPromised
      <4> QED  BY <4>1, <4>2
    <3>6. CASE SampleMissing(w)
      BY <3>1, <3>6, EndIsPromised DEF SampleMissing, Fail, TypeOK, Terminal
    <3>7. CASE UploadAnalysis(w)
      <4>1. UNCHANGED <<config, rq, local, outcome>>
        BY <3>7 DEF UploadAnalysis
      <4>2. \A i \in Jobs \ {job[w]} : remote'[i] = remote[i]
        BY <3>7 DEF UploadAnalysis, TypeOK
      <4> QED  BY <3>1, <4>1, <4>2, StayIsPromised
    <3>8. CASE RemoveLocalAnalysis(w)
      <4>1. UNCHANGED <<config, remote, outcome>>
        BY <3>8 DEF RemoveLocalAnalysis
      <4>2. rq'[job[w]] \in Terminal /\ \A i \in Jobs \ {job[w]} : rq'[i] = rq[i]
        BY <3>1, <3>8 DEF RemoveLocalAnalysis, Return, Finish, Fail, TypeOK, Terminal
      <4>3. \A i \in Jobs \ {job[w]} : local'[i] = local[i]
        BY <3>8 DEF RemoveLocalAnalysis, TypeOK
      <4> QED  BY <3>1, <4>1, <4>2, <4>3, EndIsPromised
    <3> QED
      BY <2>6, <3>2, <3>3, <3>4, <3>5, <3>6, <3>7, <3>8 DEF Work
  <2>7. ASSUME NEW w \in Workers, WorkerRaises(w) PROVE Promised
    <3>1. job[w] \in Jobs /\ rq[job[w]] = "started" /\ rq' = [rq EXCEPT ![job[w]] = "failed"]
      BY <2>7 DEF WorkerRaises, Fail, Move, TypeOK
    <3>2. rq'[job[w]] \in Terminal /\ \A i \in Jobs \ {job[w]} : rq'[i] = rq[i]
      BY <3>1 DEF TypeOK, Terminal
    <3>3. UNCHANGED <<config, remote, outcome>>
          /\ \A i \in Jobs \ {job[w]} : local'[i] = local[i]
      BY <2>7 DEF WorkerRaises, TypeOK
    <3> QED  BY <3>1, <3>2, <3>3, EndIsPromised DEF Pending
  <2>8. ASSUME NEW w \in Workers, WorkerKilled(w) PROVE Promised
    BY <2>8, StayIsPromised DEF WorkerKilled
  <2>9. CASE UNCHANGED vars
    BY <2>9, StayIsPromised DEF vars
  <2> QED
    BY <2>1, <2>2, <2>3, <2>4, <2>5, <2>6, <2>7, <2>8, <2>9 DEF Next
<1> QED
  BY <1>1, <1>2, Inductive, PTL DEF Spec, ImplementsPromise, Promise!Spec
============================================================================
