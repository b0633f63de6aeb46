----------------------------- MODULE IngestJobs -----------------------------
(***************************************************************************)
(* The import jobs of the Brain (api/handlers/ingest.ts): an upload is     *)
(* answered with the id of a job that runs on in the background.  The job  *)
(* is in memory; a receipt of its status is kept in the database, for a    *)
(* client that asks after the job was forgotten or the Brain restarted.    *)
(***************************************************************************)
EXTENDS Naturals

CONSTANTS
    Jobs,           \* uploads, by the id of the job each one gets
    Cancellable,    \* the jobs somebody may cancel
    Forgettable,    \* the jobs that the Brain may forget
    MaxRestarts     \* restarts, of the Brain and of its client together

VARIABLES
    job,        \* jobStore: [Jobs -> status in memory, or "none"]
    receipt,    \* import_job_receipts: [Jobs -> status on disk, or "none"]
    pipeline,   \* [Jobs -> "none", "running" or the end it is saving]
    aborted,    \* jobs asked to cancel
    stored,     \* jobs whose text is in the archival memory of the database
    restarts

jobVars == <<job, receipt, pipeline, aborted, stored>>
brainVars == <<jobVars, restarts>>

\* Queued and running are one status here: no client does anything different.
Ended == {"success", "partial", "failed", "cancelled"}
Status == {"none", "running"} \cup Ended

IngestTypeOK ==
    /\ job \in [Jobs -> Status]
    /\ receipt \in [Jobs -> Status]
    /\ pipeline \in [Jobs -> {"none", "running"} \cup Ended]
    /\ aborted \subseteq Cancellable /\ stored \subseteq Jobs
    /\ restarts \in 0 .. MaxRestarts

IngestInit ==
    /\ job = [j \in Jobs |-> "none"]
    /\ receipt = [j \in Jobs |-> "none"]
    /\ pipeline = [j \in Jobs |-> "none"]
    /\ aborted = {} /\ stored = {}
    /\ restarts = 0

\* POST /api/ingest/file: no job without its first receipt.  The pipeline is
\* scheduled, and its progress goes to the receipt when that can be saved.
AcceptFile(j) ==
    /\ receipt[j] = "none"
    /\ job' = [job EXCEPT ![j] = "running"]
    /\ receipt' = [receipt EXCEPT ![j] = "running"]
    /\ pipeline' = [pipeline EXCEPT ![j] = "running"]
    /\ UNCHANGED <<aborted, stored, restarts>>

CancelJob(j) ==
    /\ j \in Cancellable
    /\ job[j] = "running"
    /\ aborted' = aborted \cup {j}
    /\ UNCHANGED <<job, receipt, pipeline, stored, restarts>>

\* updateJob with a final status: memory first, and for a moment ahead of disk.
EndJob(j, status) ==
    /\ pipeline[j] = "running"
    /\ pipeline' = [pipeline EXCEPT ![j] = status]
    /\ job' = [job EXCEPT ![j] = status]
    /\ aborted' = aborted \ {j}
    /\ UNCHANGED <<receipt, restarts>>

\* Found cancelled between two stages; the last look is before the text is stored.
Cancelled(j) ==
    /\ j \in aborted \ stored
    /\ EndJob(j, "cancelled")
    /\ UNCHANGED stored

\* No text, a failed extraction, or something other than an assertion that cannot be stored.
FailStage(j) ==
    /\ j \notin stored
    /\ EndJob(j, "failed")
    /\ UNCHANGED stored

\* The text goes to the archival memory, after the entities, relationships and assertions
\* that were found in it.  These are not modelled: a chunk that could not be extracted,
\* even every chunk, and an assertion that could not be written fail no job.
StoreText(j) ==
    /\ pipeline[j] = "running"
    /\ j \notin stored
    /\ stored' = stored \cup {j}
    /\ UNCHANGED <<job, receipt, pipeline, aborted, restarts>>

\* A cancellation since the last look is too late.
Finish(j) ==
    /\ j \in stored
    /\ EndJob(j, "success")
    /\ UNCHANGED stored

\* An end that cannot be saved is reported as partial from then on.
SaveEnd(j) ==
    /\ pipeline[j] \in Ended
    /\ pipeline' = [pipeline EXCEPT ![j] = "none"]
    /\ \/ receipt' = [receipt EXCEPT ![j] = pipeline[j]] /\ UNCHANGED job
       \/ job' = [job EXCEPT ![j] = IF @ = "none" THEN @ ELSE "partial"] /\ UNCHANGED receipt
    /\ UNCHANGED <<aborted, stored, restarts>>

PipelineStep(j) == Cancelled(j) \/ FailStage(j) \/ StoreText(j) \/ Finish(j) \/ SaveEnd(j)

\* What GET /api/ingest/job/:jobId answers: memory, else the receipt, where a
\* job that still runs was interrupted by a restart; else 404.
Answer_Bug(j) == IF job[j] # "none" THEN job[j]
                 ELSE IF receipt[j] = "running" THEN "success" ELSE receipt[j]

Answer(j) == IF job[j] # "none" THEN job[j]
             ELSE IF receipt[j] = "running" THEN "partial" ELSE receipt[j]

\* ... and what it does: an interrupted job is receipted as such.
AskJob(j) ==
    /\ receipt' = [receipt EXCEPT ![j] =
           IF job[j] = "none" /\ @ = "running" THEN "partial" ELSE @]
    /\ UNCHANGED <<job, pipeline, aborted, stored, restarts>>

\* Memory forgets a job that ended long ago, or when it is full; its receipt may
\* not be saved yet.
ForgetJob(j) ==
    /\ j \in Forgettable
    /\ job[j] \in Ended
    /\ job' = [job EXCEPT ![j] = "none"]
    /\ UNCHANGED <<receipt, pipeline, aborted, stored, restarts>>

RestartBrain ==
    /\ restarts < MaxRestarts
    /\ restarts' = restarts + 1
    /\ job' = [j \in Jobs |-> "none"]
    /\ pipeline' = [j \in Jobs |-> "none"]
    /\ aborted' = {}
    /\ UNCHANGED <<receipt, stored>>

BrainStep ==
    \/ \E j \in Jobs : PipelineStep(j) \/ CancelJob(j) \/ ForgetJob(j)
    \/ RestartBrain
=============================================================================
