-------------------------- MODULE CaptureSubmission --------------------------
(***************************************************************************)
(* The browser extension's service worker (browser-extension/background.js)*)
(* submits a capture to the Brain in chunks, one job each, and polls the   *)
(* jobs until the capture's audit entry can be given its final status.     *)
(*                                                                         *)
(* The browser may end the worker between any two awaits.  What survives   *)
(* is chrome.storage: the audit entries, the pending jobs and the          *)
(* signatures of captures that need not be sent again; each is written     *)
(* through a queue of its own.  Alarms survive too.  An upload may be      *)
(* refused, or be accepted and its answer lost; it is never sent twice.    *)
(***************************************************************************)
EXTENDS IngestJobs, Sequences, FiniteSets

CONSTANTS
    Captures,
    Chunks,             \* [Captures -> sequence of the jobs of its chunks]
    Signed,             \* captures that carry a content signature
    Polls,              \* <<poller, job>>: polls of a job that may run at a time
    Alarm               \* the poller that a job's alarm starts

VARIABLES
    \* chrome.storage and chrome.alarms
    audit,      \* captureAudit: [Captures -> entry]
    pending,    \* pendingJobs: jobs that are polled
    autoSig,    \* captures whose signature was committed
    alarms,     \* jobs with a poll alarm
    \* the worker
    worker,     \* recovering, or up
    snapshot,   \* the pending jobs that recovery has read
    recovering, \* captures recovery has still to look at
    submit,     \* [Captures -> where submitChunksAndPoll is]
    poll,       \* [Polls -> where pollOnce is]
    telling,    \* captures whose outcome is written and the user is not told yet
    \* what the user saw
    notified    \* [Captures -> number of notifications of an outcome]

storage == <<audit, pending, autoSig, alarms>>
memory == <<worker, snapshot, recovering, submit, poll, telling>>
vars == <<brainVars, storage, memory, notified>>

JobsOf(c) == {Chunks[c][i] : i \in DOMAIN Chunks[c]}
CaptureOf(j) == CHOOSE c \in Captures : j \in JobsOf(c)

\* A capture without text is refused before it gets here, and every upload is
\* answered with a new job id.
ASSUME CaptureAssumption ==
    /\ Cancellable \subseteq Jobs /\ MaxRestarts \in Nat
    /\ Signed \subseteq Captures
    /\ Chunks \in [Captures -> Seq(Jobs)]
    /\ \A c \in Captures : /\ Len(Chunks[c]) > 0
                           /\ \A i, k \in DOMAIN Chunks[c] : Chunks[c][i] = Chunks[c][k] => i = k
    /\ \A c, d \in Captures : JobsOf(c) \cap JobsOf(d) # {} => c = d
    /\ \A x \in Polls : x = <<x[1], x[2]>> /\ \E c \in Captures : x[2] \in JobsOf(c)

Terminal == {"success", "failed", "partial", "uncertain"}

NoEntry ==
    [status |-> "none", expected |-> 0, jobs |-> {}, done |-> {}, part |-> {},
     failed |-> {}, unsure |-> FALSE, uncertain |-> 0]

Settled(entry) == entry.done \cup entry.part \cup entry.failed

TypeOK ==
    /\ IngestTypeOK
    /\ \A c \in Captures : LET entry == audit[c] IN
         /\ entry.status \in {"none", "submitting", "queued"} \cup Terminal
         /\ entry.expected \in {0, Len(Chunks[c])}
         /\ entry.jobs \subseteq JobsOf(c)
         /\ Settled(entry) \subseteq JobsOf(c)
         /\ entry.done \cap entry.part = {} /\ (entry.done \cup entry.part) \cap entry.failed = {}
         /\ entry.unsure = (entry.uncertain > 0)
         /\ entry.unsure => entry.uncertain = entry.expected - Cardinality(entry.jobs)
    /\ pending \subseteq Jobs /\ alarms \subseteq Jobs
    /\ autoSig \subseteq Signed
    /\ worker \in {"recovering", "up"}
    /\ snapshot \subseteq Jobs /\ recovering \subseteq Captures
    /\ \A c \in Captures : submit[c] \in [at : {"idle", "prepared", "sending", "answered",
                                                "tracked", "failing", "over"},
                                          sent : 0 .. Len(Chunks[c])]
    /\ poll \in [Polls -> {"idle", "asking", "late", "sign", "untrack"}]
    /\ telling \subseteq Captures
    /\ notified \in [Captures -> Nat]

Init ==
    /\ IngestInit
    /\ audit = [c \in Captures |-> NoEntry]
    /\ pending = {} /\ autoSig = {} /\ alarms = {}
    /\ worker = "recovering" /\ snapshot = {} /\ recovering = {}
    /\ submit = [c \in Captures |-> [at |-> "idle", sent |-> 0]]
    /\ poll = [x \in Polls |-> "idle"]
    /\ telling = {}
    /\ notified = [c \in Captures |-> 0]

-----------------------------------------------------------------------------
(* The audit entry of a capture *)

Verdict(entry) ==
    IF entry.uncertain > 0 THEN "uncertain"
    ELSE IF entry.part # {} \/ (entry.done # {} /\ entry.failed # {}) THEN "partial"
    ELSE IF entry.failed # {} THEN "failed" ELSE "success"

\* Counts the chunks that were sent so far.
GroupComplete_Bug(entry) ==
    Cardinality(entry.jobs) > 0 /\ Cardinality(Settled(entry)) >= Cardinality(entry.jobs)

\* Every chunk has been settled; when some were never confirmed, all the others.
GroupComplete(entry) ==
    LET target == IF entry.unsure THEN Cardinality(entry.jobs) ELSE entry.expected IN
    target > 0 /\ Cardinality(Settled(entry)) >= target

Put(c, entry) == audit' = [audit EXCEPT ![c] = entry]

\* The user is to be told of the outcome of c, when it has one now; a worker that
\* stops before it does so leaves the outcome untold.
Notify(c, entry) ==
    telling' = IF entry.status \in Terminal THEN telling \cup {c} ELSE telling

\* markCaptureSubmissionUncertain: the chunks whose upload was not answered may
\* or may not be in the Brain; the accepted ones are still waited for.
MarkUncertain(c, accepted, unconfirmed) ==
    LET jobs == audit[c].jobs \cup accepted
        all == Cardinality(Settled(audit[c])) >= Cardinality(jobs)
        entry == [audit[c] EXCEPT !.jobs = jobs, !.unsure = TRUE, !.uncertain = unconfirmed,
                                  !.status = IF all THEN "uncertain" ELSE "queued"]
    IN IF audit[c].status \in Terminal THEN UNCHANGED <<audit, telling>>
       ELSE Put(c, entry) /\ Notify(c, entry)

-----------------------------------------------------------------------------
(* Submission *)

At(c, where) == submit[c].at = where
Goes(c, where) == submit' = [submit EXCEPT ![c].at = where]
Over == [at |-> "over", sent |-> 0]

\* The page asks for a capture, and waits until the recovery is over.  The entry
\* does not know yet how many chunks there will be.
PrepareCapture(c) ==
    /\ worker = "up" /\ At(c, "idle")
    /\ Goes(c, "prepared")
    /\ Put(c, [NoEntry EXCEPT !.status = "submitting"])
    /\ UNCHANGED <<brainVars, pending, autoSig, alarms, worker, snapshot, recovering,
                   poll, telling, notified>>

StartChunks(c) ==
    /\ At(c, "prepared")
    /\ Goes(c, "sending")
    /\ Put(c, [audit[c] EXCEPT !.expected = Len(Chunks[c])])
    /\ UNCHANGED <<brainVars, pending, autoSig, alarms, worker, snapshot, recovering,
                   poll, telling, notified>>

Chunk(c) == Chunks[c][submit[c].sent + 1]

\* The upload is accepted and answered, accepted and its answer lost, or refused.
SendChunk(c) ==
    /\ At(c, "sending")
    /\ \/ AcceptFile(Chunk(c)) /\ Goes(c, "answered")
       \/ AcceptFile(Chunk(c)) /\ Goes(c, "failing")
       \/ UNCHANGED brainVars /\ Goes(c, "failing")
    /\ UNCHANGED <<storage, worker, snapshot, recovering, poll, telling, notified>>

TrackChunk(c) ==
    /\ At(c, "answered")
    /\ Goes(c, "tracked")
    /\ pending' = pending \cup {Chunk(c)}
    /\ UNCHANGED <<brainVars, audit, autoSig, alarms, worker, snapshot, recovering,
                   poll, telling, notified>>

\* The job is written to the entry, and its polls begin.  The update after the
\* last chunk repeats what the entry says.
RecordChunk(c) ==
    /\ At(c, "tracked")
    /\ Put(c, [audit[c] EXCEPT !.status = "queued", !.jobs = @ \cup {Chunk(c)}])
    /\ alarms' = alarms \cup {Chunk(c)}
    /\ submit' = [submit EXCEPT ![c] =
           IF @.sent + 1 = Len(Chunks[c]) THEN Over ELSE [at |-> "sending", sent |-> @.sent + 1]]
    /\ UNCHANGED <<brainVars, pending, autoSig, worker, snapshot, recovering,
                   poll, telling, notified>>

\* A chunk failed: the rest is not sent.
GiveUp(c) ==
    /\ At(c, "failing")
    /\ submit' = [submit EXCEPT ![c] = Over]
    /\ MarkUncertain(c, {}, Len(Chunks[c]) - submit[c].sent)
    /\ UNCHANGED <<brainVars, pending, autoSig, alarms, worker, snapshot, recovering,
                   poll, notified>>

SubmitStep(c) ==
    StartChunks(c) \/ SendChunk(c) \/ TrackChunk(c) \/ RecordChunk(c) \/ GiveUp(c)

-----------------------------------------------------------------------------
(* Polling *)

PollGoes(p, j, where) == poll' = [poll EXCEPT ![<<p, j>>] = where]

\* A poll of a pending job asks for it, or finds that it was tracked more than
\* five minutes ago.  Alarms fire while the worker recovers, too.
StartPoll(p, j, where) ==
    /\ poll[<<p, j>>] = "idle" /\ j \in alarms
    /\ p = Alarm \/ worker = "up"
    /\ IF j \in pending
       THEN PollGoes(p, j, where) /\ UNCHANGED alarms
       ELSE alarms' = alarms \ {j} /\ UNCHANGED poll
    /\ UNCHANGED <<brainVars, audit, pending, autoSig, worker, snapshot, recovering,
                   submit, telling, notified>>

Ignores_Bug(entry, j) == FALSE  \* a job that is settled is counted again

\* An entry that has its outcome, or has counted this job, is not changed.
Ignores(entry, j) == entry.status \in Terminal \/ j \in Settled(entry)

WithOutcome(entry, j, status) ==
    LET counted == [entry EXCEPT !.done = IF status = "success" THEN @ \cup {j} ELSE @,
                                 !.part = IF status = "partial" THEN @ \cup {j} ELSE @,
                                 !.failed = IF status = "failed" THEN @ \cup {j} ELSE @]
    IN IF GroupComplete(counted) THEN [counted EXCEPT !.status = Verdict(counted)] ELSE counted

\* recordCaptureChunkOutcome.  A success is followed by the signature; it is
\* replayed by a poll of a job that is still pending then.
RecordOutcome(p, j, status) ==
    LET c == CaptureOf(j)
        entry == WithOutcome(audit[c], j, status)
        signs == c \in Signed /\ audit'[c].status = "success"
    IN /\ IF Ignores(audit[c], j) THEN UNCHANGED <<audit, telling>>
          ELSE Put(c, entry) /\ Notify(c, entry)
       /\ PollGoes(p, j, IF signs THEN "sign" ELSE "untrack")

AskPoll(p, j) == StartPoll(p, j, "asking")
TimeOutPoll(p, j) == StartPoll(p, j, "late")

\* Success, partial and failed are final, an unknown job has failed, and every
\* other answer, cancelled among them, is asked for again.
PollAnswer(p, j) ==
    /\ poll[<<p, j>>] = "asking"
    /\ \/ PollGoes(p, j, "idle") /\ UNCHANGED <<brainVars, audit, telling>>
       \/ /\ AskJob(j)
          /\ LET answer == Answer(j) IN
             IF answer \in {"running", "cancelled"}
             THEN PollGoes(p, j, "idle") /\ UNCHANGED <<audit, telling>>
             ELSE RecordOutcome(p, j, IF answer = "none" THEN "failed" ELSE answer)
    /\ UNCHANGED <<pending, autoSig, alarms, worker, snapshot, recovering, submit,
                   notified>>

PollLate(p, j) ==
    /\ poll[<<p, j>>] = "late"
    /\ RecordOutcome(p, j, "failed")
    /\ UNCHANGED <<brainVars, pending, autoSig, alarms, worker, snapshot, recovering,
                   submit, notified>>

\* A signature that cannot be written leaves the job pending.
PollSign_Bug(p, j) ==  \* gives up the signature instead
    /\ poll[<<p, j>>] = "sign"
    /\ \/ autoSig' = autoSig \cup {CaptureOf(j)} /\ PollGoes(p, j, "untrack")
       \/ PollGoes(p, j, "untrack") /\ UNCHANGED autoSig
    /\ UNCHANGED <<brainVars, audit, pending, alarms, worker, snapshot, recovering,
                   submit, telling, notified>>

PollSign(p, j) ==
    /\ poll[<<p, j>>] = "sign"
    /\ \/ autoSig' = autoSig \cup {CaptureOf(j)} /\ PollGoes(p, j, "untrack")
       \/ PollGoes(p, j, "idle") /\ UNCHANGED autoSig
    /\ UNCHANGED <<brainVars, audit, pending, alarms, worker, snapshot, recovering,
                   submit, telling, notified>>

PollUntrack(p, j) ==
    /\ poll[<<p, j>>] = "untrack"
    /\ pending' = pending \ {j} /\ alarms' = alarms \ {j}
    /\ PollGoes(p, j, "idle")
    /\ UNCHANGED <<brainVars, audit, autoSig, worker, snapshot, recovering, submit,
                   telling, notified>>

PollStep(p, j) ==
    PollAnswer(p, j) \/ PollLate(p, j) \/ PollSign(p, j) \/ PollUntrack(p, j)

\* notifyCaptureOutcome.
Tell(c) ==
    /\ c \in telling
    /\ telling' = telling \ {c}
    /\ notified' = [notified EXCEPT ![c] = @ + 1]
    /\ UNCHANGED <<brainVars, storage, worker, snapshot, recovering, submit, poll>>

-----------------------------------------------------------------------------
(* The worker starts again *)

\* The first thing a starting worker does is to read the pending jobs.
RestartWorker ==
    /\ restarts < MaxRestarts
    /\ restarts' = restarts + 1
    /\ worker' = "recovering"
    /\ snapshot' = pending
    /\ recovering' = {c \in Captures : audit[c].status # "none"}
    /\ submit' = [c \in Captures |-> IF At(c, "idle") THEN submit[c] ELSE Over]
    /\ poll' = [x \in Polls |-> "idle"]
    /\ telling' = {}
    /\ UNCHANGED <<jobVars, storage, notified>>

Interrupted(entry) == entry.status \in {"submitting", "queued"} /\ ~entry.unsure

\* Jobs that are pending for the capture count as accepted though its entry may
\* not name them; with fewer than expected, the submission was cut short.
RecoverCapture(c) ==
    /\ c \in recovering
    /\ recovering' = recovering \ {c}
    /\ LET entry == audit[c]
           accepted == entry.jobs \cup (snapshot \cap JobsOf(c))
           count == Cardinality(accepted)
       IN IF ~Interrupted(entry) THEN UNCHANGED <<audit, telling>>
          ELSE IF count < entry.expected THEN MarkUncertain(c, accepted, entry.expected - count)
          ELSE /\ Put(c, IF entry.status = "submitting"
                         THEN [entry EXCEPT !.status = "queued", !.jobs = accepted] ELSE entry)
               /\ UNCHANGED telling
    /\ UNCHANGED <<brainVars, pending, autoSig, alarms, worker, snapshot, submit, poll,
                   notified>>

ResumePolls ==
    /\ worker = "recovering" /\ recovering = {}
    /\ worker' = "up" /\ snapshot' = {}
    /\ alarms' = alarms \cup snapshot
    /\ UNCHANGED <<brainVars, audit, pending, autoSig, recovering, submit, poll,
                   telling, notified>>

RecoverStep == (\E c \in Captures : RecoverCapture(c)) \/ ResumePolls

-----------------------------------------------------------------------------

Next ==
    \/ \E c \in Captures : PrepareCapture(c) \/ SubmitStep(c) \/ Tell(c)
    \/ \E x \in Polls : AskPoll(x[1], x[2]) \/ TimeOutPoll(x[1], x[2]) \/ PollStep(x[1], x[2])
    \/ RestartWorker \/ RecoverStep
    \/ BrainStep /\ UNCHANGED <<storage, memory, notified>>

\* The worker goes on with what it awaits, alarms fire every minute, and after
\* five minutes a poll finds the job too old; storage may refuse a signature now
\* and then, not for ever.  Fast polls are owed nothing, nor does the Brain owe
\* anything: it may be down, or answer "running" for as long as it likes.
Fairness ==
    /\ WF_vars(RecoverStep)
    /\ \A c \in Captures : WF_vars(SubmitStep(c))
    /\ \A j \in Jobs :
         /\ WF_vars(PollStep(Alarm, j))
         /\ SF_vars(TimeOutPoll(Alarm, j))
         /\ SF_vars(PollSign(Alarm, j) /\ CaptureOf(j) \in autoSig')

Spec == Init /\ [][Next]_vars /\ Fairness

-----------------------------------------------------------------------------
(* Properties *)

\* A capture said to have succeeded, or whose signature keeps the same content from
\* being sent again, has the text of each of its chunks in the Brain's archival memory,
\* whatever was lost, timed out, restarted or polled twice on the way.  (Of what was to be
\* found in the text nothing is said: success is reported without it, too.)
SuccessIsStored ==
    \A c \in Captures :
        audit[c].status = "success" \/ c \in autoSig => JobsOf(c) \subseteq stored

\* No outcome but uncertain is claimed before every chunk has a result of its own, and
\* an uncertain one counts no fewer chunks than have none.
OutcomeKnowsItsChunks ==
    \A c \in Captures : LET entry == audit[c] IN
        /\ entry.status \in Terminal \ {"uncertain"} => Settled(entry) = JobsOf(c)
        /\ entry.status = "uncertain" =>
             /\ entry.uncertain > 0
             /\ Cardinality(Settled(entry)) + entry.uncertain >= Len(Chunks[c])

\* "accepted jobs should settle while the unconfirmed chunk remains uncertain": when
\* the outcome is uncertain, every upload that was answered has its result.
AcceptedJobsSettle ==
    \A c \in Captures : audit[c].status = "uncertain" => audit[c].jobs \subseteq Settled(audit[c])

\* The user hears of a capture's outcome at most once, however many polls and replays
\* find it, of none that was not given, and of each when no worker stopped.
NotifiedOnce ==
    \A c \in Captures :
        LET told == notified[c] + Cardinality(telling \cap {c}) IN
        IF audit[c].status \in Terminal THEN told <= 1 /\ (restarts = 0 => told = 1)
        ELSE told = 0

\* An outcome, once given, is never changed.
OutcomeStays ==
    [][\A c \in Captures : audit[c].status \in Terminal => audit'[c] = audit[c]]_vars

\* A capture whose chunks were being sent gets an outcome, through crashes of
\* worker and Brain, lost answers and jobs that never end; and when it succeeded
\* its signature is written, though the worker may stop between the two writes
\* (a poll of the job, still pending, replays the second).
CaptureSettles ==
    \A c \in Captures :
        (audit[c].expected > 0) ~>
            /\ audit[c].status \in Terminal
            /\ audit[c].status = "success" /\ c \in Signed => c \in autoSig
=============================================================================
