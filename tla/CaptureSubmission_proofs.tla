---------------------- MODULE CaptureSubmission_proofs ----------------------
(***************************************************************************)
(* Proofs about CaptureSubmission, for any number of captures, chunks,     *)
(* polls and restarts: the text of a capture said to have succeeded is     *)
(* stored whole, an outcome accounts for the chunks, is told once and      *)
(* never changes.                                                          *)
(***************************************************************************)
EXTENDS CaptureSubmission, FiniteSetTheorems, SequenceTheorems, TLAPS

Entry ==
    [status : {"none", "submitting", "queued"} \cup Terminal, expected : Nat,
     jobs : SUBSET Jobs, done : SUBSET Jobs, part : SUBSET Jobs, failed : SUBSET Jobs,
     unsure : BOOLEAN, uncertain : Nat]

\* What an entry tells of the chunks of its capture, when the Brain holds these texts.
EntryOK(c, entry, texts) ==
    /\ entry \in Entry
    /\ entry.expected \in {0, Len(Chunks[c])}
    /\ entry.jobs \subseteq JobsOf(c) /\ Settled(entry) \subseteq JobsOf(c)
    /\ entry.done \cap entry.part = {} /\ (entry.done \cup entry.part) \cap entry.failed = {}
    /\ entry.unsure = (entry.uncertain > 0)
    /\ entry.unsure => entry.uncertain = entry.expected - Cardinality(entry.jobs)
    /\ entry.done \subseteq texts
    /\ entry.expected = 0 =>
         /\ entry.status \in {"none", "submitting", "queued"}
         /\ entry.jobs = {} /\ Settled(entry) = {} /\ ~entry.unsure
    /\ entry.status \in Terminal \ {"uncertain"} => Settled(entry) = JobsOf(c) /\ ~entry.unsure
    /\ entry.status = "success" => entry.part = {} /\ entry.failed = {}
    /\ entry.status = "uncertain" =>
         entry.uncertain > 0 /\ Cardinality(Settled(entry)) + entry.uncertain >= Len(Chunks[c])

EntriesOK ==
    /\ audit \in [Captures -> Entry]
    /\ \A c \in Captures : EntryOK(c, audit[c], stored)

CallsOK ==
    /\ submit \in [Captures -> [at : {"idle", "prepared", "sending", "answered", "tracked",
                                      "failing", "over"},
                                sent : Nat]]
    /\ \A c \in Captures : submit[c].sent <= Len(Chunks[c])
    /\ poll \in [Polls -> {"idle", "asking", "late", "sign", "untrack"}]
    /\ pending \subseteq Jobs /\ alarms \subseteq Jobs
    /\ worker \in {"recovering", "up"}
    /\ snapshot \subseteq Jobs /\ recovering \subseteq Captures
    /\ worker = "up" => snapshot = {} /\ recovering = {}

\* The Brain reports no success of a job that is not stored.
BrainOK ==
    /\ IngestTypeOK
    /\ \A j \in Jobs :
          job[j] = "success" \/ receipt[j] = "success" \/ pipeline[j] = "success" => j \in stored

\* A job that is polled, or was or will be, belongs to a capture that knows its chunks.
Polled(j) == j \in alarms \/ \E x \in Polls : x[2] = j /\ poll[x] # "idle"

LiveOK ==
    \A c \in Captures : \A j \in JobsOf(c) :
        Polled(j) \/ j \in pending \cup snapshot => audit[c].expected = Len(Chunks[c])

Active(c) == submit[c].at \in {"sending", "answered", "tracked", "failing"}
Sent(c) == {Chunks[c][i] : i \in 1 .. submit[c].sent}

\* While a capture is submitted, what is polled and settled is what was sent.
SubmittedOK(c) ==
    /\ submit[c].at = "idle" => audit[c].status = "none" /\ audit[c].expected = 0
    /\ submit[c].at = "prepared" => audit[c].status = "submitting" /\ audit[c].expected = 0
    /\ submit[c].at \in {"idle", "prepared"} => submit[c].sent = 0
    /\ submit[c].at \notin {"idle", "over"} => worker = "up"
    /\ Active(c) =>
         /\ audit[c].expected = Len(Chunks[c]) /\ ~audit[c].unsure
         /\ audit[c].status \in {"submitting", "queued"}
         /\ submit[c].sent < Len(Chunks[c])
         /\ audit[c].jobs = Sent(c) /\ Settled(audit[c]) \subseteq Sent(c)
         /\ \A j \in JobsOf(c) : Polled(j) => j \in Sent(c)

SubmitOK == \A c \in Captures : SubmittedOK(c)

\* A signature is written for a success.
SignOK ==
    /\ autoSig \subseteq Signed
    /\ \A c \in autoSig : audit[c].status = "success"
    /\ \A x \in Polls : poll[x] = "sign" =>
          CaptureOf(x[2]) \in Signed /\ audit[CaptureOf(x[2])].status = "success"

TellOK ==
    /\ telling \subseteq Captures
    /\ notified \in [Captures -> Nat]
    /\ NotifiedOnce

IInv == BrainOK /\ EntriesOK /\ CallsOK /\ LiveOK /\ SubmitOK /\ SignOK /\ TellOK
-----------------------------------------------------------------------------
USE CaptureAssumption

(* Chunks *)

LEMMA ChunkFacts ==
    ASSUME NEW c \in Captures
    PROVE  /\ Chunks[c] \in Seq(Jobs) /\ Len(Chunks[c]) \in Nat /\ Len(Chunks[c]) > 0
           /\ DOMAIN Chunks[c] = 1 .. Len(Chunks[c])
           /\ JobsOf(c) \subseteq Jobs
<1>1. Chunks[c] \in Seq(Jobs) /\ Len(Chunks[c]) > 0
  OBVIOUS
<1>2. Len(Chunks[c]) \in Nat /\ DOMAIN Chunks[c] = 1 .. Len(Chunks[c])
      /\ \A i \in 1 .. Len(Chunks[c]) : Chunks[c][i] \in Jobs
  BY <1>1
<1> QED  BY <1>1, <1>2 DEF JobsOf

\* The first n chunks are n jobs.
LEMMA ChunkCount ==
    ASSUME NEW c \in Captures, NEW n \in 0 .. Len(Chunks[c])
    PROVE  LET S == {Chunks[c][i] : i \in 1 .. n}
           IN  S \subseteq JobsOf(c) /\ IsFiniteSet(S) /\ Cardinality(S) = n
<1> DEFINE S == {Chunks[c][i] : i \in 1 .. n}
           f == [i \in 1 .. n |-> Chunks[c][i]]
<1>1. n \in Nat /\ 1 .. n \subseteq DOMAIN Chunks[c]
  BY ChunkFacts
<1>2. IsFiniteSet(1 .. n) /\ Cardinality(1 .. n) = n
  <2>1. 1 \in Int /\ n \in Int
    BY <1>1
  <2>2. IsFiniteSet(1 .. n) /\ Cardinality(1 .. n) = IF 1 > n THEN 0 ELSE n - 1 + 1
    BY <2>1, FS_Interval
  <2> QED  BY <1>1, <2>2
<1>3. f \in Surjection(1 .. n, S)
  BY DEF Surjection
<1>4. f \in Injection(1 .. n, S)
  <2>1. \A i, k \in 1 .. n : Chunks[c][i] = Chunks[c][k] => i = k
    BY <1>1
  <2> QED  BY <1>3, <2>1 DEF Injection, IsInjective, Surjection
<1>5. IsFiniteSet(S) /\ Cardinality(S) = n
  BY <1>2, <1>3, <1>4, FS_Surjection
<1>6. S \subseteq JobsOf(c)
  BY <1>1 DEF JobsOf
<1> QED  BY <1>5, <1>6

LEMMA JobsCount ==
    ASSUME NEW c \in Captures
    PROVE  IsFiniteSet(JobsOf(c)) /\ Cardinality(JobsOf(c)) = Len(Chunks[c])
<1>1. JobsOf(c) = {Chunks[c][i] : i \in 1 .. Len(Chunks[c])}
  BY ChunkFacts DEF JobsOf
<1>2. \A n \in 0 .. Len(Chunks[c]) : LET S == {Chunks[c][i] : i \in 1 .. n}
                                     IN  IsFiniteSet(S) /\ Cardinality(S) = n
  BY ChunkCount
<1>3. Len(Chunks[c]) \in 0 .. Len(Chunks[c])
  BY ChunkFacts
<1> QED  BY <1>1, <1>2, <1>3

LEMMA SomeJobs ==
    ASSUME NEW c \in Captures, NEW S \in SUBSET JobsOf(c)
    PROVE  /\ IsFiniteSet(S) /\ Cardinality(S) \in 0 .. Len(Chunks[c])
           /\ Cardinality(S) >= Len(Chunks[c]) => S = JobsOf(c)
<1>1. /\ IsFiniteSet(S) /\ Cardinality(S) <= Len(Chunks[c])
      /\ Cardinality(S) = Len(Chunks[c]) => S = JobsOf(c)
  BY JobsCount, FS_Subset
<1>2. Cardinality(S) \in Nat
  BY <1>1, FS_CardinalityType
<1> QED  BY <1>1, <1>2, ChunkFacts

LEMMA CaptureOfJob ==
    ASSUME NEW c \in Captures, NEW j \in JobsOf(c)
    PROVE  CaptureOf(j) = c
  BY DEF CaptureOf

LEMMA PolledJob ==
    ASSUME NEW x \in Polls
    PROVE  x = <<x[1], x[2]>> /\ CaptureOf(x[2]) \in Captures /\ x[2] \in JobsOf(CaptureOf(x[2]))
<1>1. PICK c \in Captures : x[2] \in JobsOf(c)
  OBVIOUS
<1> QED  BY <1>1, CaptureOfJob

(* Entries *)

LEMMA EntryFields ==
    ASSUME NEW entry \in Entry
    PROVE  /\ entry.status \in {"none", "submitting", "queued"} \cup Terminal
           /\ entry.expected \in Nat /\ entry.uncertain \in Nat /\ entry.unsure \in BOOLEAN
           /\ entry.jobs \subseteq Jobs /\ Settled(entry) \subseteq Jobs
           /\ entry.done \subseteq Jobs /\ entry.part \subseteq Jobs /\ entry.failed \subseteq Jobs
  BY DEF Entry, Settled

LEMMA NewEntry ==
    ASSUME NEW c \in Captures, NEW texts
    PROVE  /\ EntryOK(c, NoEntry, texts)
           /\ EntryOK(c, [NoEntry EXCEPT !.status = "submitting"], texts)
           /\ [NoEntry EXCEPT !.status = "submitting"].status = "submitting"
           /\ [NoEntry EXCEPT !.status = "submitting"].expected = 0
<1>1. ASSUME NEW entry \in Entry, entry.status \in {"none", "submitting"}, entry.expected = 0,
             entry.jobs = {}, entry.done = {}, entry.part = {}, entry.failed = {},
             entry.unsure = FALSE, entry.uncertain = 0
      PROVE  EntryOK(c, entry, texts)
  <2>1. Settled(entry) = {}
    BY <1>1 DEF Settled
  <2>2. entry.unsure = (entry.uncertain > 0)
    <3>1. ~(entry.uncertain > 0) /\ entry.unsure = FALSE
      BY <1>1
    <3>2. (entry.uncertain > 0) = FALSE
      BY <3>1
    <3> QED  BY <3>1, <3>2
  <2>3. entry.status \notin Terminal
    BY <1>1 DEF Terminal
  <2>4. entry.status \in {"none", "submitting", "queued"} /\ entry.status # "success"
        /\ entry.status # "uncertain"
    BY <1>1
  <2> QED  BY ZenonT(30), <1>1, <2>1, <2>2, <2>3, <2>4 DEF EntryOK
<1>2. /\ NoEntry \in Entry /\ NoEntry.status = "none" /\ NoEntry.expected = 0
      /\ NoEntry.jobs = {} /\ NoEntry.done = {} /\ NoEntry.part = {} /\ NoEntry.failed = {}
      /\ NoEntry.unsure = FALSE /\ NoEntry.uncertain = 0
  BY DEF NoEntry, Entry
<1> DEFINE new == [NoEntry EXCEPT !.status = "submitting"]
<1>3. /\ new \in Entry /\ new.status = "submitting" /\ new.expected = 0
      /\ new.jobs = {} /\ new.done = {} /\ new.part = {} /\ new.failed = {}
      /\ new.unsure = FALSE /\ new.uncertain = 0
  BY <1>2 DEF Entry
<1> HIDE DEF new
<1>4. EntryOK(c, NoEntry, texts)
  BY <1>1, <1>2
<1>5. EntryOK(c, new, texts)
  BY <1>1, <1>3
<1> QED  BY <1>3, <1>4, <1>5 DEF new

\* More texts in the Brain change nothing.
LEMMA MoreTexts ==
    ASSUME NEW c, NEW entry, NEW texts, NEW more, EntryOK(c, entry, texts), texts \subseteq more
    PROVE  EntryOK(c, entry, more)
  BY DEF EntryOK

Started(c, entry) == [entry EXCEPT !.expected = Len(Chunks[c])]

LEMMA StartEntry ==
    ASSUME NEW c \in Captures, NEW texts, NEW entry, EntryOK(c, entry, texts),
           entry.status = "submitting", entry.expected = 0
    PROVE  /\ EntryOK(c, Started(c, entry), texts)
           /\ Started(c, entry).status = "submitting" /\ ~Started(c, entry).unsure
           /\ Started(c, entry).expected = Len(Chunks[c])
           /\ Started(c, entry).jobs = {} /\ Settled(Started(c, entry)) = {}
<1> DEFINE new == Started(c, entry)
<1>1. /\ new \in Entry /\ new.expected = Len(Chunks[c])
      /\ new.status = entry.status /\ new.jobs = entry.jobs /\ new.done = entry.done
      /\ new.part = entry.part /\ new.failed = entry.failed
      /\ new.unsure = entry.unsure /\ new.uncertain = entry.uncertain
  BY ChunkFacts DEF EntryOK, Entry, Started
<1> HIDE DEF new
<1>2. /\ EntryOK(c, new, texts)
      /\ new.status = "submitting" /\ new.expected = Len(Chunks[c]) /\ ~new.unsure
      /\ new.jobs = {} /\ Settled(new) = {}
  BY <1>1, ChunkFacts DEF EntryOK, Settled, Terminal
<1> QED  BY <1>2 DEF new

Recorded(entry, j) == [entry EXCEPT !.status = "queued", !.jobs = @ \cup {j}]

LEMMA RecordEntry ==
    ASSUME NEW c \in Captures, NEW texts, NEW entry, EntryOK(c, entry, texts),
           entry.expected = Len(Chunks[c]), ~entry.unsure, NEW j \in JobsOf(c),
           NEW new, new = Recorded(entry, j)
    PROVE  /\ EntryOK(c, new, texts)
           /\ new.status = "queued" /\ new.expected = Len(Chunks[c]) /\ ~new.unsure
           /\ new.jobs = entry.jobs \cup {j} /\ Settled(new) = Settled(entry)
<1>1. /\ new \in Entry /\ new.expected = entry.expected
      /\ new.status = "queued" /\ new.jobs = entry.jobs \cup {j} /\ new.done = entry.done
      /\ new.part = entry.part /\ new.failed = entry.failed
      /\ new.unsure = entry.unsure /\ new.uncertain = entry.uncertain
  <2>1. entry \in Entry /\ entry.jobs \cup {j} \subseteq Jobs
    BY ChunkFacts DEF EntryOK, Entry
  <2> QED  BY <2>1 DEF Entry, Recorded
<1> QED  BY <1>1, ChunkFacts DEF EntryOK, Settled, Terminal

Unconfirmed(c, entry, jobs) ==
    [entry EXCEPT !.jobs = jobs, !.unsure = TRUE,
                  !.uncertain = Len(Chunks[c]) - Cardinality(jobs),
                  !.status = IF Cardinality(Settled(entry)) >= Cardinality(jobs)
                             THEN "uncertain" ELSE "queued"]

\* A capture whose submission was cut short: what was not accepted is uncertain.
LEMMA UncertainEntry ==
    ASSUME NEW c \in Captures, NEW texts, NEW entry, EntryOK(c, entry, texts),
           entry.expected = Len(Chunks[c]), entry.status \notin Terminal,
           NEW jobs, entry.jobs \subseteq jobs, jobs \subseteq JobsOf(c),
           Cardinality(jobs) < Len(Chunks[c]),
           NEW new, new = Unconfirmed(c, entry, jobs)
    PROVE  /\ EntryOK(c, new, texts)
           /\ new.status \in {"uncertain", "queued"} /\ new.expected = Len(Chunks[c])
<1> DEFINE n == Len(Chunks[c]) - Cardinality(jobs)
<1>1. n \in Nat /\ n > 0 /\ Cardinality(jobs) \in Nat /\ Len(Chunks[c]) \in Nat
  BY SomeJobs, ChunkFacts
<1>2. jobs \subseteq Jobs
  BY ChunkFacts
<1>3. /\ new \in Entry /\ new.expected = entry.expected
      /\ new.status = (IF Cardinality(Settled(entry)) >= Cardinality(jobs) THEN "uncertain" ELSE "queued")
      /\ new.jobs = jobs /\ new.done = entry.done
      /\ new.part = entry.part /\ new.failed = entry.failed
      /\ new.unsure = TRUE /\ new.uncertain = n
  <2>1. entry \in Entry
    BY DEF EntryOK
  <2> HIDE DEF n
  <2>2. new = [entry EXCEPT !.jobs = jobs, !.unsure = TRUE, !.uncertain = n,
                            !.status = IF Cardinality(Settled(entry)) >= Cardinality(jobs)
                                       THEN "uncertain" ELSE "queued"]
    BY DEF n, Unconfirmed
  <2> QED  BY <1>1, <1>2, <2>1, <2>2 DEF Entry, Terminal
<1>4. Settled(new) = Settled(entry)
  BY <1>3 DEF Settled
<1>5. Settled(entry) \subseteq JobsOf(c)
  BY DEF EntryOK
<1>6. Cardinality(Settled(entry)) \in Nat
  BY <1>5, SomeJobs
<1>7. new.status \in {"uncertain", "queued"}
  BY <1>3
<1>8. new.status = "uncertain" => Cardinality(Settled(new)) + new.uncertain >= Len(Chunks[c])
  <2>1. CASE Cardinality(Settled(entry)) >= Cardinality(jobs)
    BY <1>1, <1>3, <1>4, <1>6, <2>1
  <2>2. CASE ~(Cardinality(Settled(entry)) >= Cardinality(jobs))
    BY <1>3, <2>2
  <2> QED  BY <2>1, <2>2
<1>9. /\ new.expected \in {0, Len(Chunks[c])} /\ new.expected # 0
      /\ new.unsure = (new.uncertain > 0) /\ new.uncertain > 0
      /\ new.uncertain = new.expected - Cardinality(new.jobs)
  <2>1. new.uncertain > 0 /\ new.expected = Len(Chunks[c])
    BY <1>1, <1>3
  <2>2. new.expected \in {0, Len(Chunks[c])} /\ new.expected # 0
    BY <1>1, <2>1
  <2>3. new.uncertain = new.expected - Cardinality(new.jobs)
    BY <1>3, <2>1
  <2>4. new.unsure = (new.uncertain > 0)
    BY <1>3, <2>1
  <2> QED  BY <2>1, <2>2, <2>3, <2>4
<1> HIDE DEF n
<1> QED  BY <1>3, <1>4, <1>7, <1>8, <1>9 DEF EntryOK, Terminal

Requeued(entry, jobs) == [entry EXCEPT !.status = "queued", !.jobs = jobs]

LEMMA RequeueEntry ==
    ASSUME NEW c \in Captures, NEW texts, NEW entry, EntryOK(c, entry, texts),
           ~entry.unsure, NEW jobs, jobs \subseteq JobsOf(c),
           entry.expected = 0 => jobs = {},
           NEW new, new = Requeued(entry, jobs)
    PROVE  /\ EntryOK(c, new, texts)
           /\ new.status = "queued" /\ new.expected = entry.expected
<1>1. /\ new \in Entry /\ new.expected = entry.expected
      /\ new.status = "queued" /\ new.jobs = jobs /\ new.done = entry.done
      /\ new.part = entry.part /\ new.failed = entry.failed
      /\ new.unsure = entry.unsure /\ new.uncertain = entry.uncertain
  BY ChunkFacts DEF EntryOK, Entry, Requeued
<1> QED  BY <1>1 DEF EntryOK, Settled, Terminal

\* A job's result is counted once, and a complete group gets its outcome.
LEMMA OutcomeEntry ==
    ASSUME NEW c \in Captures, NEW texts, NEW entry, EntryOK(c, entry, texts),
           entry.expected = Len(Chunks[c]), entry.status \notin Terminal,
           NEW j \in JobsOf(c), j \notin Settled(entry),
           NEW status \in {"success", "partial", "failed"}, status = "success" => j \in texts,
           NEW new, new = WithOutcome(entry, j, status)
    PROVE  /\ EntryOK(c, new, texts)
           /\ new.expected = entry.expected /\ new.jobs = entry.jobs /\ new.unsure = entry.unsure
           /\ Settled(new) = Settled(entry) \cup {j}
           /\ new.status \in Terminal => GroupComplete(new)
           /\ new.status \notin Terminal => new.status = entry.status
<1> DEFINE done == IF status = "success" THEN entry.done \cup {j} ELSE entry.done
           part == IF status = "partial" THEN entry.part \cup {j} ELSE entry.part
           failed == IF status = "failed" THEN entry.failed \cup {j} ELSE entry.failed
           counted == [entry EXCEPT !.done = done, !.part = part, !.failed = failed]
<1>1. entry \in Entry /\ j \in Jobs
  BY ChunkFacts DEF EntryOK
<1>2. done \subseteq Jobs /\ part \subseteq Jobs /\ failed \subseteq Jobs
  BY <1>1, EntryFields
<1>3. j \notin entry.done /\ j \notin entry.part /\ j \notin entry.failed
  BY DEF Settled
<1>4. /\ done \cap part = {} /\ (done \cup part) \cap failed = {}
      /\ done \cup part \cup failed = Settled(entry) \cup {j}
      /\ done \subseteq texts
  BY <1>3 DEF EntryOK, Settled
<1>5. new = IF GroupComplete(counted) THEN [counted EXCEPT !.status = Verdict(counted)] ELSE counted
  BY DEF WithOutcome
<1> HIDE DEF done, part, failed
<1>6. /\ counted \in Entry /\ counted.done = done /\ counted.part = part /\ counted.failed = failed
      /\ counted.status = entry.status /\ counted.expected = entry.expected
      /\ counted.jobs = entry.jobs /\ counted.unsure = entry.unsure
      /\ counted.uncertain = entry.uncertain
  <2>1. counted \in Entry
    BY <1>1, <1>2 DEF Entry
  <2> QED  BY <1>1, <2>1 DEF Entry
<1> HIDE DEF counted
<1>7. Verdict(counted) \in Terminal
  BY DEF Verdict, Terminal
<1>8. /\ new \in Entry /\ new.done = done /\ new.part = part /\ new.failed = failed
      /\ new.expected = entry.expected
      /\ new.jobs = entry.jobs /\ new.unsure = entry.unsure
      /\ new.uncertain = entry.uncertain
      /\ new.status = (IF GroupComplete(counted) THEN Verdict(counted) ELSE entry.status)
  <2>1. CASE GroupComplete(counted)
    <3>1. new = [counted EXCEPT !.status = Verdict(counted)]
      BY <1>5, <2>1
    <3>2. new \in Entry
      BY <1>6, <1>7, <3>1 DEF Entry
    <3> QED  BY <1>6, <2>1, <3>1, <3>2 DEF Entry
  <2>2. CASE ~GroupComplete(counted)
    BY <1>5, <1>6, <2>2
  <2> QED  BY <2>1, <2>2
<1>9. Settled(new) = Settled(entry) \cup {j} /\ Settled(counted) = Settled(new)
  BY <1>4, <1>6, <1>8 DEF Settled
<1>10. GroupComplete(new) = GroupComplete(counted) /\ Verdict(new) = Verdict(counted)
  BY <1>6, <1>8, <1>9 DEF GroupComplete, Verdict
<1>11. new.status \in Terminal => GroupComplete(new) /\ new.status = Verdict(new)
  BY <1>8, <1>10
<1>12. Settled(new) \subseteq JobsOf(c)
  BY <1>9 DEF EntryOK
<1>13. /\ new.unsure = (new.uncertain > 0)
       /\ new.unsure => new.uncertain = new.expected - Cardinality(new.jobs)
       /\ new.jobs \subseteq JobsOf(c)
  BY <1>8 DEF EntryOK
<1>14. new.status = "uncertain" =>
         new.uncertain > 0 /\ Cardinality(Settled(new)) + new.uncertain >= Len(Chunks[c])
  <2> SUFFICES ASSUME new.status = "uncertain"  PROVE  new.uncertain > 0 /\
                   Cardinality(Settled(new)) + new.uncertain >= Len(Chunks[c])
    OBVIOUS
  <2>1. GroupComplete(new) /\ Verdict(new) = "uncertain"
    BY <1>11 DEF Terminal
  <2>2. new.uncertain > 0
    BY <2>1 DEF Verdict
  <2>3. new.unsure
    BY <1>13, <2>2
  <2>4. Cardinality(Settled(new)) >= Cardinality(new.jobs)
    BY <2>1, <2>3 DEF GroupComplete
  <2>5. Cardinality(new.jobs) \in Nat /\ Cardinality(Settled(new)) \in Nat
    BY <1>12, <1>13, SomeJobs
  <2>6. new.uncertain = Len(Chunks[c]) - Cardinality(new.jobs) /\ Len(Chunks[c]) \in Nat
    BY <1>8, <1>13, <2>3, ChunkFacts
  <2> QED  BY <2>2, <2>4, <2>5, <2>6
<1>15. new.status \in Terminal \ {"uncertain"} => Settled(new) = JobsOf(c) /\ ~new.unsure
  <2> SUFFICES ASSUME new.status \in Terminal, new.status # "uncertain"
               PROVE  Settled(new) = JobsOf(c) /\ ~new.unsure
    OBVIOUS
  <2>1. GroupComplete(new) /\ ~(new.uncertain > 0)
    BY <1>11 DEF Verdict
  <2>2. ~new.unsure
    BY <1>13, <2>1
  <2>3. Cardinality(Settled(new)) >= Len(Chunks[c])
    BY <1>8, <2>1, <2>2 DEF GroupComplete
  <2> QED  BY <1>12, <2>2, <2>3, SomeJobs
<1>16. new.status = "success" => new.part = {} /\ new.failed = {}
  BY <1>11 DEF Verdict, Terminal
<1>17. new.expected \in {0, Len(Chunks[c])} /\ new.expected # 0
  BY <1>8, ChunkFacts
<1> QED
  <2>1. EntryOK(c, new, texts)
    BY ZenonT(30), <1>4, <1>8, <1>12, <1>13, <1>14, <1>15, <1>16, <1>17 DEF EntryOK
  <2>2. new.status \notin Terminal => new.status = entry.status
    BY <1>7, <1>8
  <2> QED  BY <1>8, <1>9, <1>11, <2>1, <2>2

(* The Brain *)

LEMMA BrainKeeps ==
    ASSUME BrainOK,
           \/ BrainStep
           \/ \E j \in Jobs : AcceptFile(j) \/ AskJob(j)
           \/ restarts < MaxRestarts /\ restarts' = restarts + 1 /\ UNCHANGED jobVars
           \/ UNCHANGED brainVars
    PROVE  BrainOK' /\ stored \subseteq stored'
<1> USE DEF BrainOK, IngestTypeOK
<1>1. CASE \E j \in Jobs : AcceptFile(j)
  BY <1>1 DEF AcceptFile, Status
<1>2. CASE \E j \in Jobs : AskJob(j)
  BY <1>2 DEF AskJob, Status, Ended
<1>3. CASE restarts < MaxRestarts /\ restarts' = restarts + 1 /\ UNCHANGED jobVars
  BY <1>3 DEF jobVars
<1>4. CASE UNCHANGED brainVars
  BY <1>4 DEF brainVars, jobVars
<1>5. CASE RestartBrain
  BY <1>5 DEF RestartBrain, Status
<1>6. ASSUME NEW j \in Jobs, CancelJob(j)
      PROVE  BrainOK' /\ stored \subseteq stored'
  BY <1>6 DEF CancelJob
<1>7. ASSUME NEW j \in Jobs, ForgetJob(j)
      PROVE  BrainOK' /\ stored \subseteq stored'
  BY <1>7 DEF ForgetJob, Status
<1>8. ASSUME NEW j \in Jobs, Cancelled(j) \/ FailStage(j) \/ StoreText(j) \/ Finish(j)
      PROVE  BrainOK' /\ stored \subseteq stored'
  <2>1. CASE StoreText(j)
    BY <2>1 DEF StoreText
  <2>2. CASE Cancelled(j)
    BY <2>2 DEF Cancelled, EndJob, Status, Ended
  <2>3. CASE FailStage(j)
    BY <2>3 DEF FailStage, EndJob, Status, Ended
  <2>4. CASE Finish(j)
    BY <2>4 DEF Finish, EndJob, Status, Ended
  <2> QED  BY <1>8, <2>1, <2>2, <2>3, <2>4
<1>9. ASSUME NEW j \in Jobs, SaveEnd(j)
      PROVE  BrainOK' /\ stored \subseteq stored'
  BY <1>9 DEF SaveEnd, Status, Ended
<1> QED  BY <1>1, <1>2, <1>3, <1>4, <1>5, <1>6, <1>7, <1>8, <1>9 DEF BrainStep, PipelineStep

\* The Brain answers "success" only for what it stores.
LEMMA AnswerIsStored ==
    ASSUME BrainOK, NEW j \in Jobs, Answer(j) = "success"
    PROVE  j \in stored
  BY DEF BrainOK, Answer

LEMMA AnswerKinds ==
    ASSUME BrainOK, NEW j \in Jobs, Answer(j) \notin {"running", "cancelled", "none"}
    PROVE  Answer(j) \in {"success", "partial", "failed"}
  BY DEF BrainOK, IngestTypeOK, Answer, Status, Ended

(* What a step does to the entries *)

\* Entries stay right, keep the number of their chunks, and an outcome is kept whole.
EntriesChange ==
    /\ audit' \in [Captures -> Entry]
    /\ \A d \in Captures :
         /\ EntryOK(d, audit'[d], stored')
         /\ audit[d].status \in Terminal => audit'[d] = audit[d]
         /\ audit[d].expected # 0 => audit'[d].expected = audit[d].expected

\* Whoever has a new outcome is to be told, and nobody else.
NewOutcomes == {d \in Captures : audit[d].status \notin Terminal /\ audit'[d].status \in Terminal}
TellingChange == telling' = telling \cup NewOutcomes /\ notified' = notified /\ restarts' = restarts

LEMMA SameEntries ==
    ASSUME EntriesOK, stored \subseteq stored', UNCHANGED audit
    PROVE  EntriesChange /\ NewOutcomes = {}
<1>1. \A d \in Captures : EntryOK(d, audit'[d], stored')
  BY MoreTexts DEF EntriesOK
<1> QED  BY <1>1 DEF EntriesOK, EntriesChange, NewOutcomes

LEMMA PutEntry ==
    ASSUME EntriesOK, stored \subseteq stored', NEW c \in Captures, NEW new,
           EntryOK(c, new, stored'), Put(c, new), audit[c].status \notin Terminal,
           audit[c].expected # 0 => new.expected = audit[c].expected
    PROVE  EntriesChange /\ NewOutcomes = IF new.status \in Terminal THEN {c} ELSE {}
<1>1. new \in Entry
  BY DEF EntryOK
<1>2. /\ audit' \in [Captures -> Entry] /\ audit'[c] = new
      /\ \A d \in Captures : d # c => audit'[d] = audit[d]
  BY <1>1 DEF EntriesOK, Put
<1>3. \A d \in Captures : d # c => EntryOK(d, audit'[d], stored')
  BY <1>2, MoreTexts DEF EntriesOK
<1>4. \A d \in Captures : EntryOK(d, audit'[d], stored')
  BY <1>2, <1>3
<1> QED  BY <1>2, <1>4 DEF EntriesChange, NewOutcomes

LEMMA SubmitEntries ==
    ASSUME IInv, NEW c \in Captures,
           PrepareCapture(c) \/ StartChunks(c) \/ RecordChunk(c)
    PROVE  EntriesChange /\ TellingChange
<1>1. /\ EntriesOK /\ stored' = stored /\ EntryOK(c, audit[c], stored)
      /\ telling' = telling /\ notified' = notified /\ restarts' = restarts
  BY DEF IInv, EntriesOK, PrepareCapture, StartChunks, RecordChunk, brainVars, jobVars
<1>2. CASE PrepareCapture(c)
  <2> DEFINE new == [NoEntry EXCEPT !.status = "submitting"]
  <2>1. EntryOK(c, new, stored') /\ new.status = "submitting"
    BY NewEntry
  <2>2. audit[c].status = "none" /\ audit[c].expected = 0
    BY <1>2 DEF IInv, SubmitOK, SubmittedOK, PrepareCapture, At
  <2>3. Put(c, new)
    BY <1>2 DEF PrepareCapture
  <2> HIDE DEF new
  <2>4. EntriesChange /\ NewOutcomes = {}
    BY <1>1, <2>1, <2>2, <2>3, PutEntry DEF Terminal
  <2> QED  BY <1>1, <2>4 DEF TellingChange
<1>3. CASE StartChunks(c)
  <2> DEFINE new == Started(c, audit[c])
  <2>1. audit[c].status = "submitting" /\ audit[c].expected = 0
    BY <1>3 DEF IInv, SubmitOK, SubmittedOK, StartChunks, At
  <2>2. Put(c, new)
    BY <1>3 DEF StartChunks, Started
  <2>3. EntryOK(c, new, stored') /\ new.status = "submitting"
    <3> HIDE CaptureAssumption
    <3>1. EntryOK(c, Started(c, audit[c]), stored) /\ Started(c, audit[c]).status = "submitting"
      BY <1>1, <2>1, StartEntry
    <3> QED  BY <1>1, <3>1
  <2> HIDE DEF new
  <2>4. EntriesChange /\ NewOutcomes = {}
    BY <1>1, <2>1, <2>2, <2>3, PutEntry DEF Terminal
  <2> QED  BY <1>1, <2>4 DEF TellingChange
<1>4. CASE RecordChunk(c)
  <2> DEFINE new == Recorded(audit[c], Chunk(c))
  <2>1. /\ audit[c].status \in {"submitting", "queued"} /\ audit[c].expected = Len(Chunks[c])
        /\ ~audit[c].unsure /\ Chunk(c) \in JobsOf(c)
    <3>1. Active(c) /\ submit[c].sent \in Nat
      BY <1>4 DEF RecordChunk, At, Active, IInv, CallsOK
    <3>2. submit[c].sent + 1 \in 1 .. Len(Chunks[c])
      BY <3>1, ChunkFacts DEF IInv, SubmitOK, SubmittedOK
    <3>3. Chunk(c) \in JobsOf(c)
      BY <3>2, ChunkFacts DEF Chunk, JobsOf
    <3> QED  BY <3>1, <3>3 DEF IInv, SubmitOK, SubmittedOK
  <2>2. Put(c, new)
    BY <1>4 DEF RecordChunk, Recorded
  <2>3. EntryOK(c, new, stored') /\ new.status = "queued" /\ new.expected = audit[c].expected
    BY <1>1, <2>1, RecordEntry
  <2> HIDE DEF new
  <2>4. EntriesChange /\ NewOutcomes = {}
    BY <1>1, <2>1, <2>2, <2>3, PutEntry DEF Terminal
  <2> QED  BY <1>1, <2>4 DEF TellingChange
<1> QED  BY <1>2, <1>3, <1>4

LEMMA MarkEntries ==
    ASSUME IInv, stored' = stored, notified' = notified, restarts' = restarts,
           NEW c \in Captures, audit[c].expected = Len(Chunks[c]),
           NEW accepted \in SUBSET JobsOf(c),
           Cardinality(audit[c].jobs \cup accepted) < Len(Chunks[c]),
           MarkUncertain(c, accepted, Len(Chunks[c]) - Cardinality(audit[c].jobs \cup accepted))
    PROVE  EntriesChange /\ TellingChange
<1> DEFINE jobs == audit[c].jobs \cup accepted
           new == Unconfirmed(c, audit[c], jobs)
<1>1. EntriesOK /\ EntryOK(c, audit[c], stored) /\ telling \subseteq Captures
  BY DEF IInv, EntriesOK, TellOK
<1>2. jobs \subseteq JobsOf(c) /\ audit[c].jobs \subseteq jobs
  BY <1>1 DEF EntryOK
<1>3. CASE audit[c].status \in Terminal
  <2>1. UNCHANGED <<audit, telling>>
    BY <1>3 DEF MarkUncertain
  <2> QED  BY <1>1, <2>1, SameEntries DEF TellingChange
<1>4. CASE audit[c].status \notin Terminal
  <2>1. Put(c, new) /\ Notify(c, new)
    BY <1>4 DEF MarkUncertain, Unconfirmed
  <2>2. EntryOK(c, new, stored') /\ new.expected = Len(Chunks[c])
    <3> HIDE DEF jobs
    <3>1. Cardinality(jobs) < Len(Chunks[c])
      BY DEF jobs
    <3> QED  BY <1>1, <1>2, <1>4, <3>1, UncertainEntry
  <2> HIDE DEF new
  <2>3. EntriesChange /\ NewOutcomes = IF new.status \in Terminal THEN {c} ELSE {}
    BY <1>1, <1>4, <2>1, <2>2, PutEntry
  <2> QED  BY <2>1, <2>3 DEF TellingChange, Notify
<1> QED  BY <1>3, <1>4

LEMMA GiveUpEntries ==
    ASSUME IInv, NEW c \in Captures, GiveUp(c)
    PROVE  EntriesChange /\ TellingChange
<1>1. Active(c) /\ submit[c].sent \in Nat
  BY DEF GiveUp, At, Active, IInv, CallsOK
<1>2. /\ audit[c].expected = Len(Chunks[c]) /\ submit[c].sent < Len(Chunks[c])
      /\ audit[c].jobs = Sent(c)
  BY <1>1 DEF IInv, SubmitOK, SubmittedOK
<1>3. submit[c].sent \in 0 .. Len(Chunks[c])
  BY <1>1, <1>2, ChunkFacts
<1>4. Cardinality(Sent(c)) = submit[c].sent
  BY <1>3, ChunkCount DEF Sent
<1>5. audit[c].jobs \cup {} = Sent(c)
  BY <1>2
<1>6. MarkUncertain(c, {}, Len(Chunks[c]) - Cardinality(audit[c].jobs \cup {}))
  BY <1>4, <1>5 DEF GiveUp
<1>7. stored' = stored /\ notified' = notified /\ restarts' = restarts
  BY DEF GiveUp, brainVars, jobVars
<1>8. Cardinality(audit[c].jobs \cup {}) < Len(Chunks[c])
  BY <1>2, <1>4, <1>5
<1> QED  BY <1>2, <1>6, <1>7, <1>8, MarkEntries

LEMMA RecoverEntries ==
    ASSUME IInv, NEW c \in Captures, RecoverCapture(c)
    PROVE  EntriesChange /\ TellingChange
<1> DEFINE accepted == audit[c].jobs \cup (snapshot \cap JobsOf(c))
           count == Cardinality(accepted)
<1>1. /\ stored' = stored /\ notified' = notified /\ restarts' = restarts
  BY DEF RecoverCapture, brainVars, jobVars
<1>2. EntriesOK /\ EntryOK(c, audit[c], stored)
  BY DEF IInv, EntriesOK
<1>3. accepted \subseteq JobsOf(c)
  BY <1>2 DEF EntryOK
<1>4. count \in Nat
  BY <1>3, SomeJobs
<1>5. audit[c].expected = 0 \/ audit[c].expected = Len(Chunks[c])
  BY <1>2 DEF EntryOK
<1>6. CASE ~Interrupted(audit[c])
  <2>1. UNCHANGED <<audit, telling>>
    BY <1>6 DEF RecoverCapture
  <2> QED  BY <1>1, <1>2, <2>1, SameEntries DEF TellingChange
<1>7. CASE Interrupted(audit[c]) /\ count < audit[c].expected
  <2>1. MarkUncertain(c, accepted, audit[c].expected - count)
    BY <1>7 DEF RecoverCapture
  <2>2. audit[c].expected = Len(Chunks[c])
    BY <1>4, <1>5, <1>7
  <2>3. accepted = audit[c].jobs \cup accepted
    OBVIOUS
  <2> HIDE DEF accepted
  <2> QED  BY <1>1, <1>3, <1>7, <2>1, <2>2, <2>3, MarkEntries
<1>8. CASE Interrupted(audit[c]) /\ ~(count < audit[c].expected)
  <2>1. /\ telling' = telling
        /\ Put(c, IF audit[c].status = "submitting" THEN Requeued(audit[c], accepted) ELSE audit[c])
    BY <1>8 DEF RecoverCapture, Requeued
  <2>2. audit[c].status \notin Terminal /\ ~audit[c].unsure
    BY <1>8 DEF Interrupted, Terminal
  <2>3. CASE audit[c].status = "submitting"
    <3> DEFINE new == Requeued(audit[c], accepted)
    <3>1. audit[c].expected = 0 => accepted = {}
      <4> SUFFICES ASSUME audit[c].expected = 0  PROVE  accepted = {}
        OBVIOUS
      <4>1. audit[c].jobs = {}
        BY <1>2 DEF EntryOK
      <4>2. \A j \in JobsOf(c) : j \notin snapshot
        BY ChunkFacts DEF IInv, LiveOK
      <4> QED  BY <4>1, <4>2
    <3>2. EntryOK(c, new, stored') /\ new.status = "queued" /\ new.expected = audit[c].expected
      <4> HIDE DEF accepted
      <4> QED  BY <1>1, <1>2, <1>3, <2>2, <3>1, RequeueEntry
    <3>3. Put(c, new)
      BY <2>1, <2>3
    <3> HIDE DEF new
    <3>4. EntriesChange /\ NewOutcomes = {}
      BY <1>1, <1>2, <2>2, <3>2, <3>3, PutEntry DEF Terminal
    <3> QED  BY <1>1, <2>1, <3>4 DEF TellingChange
  <2>4. CASE audit[c].status # "submitting"
    <3>1. Put(c, audit[c])
      BY <2>1, <2>4
    <3>2. EntriesChange /\ NewOutcomes = {}
      BY <1>1, <1>2, <2>2, <3>1, PutEntry
    <3> QED  BY <1>1, <2>1, <3>2 DEF TellingChange
  <2> QED  BY <2>3, <2>4
<1> QED  BY <1>6, <1>7, <1>8

\* A poll is of a job that belongs to a capture whose chunks are known.
LEMMA PollKnows ==
    ASSUME IInv, NEW x \in Polls, poll[x] # "idle"
    PROVE  LET c == CaptureOf(x[2]) IN
           /\ c \in Captures /\ x[2] \in JobsOf(c) /\ x[2] \in Jobs
           /\ audit[c].expected = Len(Chunks[c]) /\ EntryOK(c, audit[c], stored)
<1>1. CaptureOf(x[2]) \in Captures /\ x[2] \in JobsOf(CaptureOf(x[2]))
  BY PolledJob
<1>2. Polled(x[2])
  BY DEF Polled
<1> QED  BY <1>1, <1>2, ChunkFacts DEF IInv, LiveOK, EntriesOK

LEMMA OutcomeEntries ==
    ASSUME IInv, stored' = stored, notified' = notified, restarts' = restarts,
           NEW x \in Polls, poll[x] # "idle",
           NEW status \in {"success", "partial", "failed"},
           status = "success" => x[2] \in stored,
           RecordOutcome(x[1], x[2], status)
    PROVE  EntriesChange /\ TellingChange
<1> DEFINE c == CaptureOf(x[2])
           new == WithOutcome(audit[c], x[2], status)
<1>1. /\ c \in Captures /\ x[2] \in JobsOf(c)
      /\ audit[c].expected = Len(Chunks[c]) /\ EntryOK(c, audit[c], stored)
  BY PollKnows
<1>2. EntriesOK
  BY DEF IInv
<1>3. CASE Ignores(audit[c], x[2])
  <2>1. UNCHANGED <<audit, telling>>
    BY <1>3 DEF RecordOutcome
  <2> QED  BY <1>2, <2>1, SameEntries DEF TellingChange
<1>4. CASE ~Ignores(audit[c], x[2])
  <2>1. Put(c, new) /\ Notify(c, new)
    BY <1>4 DEF RecordOutcome
  <2>2. audit[c].status \notin Terminal /\ x[2] \notin Settled(audit[c])
    BY <1>4 DEF Ignores
  <2>3. EntryOK(c, new, stored') /\ new.expected = audit[c].expected
    <3> HIDE DEF c
    <3> QED  BY <1>1, <2>2, OutcomeEntry
  <2> HIDE DEF new
  <2>4. EntriesChange /\ NewOutcomes = IF new.status \in Terminal THEN {c} ELSE {}
    <3> HIDE DEF c
    <3> QED  BY <1>1, <1>2, <2>1, <2>2, <2>3, PutEntry
  <2> QED  BY <2>1, <2>4 DEF TellingChange, Notify
<1> QED  BY <1>3, <1>4

LEMMA PollEntries ==
    ASSUME IInv, NEW x \in Polls, PollAnswer(x[1], x[2]) \/ PollLate(x[1], x[2])
    PROVE  EntriesChange /\ TellingChange
<1>1. x = <<x[1], x[2]>>
  BY PolledJob
<1>2. BrainOK /\ EntriesOK
  BY DEF IInv
<1>3. CASE PollLate(x[1], x[2])
  <2>1. poll[x] # "idle" /\ RecordOutcome(x[1], x[2], "failed")
    BY <1>1, <1>3 DEF PollLate
  <2>2. stored' = stored /\ notified' = notified /\ restarts' = restarts
    BY <1>3 DEF PollLate, brainVars, jobVars
  <2> QED  BY <2>1, <2>2, OutcomeEntries
<1>4. CASE PollAnswer(x[1], x[2])
  <2>1. poll[x] # "idle" /\ notified' = notified
    BY <1>1, <1>4 DEF PollAnswer
  <2>2. stored' = stored /\ restarts' = restarts
    BY <1>4 DEF PollAnswer, AskJob, brainVars, jobVars
  <2>3. CASE UNCHANGED <<audit, telling>>
    BY <1>2, <2>1, <2>2, <2>3, SameEntries DEF TellingChange
  <2>4. CASE ~UNCHANGED <<audit, telling>>
    <3> DEFINE status == IF Answer(x[2]) = "none" THEN "failed" ELSE Answer(x[2])
    <3>1. Answer(x[2]) \notin {"running", "cancelled"} /\ RecordOutcome(x[1], x[2], status)
      BY <1>4, <2>4 DEF PollAnswer
    <3>2. x[2] \in Jobs
      BY <2>1, PollKnows
    <3>3. status \in {"success", "partial", "failed"}
      BY <1>2, <3>1, <3>2, AnswerKinds
    <3>4. status = "success" => x[2] \in stored
      BY <1>2, <3>2, AnswerIsStored
    <3> HIDE DEF status
    <3> QED  BY <2>1, <2>2, <3>1, <3>3, <3>4, OutcomeEntries
  <2> QED  BY <2>3, <2>4
<1> QED  BY <1>3, <1>4

\* The chunk to be sent now is one of the capture's, and was not sent before.
LEMMA NextChunk ==
    ASSUME CallsOK, SubmitOK, NEW c \in Captures, Active(c)
    PROVE  /\ Chunk(c) \in JobsOf(c) /\ Chunk(c) \in Jobs /\ Chunk(c) \notin Sent(c)
           /\ submit[c].sent + 1 \in 1 .. Len(Chunks[c])
           /\ Sent(c) \cup {Chunk(c)} = {Chunks[c][i] : i \in 1 .. submit[c].sent + 1}
<1> DEFINE n == submit[c].sent
<1>1. n \in Nat /\ n < Len(Chunks[c])
  BY DEF CallsOK, SubmitOK, SubmittedOK
<1>2. n + 1 \in 1 .. Len(Chunks[c]) /\ Len(Chunks[c]) \in Nat /\ DOMAIN Chunks[c] = 1 .. Len(Chunks[c])
  BY <1>1, ChunkFacts
<1>3. \A i \in 1 .. n : i \in 1 .. Len(Chunks[c]) /\ i # n + 1
  BY <1>1, <1>2
<1>4. 1 .. n + 1 = (1 .. n) \cup {n + 1}
  BY <1>1
<1>5. Chunk(c) = Chunks[c][n + 1] /\ Sent(c) = {Chunks[c][i] : i \in 1 .. n}
  BY DEF Chunk, Sent
<1>6. Chunk(c) \in JobsOf(c) /\ Chunk(c) \in Jobs
  BY <1>2, <1>5, ChunkFacts DEF JobsOf
<1>7. \A i, k \in DOMAIN Chunks[c] : Chunks[c][i] = Chunks[c][k] => i = k
  OBVIOUS
<1>8. \A i \in 1 .. n : Chunks[c][i] # Chunks[c][n + 1]
  BY <1>2, <1>3, <1>7
<1> HIDE DEF n
<1>9. Chunk(c) \notin Sent(c)
  BY <1>5, <1>8
<1>10. Sent(c) \cup {Chunk(c)} = {Chunks[c][i] : i \in 1 .. n + 1}
  BY <1>4, <1>5
<1> QED  BY <1>2, <1>6, <1>9, <1>10 DEF n

LEMMA BrainStepKeeps ==
    ASSUME IInv, [Next]_vars
    PROVE  BrainOK' /\ stored \subseteq stored'
<1> USE DEF IInv
<1>1. ASSUME NEW c \in Captures, PrepareCapture(c) \/ StartChunks(c) \/ TrackChunk(c)
                                 \/ RecordChunk(c) \/ GiveUp(c) \/ RecoverCapture(c) \/ Tell(c)
      PROVE  UNCHANGED brainVars
  BY <1>1 DEF PrepareCapture, StartChunks, TrackChunk, RecordChunk, GiveUp, RecoverCapture, Tell
<1>2. ASSUME NEW c \in Captures, SendChunk(c)
      PROVE  UNCHANGED brainVars \/ \E j \in Jobs : AcceptFile(j)
  <2>1. Active(c)
    BY <1>2 DEF SendChunk, At, Active
  <2> QED  BY <1>2, <2>1, NextChunk DEF SendChunk
<1>3. ASSUME NEW x \in Polls, PollStep(x[1], x[2]) \/ AskPoll(x[1], x[2]) \/ TimeOutPoll(x[1], x[2])
      PROVE  UNCHANGED brainVars \/ \E j \in Jobs : AskJob(j)
  <2>1. CASE PollAnswer(x[1], x[2])
    <3>1. x[2] \in Jobs
      BY PolledJob, ChunkFacts
    <3> QED  BY <2>1, <3>1 DEF PollAnswer
  <2>2. CASE ~PollAnswer(x[1], x[2])
    BY <1>3, <2>2 DEF PollStep, PollLate, PollSign, PollUntrack, AskPoll, TimeOutPoll, StartPoll
  <2> QED  BY <2>1, <2>2
<1>4. CASE RestartWorker
  <2>1. restarts < MaxRestarts /\ restarts' = restarts + 1 /\ UNCHANGED jobVars
    BY <1>4 DEF RestartWorker
  <2> QED  BY <2>1, BrainKeeps
<1>5. CASE ResumePolls \/ UNCHANGED vars
  <2>1. UNCHANGED brainVars
    BY <1>5 DEF ResumePolls, vars
  <2> QED  BY <2>1, BrainKeeps
<1>6. CASE BrainStep
  BY <1>6, BrainKeeps
<1> QED  BY <1>1, <1>2, <1>3, <1>4, <1>5, <1>6, BrainKeeps DEF Next, SubmitStep, RecoverStep

LEMMA StepEntries ==
    ASSUME IInv, [Next]_vars
    PROVE  EntriesChange
<1>1. EntriesOK /\ stored \subseteq stored'
  BY BrainStepKeeps DEF IInv
<1>2. ASSUME NEW c \in Captures, SendChunk(c) \/ TrackChunk(c) \/ Tell(c)
      PROVE  UNCHANGED audit
  BY <1>2 DEF SendChunk, TrackChunk, Tell, storage
<1>3. ASSUME NEW x \in Polls, AskPoll(x[1], x[2]) \/ TimeOutPoll(x[1], x[2])
                              \/ PollSign(x[1], x[2]) \/ PollUntrack(x[1], x[2])
      PROVE  UNCHANGED audit
  BY <1>3 DEF PollSign, PollUntrack, AskPoll, TimeOutPoll, StartPoll
<1>4. CASE RestartWorker \/ ResumePolls \/ UNCHANGED vars
           \/ (BrainStep /\ UNCHANGED <<storage, memory, notified>>)
  <2>1. UNCHANGED audit
    BY <1>4 DEF RestartWorker, ResumePolls, storage, vars
  <2> QED  BY <1>1, <2>1, SameEntries
<1> QED  BY <1>1, <1>2, <1>3, <1>4, SameEntries, SubmitEntries, GiveUpEntries, RecoverEntries,
            PollEntries DEF Next, SubmitStep, PollStep, RecoverStep

(* Telling the user *)

\* NotifiedOnce, without the cardinality.
ToldFacts ==
    \A c \in Captures :
        /\ audit[c].status \notin Terminal => notified[c] = 0 /\ c \notin telling
        /\ notified[c] = 0 \/ (notified[c] = 1 /\ c \notin telling)
        /\ audit[c].status \in Terminal /\ restarts = 0 => notified[c] = 1 \/ c \in telling

LEMMA ToldCount ==
    ASSUME notified \in [Captures -> Nat]
    PROVE  NotifiedOnce <=> ToldFacts
<1>1. \A c \in Captures :
        Cardinality(telling \cap {c}) = IF c \in telling THEN 1 ELSE 0
  <2> TAKE c \in Captures
  <2>1. CASE c \in telling
    <3>1. telling \cap {c} = {c}
      BY <2>1
    <3> QED  BY <2>1, <3>1, FS_Singleton
  <2>2. CASE c \notin telling
    <3>1. telling \cap {c} = {}
      BY <2>2
    <3> QED  BY <2>2, <3>1, FS_EmptySet
  <2> QED  BY <2>1, <2>2
<1>2. ASSUME NEW c \in Captures
      PROVE  LET told == notified[c] + Cardinality(telling \cap {c}) IN
             (IF audit[c].status \in Terminal THEN told <= 1 /\ (restarts = 0 => told = 1)
              ELSE told = 0)
             <=> /\ audit[c].status \notin Terminal => notified[c] = 0 /\ c \notin telling
                 /\ notified[c] = 0 \/ (notified[c] = 1 /\ c \notin telling)
                 /\ audit[c].status \in Terminal /\ restarts = 0
                      => notified[c] = 1 \/ c \in telling
  <2> DEFINE k == notified[c]
  <2>1. k \in Nat
    OBVIOUS
  <2> HIDE DEF k
  <2>2. CASE c \in telling
    <3>1. k + Cardinality(telling \cap {c}) = k + 1
      BY <1>1, <2>2
    <3>2. (k + 1 <= 1 <=> k = 0) /\ (k + 1 = 1 <=> k = 0) /\ k + 1 # 0
      BY <2>1
    <3> QED  BY <2>2, <3>1, <3>2 DEF k
  <2>3. CASE c \notin telling
    <3>1. k + Cardinality(telling \cap {c}) = k
      BY <1>1, <2>1, <2>3
    <3>2. k <= 1 <=> k = 0 \/ k = 1
      BY <2>1
    <3> QED  BY <2>1, <2>3, <3>1, <3>2 DEF k
  <2> QED  BY <2>2, <2>3
<1> QED  BY <1>2, ZenonT(30) DEF NotifiedOnce, ToldFacts

LEMMA StepTold ==
    ASSUME IInv, [Next]_vars
    PROVE  TellOK'
<1>1. telling \subseteq Captures /\ notified \in [Captures -> Nat] /\ ToldFacts
  BY ToldCount DEF IInv, TellOK
<1>2. restarts \in Nat
  BY DEF IInv, BrainOK, IngestTypeOK
<1>3. /\ EntriesChange
      /\ \A c \in Captures : audit[c].status \in Terminal => audit'[c] = audit[c]
  BY StepEntries DEF EntriesChange
<1> DEFINE Good == telling' \subseteq Captures /\ notified' \in [Captures -> Nat] /\ ToldFacts'
<1>4. ASSUME TellingChange
      PROVE  Good
  BY <1>1, <1>3, <1>4 DEF TellingChange, NewOutcomes, ToldFacts
<1>5. ASSUME NEW c \in Captures, Tell(c)
      PROVE  Good
  <2>1. /\ c \in telling /\ telling' = telling \ {c} /\ restarts' = restarts /\ audit' = audit
        /\ notified' = [notified EXCEPT ![c] = notified[c] + 1]
    BY <1>5 DEF Tell, storage, brainVars
  <2>2. notified[c] = 0
    BY <1>1, <2>1 DEF ToldFacts
  <2>3. notified' \in [Captures -> Nat] /\ notified'[c] = 1
        /\ \A d \in Captures : d # c => notified'[d] = notified[d]
    BY <1>1, <2>1, <2>2
  <2>4. ToldFacts'
    BY <1>1, <2>1, <2>3 DEF ToldFacts
  <2> QED  BY <1>1, <2>1, <2>3, <2>4
<1>6. ASSUME RestartWorker
      PROVE  Good
  <2>1. telling' = {} /\ notified' = notified /\ audit' = audit /\ restarts' # 0
    BY <1>2, <1>6 DEF RestartWorker, storage
  <2> QED  BY <1>1, <2>1 DEF ToldFacts
<1>7. ASSUME BrainStep, UNCHANGED <<storage, memory, notified>>
      PROVE  Good
  <2>1. telling' = telling /\ notified' = notified /\ audit' = audit
    BY <1>7 DEF storage, memory
  <2>2. restarts' = 0 => restarts = 0
    BY <1>2, <1>7 DEF BrainStep, PipelineStep, Cancelled, FailStage, StoreText, Finish, EndJob, SaveEnd,
                      CancelJob, ForgetJob, RestartBrain
  <2> QED  BY <1>1, <2>1, <2>2 DEF ToldFacts
<1>8. ASSUME UNCHANGED <<audit, telling, notified, restarts>>
      PROVE  Good
  BY <1>1, <1>8 DEF ToldFacts
<1>9. ASSUME NEW c \in Captures, SendChunk(c) \/ TrackChunk(c)
      PROVE  UNCHANGED <<audit, telling, notified, restarts>>
  BY <1>9 DEF SendChunk, TrackChunk, storage, AcceptFile, brainVars
<1>10. ASSUME NEW x \in Polls, AskPoll(x[1], x[2]) \/ TimeOutPoll(x[1], x[2])
                               \/ PollSign(x[1], x[2]) \/ PollUntrack(x[1], x[2])
      PROVE  UNCHANGED <<audit, telling, notified, restarts>>
  BY <1>10 DEF PollSign, PollUntrack, AskPoll, TimeOutPoll, StartPoll, brainVars
<1>11. ASSUME ResumePolls \/ UNCHANGED vars
       PROVE  Good
  <2>1. UNCHANGED <<audit, telling, notified, restarts>>
    BY <1>11 DEF ResumePolls, storage, memory, vars, brainVars
  <2> QED  BY <1>8, <2>1
<1>12. Good
  <2> HIDE DEF Good
  <2> QED  BY <1>4, <1>5, <1>6, <1>7, <1>8, <1>9, <1>10, <1>11, SubmitEntries, GiveUpEntries,
              RecoverEntries, PollEntries DEF Next, SubmitStep, PollStep, RecoverStep
<1>13. NotifiedOnce'
  <2>1. (notified \in [Captures -> Nat])' => (NotifiedOnce <=> ToldFacts)'
    BY ToldCount, PTL
  <2> QED  BY <1>12, <2>1
<1> QED  BY <1>12, <1>13 DEF TellOK

(* Calls *)

SubmitType ==
    /\ submit \in [Captures -> [at : {"idle", "prepared", "sending", "answered", "tracked",
                                      "failing", "over"},
                                sent : Nat]]
    /\ \A c \in Captures : submit[c].sent <= Len(Chunks[c])

LEMMA SubmitGoes ==
    ASSUME CallsOK, NEW c \in Captures,
           NEW where \in {"prepared", "sending", "answered", "tracked", "failing"}, Goes(c, where)
    PROVE  /\ SubmitType'
           /\ submit'[c].at = where /\ submit'[c].sent = submit[c].sent
           /\ \A d \in Captures : d # c => submit'[d] = submit[d]
<1> DEFINE places == {"idle", "prepared", "sending", "answered", "tracked", "failing", "over"}
           new == [at |-> where, sent |-> submit[c].sent]
<1>1. submit \in [Captures -> [at : places, sent : Nat]] /\ where \in places
  BY DEF CallsOK
<1>2. submit[c] \in [at : places, sent : Nat]
  BY <1>1
<1> HIDE DEF places
<1>3. [submit[c] EXCEPT !.at = where] = new
  BY <1>2
<1>4. submit' = [submit EXCEPT ![c] = new]
  BY <1>1, <1>3 DEF Goes
<1>5. new \in [at : places, sent : Nat] /\ new.at = where /\ new.sent = submit[c].sent
  BY <1>1, <1>2
<1> HIDE DEF new
<1>6. /\ submit' \in [Captures -> [at : places, sent : Nat]] /\ submit'[c] = new
      /\ \A d \in Captures : d # c => submit'[d] = submit[d]
  BY <1>1, <1>4, <1>5
<1> QED  BY <1>5, <1>6 DEF CallsOK, SubmitType, places

LEMMA SubmitPut ==
    ASSUME CallsOK, NEW c \in Captures, NEW where \in {"sending", "over"},
           NEW n \in Nat, n <= Len(Chunks[c]),
           submit' = [submit EXCEPT ![c] = [at |-> where, sent |-> n]]
    PROVE  /\ SubmitType'
           /\ submit'[c].at = where /\ submit'[c].sent = n
           /\ \A d \in Captures : d # c => submit'[d] = submit[d]
  BY DEF CallsOK, SubmitType

LEMMA StepCalls ==
    ASSUME IInv, [Next]_vars
    PROVE  CallsOK'
<1> USE DEF CallsOK
<1>0. CallsOK /\ SubmitOK
  BY DEF IInv
<1>1. ASSUME NEW c \in Captures, PrepareCapture(c) \/ StartChunks(c) \/ SendChunk(c) \/ GiveUp(c)
      PROVE  CallsOK'
  <2>1. SubmitType'
    <3>1. CASE \E where \in {"prepared", "sending", "answered", "failing"} : Goes(c, where)
      BY <1>0, <3>1, SubmitGoes
    <3>2. CASE GiveUp(c)
      <4>1. submit' = [submit EXCEPT ![c] = [at |-> "over", sent |-> 0]] /\ 0 <= Len(Chunks[c])
        BY <3>2, ChunkFacts DEF GiveUp, Over
      <4> QED  BY <1>0, <4>1, SubmitPut
    <3> QED  BY <1>1, <3>1, <3>2 DEF PrepareCapture, StartChunks, SendChunk
  <2>2. /\ poll' = poll /\ pending' = pending /\ alarms' = alarms /\ worker' = worker
        /\ snapshot' = snapshot /\ recovering' = recovering
    BY <1>1 DEF PrepareCapture, StartChunks, SendChunk, GiveUp, storage
  <2> QED  BY <1>0, <2>1, <2>2 DEF SubmitType
<1>2. ASSUME NEW c \in Captures, TrackChunk(c)
      PROVE  CallsOK'
  <2>1. Active(c) /\ worker = "up"
    BY <1>0, <1>2 DEF TrackChunk, At, Active, SubmitOK, SubmittedOK
  <2>2. Chunk(c) \in Jobs
    BY <1>0, <2>1, NextChunk
  <2>3. SubmitType'
    BY <1>0, <1>2, SubmitGoes DEF TrackChunk
  <2>4. /\ poll' = poll /\ pending' \subseteq Jobs /\ alarms' = alarms /\ worker' = worker
        /\ snapshot' = snapshot /\ recovering' = recovering
    BY <1>0, <1>2, <2>2 DEF TrackChunk
  <2> QED  BY <1>0, <2>3, <2>4 DEF SubmitType
<1>3. ASSUME NEW c \in Captures, RecordChunk(c)
      PROVE  CallsOK'
  <2>1. Active(c)
    BY <1>3 DEF RecordChunk, At, Active
  <2>2. Chunk(c) \in Jobs /\ submit[c].sent + 1 \in 1 .. Len(Chunks[c])
    BY <1>0, <2>1, NextChunk
  <2>3. \A d \in Captures : submit[d].sent \in Nat /\ 0 <= Len(Chunks[d]) /\ Len(Chunks[d]) \in Nat
    BY <1>0, ChunkFacts
  <2> QED  BY <1>0, <1>3, <2>2, <2>3 DEF RecordChunk, Over
<1>4. ASSUME NEW c \in Captures, Tell(c) \/ RecoverCapture(c)
      PROVE  CallsOK'
  BY <1>0, <1>4 DEF Tell, RecoverCapture, storage
<1>5. ASSUME NEW x \in Polls, PollStep(x[1], x[2]) \/ AskPoll(x[1], x[2]) \/ TimeOutPoll(x[1], x[2])
      PROVE  CallsOK'
  <2>1. x = <<x[1], x[2]>>
    BY PolledJob
  <2>2. \/ poll' = poll
        \/ \E where \in {"idle", "asking", "late", "sign", "untrack"} : poll' = [poll EXCEPT ![x] = where]
    BY <1>5, <2>1 DEF PollStep, PollAnswer, PollLate, PollSign, PollUntrack, RecordOutcome,
                      AskPoll, TimeOutPoll, StartPoll, PollGoes
  <2>3. /\ submit' = submit /\ pending' \subseteq pending /\ alarms' \subseteq alarms
        /\ worker' = worker /\ snapshot' = snapshot /\ recovering' = recovering
    BY <1>5 DEF PollStep, PollAnswer, PollLate, PollSign, PollUntrack,
                AskPoll, TimeOutPoll, StartPoll
  <2> QED  BY <1>0, <2>2, <2>3
<1>6. ASSUME RestartWorker
      PROVE  CallsOK'
  <2>1. \A d \in Captures : 0 <= Len(Chunks[d])
    BY ChunkFacts
  <2> QED  BY <1>0, <1>6, <2>1 DEF RestartWorker, Over, storage
<1>7. ASSUME ResumePolls
      PROVE  CallsOK'
  BY <1>0, <1>7 DEF ResumePolls
<1>8. ASSUME UNCHANGED <<storage, memory, notified>>
      PROVE  CallsOK'
  BY <1>0, <1>8 DEF storage, memory
<1> QED  BY <1>1, <1>2, <1>3, <1>4, <1>5, <1>6, <1>7, <1>8 DEF Next, SubmitStep, RecoverStep, vars

\* Where a polled or pending job comes from.
LEMMA StepPolled ==
    ASSUME IInv, [Next]_vars, NEW j
    PROVE  /\ Polled(j)' => \/ Polled(j)
                            \/ \E c \in Captures : RecordChunk(c) /\ j = Chunk(c)
                            \/ worker = "recovering" /\ j \in snapshot
           /\ j \in pending' => j \in pending \/ \E c \in Captures : TrackChunk(c) /\ j = Chunk(c)
           /\ j \in snapshot' => j \in snapshot \cup pending
<1> DEFINE Kept == alarms' \subseteq alarms /\ pending' \subseteq pending /\ snapshot' = snapshot
<1>1. ASSUME NEW c \in Captures, PrepareCapture(c) \/ StartChunks(c) \/ SendChunk(c) \/ GiveUp(c)
                                 \/ Tell(c) \/ RecoverCapture(c)
      PROVE  Kept /\ poll' = poll
  BY <1>1 DEF PrepareCapture, StartChunks, SendChunk, GiveUp, Tell, RecoverCapture, storage
<1>2. ASSUME NEW c \in Captures, TrackChunk(c)
      PROVE  alarms' = alarms /\ poll' = poll /\ pending' = pending \cup {Chunk(c)} /\ snapshot' = snapshot
  BY <1>2 DEF TrackChunk
<1>3. ASSUME NEW c \in Captures, RecordChunk(c)
      PROVE  alarms' = alarms \cup {Chunk(c)} /\ poll' = poll /\ pending' = pending /\ snapshot' = snapshot
  BY <1>3 DEF RecordChunk
<1>4. ASSUME NEW x \in Polls, PollStep(x[1], x[2]) \/ AskPoll(x[1], x[2]) \/ TimeOutPoll(x[1], x[2])
      PROVE  Kept /\ (Polled(j)' => Polled(j))
  <2>1. x = <<x[1], x[2]>>
    BY PolledJob
  <2>2. Kept
    BY <1>4 DEF PollStep, PollAnswer, PollLate, PollSign, PollUntrack, AskPoll, TimeOutPoll, StartPoll
  <2>3. \A y \in Polls : y # x => poll'[y] = poll[y]
    BY <1>4, <2>1 DEF PollStep, PollAnswer, PollLate, PollSign, PollUntrack, RecordOutcome,
                      AskPoll, TimeOutPoll, StartPoll, PollGoes, IInv, CallsOK
  <2>4. Polled(x[2])
    BY <1>4, <2>1 DEF PollStep, PollAnswer, PollLate, PollSign, PollUntrack,
                      AskPoll, TimeOutPoll, StartPoll, Polled
  <2> QED  BY <2>2, <2>3, <2>4 DEF Polled
<1>5. ASSUME RestartWorker
      PROVE  alarms' = alarms /\ pending' = pending /\ snapshot' = pending /\ \A x \in Polls : poll'[x] = "idle"
  BY <1>5 DEF RestartWorker, storage
<1>6. ASSUME ResumePolls
      PROVE  /\ worker = "recovering" /\ alarms' = alarms \cup snapshot /\ poll' = poll
             /\ pending' = pending /\ snapshot' = {}
  BY <1>6 DEF ResumePolls
<1>7. ASSUME UNCHANGED <<storage, memory, notified>>
      PROVE  Kept /\ poll' = poll
  BY <1>7 DEF storage, memory
<1> DEFINE Goal == /\ Polled(j)' => \/ Polled(j)
                                    \/ \E c \in Captures : RecordChunk(c) /\ j = Chunk(c)
                                    \/ worker = "recovering" /\ j \in snapshot
                   /\ j \in pending' => j \in pending \/ \E c \in Captures : TrackChunk(c) /\ j = Chunk(c)
                   /\ j \in snapshot' => j \in snapshot \cup pending
<1>8. ASSUME Kept, poll' = poll  PROVE Goal
  BY <1>8 DEF Polled
<1>9. ASSUME NEW c \in Captures, TrackChunk(c)  PROVE Goal
  BY <1>2, <1>9 DEF Polled
<1>10. ASSUME NEW c \in Captures, RecordChunk(c)  PROVE Goal
  BY <1>3, <1>10 DEF Polled
<1>11. ASSUME Kept, Polled(j)' => Polled(j)  PROVE Goal
  BY <1>11
<1>12. ASSUME RestartWorker  PROVE Goal
  BY <1>5, <1>12 DEF Polled
<1>13. ASSUME ResumePolls  PROVE Goal
  BY <1>6, <1>13 DEF Polled
<1> HIDE DEF Goal, Kept
<1>14. Goal
  BY <1>1, <1>4, <1>7, <1>8, <1>9, <1>10, <1>11, <1>12, <1>13
     DEF Next, SubmitStep, RecoverStep, vars
<1> QED  BY <1>14 DEF Goal

LEMMA StepLive ==
    ASSUME IInv, [Next]_vars
    PROVE  LiveOK'
<1> SUFFICES ASSUME NEW c \in Captures, NEW j \in JobsOf(c),
                    Polled(j)' \/ j \in pending' \cup snapshot'
             PROVE  audit'[c].expected = Len(Chunks[c])
  BY DEF LiveOK
<1>1. ASSUME NEW d \in Captures, RecordChunk(d) \/ TrackChunk(d), j = Chunk(d)
      PROVE  audit[c].expected = Len(Chunks[c])
  <2>1. Active(d)
    BY <1>1 DEF RecordChunk, TrackChunk, At, Active
  <2>2. j \in JobsOf(d)
    BY <1>1, <2>1, NextChunk DEF IInv
  <2>3. c = d
    BY <2>2
  <2> QED  BY <2>1, <2>3 DEF IInv, SubmitOK, SubmittedOK
<1>2. Polled(j) \/ j \in pending \cup snapshot \/ audit[c].expected = Len(Chunks[c])
  BY <1>1, StepPolled
<1>3. audit[c].expected = Len(Chunks[c]) /\ Len(Chunks[c]) # 0
  BY <1>2, ChunkFacts DEF IInv, LiveOK
<1> QED  BY <1>3, StepEntries DEF EntriesChange

(* Submission *)

LEMMA SubmitKept ==
    ASSUME IInv, NEW c \in Captures, submit'[c] = submit[c], audit'[c] = audit[c],
           worker' = worker \/ worker = "recovering",
           Active(c) => \A j \in JobsOf(c) : Polled(j)' => Polled(j)
    PROVE  SubmittedOK(c)'
<1>1. SubmittedOK(c) /\ worker \in {"recovering", "up"}
  BY DEF IInv, SubmitOK, CallsOK
<1>2. Sent(c)' = Sent(c) /\ (Active(c)' <=> Active(c))
  BY DEF Sent, Active
<1> QED  BY <1>1, <1>2 DEF SubmittedOK

\* Nothing settles a capture while it is submitted: not all of its chunks were sent.
LEMMA OutcomeKeepsActive ==
    ASSUME IInv, NEW c \in Captures, Active(c), NEW j \in Sent(c), j \notin Settled(audit[c]),
           NEW status \in {"success", "partial", "failed"}, status = "success" => j \in stored,
           NEW new, new = WithOutcome(audit[c], j, status)
    PROVE  /\ new.expected = audit[c].expected /\ new.jobs = audit[c].jobs
           /\ new.unsure = audit[c].unsure /\ new.status = audit[c].status
           /\ Settled(new) \subseteq Sent(c)
<1>1. /\ audit[c].expected = Len(Chunks[c]) /\ ~audit[c].unsure
      /\ audit[c].status \notin Terminal
      /\ submit[c].sent < Len(Chunks[c]) /\ Settled(audit[c]) \subseteq Sent(c)
      /\ submit[c].sent \in Nat
  BY DEF IInv, SubmitOK, SubmittedOK, Terminal, CallsOK
<1>2. submit[c].sent \in 0 .. Len(Chunks[c])
  BY <1>1, ChunkFacts
<1>3. Sent(c) \subseteq JobsOf(c) /\ IsFiniteSet(Sent(c)) /\ Cardinality(Sent(c)) = submit[c].sent
  BY <1>2, ChunkCount DEF Sent
<1>4. EntryOK(c, audit[c], stored)
  BY DEF IInv, EntriesOK
<1>5. /\ new.expected = audit[c].expected /\ new.jobs = audit[c].jobs
      /\ new.unsure = audit[c].unsure /\ Settled(new) = Settled(audit[c]) \cup {j}
      /\ new.status \in Terminal => GroupComplete(new)
      /\ new.status \notin Terminal => new.status = audit[c].status
  BY <1>1, <1>3, <1>4, OutcomeEntry
<1>6. Settled(new) \subseteq Sent(c)
  BY <1>1, <1>5
<1>7. Cardinality(Settled(new)) <= submit[c].sent /\ Cardinality(Settled(new)) \in Nat
  BY <1>3, <1>6, FS_Subset, FS_CardinalityType
<1>8. ~GroupComplete(new)
  <2>1. ~(Cardinality(Settled(new)) >= Len(Chunks[c]))
    BY <1>1, <1>7, ChunkFacts
  <2> QED  BY <1>1, <1>5, <2>1 DEF GroupComplete
<1> QED  BY <1>5, <1>6, <1>8

LEMMA OutcomeSubmit ==
    ASSUME IInv, stored' = stored, UNCHANGED <<submit, worker>>,
           NEW x \in Polls, poll[x] # "idle",
           NEW status \in {"success", "partial", "failed"},
           status = "success" => x[2] \in stored,
           RecordOutcome(x[1], x[2], status), NEW d \in Captures,
           Active(d) => \A j \in JobsOf(d) : Polled(j)' => Polled(j)
    PROVE  SubmittedOK(d)'
<1> DEFINE c == CaptureOf(x[2])
           new == WithOutcome(audit[c], x[2], status)
<1>1. /\ c \in Captures /\ x[2] \in JobsOf(c)
      /\ audit[c].expected = Len(Chunks[c]) /\ EntryOK(c, audit[c], stored)
  BY PollKnows
<1>2. CASE audit'[d] = audit[d]
  BY <1>2, SubmitKept
<1>3. CASE audit'[d] # audit[d]
  <2>1. ~Ignores(audit[c], x[2]) /\ Put(c, new)
    BY <1>3 DEF RecordOutcome
  <2>2. d = c /\ audit'[d] = new /\ x[2] \notin Settled(audit[c])
    BY <1>3, <2>1 DEF Put, IInv, EntriesOK, Ignores
  <2>3. SubmittedOK(d)
    BY DEF IInv, SubmitOK
  <2>4. submit[d].at \notin {"idle", "prepared"}
    BY <1>1, <2>2, <2>3, ChunkFacts DEF SubmittedOK
  <2>5. Sent(d)' = Sent(d) /\ (Active(d)' <=> Active(d))
    BY DEF Sent, Active
  <2>6. CASE ~Active(d)
    BY <2>3, <2>4, <2>5, <2>6 DEF SubmittedOK
  <2>7. CASE Active(d)
    <3>1. x[2] \in Sent(d)
      <4>1. Polled(x[2])
        BY DEF Polled
      <4> QED  BY <1>1, <2>2, <2>3, <2>7, <4>1 DEF SubmittedOK
    <3>2. /\ new.expected = audit[d].expected /\ new.jobs = audit[d].jobs
          /\ new.unsure = audit[d].unsure /\ new.status = audit[d].status
          /\ Settled(new) \subseteq Sent(d)
      <4> HIDE DEF c
      <4> QED  BY <2>2, <2>7, <3>1, OutcomeKeepsActive
    <3> HIDE DEF new
    <3> QED  BY <2>2, <2>3, <2>4, <2>5, <2>7, <3>2 DEF SubmittedOK
  <2> QED  BY <2>6, <2>7
<1> QED  BY <1>2, <1>3

\* A step of one capture's submission, seen from that capture.
LEMMA OwnSubmit ==
    ASSUME IInv, NEW c \in Captures,
           PrepareCapture(c) \/ SubmitStep(c)
    PROVE  SubmittedOK(c)'
<1>1. CallsOK /\ SubmittedOK(c) /\ EntriesOK /\ EntryOK(c, audit[c], stored)
  BY DEF IInv, SubmitOK, EntriesOK
<1>2. CASE PrepareCapture(c)
  <2>1. worker' = "up" /\ Goes(c, "prepared") /\ Put(c, [NoEntry EXCEPT !.status = "submitting"])
        /\ submit[c].sent = 0
    BY <1>1, <1>2 DEF PrepareCapture, At, SubmittedOK
  <2>2. submit'[c].at = "prepared" /\ submit'[c].sent = 0
    BY <1>1, <2>1, SubmitGoes
  <2>3. audit'[c].status = "submitting" /\ audit'[c].expected = 0
    BY <1>1, <2>1, NewEntry DEF Put, EntriesOK
  <2> QED  BY <2>1, <2>2, <2>3 DEF SubmittedOK, Active
<1>3. CASE StartChunks(c)
  <2>1. /\ worker' = worker /\ Goes(c, "sending") /\ submit[c].at = "prepared"
        /\ Put(c, [audit[c] EXCEPT !.expected = Len(Chunks[c])]) /\ poll' = poll /\ alarms' = alarms
    BY <1>3 DEF StartChunks, At
  <2>2. /\ audit[c].status = "submitting" /\ audit[c].expected = 0 /\ worker = "up" /\ submit[c].sent = 0
    BY <1>1, <2>1 DEF SubmittedOK
  <2>3. submit'[c].at = "sending" /\ submit'[c].sent = 0
    BY <1>1, <2>1, <2>2, SubmitGoes
  <2> DEFINE new == Started(c, audit[c])
  <2>4. audit'[c] = new
    BY <1>1, <2>1 DEF Put, EntriesOK, Started
  <2>5. /\ new.status = "submitting" /\ new.expected = Len(Chunks[c]) /\ ~new.unsure
        /\ new.jobs = {} /\ Settled(new) = {}
    <3>1. audit[c].status = "submitting" /\ audit[c].expected = 0 /\ EntryOK(c, audit[c], stored)
      BY <1>1, <2>2
    <3> DEFINE e == audit[c]
    <3> HIDE DEF e
    <3>2. /\ Started(c, e).status = "submitting" /\ ~Started(c, e).unsure
          /\ Started(c, e).expected = Len(Chunks[c])
          /\ Started(c, e).jobs = {} /\ Settled(Started(c, e)) = {}
      <4>1. e.status = "submitting" /\ e.expected = 0 /\ EntryOK(c, e, stored)
        BY <3>1 DEF e
      <4> QED  BY ONLY <4>1, StartEntry, c \in Captures
    <3> QED  BY <3>2 DEF e
  <2> HIDE DEF new
  <2>6. \A j \in JobsOf(c) : ~Polled(j)
    BY <2>2, ChunkFacts DEF IInv, LiveOK
  <2>7. \A j \in JobsOf(c) : ~Polled(j)'
    BY <2>1, <2>6 DEF Polled
  <2>8. Sent(c)' = {}
    BY <2>3 DEF Sent
  <2> QED  BY <2>1, <2>2, <2>3, <2>4, <2>5, <2>7, <2>8, ChunkFacts DEF SubmittedOK, Active
<1>4. ASSUME NEW where \in {"answered", "failing", "tracked"}, Goes(c, where), Active(c),
             UNCHANGED <<audit, worker, poll, alarms>>
      PROVE  SubmittedOK(c)'
  <2>1. submit'[c].at = where /\ submit'[c].sent = submit[c].sent
    BY <1>1, <1>4, SubmitGoes
  <2>2. Sent(c)' = Sent(c) /\ Active(c)'
    BY <2>1 DEF Sent, Active
  <2>3. \A j : Polled(j)' <=> Polled(j)
    BY <1>4 DEF Polled
  <2> QED  BY <1>1, <1>4, <2>1, <2>2, <2>3 DEF SubmittedOK, Active
<1>5. CASE SendChunk(c)
  <2>1. Active(c) /\ UNCHANGED <<audit, worker, poll, alarms>>
    BY <1>5 DEF SendChunk, At, Active, storage
  <2>2. Goes(c, "answered") \/ Goes(c, "failing")
    BY <1>5 DEF SendChunk
  <2> QED  BY <1>4, <2>1, <2>2
<1>6. CASE TrackChunk(c)
  <2>1. Active(c) /\ UNCHANGED <<audit, worker, poll, alarms>> /\ Goes(c, "tracked")
    BY <1>6 DEF TrackChunk, At, Active
  <2> QED  BY <1>4, <2>1
<1>7. ASSUME submit'[c].at = "over"
      PROVE  SubmittedOK(c)'
  BY <1>7 DEF SubmittedOK, Active
<1>8. CASE GiveUp(c)
  <2>1. submit'[c].at = "over"
    BY <1>1, <1>8 DEF GiveUp, Over, CallsOK
  <2> QED  BY <1>7, <2>1
<1>9. CASE RecordChunk(c)
  <2> DEFINE n == submit[c].sent
             new == Recorded(audit[c], Chunk(c))
  <2>1. Active(c) /\ submit[c].at = "tracked"
    BY <1>9 DEF RecordChunk, At, Active
  <2>2. CASE n + 1 = Len(Chunks[c])
    <3>1. submit'[c].at = "over"
      BY <1>1, <1>9, <2>2 DEF RecordChunk, Over, CallsOK
    <3> QED  BY <1>7, <3>1
  <2>3. CASE n + 1 # Len(Chunks[c])
    <3>1. /\ Chunk(c) \in JobsOf(c) /\ n \in Nat
          /\ Sent(c) \cup {Chunk(c)} = {Chunks[c][i] : i \in 1 .. n + 1}
          /\ n + 1 < Len(Chunks[c])
      <4>1. n \in Nat /\ n < Len(Chunks[c]) /\ Len(Chunks[c]) \in Nat
        BY <1>1, <2>1, ChunkFacts DEF SubmittedOK, CallsOK
      <4>2. n + 1 < Len(Chunks[c])
        BY <2>3, <4>1
      <4> QED  BY <2>1, <4>1, <4>2, NextChunk DEF IInv
    <3>2. submit'[c].at = "sending" /\ submit'[c].sent = n + 1
      <4>1. submit' = [submit EXCEPT ![c] = [at |-> "sending", sent |-> n + 1]]
        BY <1>9, <2>3 DEF RecordChunk
      <4>2. n + 1 \in Nat /\ n + 1 <= Len(Chunks[c])
        BY <3>1, ChunkFacts
      <4> HIDE DEF n
      <4> QED  BY <1>1, <4>1, <4>2, SubmitPut
    <3>3. Sent(c)' = Sent(c) \cup {Chunk(c)}
      <4> HIDE DEF n
      <4>1. Sent(c)' = {Chunks[c][i] : i \in 1 .. n + 1}
        BY <3>2 DEF Sent
      <4> QED  BY <3>1, <4>1
    <3>4. /\ worker' = worker /\ audit'[c] = new /\ poll' = poll /\ alarms' = alarms \cup {Chunk(c)}
      BY <1>1, <1>9 DEF RecordChunk, Put, EntriesOK, Recorded
    <3>5. /\ audit[c].expected = Len(Chunks[c]) /\ ~audit[c].unsure
          /\ audit[c].jobs = Sent(c) /\ Settled(audit[c]) \subseteq Sent(c) /\ worker = "up"
          /\ \A j \in JobsOf(c) : Polled(j) => j \in Sent(c)
      BY <1>1, <2>1 DEF SubmittedOK
    <3>6. /\ new.status = "queued" /\ new.expected = Len(Chunks[c]) /\ ~new.unsure
          /\ new.jobs = audit[c].jobs \cup {Chunk(c)} /\ Settled(new) = Settled(audit[c])
      BY <1>1, <3>1, <3>5, RecordEntry
    <3>7. \A j \in JobsOf(c) : Polled(j)' => j \in Sent(c) \cup {Chunk(c)}
      BY <3>4, <3>5 DEF Polled
    <3> HIDE DEF new, n
    <3> QED  BY <3>1, <3>2, <3>3, <3>4, <3>5, <3>6, <3>7 DEF SubmittedOK, Active
  <2> QED  BY <2>2, <2>3
<1> QED  BY <1>2, <1>3, <1>5, <1>6, <1>8, <1>9 DEF SubmitStep

LEMMA StepSubmit ==
    ASSUME IInv, [Next]_vars
    PROVE  SubmitOK'
<1> SUFFICES ASSUME NEW d \in Captures  PROVE SubmittedOK(d)'
  BY DEF SubmitOK
<1>1. CASE PrepareCapture(d) \/ SubmitStep(d)
  BY <1>1, OwnSubmit
<1>2. CASE ~(PrepareCapture(d) \/ SubmitStep(d))
  <2>1. SubmittedOK(d) /\ CallsOK /\ SubmitOK /\ EntriesOK /\ BrainOK
    BY DEF IInv, SubmitOK
  <2>2. ASSUME Active(d), NEW j \in JobsOf(d), Polled(j)'
        PROVE  Polled(j)
    <3>1. worker = "up"
      BY <2>1, <2>2 DEF Active, SubmittedOK
    <3>2. ASSUME NEW e \in Captures, RecordChunk(e), j = Chunk(e)
          PROVE  FALSE
      <4>1. Active(e)
        BY <3>2 DEF RecordChunk, At, Active
      <4>2. j \in JobsOf(e)
        BY <2>1, <3>2, <4>1, NextChunk
      <4>3. d = e
        BY <4>2
      <4> QED  BY <1>2, <3>2, <4>3 DEF SubmitStep
    <3> QED  BY <2>2, <3>1, <3>2, StepPolled
  <2>3. ASSUME submit'[d] = submit[d], audit'[d] = audit[d], worker' = worker \/ worker = "recovering"
        PROVE  SubmittedOK(d)'
    BY <2>2, <2>3, SubmitKept
  <2>4. ASSUME NEW c \in Captures, PrepareCapture(c) \/ SubmitStep(c)
        PROVE  SubmittedOK(d)'
    <3>1. c # d
      BY <1>2, <2>4
    <3>2. worker' = worker
      BY <2>4 DEF PrepareCapture, SubmitStep, StartChunks, SendChunk, TrackChunk, RecordChunk, GiveUp
    <3>3. submit'[d] = submit[d]
      BY <2>1, <2>4, <3>1 DEF PrepareCapture, SubmitStep, StartChunks, SendChunk, TrackChunk,
                              RecordChunk, GiveUp, Goes, CallsOK
    <3>4. audit'[d] = audit[d]
      BY <2>1, <2>4, <3>1 DEF PrepareCapture, SubmitStep, StartChunks, SendChunk, TrackChunk,
                              RecordChunk, GiveUp, MarkUncertain, Put, storage, EntriesOK
    <3> QED  BY <2>3, <3>2, <3>3, <3>4
  <2>5. ASSUME NEW c \in Captures, Tell(c)
        PROVE  SubmittedOK(d)'
    BY <2>3, <2>5 DEF Tell, storage
  <2>6. ASSUME NEW x \in Polls, AskPoll(x[1], x[2]) \/ TimeOutPoll(x[1], x[2])
                                \/ PollSign(x[1], x[2]) \/ PollUntrack(x[1], x[2])
        PROVE  SubmittedOK(d)'
    BY <2>3, <2>6 DEF PollSign, PollUntrack, AskPoll, TimeOutPoll, StartPoll
  <2>7. ASSUME NEW x \in Polls, PollLate(x[1], x[2])
        PROVE  SubmittedOK(d)'
    <3>1. poll[x] # "idle" /\ RecordOutcome(x[1], x[2], "failed")
      BY <2>7, PolledJob DEF PollLate
    <3>2. stored' = stored /\ UNCHANGED <<submit, worker>>
      BY <2>7 DEF PollLate, brainVars, jobVars
    <3> QED  BY <2>2, <3>1, <3>2, OutcomeSubmit
  <2>8. ASSUME NEW x \in Polls, PollAnswer(x[1], x[2])
        PROVE  SubmittedOK(d)'
    <3>1. poll[x] # "idle" /\ UNCHANGED <<submit, worker>>
      BY <2>8, PolledJob DEF PollAnswer
    <3>2. stored' = stored
      BY <2>8 DEF PollAnswer, AskJob, brainVars, jobVars
    <3>3. CASE UNCHANGED audit
      BY <2>3, <3>1, <3>3
    <3>4. CASE ~UNCHANGED audit
      <4> DEFINE status == IF Answer(x[2]) = "none" THEN "failed" ELSE Answer(x[2])
      <4>1. Answer(x[2]) \notin {"running", "cancelled"} /\ RecordOutcome(x[1], x[2], status)
        BY <2>8, <3>4 DEF PollAnswer
      <4>2. x[2] \in Jobs
        BY <3>1, PollKnows
      <4>3. status \in {"success", "partial", "failed"}
        BY <2>1, <4>1, <4>2, AnswerKinds
      <4>4. status = "success" => x[2] \in stored
        BY <2>1, <4>2, AnswerIsStored
      <4> HIDE DEF status
      <4> QED  BY <2>2, <3>1, <3>2, <4>1, <4>3, <4>4, OutcomeSubmit
    <3> QED  BY <3>3, <3>4
  <2>9. ASSUME RestartWorker
        PROVE  SubmittedOK(d)'
    <3>1. /\ audit' = audit
          /\ submit'[d] = IF submit[d].at = "idle" THEN submit[d] ELSE [at |-> "over", sent |-> 0]
      BY <2>9 DEF RestartWorker, At, Over, storage
    <3>2. CASE submit[d].at = "idle"
      BY <2>1, <3>1, <3>2 DEF SubmittedOK, Active
    <3>3. CASE submit[d].at # "idle"
      BY <3>1, <3>3 DEF SubmittedOK, Active
    <3> QED  BY <3>2, <3>3
  <2>10. ASSUME NEW c \in Captures, RecoverCapture(c)
         PROVE  SubmittedOK(d)'
    <3>1. worker = "recovering" /\ submit' = submit /\ worker' = worker
      BY <2>1, <2>10 DEF RecoverCapture, CallsOK
    <3>2. submit[d].at \in {"idle", "over"}
      BY <2>1, <3>1 DEF SubmittedOK
    <3>3. CASE submit[d].at = "over"
      BY <3>1, <3>3 DEF SubmittedOK, Active
    <3>4. CASE submit[d].at = "idle"
      <4>1. ~Interrupted(audit[d])
        BY <2>1, <3>4 DEF SubmittedOK, Interrupted
      <4>2. audit'[d] = audit[d]
        <5>1. CASE c = d
          BY <2>10, <4>1, <5>1 DEF RecoverCapture
        <5>2. CASE c # d
          BY <2>1, <2>10, <5>2 DEF RecoverCapture, MarkUncertain, Put, EntriesOK
        <5> QED  BY <5>1, <5>2
      <4> QED  BY <2>3, <3>1, <4>2
    <3> QED  BY <3>2, <3>3, <3>4
  <2>11. ASSUME ResumePolls \/ UNCHANGED <<storage, memory, notified>>
         PROVE  SubmittedOK(d)'
    BY <2>3, <2>11 DEF ResumePolls, storage, memory
  <2> QED  BY <2>4, <2>5, <2>6, <2>7, <2>8, <2>9, <2>10, <2>11
           DEF Next, SubmitStep, PollStep, RecoverStep, vars
<1> QED  BY <1>1, <1>2

(* Signatures *)

LEMMA StepSign ==
    ASSUME IInv, [Next]_vars
    PROVE  SignOK'
<1>1. SignOK /\ CallsOK
  BY DEF IInv
<1>2. \A c \in Captures : audit[c].status = "success" => audit'[c].status = "success"
  BY StepEntries DEF EntriesChange, Terminal
<1>3. \A x \in Polls : x = <<x[1], x[2]>> /\ CaptureOf(x[2]) \in Captures
  BY PolledJob
<1>4. autoSig \subseteq Captures
  BY <1>1 DEF SignOK
<1>5. ASSUME autoSig' = autoSig, \A x \in Polls : poll'[x] = "sign" => poll[x] = "sign"
      PROVE  SignOK'
  BY <1>1, <1>2, <1>3, <1>4, <1>5 DEF SignOK
<1>6. ASSUME NEW c \in Captures, PrepareCapture(c) \/ SubmitStep(c) \/ Tell(c) \/ RecoverCapture(c)
      PROVE  SignOK'
  <2>1. autoSig' = autoSig /\ poll' = poll
    BY <1>6 DEF PrepareCapture, SubmitStep, StartChunks, SendChunk, TrackChunk, RecordChunk, GiveUp,
                Tell, RecoverCapture, storage
  <2> QED  BY <1>5, <2>1
<1>7. ASSUME NEW x \in Polls, NEW where \in {"idle", "asking", "late", "untrack"},
             poll' = [poll EXCEPT ![x] = where], autoSig' = autoSig
      PROVE  SignOK'
  <2>1. \A y \in Polls : poll'[y] = "sign" => poll[y] = "sign"
    BY <1>1, <1>7 DEF CallsOK
  <2> QED  BY <1>5, <1>7, <2>1
<1>8. ASSUME NEW x \in Polls, AskPoll(x[1], x[2]) \/ TimeOutPoll(x[1], x[2]) \/ PollUntrack(x[1], x[2])
      PROVE  SignOK'
  <2>1. autoSig' = autoSig /\ (poll' = poll \/ \E where \in {"idle", "asking", "late", "untrack"} :
                                                 poll' = [poll EXCEPT ![x] = where])
    BY <1>3, <1>8 DEF PollUntrack, AskPoll, TimeOutPoll, StartPoll, PollGoes
  <2> QED  BY <1>5, <1>7, <2>1
<1>9. ASSUME NEW x \in Polls, NEW status, RecordOutcome(x[1], x[2], status), autoSig' = autoSig
      PROVE  SignOK'
  <2>1. x = <<x[1], x[2]>>
    BY <1>3
  <2>2. CASE CaptureOf(x[2]) \in Signed /\ audit'[CaptureOf(x[2])].status = "success"
    <3>1. poll' = [poll EXCEPT ![x] = "sign"]
      BY <1>9, <2>1, <2>2 DEF RecordOutcome, PollGoes
    <3>2. \A y \in Polls : poll'[y] = "sign" => y = x \/ poll[y] = "sign"
      BY <1>1, <3>1 DEF CallsOK
    <3> QED  BY <1>1, <1>2, <1>3, <1>4, <1>9, <2>2, <3>2 DEF SignOK
  <2>3. CASE ~(CaptureOf(x[2]) \in Signed /\ audit'[CaptureOf(x[2])].status = "success")
    <3>1. poll' = [poll EXCEPT ![x] = "untrack"]
      BY <1>9, <2>1, <2>3 DEF RecordOutcome, PollGoes
    <3> QED  BY <1>7, <1>9, <3>1
  <2> QED  BY <2>2, <2>3
<1>10. ASSUME NEW x \in Polls, PollAnswer(x[1], x[2]) \/ PollLate(x[1], x[2])
       PROVE  SignOK'
  <2>1. autoSig' = autoSig
    BY <1>10 DEF PollAnswer, PollLate
  <2>2. poll' = [poll EXCEPT ![x] = "idle"] \/ \E status : RecordOutcome(x[1], x[2], status)
    BY <1>3, <1>10 DEF PollAnswer, PollLate, PollGoes
  <2>3. CASE poll' = [poll EXCEPT ![x] = "idle"]
    BY <1>7, <2>1, <2>3
  <2>4. CASE \E status : RecordOutcome(x[1], x[2], status)
    BY <1>9, <2>1, <2>4
  <2> QED  BY <2>2, <2>3, <2>4
<1>11. ASSUME NEW x \in Polls, PollSign(x[1], x[2])
       PROVE  SignOK'
  <2>1. poll[x] = "sign" /\ autoSig' \subseteq autoSig \cup {CaptureOf(x[2])}
    BY <1>3, <1>11 DEF PollSign
  <2>2. \E where \in {"idle", "untrack"} : poll' = [poll EXCEPT ![x] = where]
    BY <1>3, <1>11 DEF PollSign, PollGoes
  <2>3. \A y \in Polls : poll'[y] = "sign" => poll[y] = "sign"
    BY <1>1, <2>2 DEF CallsOK
  <2>4. audit' = audit
    BY <1>11 DEF PollSign
  <2> QED  BY <1>1, <1>2, <1>3, <1>4, <2>1, <2>3, <2>4 DEF SignOK
<1>12. ASSUME RestartWorker
       PROVE  SignOK'
  <2>1. autoSig' = autoSig /\ \A x \in Polls : poll'[x] = "idle"
    BY <1>12 DEF RestartWorker, storage
  <2> QED  BY <1>5, <2>1
<1>13. ASSUME ResumePolls \/ UNCHANGED <<storage, memory, notified>>
       PROVE  SignOK'
  <2>1. autoSig' = autoSig /\ poll' = poll
    BY <1>13 DEF ResumePolls, storage, memory
  <2> QED  BY <1>5, <2>1
<1> QED  BY <1>6, <1>8, <1>10, <1>11, <1>12, <1>13 DEF Next, PollStep, RecoverStep, vars

-----------------------------------------------------------------------------
LEMMA InvInit ==
    ASSUME Init
    PROVE  IInv
<1>1. BrainOK
  BY DEF Init, IngestInit, BrainOK, IngestTypeOK, Status
<1>2. \A c \in Captures : audit[c] = NoEntry /\ notified[c] = 0 /\ submit[c] = [at |-> "idle", sent |-> 0]
  BY DEF Init
<1>3. NoEntry \in Entry /\ NoEntry.status = "none" /\ NoEntry.expected = 0
  BY DEF NoEntry, Entry
<1>4. EntriesOK
  <2>1. \A c \in Captures : EntryOK(c, audit[c], stored)
    BY <1>2, NewEntry
  <2> QED  BY <1>3, <2>1 DEF Init, EntriesOK
<1>5. CallsOK
  <2>1. \A c \in Captures : 0 <= Len(Chunks[c])
    BY ChunkFacts
  <2> QED  BY <2>1 DEF Init, CallsOK
<1>6. LiveOK
  BY DEF Init, LiveOK, Polled
<1>7. SubmitOK
  BY <1>2, <1>3 DEF SubmitOK, SubmittedOK, Active
<1>8. SignOK
  BY DEF Init, SignOK
<1>9. TellOK
  <2>1. ToldFacts
    BY <1>2, <1>3 DEF Init, ToldFacts, Terminal
  <2> QED  BY <2>1, ToldCount DEF Init, TellOK
<1> QED  BY <1>1, <1>4, <1>5, <1>6, <1>7, <1>8, <1>9 DEF IInv

LEMMA InvStep ==
    ASSUME IInv, [Next]_vars
    PROVE  IInv'
<1>1. EntriesOK'
  BY StepEntries DEF EntriesChange, EntriesOK
<1> QED  BY <1>1, BrainStepKeeps, StepCalls, StepLive, StepSubmit, StepSign, StepTold DEF IInv

\* The strengthened invariant holds of every state of the worker and the Brain.
THEOREM Inductive == Spec => []IInv
  BY InvInit, InvStep, PTL DEF Spec

\* The audit entries, polls and submissions are what their code takes them for; an entry
\* never counts a job twice, nor under two results.
THEOREM TypeCorrect == Spec => []TypeOK
<1>1. IInv => TypeOK
  <2> SUFFICES ASSUME IInv  PROVE TypeOK
    OBVIOUS
  <2>1. \A c \in Captures : submit[c] \in [at : {"idle", "prepared", "sending", "answered",
                                                "tracked", "failing", "over"},
                                          sent : 0 .. Len(Chunks[c])]
    <3> SUFFICES ASSUME NEW c \in Captures
                 PROVE  submit[c] \in [at : {"idle", "prepared", "sending", "answered",
                                             "tracked", "failing", "over"},
                                       sent : 0 .. Len(Chunks[c])]
      OBVIOUS
    <3>1. submit[c] \in [at : {"idle", "prepared", "sending", "answered",
                               "tracked", "failing", "over"}, sent : Nat]
          /\ submit[c].sent <= Len(Chunks[c])
      BY DEF IInv, CallsOK
    <3>2. submit[c].sent \in 0 .. Len(Chunks[c])
      BY <3>1, ChunkFacts
    <3> QED  BY <3>1, <3>2
  <2>2. \A c \in Captures : LET entry == audit[c] IN
         /\ entry.status \in {"none", "submitting", "queued"} \cup Terminal
         /\ entry.expected \in {0, Len(Chunks[c])}
         /\ entry.jobs \subseteq JobsOf(c)
         /\ Settled(entry) \subseteq JobsOf(c)
         /\ entry.done \cap entry.part = {} /\ (entry.done \cup entry.part) \cap entry.failed = {}
         /\ entry.unsure = (entry.uncertain > 0)
         /\ entry.unsure => entry.uncertain = entry.expected - Cardinality(entry.jobs)
    BY EntryFields DEF IInv, EntriesOK, EntryOK
  <2>3. IngestTypeOK
    BY DEF IInv, BrainOK
  <2>4. /\ pending \subseteq Jobs /\ alarms \subseteq Jobs
        /\ worker \in {"recovering", "up"}
        /\ snapshot \subseteq Jobs /\ recovering \subseteq Captures
        /\ poll \in [Polls -> {"idle", "asking", "late", "sign", "untrack"}]
    BY DEF IInv, CallsOK
  <2>5. autoSig \subseteq Signed /\ telling \subseteq Captures /\ notified \in [Captures -> Nat]
    BY DEF IInv, SignOK, TellOK
  <2> QED  BY <2>1, <2>2, <2>3, <2>4, <2>5 DEF TypeOK
<1> QED  BY <1>1, Inductive, PTL

\* A capture that is said to have succeeded, or whose signature says that it need not be
\* sent again, has the text of all its chunks in the Brain's archival memory: after any restarts of the worker and the Brain, lost
\* answers, cancelled or forgotten jobs, and polls of one job that overlap.
THEOREM SuccessStored == Spec => []SuccessIsStored
<1>1. IInv => SuccessIsStored
  <2> SUFFICES ASSUME IInv, NEW c \in Captures, audit[c].status = "success" \/ c \in autoSig
               PROVE  JobsOf(c) \subseteq stored
    BY DEF SuccessIsStored
  <2>1. audit[c].status = "success"
    BY DEF IInv, SignOK
  <2>2. EntryOK(c, audit[c], stored)
    BY DEF IInv, EntriesOK
  <2>3. Settled(audit[c]) = JobsOf(c) /\ audit[c].part = {} /\ audit[c].failed = {}
        /\ audit[c].done \subseteq stored
    BY <2>1, <2>2 DEF EntryOK, Terminal
  <2> QED  BY <2>3 DEF Settled
<1> QED  BY <1>1, Inductive, PTL

\* recordCaptureChunkOutcome and markCaptureSubmissionUncertain give no outcome but
\* uncertain while a chunk has no result, and count every such chunk in an uncertain one.
THEOREM OutcomeKnows == Spec => []OutcomeKnowsItsChunks
<1>1. IInv => OutcomeKnowsItsChunks
  BY DEF IInv, EntriesOK, EntryOK, OutcomeKnowsItsChunks
<1> QED  BY <1>1, Inductive, PTL

\* The user is told of an outcome at most once, whichever poll, replay or recovery finds
\* it, never of one that was not given, and of each when no worker was stopped.
THEOREM ToldOnce == Spec => []NotifiedOnce
<1>1. IInv => NotifiedOnce
  BY DEF IInv, TellOK
<1> QED  BY <1>1, Inductive, PTL

\* An outcome, once written, is never changed: not by a late poll, nor by a recovery.
THEOREM OutcomesStay == Spec => OutcomeStays
<1>1. IInv /\ [Next]_vars => [\A c \in Captures : audit[c].status \in Terminal => audit'[c] = audit[c]]_vars
  BY StepEntries DEF EntriesChange
<1> QED  BY <1>1, Inductive, PTL DEF Spec, OutcomeStays
=============================================================================
