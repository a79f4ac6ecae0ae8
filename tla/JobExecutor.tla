---------------------------- MODULE JobExecutor ----------------------------
(***************************************************************************)
(* ThreadedJobExecutor (infrastructure/jobs/in_memory.py) around           *)
(* ComparisonJobService.run (application/orchestration/comparison_job.py), *)
(* the result repository on a SQLite file and the artifact store.          *)
(*                                                                         *)
(* A run is one call of submit(); several runs may bear one job id.  A     *)
(* step is what a thread does between two points where another thread can  *)
(* see it: a lock, a statement of the database, a file.  Records and rows  *)
(* are tagged with the run that wrote them.                                *)
(***************************************************************************)
EXTENDS Naturals, FiniteSets, Sequences

CONSTANTS
  JobIds,
  Runs,            \* the submissions, numbered in order: bounds their number
  Requests,        \* report_formats a request may have, each a sequence
  Directories,     \* names a directory of artifacts may have
  Namings,         \* what _sanitize may make of the job ids
  Callers,         \* threads that wait for jobs or shut the pool down
  PoolSizes,       \* what max_workers may be
  MaxRestarts,     \* bounds the restarts of the process
  None,            \* Python's None
  Broken           \* an artifact file that was opened and not written

Formats == {"HTML", "CSV", "JSON"}
Terminal == {"COMPLETED", "REJECTED", "FAILED"}

(* A JobRecord: its state, the artifacts it lists as written, and its run. *)
Record(state, written, r) == [state |-> state, written |-> written, run |-> r]

RecordSet == [state : Terminal \cup {"RUNNING"}, written : SUBSET Formats, run : Runs]

ASSUME JobAssumption ==
  /\ Runs \subseteq Nat /\ {None, Broken} \cap Runs = {} /\ None # Broken
  /\ None \notin RecordSet
  /\ PoolSizes \subseteq Nat \ {0} /\ MaxRestarts \in Nat
  /\ Requests \subseteq Seq(Formats)
  /\ Namings \subseteq [JobIds -> Directories]

VARIABLES
  maxWorkers,          \* size of the pool, chosen once
  directory,           \* _sanitize: the directory of each job id, chosen once
  records, futures,    \* _records and _futures of the executor
  queue, closed,       \* the pool: work items no thread has, shut down or not
  pc,                  \* per run: where its thread is in _execute()
  job, toRender,       \* per run: job id, formats still to render
  found,               \* per run: whether save() has seen a row
  outcome,             \* per run: the record it will publish
  stored,              \* job_results: per job, the run of its payload
  files,               \* artifact files: per directory and format, the run that wrote it
  caller,              \* per caller: what it is doing
  restarts,
  overlapped           \* history: jobs submitted while a run of them was under way

rest == <<maxWorkers, directory, restarts, overlapped>>
env == <<rest, caller>>
memory == <<records, futures, queue, closed>>
thread == <<pc, job, toRender, found, outcome>>
disk == <<stored, files>>
vars == <<env, memory, thread, disk>>

Active == {"running", "saving", "committing", "rendering", "writing", "publishing"}
Over == {"done", "raised", "lost"}

(* Mutant of Busy: the slot of a run that raised is not given back. *)
MutantBusy == { r \in Runs : pc[r] \in Active \cup {"raised"} }

(* The runs that have a thread of the pool. *)
Busy == { r \in Runs : pc[r] \in Active }

Underway(j) == { r \in Runs : job[r] = j /\ pc[r] \in Active \cup {"queued"} }

(* Mutant of IsDone: a future with an exception is not done. *)
MutantIsDone(r) == pc[r] = "done"

(* Future.done(): a result or an exception is there. *)
IsDone(r) == pc[r] \in {"done", "raised"}

Idle == [doing |-> "idle", job |-> None, future |-> None, answer |-> None]

Init ==
  /\ maxWorkers \in PoolSizes /\ directory \in Namings
  /\ records = [j \in JobIds |-> None] /\ futures = [j \in JobIds |-> None]
  /\ queue = <<>> /\ closed = FALSE
  /\ pc = [r \in Runs |-> "new"]
  /\ job = [r \in Runs |-> None] /\ toRender = [r \in Runs |-> <<>>]
  /\ found = [r \in Runs |-> FALSE] /\ outcome = [r \in Runs |-> None]
  /\ stored = [j \in JobIds |-> None]
  /\ files = [d \in Directories |-> [f \in Formats |-> None]]
  /\ caller = [c \in Callers |-> Idle]
  /\ restarts = 0 /\ overlapped = {}

-----------------------------------------------------------------------------
(* submit().  Under the lock the record is stored first, then the pool is  *)
(* asked; a pool that was shut down raises and the record stays.           *)

Submits(r, j) ==
  /\ pc[r] = "new" /\ \A q \in Runs : q < r => pc[q] # "new"
  /\ records' = [records EXCEPT ![j] = Record("RUNNING", {}, r)]
  /\ job' = [job EXCEPT ![r] = j]

Submit(r, j, formats) ==
  /\ Submits(r, j) /\ ~closed
  /\ futures' = [futures EXCEPT ![j] = r]
  /\ queue' = Append(queue, r)
  /\ pc' = [pc EXCEPT ![r] = "queued"]
  /\ toRender' = [toRender EXCEPT ![r] = formats]
  /\ overlapped' = IF Underway(j) = {} THEN overlapped ELSE overlapped \cup {j}
  /\ UNCHANGED <<maxWorkers, directory, closed, found, outcome, disk, caller, restarts>>

SubmitRefused(r, j) ==
  /\ Submits(r, j) /\ closed
  /\ pc' = [pc EXCEPT ![r] = "refused"]
  /\ UNCHANGED <<env, futures, queue, closed, toRender, found, outcome, disk>>

-----------------------------------------------------------------------------
(* _execute() and run(), in a thread of the pool. *)

Goes(r, from, to) == pc[r] = from /\ pc' = [pc EXCEPT ![r] = to]

Ends(r, from, state, written) ==
  /\ Goes(r, from, "publishing")
  /\ outcome' = [outcome EXCEPT ![r] = Record(state, written, r)]

(* A thread that leaves run() early leaves its locals behind. *)
Forget(r) ==
  /\ toRender' = [toRender EXCEPT ![r] = <<>>]
  /\ found' = [found EXCEPT ![r] = FALSE]

Start ==
  /\ queue # <<>> /\ Cardinality(Busy) < maxWorkers
  /\ queue' = Tail(queue)
  /\ Goes(Head(queue), "queued", "running")
  /\ UNCHANGED <<env, records, futures, closed, job, toRender, found, outcome, disk>>

(* Resolving, adapting, reconciling and interpreting touch nothing shared. *)
(* An unknown profile or a document that cannot be adapted is rejected, a  *)
(* ReconciliationError fails the job, another exception leaves run().      *)
Reject(r) ==
  /\ Ends(r, "running", "REJECTED", {})
  /\ Forget(r)
  /\ UNCHANGED <<env, memory, job, disk>>

FailReconcile(r) ==
  /\ Ends(r, "running", "FAILED", {})
  /\ Forget(r)
  /\ UNCHANGED <<env, memory, job, disk>>

ReconcileRaises(r) ==
  /\ Goes(r, "running", "raised")
  /\ Forget(r)
  /\ UNCHANGED <<env, memory, job, outcome, disk>>

Reconcile(r) ==
  /\ Goes(r, "running", "saving")
  /\ UNCHANGED <<env, memory, job, toRender, found, outcome, disk>>

(* save(): a row is looked for, then updated or inserted.                  *)
Lookup(r) ==
  /\ Goes(r, "saving", "committing")
  /\ found' = [found EXCEPT ![r] = stored[job[r]] # None]
  /\ UNCHANGED <<env, memory, job, toRender, outcome, disk>>

(* Mutant of RowAfter: an existing row keeps its payload. *)
MutantRowAfter(r) == IF found[r] THEN stored[job[r]] ELSE r

RowAfter(r) == r

Save(r) ==
  /\ Goes(r, "committing", "rendering")
  /\ found[r] \/ stored[job[r]] = None
  /\ stored' = [stored EXCEPT ![job[r]] = RowAfter(r)]
  /\ found' = [found EXCEPT ![r] = FALSE]
  /\ UNCHANGED <<env, memory, job, toRender, outcome, files>>

(* Mutant of SaveFails: the reports of a result that was not saved are     *)
(* rendered all the same.                                                  *)
MutantSaveFails(r) ==
  /\ Goes(r, "committing", "rendering")
  /\ UNCHANGED <<env, memory, job, toRender, found, outcome, disk>>

(* The database may refuse a statement at any time, and refuses the row    *)
(* another run inserted since the lookup.  Every exception of save() is a  *)
(* RepositoryError, and that is a failed job.                              *)
SaveFails(r) ==
  /\ Ends(r, "committing", "FAILED", {})
  /\ Forget(r)
  /\ UNCHANGED <<env, memory, job, disk>>

(* One report: the file is opened, and emptied by it, then written.  Its   *)
(* directory is named by the job id with every unusual character replaced, *)
(* so two ids may share one; an id of which nothing is left is a write     *)
(* that fails.  A write that fails is marked in the summary and the loop   *)
(* goes on; what a renderer raises, or the encoding of its text, nobody    *)
(* catches.                                                                *)
Listed(r) == IF outcome[r] = None THEN {} ELSE outcome[r].written

Format(r) == Head(toRender[r])

OpenArtifact(r) ==
  /\ toRender[r] # <<>>
  /\ Goes(r, "rendering", "writing")
  /\ files' = [files EXCEPT ![directory[job[r]]][Format(r)] = Broken]
  /\ UNCHANGED <<env, memory, job, toRender, found, outcome, stored>>

WriteArtifact(r) ==
  /\ Goes(r, "writing", "rendering")
  /\ files' = [files EXCEPT ![directory[job[r]]][Format(r)] = r]
  /\ outcome' = [outcome EXCEPT ![r] = Record("COMPLETED", Listed(r) \cup {Format(r)}, r)]
  /\ toRender' = [toRender EXCEPT ![r] = Tail(@)]
  /\ UNCHANGED <<env, memory, job, found, stored>>

(* Mutant of WriteFails: a report that failed is listed as written. *)
MutantWriteFails(r) ==
  /\ toRender[r] # <<>>
  /\ Goes(r, "rendering", "rendering") \/ Goes(r, "writing", "rendering")
  /\ outcome' = [outcome EXCEPT ![r] = Record("COMPLETED", Listed(r) \cup {Format(r)}, r)]
  /\ toRender' = [toRender EXCEPT ![r] = Tail(@)]
  /\ UNCHANGED <<env, memory, job, found, disk>>

WriteFails(r) ==
  /\ toRender[r] # <<>>
  /\ Goes(r, "rendering", "rendering") \/ Goes(r, "writing", "rendering")
  /\ toRender' = [toRender EXCEPT ![r] = Tail(@)]
  /\ UNCHANGED <<env, memory, job, found, outcome, disk>>

RenderRaises(r) ==
  /\ toRender[r] # <<>>
  /\ Goes(r, "rendering", "raised")
  /\ outcome' = [outcome EXCEPT ![r] = None]
  /\ Forget(r)
  /\ UNCHANGED <<env, memory, job, disk>>

Complete(r) ==
  /\ toRender[r] = <<>>
  /\ Ends(r, "rendering", "COMPLETED", Listed(r))
  /\ UNCHANGED <<env, memory, job, toRender, found, disk>>

(* Mutant of Publish: the record of a job that did not complete is lost. *)
MutantPublish(r) ==
  /\ Goes(r, "publishing", "done")
  /\ records' = IF outcome[r].state = "COMPLETED"
                THEN [records EXCEPT ![job[r]] = outcome[r]] ELSE records
  /\ outcome' = [outcome EXCEPT ![r] = None]
  /\ UNCHANGED <<env, futures, queue, closed, job, toRender, found, disk>>

(* The outcome becomes the record, under the lock; then the future is done. *)
Publish(r) ==
  /\ Goes(r, "publishing", "done")
  /\ records' = [records EXCEPT ![job[r]] = outcome[r]]
  /\ outcome' = [outcome EXCEPT ![r] = None]
  /\ UNCHANGED <<env, futures, queue, closed, job, toRender, found, disk>>

Work(r) ==
  \/ Reject(r) \/ FailReconcile(r) \/ ReconcileRaises(r) \/ Reconcile(r)
  \/ Lookup(r) \/ Save(r) \/ SaveFails(r)
  \/ OpenArtifact(r) \/ WriteArtifact(r) \/ WriteFails(r) \/ RenderRaises(r) \/ Complete(r)
  \/ Publish(r)

-----------------------------------------------------------------------------
(* wait(): the future is fetched under the lock and waited for without it; *)
(* then the record is read under the lock again.                           *)

Does(c, what) == caller' = [caller EXCEPT ![c] = what]

(* Mutant of Wait: a job without a future is waited for too. *)
MutantWait(c, j) ==
  /\ caller[c].doing = "idle"
  /\ Does(c, [Idle EXCEPT !.doing = "waiting", !.job = j, !.future = futures[j]])
  /\ UNCHANGED <<rest, memory, thread, disk>>

Wait(c, j) ==
  /\ caller[c].doing = "idle"
  /\ Does(c, [Idle EXCEPT !.doing = IF futures[j] = None THEN "reading" ELSE "waiting",
                          !.job = j, !.future = futures[j]])
  /\ UNCHANGED <<rest, memory, thread, disk>>

(* result() returns, or raises what the run raised. *)
Wake(c) ==
  /\ caller[c].doing = "waiting" /\ IsDone(caller[c].future)
  /\ IF pc[caller[c].future] = "raised"
     THEN Does(c, Idle)
     ELSE Does(c, [caller[c] EXCEPT !.doing = "reading"])
  /\ UNCHANGED <<rest, memory, thread, disk>>

TimeOut(c) ==
  /\ caller[c].doing = "waiting"
  /\ Does(c, Idle)
  /\ UNCHANGED <<rest, memory, thread, disk>>

Read(c) ==
  /\ caller[c].doing = "reading"
  /\ Does(c, [caller[c] EXCEPT !.doing = "idle", !.answer = records[caller[c].job]])
  /\ UNCHANGED <<rest, memory, thread, disk>>

(* shutdown(wait=True): no more work is taken, what is queued still runs.  *)
Shutdown(c) ==
  /\ caller[c].doing = "idle"
  /\ closed' = TRUE
  /\ Does(c, [Idle EXCEPT !.doing = "stopping"])
  /\ UNCHANGED <<rest, records, futures, queue, thread, disk>>

Stopped(c) ==
  /\ caller[c].doing = "stopping" /\ queue = <<>> /\ Busy = {}
  /\ Does(c, Idle)
  /\ UNCHANGED <<rest, memory, thread, disk>>

(* The process ends at any point and comes back with a new executor: the   *)
(* database and the files are all it finds.                                *)
Restart ==
  /\ restarts < MaxRestarts
  /\ restarts' = restarts + 1
  /\ records' = [j \in JobIds |-> None] /\ futures' = [j \in JobIds |-> None]
  /\ queue' = <<>> /\ closed' = FALSE
  /\ pc' = [r \in Runs |-> IF pc[r] \in Active \cup {"queued"} THEN "lost" ELSE pc[r]]
  /\ toRender' = [r \in Runs |-> <<>>] /\ found' = [r \in Runs |-> FALSE]
  /\ outcome' = [r \in Runs |-> None]
  /\ caller' = [c \in Callers |-> Idle]
  /\ UNCHANGED <<maxWorkers, directory, job, disk, overlapped>>

Call(c) == Wake(c) \/ Read(c) \/ Stopped(c)

Next ==
  \/ \E r \in Runs, j \in JobIds :
       SubmitRefused(r, j) \/ \E formats \in Requests : Submit(r, j, formats)
  \/ Start
  \/ \E r \in Runs : Work(r)
  \/ \E c \in Callers :
       Call(c) \/ TimeOut(c) \/ Shutdown(c) \/ \E j \in JobIds : Wait(c, j)
  \/ Restart

(* Threads of the pool and callers that can go on do.  Nobody has to       *)
(* submit, wait, shut down or restart, and no timeout has to strike.       *)
Spec ==
  /\ Init /\ [][Next]_vars
  /\ WF_vars(Start)
  /\ \A r \in Runs : WF_vars(Work(r))
  /\ \A c \in Callers : WF_vars(Call(c))

-----------------------------------------------------------------------------
(* Properties. *)

TypeOK ==
  /\ maxWorkers \in PoolSizes /\ directory \in [JobIds -> Directories]
  /\ records \in [JobIds -> RecordSet \cup {None}]
  /\ futures \in [JobIds -> Runs \cup {None}]
  /\ queue \in Seq(Runs) /\ closed \in BOOLEAN
  /\ pc \in [Runs -> {"new", "refused", "queued"} \cup Active \cup Over]
  /\ job \in [Runs -> JobIds \cup {None}]
  /\ toRender \in [Runs -> Seq(Formats)]
  /\ found \in [Runs -> BOOLEAN]
  /\ outcome \in [Runs -> RecordSet \cup {None}]
  /\ stored \in [JobIds -> Runs \cup {None}]
  /\ files \in [Directories -> [Formats -> Runs \cup {None, Broken}]]
  /\ caller \in [Callers -> [doing : {"idle", "waiting", "reading", "stopping"},
                             job : JobIds \cup {None}, future : Runs \cup {None},
                             answer : RecordSet \cup {None}]]
  /\ \A c \in Callers : caller[c].doing = "waiting" => caller[c].future # None
  /\ restarts \in 0..MaxRestarts /\ overlapped \subseteq JobIds

(* comparison_job.py: reports are rendered from a result that is already   *)
(* persisted, so no failure or restart leaves a report in a directory none *)
(* of whose jobs has a result.                                             *)
ReportsHaveResult ==
  \A d \in Directories, f \in Formats :
    files[d][f] # None => \E j \in JobIds : directory[j] = d /\ stored[j] # None

SharesDirectory(j) == \E k \in JobIds \ {j} : directory[k] = directory[j]

(* A completed record belongs to the result the repository serves, and the *)
(* artifacts it lists were rendered from that result, though the job may   *)
(* have been submitted before, failed, or died with the process half-way.  *)
(* Only runs of one job that overlap in time can mix their outcomes, and   *)
(* only jobs whose ids name one directory their reports.  (A request that  *)
(* names one format twice is not meant.)                                   *)
CompletedIsCurrent ==
  \A j \in JobIds \ overlapped :
    (records[j] # None /\ records[j].state = "COMPLETED") =>
      /\ stored[j] = records[j].run
      /\ SharesDirectory(j)
         \/ \A f \in records[j].written : files[directory[j]][f] = records[j].run

(* wait() takes the future, then reads the record: the record it returns   *)
(* may be another run's, but it is never the RUNNING one of the run whose  *)
(* future it waited for.                                                   *)
WaitOutlastsItsRun ==
  \A c \in Callers :
    LET a == caller[c] IN
      (a.answer # None /\ a.future # None /\ a.answer.run = a.future)
        => a.answer.state \in Terminal

(* comparison_job.py: a renderer failure marks the artifact failed and     *)
(* retains the result; so a run that has saved its result comes to         *)
(* publish a record, unless the process ends.                              *)
SavedJobsEnd ==
  \A r \in Runs : pc[r] = "rendering" ~> pc[r] \in {"done", "lost"}

(* Every job the pool accepted reaches a terminal record, unless its run   *)
(* raises something that is not a boundary error or the process ends; the  *)
(* jobs queued behind a run that raised are not held up by it.             *)
AcceptedJobsEnd ==
  \A r \in Runs :
    pc[r] = "queued" ~>
      \/ pc[r] \in {"raised", "lost"}
      \/ /\ pc[r] = "done"
         /\ \E j \in JobIds : job[r] = j /\ records[j] # None /\ records[j].state \in Terminal

(* Whoever waits for a job or for the pool to stop gets an answer, also    *)
(* from a run that raised.                                                 *)
CallersReturn ==
  \A c \in Callers : caller[c].doing # "idle" ~> caller[c].doing = "idle"
=============================================================================
