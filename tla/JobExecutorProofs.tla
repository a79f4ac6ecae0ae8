------------------------- MODULE JobExecutorProofs -------------------------
(***************************************************************************)
(* What the executor guarantees for any number of runs, jobs, callers,     *)
(* pool threads and restarts.                                              *)
(***************************************************************************)
EXTENDS JobExecutor, SequenceTheorems, TLAPS

-----------------------------------------------------------------------------
(* The inductive invariant. *)

(* Whoever has work to do has what the work needs: a run its job, a write  *)
(* its format, a caller that is to read a record its job.                  *)
WorkInv ==
  /\ \A r \in Runs : pc[r] \in Active \cup {"queued"} => job[r] \in JobIds
  /\ \A r \in Runs : pc[r] = "writing" => toRender[r] # <<>>
  /\ \A c \in Callers : caller[c].doing \in {"waiting", "reading"} => caller[c].job \in JobIds

(* A run renders only what it has saved, and rows are never removed. *)
SavedInv ==
  \A r \in Runs : pc[r] \in {"rendering", "writing"} => stored[job[r]] # None

IInv == TypeOK /\ WorkInv /\ SavedInv /\ ReportsHaveResult

-----------------------------------------------------------------------------
(* Records have the type of a record. *)
LEMMA RecordType ==
  ASSUME NEW state \in Terminal \cup {"RUNNING"}, NEW written \in SUBSET Formats, NEW r \in Runs
  PROVE  Record(state, written, r) \in RecordSet
BY DEF Record, RecordSet

(* What a run lists is a set of formats. *)
LEMMA ListedType ==
  ASSUME TypeOK, NEW r \in Runs
  PROVE  Listed(r) \subseteq Formats
BY DEF TypeOK, Listed, RecordSet

(* The next format of a run that has one. *)
LEMMA FormatType ==
  ASSUME TypeOK, NEW r \in Runs, toRender[r] # <<>>
  PROVE  Format(r) \in Formats /\ Tail(toRender[r]) \in Seq(Formats)
<1>1. toRender[r] \in Seq(Formats)
  BY DEF TypeOK
<1>2. QED BY <1>1, HeadTailProperties DEF Format

(* Nothing has been submitted: the invariant holds. *)
LEMMA InitInv == Init => IInv
<1>1. ASSUME Init PROVE TypeOK
  <2>1. queue \in Seq(Runs) /\ toRender \in [Runs -> Seq(Formats)]
    BY <1>1 DEF Init
  <2>2. overlapped = {} /\ restarts \in 0..MaxRestarts
    BY <1>1, JobAssumption DEF Init
  <2>3. QED BY <1>1, <2>1, <2>2, JobAssumption
    DEF Init, TypeOK, Idle, Over
<1>2. ASSUME Init PROVE WorkInv /\ SavedInv /\ ReportsHaveResult
  BY <1>2 DEF Init, WorkInv, SavedInv, ReportsHaveResult, Idle, Active
<1>3. QED BY <1>1, <1>2 DEF IInv

-----------------------------------------------------------------------------
(* Every step preserves the types. *)
LEMMA TypeStep == IInv /\ [Next]_vars => TypeOK'
<1> SUFFICES ASSUME IInv, [Next]_vars PROVE TypeOK'
  OBVIOUS
<1> USE DEF IInv
<1>1. ASSUME NEW r \in Runs, NEW j \in JobIds, SubmitRefused(r, j)
      PROVE  TypeOK'
  <2>1. Record("RUNNING", {}, r) \in RecordSet
    BY RecordType
  <2>2. QED BY <1>1, <2>1 DEF TypeOK, SubmitRefused, Submits, env, rest, disk
<1>2. ASSUME NEW r \in Runs, NEW j \in JobIds, NEW formats \in Requests, Submit(r, j, formats)
      PROVE  TypeOK'
  <2>1. Record("RUNNING", {}, r) \in RecordSet
    BY RecordType
  <2>2. formats \in Seq(Formats)
    BY JobAssumption DEF Formats
  <2>3. Append(queue, r) \in Seq(Runs)
    BY AppendProperties DEF TypeOK
  <2>4. QED BY <1>2, <2>1, <2>2, <2>3 DEF TypeOK, Submit, Submits, disk
<1>3. ASSUME Start
      PROVE  TypeOK'
  <2>1. Head(queue) \in Runs /\ Tail(queue) \in Seq(Runs)
    BY <1>3, HeadTailProperties DEF TypeOK, Start
  <2>2. QED BY <1>3, <2>1 DEF TypeOK, Start, Goes, Active, env, rest, disk
<1>4. ASSUME NEW r \in Runs, Work(r)
      PROVE  TypeOK'
  <2>1. <<>> \in Seq(Formats)
    OBVIOUS
  <2>2. CASE Reject(r)
    BY <2>1, <2>2, RecordType DEF Reject, Ends, Goes, Forget, TypeOK, Terminal, Active, env, rest, memory, disk
  <2>3. CASE FailReconcile(r)
    BY <2>1, <2>3, RecordType DEF FailReconcile, Ends, Goes, Forget, TypeOK, Terminal, Active, env, rest, memory, disk
  <2>4. CASE ReconcileRaises(r)
    BY <2>1, <2>4 DEF ReconcileRaises, Goes, Forget, TypeOK, Over, env, rest, memory, disk
  <2>5. CASE Reconcile(r)
    BY <2>5 DEF Reconcile, Goes, TypeOK, Active, env, rest, memory, disk
  <2>6. CASE Lookup(r)
    BY <2>6 DEF Lookup, Goes, TypeOK, Active, env, rest, memory, disk
  <2>7. CASE Save(r)
    BY <2>7 DEF Save, RowAfter, Goes, TypeOK, Active, env, rest, memory
  <2>8. CASE SaveFails(r)
    BY <2>1, <2>8, RecordType DEF SaveFails, Ends, Goes, Forget, TypeOK, Terminal, Active, env, rest, memory, disk
  <2>9. CASE OpenArtifact(r)
    BY <2>9, FormatType DEF OpenArtifact, Goes, TypeOK, Active, env, rest, memory
  <2>10. CASE WriteArtifact(r)
    <3>1. toRender[r] # <<>>
      BY <2>10 DEF WriteArtifact, Goes, WorkInv
    <3>2. Record("COMPLETED", Listed(r) \cup {Format(r)}, r) \in RecordSet
      BY <3>1, FormatType, ListedType, RecordType DEF Terminal
    <3>3. QED BY <2>10, <3>1, <3>2, FormatType DEF WriteArtifact, Goes, TypeOK, Active, env, rest, memory
  <2>11. CASE WriteFails(r)
    BY <2>11, FormatType DEF WriteFails, Goes, TypeOK, Active, env, rest, memory, disk
  <2>12. CASE RenderRaises(r)
    BY <2>1, <2>12 DEF RenderRaises, Goes, Forget, TypeOK, Over, env, rest, memory, disk
  <2>13. CASE Complete(r)
    <3>1. Record("COMPLETED", Listed(r), r) \in RecordSet
      BY ListedType, RecordType DEF Terminal
    <3>2. QED BY <2>13, <3>1 DEF Complete, Ends, Goes, TypeOK, Active, env, rest, memory, disk
  <2>14. CASE Publish(r)
    BY <2>14 DEF Publish, Goes, TypeOK, Over, env, rest, disk
  <2>15. QED BY <1>4, <2>2, <2>3, <2>4, <2>5, <2>6, <2>7, <2>8, <2>9, <2>10, <2>11, <2>12,
                <2>13, <2>14 DEF Work
<1>5. ASSUME NEW c \in Callers, NEW what, what.doing \in {"idle", "reading", "stopping"} \/ what.future # None,
             what \in [doing : {"idle", "waiting", "reading", "stopping"},
                       job : JobIds \cup {None}, future : Runs \cup {None},
                       answer : RecordSet \cup {None}],
             Does(c, what), UNCHANGED <<rest, records, futures, queue, thread, disk>>,
             closed' \in BOOLEAN
      PROVE  TypeOK'
  BY <1>5 DEF TypeOK, Does, rest, thread, disk
<1>6. ASSUME NEW c \in Callers, Call(c) \/ TimeOut(c) \/ Shutdown(c) \/ \E j \in JobIds : Wait(c, j)
      PROVE  TypeOK'
  <2>1. CASE Wake(c)
    BY <1>5, <2>1 DEF Wake, TypeOK, Idle, memory
  <2>2. CASE Read(c)
    BY <1>5, <2>2 DEF Read, TypeOK, WorkInv, memory
  <2>3. CASE Stopped(c) \/ TimeOut(c)
    BY <1>5, <2>3 DEF Stopped, TimeOut, TypeOK, Idle, memory
  <2>4. CASE Shutdown(c)
    BY <1>5, <2>4 DEF Shutdown, TypeOK, Idle
  <2>5. ASSUME NEW j \in JobIds, Wait(c, j)
        PROVE  TypeOK'
    BY <1>5, <2>5 DEF Wait, TypeOK, Idle, memory
  <2>6. QED BY <1>6, <2>1, <2>2, <2>3, <2>4, <2>5 DEF Call
<1>7. CASE Restart
  <2>1. restarts' \in 0..MaxRestarts
    BY <1>7, JobAssumption DEF Restart, TypeOK
  <2>2. <<>> \in Seq(Runs) /\ <<>> \in Seq(Formats)
    OBVIOUS
  <2>3. QED BY <1>7, <2>1, <2>2 DEF Restart, TypeOK, Idle, Over, disk
<1>8. CASE UNCHANGED vars
  BY <1>8 DEF TypeOK, vars, env, rest, memory, thread, disk
<1>9. QED BY <1>1, <1>2, <1>3, <1>4, <1>6, <1>7, <1>8 DEF Next

-----------------------------------------------------------------------------
(* What is common to the steps of a run: nobody else's place changes.      *)
LEMMA WorkFrame ==
  ASSUME IInv, NEW r \in Runs, Work(r)
  PROVE  /\ pc[r] \in Active
         /\ \A q \in Runs \ {r} : pc'[q] = pc[q] /\ toRender'[q] = toRender[q]
         /\ pc'[r] \in Active \cup {"done", "raised"}
         /\ UNCHANGED <<job, caller>>
BY DEF IInv, TypeOK, Work, Reject, FailReconcile, ReconcileRaises, Reconcile, Lookup, Save, SaveFails,
       OpenArtifact, WriteArtifact, WriteFails, RenderRaises, Complete, Publish, Ends, Goes, Forget,
       Active, env

(* A write begins with a format to write. *)
LEMMA WritingStep ==
  ASSUME IInv, NEW r \in Runs, Work(r), pc'[r] = "writing"
  PROVE  OpenArtifact(r) /\ toRender[r] # <<>> /\ toRender'[r] = toRender[r]
BY DEF IInv, TypeOK, Work, Reject, FailReconcile, ReconcileRaises, Reconcile, Lookup, Save, SaveFails,
       OpenArtifact, WriteArtifact, WriteFails, RenderRaises, Complete, Publish, Ends, Goes

(* Every step leaves each thread and caller what its work needs. *)
LEMMA WorkStep == IInv /\ [Next]_vars => WorkInv'
<1> SUFFICES ASSUME IInv, [Next]_vars PROVE WorkInv'
  OBVIOUS
<1> USE DEF IInv
<1>1. ASSUME NEW r \in Runs, NEW j \in JobIds, SubmitRefused(r, j)
      PROVE  WorkInv'
  BY <1>1 DEF WorkInv, TypeOK, SubmitRefused, Submits, env, Active
<1>2. ASSUME NEW r \in Runs, NEW j \in JobIds, NEW formats \in Requests, Submit(r, j, formats)
      PROVE  WorkInv'
  BY <1>2 DEF WorkInv, TypeOK, Submit, Submits, Active
<1>3. CASE Start
  BY <1>3 DEF WorkInv, TypeOK, Start, Goes, env, Active
<1>4. ASSUME NEW r \in Runs, Work(r)
      PROVE  WorkInv'
  BY <1>4, WorkFrame, WritingStep DEF WorkInv, Active
<1>5. ASSUME NEW c \in Callers, Call(c) \/ TimeOut(c) \/ Shutdown(c) \/ \E j \in JobIds : Wait(c, j)
      PROVE  WorkInv'
  <2>1. ASSUME NEW what, what.doing \in {"waiting", "reading"} => what.job \in JobIds,
               Does(c, what), UNCHANGED thread
        PROVE  WorkInv'
    BY <2>1 DEF WorkInv, TypeOK, Does, thread
  <2>2. CASE Wake(c)
    BY <2>1, <2>2 DEF Wake, TypeOK, WorkInv, Idle
  <2>3. CASE Read(c)
    BY <2>1, <2>3 DEF Read, TypeOK
  <2>4. CASE Stopped(c) \/ TimeOut(c) \/ Shutdown(c)
    BY <2>1, <2>4 DEF Stopped, TimeOut, Shutdown, Idle
  <2>5. ASSUME NEW j \in JobIds, Wait(c, j)
        PROVE  WorkInv'
    BY <2>1, <2>5 DEF Wait, Idle
  <2>6. QED BY <1>5, <2>2, <2>3, <2>4, <2>5 DEF Call
<1>6. CASE Restart
  BY <1>6 DEF WorkInv, TypeOK, Restart, Idle, Active
<1>7. CASE UNCHANGED vars
  BY <1>7 DEF WorkInv, vars, env, thread
<1>8. QED BY <1>1, <1>2, <1>3, <1>4, <1>5, <1>6, <1>7 DEF Next

(* A row, once there, stays: every save leaves one. *)
LEMMA RowsStay ==
  ASSUME IInv, [Next]_vars, NEW j \in JobIds, stored[j] # None
  PROVE  stored'[j] # None
<1> USE DEF IInv
<1>1. ASSUME NEW r \in Runs, Work(r)
      PROVE  stored'[j] # None
  BY <1>1, JobAssumption DEF TypeOK, Work, Reject, FailReconcile, ReconcileRaises, Reconcile, Lookup, Save,
       SaveFails, OpenArtifact, WriteArtifact, WriteFails, RenderRaises, Complete, Publish, RowAfter, disk
<1>2. Next /\ (\A r \in Runs : ~Work(r)) => UNCHANGED stored
  BY DEF Next, SubmitRefused, Submit, Start, Call, Wake, Read, Stopped, TimeOut, Shutdown, Wait, Restart, disk
<1>3. UNCHANGED vars => UNCHANGED stored
  BY DEF vars, disk
<1>4. QED BY <1>1, <1>2, <1>3

(* Only a run that has saved comes to render. *)
LEMMA SavedStep == IInv /\ [Next]_vars => SavedInv'
<1> SUFFICES ASSUME IInv, [Next]_vars,
                    NEW q \in Runs, pc'[q] \in {"rendering", "writing"}
             PROVE  stored'[job'[q]] # None
  BY DEF SavedInv
<1> USE DEF IInv
<1>1. ASSUME pc[q] \in {"rendering", "writing"}, UNCHANGED job
      PROVE  stored'[job'[q]] # None
  BY <1>1, RowsStay DEF SavedInv, WorkInv, Active
<1>2. ASSUME NEW r \in Runs, NEW j \in JobIds, Submits(r, j), pc' = [pc EXCEPT ![r] = pc'[r]],
             pc'[r] \in {"queued", "refused"}
      PROVE  stored'[job'[q]] # None
  BY <1>2, RowsStay DEF Submits, TypeOK, SavedInv, WorkInv, Active
<1>3. ASSUME NEW r \in Runs, NEW j \in JobIds,
             SubmitRefused(r, j) \/ \E formats \in Requests : Submit(r, j, formats)
      PROVE  stored'[job'[q]] # None
  BY <1>2, <1>3 DEF SubmitRefused, Submit, Submits, TypeOK
<1>4. CASE Start
  BY <1>1, <1>4 DEF Start, Goes, TypeOK
<1>5. ASSUME NEW r \in Runs, Work(r)
      PROVE  stored'[job'[q]] # None
  <2>1. CASE q # r \/ pc[q] \in {"rendering", "writing"}
    BY <1>1, <1>5, <2>1, WorkFrame
  <2>2. CASE q = r /\ pc[q] \notin {"rendering", "writing"}
    <3>1. Save(r)
      BY <1>5, <2>2 DEF Work, Reject, FailReconcile, ReconcileRaises, Reconcile, Lookup, SaveFails, OpenArtifact,
                        WriteArtifact, WriteFails, RenderRaises, Complete, Publish, Ends, Goes, TypeOK
    <3>2. job[r] \in JobIds /\ UNCHANGED job
      BY <1>5, WorkFrame DEF WorkInv
    <3>3. QED BY <2>2, <3>1, <3>2, JobAssumption DEF Save, RowAfter, TypeOK
  <2>3. QED BY <2>1, <2>2
<1>6. ASSUME NEW c \in Callers, Call(c) \/ TimeOut(c) \/ Shutdown(c) \/ \E j \in JobIds : Wait(c, j)
      PROVE  stored'[job'[q]] # None
  BY <1>1, <1>6 DEF Call, Wake, Read, Stopped, TimeOut, Shutdown, Wait, thread
<1>7. CASE Restart
  BY <1>1, <1>7 DEF Restart, TypeOK
<1>8. CASE UNCHANGED vars
  BY <1>1, <1>8 DEF vars, thread
<1>9. QED BY <1>3, <1>4, <1>5, <1>6, <1>7, <1>8 DEF Next

(* Only a run that has saved touches the files in the directory of its job. *)
LEMMA ReportsStep == IInv /\ [Next]_vars => ReportsHaveResult'
<1> SUFFICES ASSUME IInv, [Next]_vars,
                    NEW d \in Directories, NEW f \in Formats, files'[d][f] # None
             PROVE  \E j \in JobIds : directory'[j] = d /\ stored'[j] # None
  BY DEF ReportsHaveResult
<1> USE DEF IInv
<1>1. UNCHANGED directory
  BY DEF Next, SubmitRefused, Submit, Start, Work, Reject, FailReconcile, ReconcileRaises, Reconcile, Lookup,
         Save, SaveFails, OpenArtifact, WriteArtifact, WriteFails, RenderRaises, Complete, Publish,
         Call, Wake, Read, Stopped, TimeOut, Shutdown, Wait, Restart, vars, env, rest
<1>2. ASSUME files[d][f] # None
      PROVE  \E j \in JobIds : directory'[j] = d /\ stored'[j] # None
  BY <1>1, <1>2, RowsStay DEF ReportsHaveResult
<1>3. ASSUME NEW r \in Runs, Work(r)
      PROVE  \E j \in JobIds : directory'[j] = d /\ stored'[j] # None
  <2>1. CASE OpenArtifact(r) \/ WriteArtifact(r)
    <3>1. job[r] \in JobIds /\ stored[job[r]] # None
      BY <2>1 DEF OpenArtifact, WriteArtifact, Goes, SavedInv, WorkInv, Active
    <3>2. d = directory[job[r]] \/ files[d][f] # None
      BY <2>1, <3>1 DEF OpenArtifact, WriteArtifact, TypeOK
    <3>3. QED BY <1>1, <1>2, <3>1, <3>2, RowsStay
  <2>2. CASE ~OpenArtifact(r) /\ ~WriteArtifact(r)
    <3>1. UNCHANGED files
      BY <1>3, <2>2 DEF Work, Reject, FailReconcile, ReconcileRaises, Reconcile, Lookup, Save, SaveFails,
                        WriteFails, RenderRaises, Complete, Publish, disk
    <3>2. QED BY <1>2, <3>1
  <2>3. QED BY <2>1, <2>2
<1>4. Next /\ (\A r \in Runs : ~Work(r)) => UNCHANGED files
  BY DEF Next, SubmitRefused, Submit, Start, Call, Wake, Read, Stopped, TimeOut, Shutdown, Wait, Restart, disk
<1>5. UNCHANGED vars => UNCHANGED files
  BY DEF vars, disk
<1>6. QED BY <1>2, <1>3, <1>4, <1>5

(* The invariant holds throughout. *)
LEMMA Invariance == Spec => []IInv
<1>1. IInv /\ [Next]_vars => IInv'
  BY TypeStep, WorkStep, SavedStep, ReportsStep DEF IInv
<1>2. QED BY InitInv, <1>1, PTL DEF Spec

-----------------------------------------------------------------------------
(* Each variable of the executor, its threads and its callers keeps its    *)
(* type; a caller that waits has a future to wait for.                     *)
THEOREM TypeCorrect == Spec => []TypeOK
BY Invariance, PTL DEF IInv

(* comparison_job.py: no failure and no restart leaves a report file in a  *)
(* directory none of whose jobs has a result in the repository.            *)
THEOREM ReportsHaveResultHolds == Spec => []ReportsHaveResult
BY Invariance, PTL DEF IInv

-----------------------------------------------------------------------------
(* What the records say of their runs. *)

(* A RUNNING record is that of a run that was submitted for the job and    *)
(* has not published another.                                              *)
RunningInv ==
  \A j \in JobIds :
    records[j] # None /\ records[j].state = "RUNNING" =>
      pc[records[j].run] \notin {"new", "done"} /\ job[records[j].run] = j

(* An outcome is the run's own, and terminal; it is there while the run    *)
(* renders and publishes.                                                  *)
OutcomeInv ==
  \A r \in Runs :
    /\ outcome[r] # None => /\ pc[r] \in {"rendering", "writing", "publishing"}
                            /\ outcome[r].run = r /\ outcome[r].state \in Terminal
    /\ pc[r] = "publishing" => outcome[r] # None

(* Who reads a record has seen the future it waited for done. *)
WaitInv ==
  \A c \in Callers :
    caller[c].doing = "reading" /\ caller[c].future # None => pc[caller[c].future] = "done"

RecordInv == IInv /\ RunningInv /\ OutcomeInv /\ WaitInv /\ WaitOutlastsItsRun


(* Nothing has been submitted: there is no record, no outcome, no reader. *)
LEMMA RecordInit == Init => RecordInv
<1> SUFFICES ASSUME Init PROVE RecordInv
  OBVIOUS
<1>1. RunningInv /\ OutcomeInv /\ WaitInv /\ WaitOutlastsItsRun
  BY DEF Init, Idle, RunningInv, OutcomeInv, WaitInv, WaitOutlastsItsRun
<1>2. QED BY <1>1, InitInv DEF RecordInv

(* Only publishing writes a record or makes a future done. *)
LEMMA WorkRecords ==
  ASSUME IInv, NEW r \in Runs, Work(r)
  PROVE  Publish(r) \/ (UNCHANGED records /\ pc'[r] # "done")
BY DEF IInv, TypeOK, Work, Reject, FailReconcile, ReconcileRaises, Reconcile, Lookup, Save, SaveFails,
       OpenArtifact, WriteArtifact, WriteFails, RenderRaises, Complete, Ends, Goes, memory, Active

(* The caller's calls leave everything else alone. *)
LEMMA CallFrame ==
  ASSUME NEW c \in Callers, Call(c) \/ TimeOut(c) \/ Shutdown(c) \/ \E j \in JobIds : Wait(c, j)
  PROVE  UNCHANGED <<records, futures, queue, thread, disk, rest>>
BY DEF Call, Wake, Read, Stopped, TimeOut, Shutdown, Wait, memory

(* A RUNNING record outlives its run only as long as that has not          *)
(* published.                                                              *)
LEMMA RunningStep == RecordInv /\ [Next]_vars => RunningInv'
<1> SUFFICES ASSUME RecordInv, [Next]_vars,
                    NEW k \in JobIds, records'[k] # None, records'[k].state = "RUNNING"
             PROVE  pc'[records'[k].run] \notin {"new", "done"} /\ job'[records'[k].run] = k
  BY DEF RunningInv
<1> USE DEF RecordInv, IInv
<1>1. ASSUME records'[k] = records[k] PROVE records[k].run \in Runs
  BY <1>1 DEF TypeOK, RecordSet
<1>2. ASSUME NEW r \in Runs, NEW j \in JobIds, Submits(r, j),
             pc' = [pc EXCEPT ![r] = "queued"] \/ pc' = [pc EXCEPT ![r] = "refused"]
      PROVE  pc'[records'[k].run] \notin {"new", "done"} /\ job'[records'[k].run] = k
  <2>1. CASE k = j
    BY <1>2, <2>1 DEF Submits, Record, TypeOK
  <2>2. CASE k # j
    <3>1. records'[k] = records[k]
      BY <1>2, <2>2 DEF Submits, TypeOK
    <3>2. records[k].run # r
      BY <1>2, <3>1 DEF Submits, RunningInv
    <3>3. QED BY <1>1, <1>2, <3>1, <3>2 DEF Submits, TypeOK, RunningInv
  <2>3. QED BY <2>1, <2>2
<1>3. ASSUME NEW r \in Runs, NEW j \in JobIds,
             SubmitRefused(r, j) \/ \E formats \in Requests : Submit(r, j, formats)
      PROVE  pc'[records'[k].run] \notin {"new", "done"} /\ job'[records'[k].run] = k
  BY <1>2, <1>3 DEF SubmitRefused, Submit
<1>4. CASE Start
  BY <1>1, <1>4 DEF Start, Goes, TypeOK, RunningInv, env
<1>5. ASSUME NEW r \in Runs, Work(r)
      PROVE  pc'[records'[k].run] \notin {"new", "done"} /\ job'[records'[k].run] = k
  <2>1. CASE Publish(r)
    <3>1. job[r] \in JobIds
      BY <2>1 DEF Publish, Goes, WorkInv, Active
    <3>2. outcome[r].state # "RUNNING"
      BY <2>1 DEF Publish, Goes, OutcomeInv, Terminal
    <3>3. k # job[r] /\ records'[k] = records[k]
      BY <2>1, <3>1, <3>2 DEF Publish, TypeOK
    <3>4. records[k].run # r
      BY <3>3 DEF RunningInv
    <3>5. QED BY <1>1, <2>1, <3>3, <3>4 DEF Publish, Goes, TypeOK, RunningInv
  <2>2. CASE UNCHANGED records /\ pc'[r] # "done"
    BY <1>1, <1>5, <2>2, WorkFrame DEF RunningInv, Active
  <2>3. QED BY <1>5, <2>1, <2>2, WorkRecords
<1>6. ASSUME NEW c \in Callers, Call(c) \/ TimeOut(c) \/ Shutdown(c) \/ \E j \in JobIds : Wait(c, j)
      PROVE  pc'[records'[k].run] \notin {"new", "done"} /\ job'[records'[k].run] = k
  BY <1>6, CallFrame DEF RunningInv, thread
<1>7. CASE Restart
  BY <1>7 DEF Restart
<1>8. CASE UNCHANGED vars
  BY <1>8 DEF RunningInv, vars, env, memory, thread
<1>9. QED BY <1>3, <1>4, <1>5, <1>6, <1>7, <1>8 DEF Next

(* A run's outcome is its own. *)
LEMMA OutcomeStep == RecordInv /\ [Next]_vars => OutcomeInv'
<1> SUFFICES ASSUME RecordInv, [Next]_vars PROVE OutcomeInv'
  OBVIOUS
<1> USE DEF RecordInv, IInv
<1>1. ASSUME NEW r \in Runs, NEW j \in JobIds,
             SubmitRefused(r, j) \/ \E formats \in Requests : Submit(r, j, formats)
      PROVE  OutcomeInv'
  BY <1>1 DEF OutcomeInv, TypeOK, SubmitRefused, Submit, Submits
<1>2. CASE Start
  BY <1>2 DEF OutcomeInv, TypeOK, Start, Goes
<1>3. ASSUME NEW r \in Runs, Work(r)
      PROVE  OutcomeInv'
  <2>1. \A state, written : /\ Record(state, written, r).run = r
                            /\ Record(state, written, r).state = state
    BY DEF Record
  <2>2. ASSUME NEW from, NEW state \in Terminal, NEW written \in SUBSET Formats, Ends(r, from, state, written)
        PROVE  OutcomeInv'
    <3>1. /\ pc' = [pc EXCEPT ![r] = "publishing"]
          /\ outcome' = [outcome EXCEPT ![r] = Record(state, written, r)]
      BY <2>2 DEF Ends, Goes
    <3>2. outcome'[r] = Record(state, written, r) /\ pc'[r] = "publishing"
      BY <3>1 DEF TypeOK
    <3>3. \A q \in Runs \ {r} : outcome'[q] = outcome[q] /\ pc'[q] = pc[q]
      BY <3>1 DEF TypeOK
    <3>4. Record(state, written, r) # None
      BY <2>2, RecordType, JobAssumption
    <3>5. QED BY <2>1, <2>2, <3>2, <3>3, <3>4 DEF OutcomeInv
  <2>3. CASE Reject(r) \/ FailReconcile(r) \/ SaveFails(r) \/ Complete(r)
    <3>1. /\ "REJECTED" \in Terminal /\ "FAILED" \in Terminal /\ "COMPLETED" \in Terminal
          /\ {} \in SUBSET Formats /\ Listed(r) \in SUBSET Formats
      BY ListedType DEF Terminal
    <3>2. \/ Ends(r, "running", "REJECTED", {}) \/ Ends(r, "running", "FAILED", {})
          \/ Ends(r, "committing", "FAILED", {}) \/ Ends(r, "rendering", "COMPLETED", Listed(r))
      BY <2>3 DEF Reject, FailReconcile, SaveFails, Complete
    <3>3. QED BY <2>2, <3>1, <3>2
  <2>4. CASE ReconcileRaises(r) \/ Reconcile(r) \/ Lookup(r) \/ Save(r)
    BY <2>4 DEF OutcomeInv, TypeOK, ReconcileRaises, Reconcile, Lookup, Save, Goes
  <2>5. CASE OpenArtifact(r) \/ WriteFails(r)
    BY <2>5 DEF OutcomeInv, TypeOK, OpenArtifact, WriteFails, Goes
  <2>6. CASE WriteArtifact(r)
    <3>1. /\ pc' = [pc EXCEPT ![r] = "rendering"]
          /\ \E written : outcome' = [outcome EXCEPT ![r] = Record("COMPLETED", written, r)]
      BY <2>6 DEF WriteArtifact, Goes
    <3>2. /\ pc'[r] = "rendering"
          /\ \E written : outcome'[r] = Record("COMPLETED", written, r)
      BY <3>1 DEF TypeOK
    <3>3. \A q \in Runs \ {r} : outcome'[q] = outcome[q] /\ pc'[q] = pc[q]
      BY <3>1 DEF TypeOK
    <3>4. QED BY <2>1, <3>2, <3>3 DEF OutcomeInv, Terminal
  <2>7. CASE RenderRaises(r) \/ Publish(r)
    <3>1. /\ pc' = [pc EXCEPT ![r] = "raised"] \/ pc' = [pc EXCEPT ![r] = "done"]
          /\ outcome' = [outcome EXCEPT ![r] = None]
      BY <2>7 DEF RenderRaises, Publish, Goes
    <3>2. /\ pc'[r] \in {"raised", "done"} /\ outcome'[r] = None
          /\ \A q \in Runs \ {r} : outcome'[q] = outcome[q] /\ pc'[q] = pc[q]
      BY <3>1 DEF TypeOK
    <3>3. QED BY <3>2 DEF OutcomeInv
  <2>8. QED BY <1>3, <2>3, <2>4, <2>5, <2>6, <2>7 DEF Work
<1>4. ASSUME NEW c \in Callers, Call(c) \/ TimeOut(c) \/ Shutdown(c) \/ \E j \in JobIds : Wait(c, j)
      PROVE  OutcomeInv'
  BY <1>4, CallFrame DEF OutcomeInv, thread
<1>5. CASE Restart
  BY <1>5 DEF Restart, OutcomeInv, Active
<1>6. CASE UNCHANGED vars
  BY <1>6 DEF OutcomeInv, vars, thread
<1>7. QED BY <1>1, <1>2, <1>3, <1>4, <1>5, <1>6 DEF Next

(* A future that is done stays done, so the record read after it is not    *)
(* the RUNNING one of its run.                                             *)
LEMMA WaitStep == RecordInv /\ [Next]_vars => WaitInv' /\ WaitOutlastsItsRun'
<1> SUFFICES ASSUME RecordInv, [Next]_vars PROVE WaitInv' /\ WaitOutlastsItsRun'
  OBVIOUS
<1> USE DEF RecordInv, IInv
<1>1. ASSUME UNCHANGED caller, \A r \in Runs : pc[r] = "done" => pc'[r] = "done"
      PROVE  WaitInv' /\ WaitOutlastsItsRun'
  BY <1>1 DEF TypeOK, WaitInv, WaitOutlastsItsRun
<1>2. ASSUME NEW r \in Runs, NEW j \in JobIds,
             SubmitRefused(r, j) \/ \E formats \in Requests : Submit(r, j, formats)
      PROVE  WaitInv' /\ WaitOutlastsItsRun'
  BY <1>1, <1>2 DEF TypeOK, SubmitRefused, Submit, Submits, env
<1>3. CASE Start
  BY <1>1, <1>3 DEF TypeOK, Start, Goes, env
<1>4. ASSUME NEW r \in Runs, Work(r)
      PROVE  WaitInv' /\ WaitOutlastsItsRun'
  BY <1>1, <1>4, WorkFrame DEF Active
<1>5. ASSUME NEW c \in Callers, NEW what, Does(c, what), UNCHANGED thread,
             what.doing = "reading" /\ what.future # None => pc[what.future] = "done",
             (what.answer # None /\ what.future # None /\ what.answer.run = what.future)
               => what.answer.state \in Terminal
      PROVE  WaitInv' /\ WaitOutlastsItsRun'
  BY <1>5 DEF TypeOK, WaitInv, WaitOutlastsItsRun, Does, thread
<1>6. ASSUME NEW c \in Callers, Wake(c)
      PROVE  WaitInv' /\ WaitOutlastsItsRun'
  <2>1. CASE pc[caller[c].future] = "raised"
    BY <1>5, <1>6, <2>1 DEF Wake, Idle
  <2>2. CASE pc[caller[c].future] # "raised"
    BY <1>5, <1>6, <2>2 DEF Wake, IsDone, TypeOK, WaitOutlastsItsRun
  <2>3. QED BY <2>1, <2>2
<1>7. ASSUME NEW c \in Callers, Read(c)
      PROVE  WaitInv' /\ WaitOutlastsItsRun'
  <2> DEFINE record == records[caller[c].job]
             what == [caller[c] EXCEPT !.doing = "idle", !.answer = record]
  <2>1. /\ what.doing = "idle" /\ what.answer = record /\ what.future = caller[c].future
        /\ caller[c].job \in JobIds
    BY <1>7 DEF TypeOK, WorkInv, Read
  <2>2. ASSUME record # None, caller[c].future # None, record.run = caller[c].future
        PROVE  record.state \in Terminal
    <3>1. pc[record.run] = "done"
      BY <1>7, <2>2 DEF Read, WaitInv
    <3>2. record.state # "RUNNING"
      BY <2>1, <2>2, <3>1 DEF RunningInv
    <3>3. QED BY <2>1, <2>2, <3>2 DEF TypeOK, RecordSet
  <2>3. Does(c, what) /\ UNCHANGED thread
    BY <1>7 DEF Read
  <2> HIDE DEF record, what
  <2>4. QED BY <1>5, <2>1, <2>2, <2>3
<1>8. ASSUME NEW c \in Callers, Stopped(c) \/ TimeOut(c) \/ Shutdown(c) \/ \E j \in JobIds : Wait(c, j)
      PROVE  WaitInv' /\ WaitOutlastsItsRun'
  BY <1>5, <1>8 DEF Stopped, TimeOut, Shutdown, Wait, Idle
<1>9. CASE Restart
  BY <1>9 DEF Restart, Idle, WaitInv, WaitOutlastsItsRun
<1>10. CASE UNCHANGED vars
  BY <1>1, <1>10 DEF vars, env, thread
<1>11. QED BY <1>2, <1>3, <1>4, <1>6, <1>7, <1>8, <1>9, <1>10 DEF Next, Call

(* The records keep telling the truth about their runs. *)
LEMMA RecordInvariance == Spec => []RecordInv
<1>1. RecordInv /\ [Next]_vars => RecordInv'
  BY TypeStep, WorkStep, SavedStep, ReportsStep, RunningStep, OutcomeStep, WaitStep DEF RecordInv, IInv
<1>2. QED BY RecordInit, <1>1, PTL DEF Spec

(* wait() never answers with the RUNNING record of the run whose future it *)
(* waited for, whoever submits, shuts down, restarts or times out around   *)
(* it.                                                                     *)
THEOREM WaitOutlastsItsRunHolds == Spec => []WaitOutlastsItsRun
BY RecordInvariance, PTL DEF RecordInv

-----------------------------------------------------------------------------
(* What a job that no second run overlapped has to show for itself.        *)

Once(formats) == \A i, k \in 1..Len(formats) : formats[i] = formats[k] => i = k

(* Every request names each of its formats once. *)
EachFormatOnce == \A formats \in Requests : Once(formats)

(* Its run is alone, and its record says RUNNING as long as it is there. *)
AloneInv ==
  \A j \in JobIds \ overlapped : \A r \in Underway(j) :
    /\ Underway(j) = {r}
    /\ records[j].state = "RUNNING"

(* What is listed as written is not rendered again. *)
RenderInv ==
  \A r \in Runs :
    Once(toRender[r]) /\ \A i \in 1..Len(toRender[r]) : toRender[r][i] \notin Listed(r)

(* The run has got past save() and has not failed. *)
HasSaved(r) ==
  \/ pc[r] \in {"rendering", "writing"}
  \/ pc[r] = "publishing" /\ outcome[r].state = "COMPLETED"

(* The row and the files of a run that has saved are its own. *)
Shows(j, r, written) ==
  /\ stored[j] = r
  /\ SharesDirectory(j) \/ \A f \in written : files[directory[j]][f] = r

OwnInv ==
  \A r \in Runs :
    HasSaved(r) /\ job[r] \notin overlapped => Shows(job[r], r, Listed(r))

CurrentInv == RecordInv /\ AloneInv /\ RenderInv /\ OwnInv /\ CompletedIsCurrent

(* There is no run at first. *)
LEMMA CurrentInit == Init => CurrentInv
<1> SUFFICES ASSUME Init PROVE CurrentInv
  OBVIOUS
<1>1. AloneInv /\ OwnInv /\ CompletedIsCurrent
  BY DEF Init, AloneInv, OwnInv, HasSaved, CompletedIsCurrent, Underway, Active
<1>2. RenderInv
  BY DEF Init, RenderInv, Once
<1>3. QED BY <1>1, <1>2, RecordInit DEF CurrentInv

(* What a run of one job can touch of another's. *)
LEMMA WorkEffects ==
  ASSUME IInv, NEW r \in Runs, Work(r)
  PROVE  /\ \A j \in JobIds \ {job[r]} : stored'[j] = stored[j]
         /\ \A d \in Directories \ {directory[job[r]]} : files'[d] = files[d]
         /\ \A q \in Runs \ {r} : outcome'[q] = outcome[q]
         /\ UNCHANGED <<directory, overlapped>>
<1> USE DEF IInv
<1>1. \A j \in JobIds \ {job[r]} : stored'[j] = stored[j]
  BY DEF TypeOK, Work, Reject, FailReconcile, ReconcileRaises, Reconcile, Lookup, Save, SaveFails,
         OpenArtifact, WriteArtifact, WriteFails, RenderRaises, Complete, Publish, disk
<1>2. \A d \in Directories \ {directory[job[r]]} : files'[d] = files[d]
  BY DEF TypeOK, Work, Reject, FailReconcile, ReconcileRaises, Reconcile, Lookup, Save, SaveFails,
         OpenArtifact, WriteArtifact, WriteFails, RenderRaises, Complete, Publish, disk
<1>3. \A q \in Runs \ {r} : outcome'[q] = outcome[q]
  BY DEF TypeOK, Work, Reject, FailReconcile, ReconcileRaises, Reconcile, Lookup, Save, SaveFails, Ends,
         OpenArtifact, WriteArtifact, WriteFails, RenderRaises, Complete, Publish
<1>4. UNCHANGED <<directory, overlapped>>
  BY DEF Work, Reject, FailReconcile, ReconcileRaises, Reconcile, Lookup, Save, SaveFails,
         OpenArtifact, WriteArtifact, WriteFails, RenderRaises, Complete, Publish, env, rest
<1>5. QED BY <1>1, <1>2, <1>3, <1>4

(* A step that is not a run's touches neither rows nor files, and what has *)
(* overlapped stays so.                                                    *)
LEMMA OtherEffects ==
  ASSUME [Next]_vars, \A r \in Runs : ~Work(r)
  PROVE  /\ UNCHANGED <<stored, files, directory>>
         /\ overlapped \subseteq overlapped'
<1>1. CASE UNCHANGED vars
  BY <1>1 DEF vars, env, rest, disk
<1>2. CASE Start \/ Restart
  BY <1>2 DEF Start, Restart, env, rest, disk
<1>3. CASE \E c \in Callers : Call(c) \/ TimeOut(c) \/ Shutdown(c) \/ \E j \in JobIds : Wait(c, j)
  BY <1>3, CallFrame DEF rest, disk
<1>4. ASSUME NEW r \in Runs, NEW j \in JobIds,
             SubmitRefused(r, j) \/ \E formats \in Requests : Submit(r, j, formats)
      PROVE  /\ UNCHANGED <<stored, files, directory>>
             /\ overlapped \subseteq overlapped'
  BY <1>4 DEF SubmitRefused, Submit, env, rest, disk
<1>5. QED BY <1>1, <1>2, <1>3, <1>4 DEF Next

(* A run that has its job to itself keeps it, and a second one that is     *)
(* submitted beside it is on record.                                       *)
LEMMA AloneStep == RecordInv /\ AloneInv /\ [Next]_vars => AloneInv'
<1> SUFFICES ASSUME RecordInv, AloneInv, [Next]_vars PROVE AloneInv'
  OBVIOUS
<1> USE DEF RecordInv, IInv
<1>1. ASSUME overlapped \subseteq overlapped',
             \A j \in JobIds : /\ Underway(j)' \subseteq Underway(j)
                               /\ Underway(j)' # {} => records'[j].state = records[j].state
      PROVE  AloneInv'
  BY <1>1 DEF AloneInv
<1>2. ASSUME NEW r \in Runs, NEW k \in JobIds, NEW formats \in Requests, Submit(r, k, formats)
      PROVE  AloneInv'
  <2>1. SUFFICES ASSUME NEW j \in JobIds \ overlapped', NEW q \in Underway(j)'
                 PROVE  Underway(j)' = {q} /\ records'[j].state = "RUNNING"
    BY DEF AloneInv
  <2>2. /\ pc[r] = "new" /\ pc' = [pc EXCEPT ![r] = "queued"] /\ job' = [job EXCEPT ![r] = k]
        /\ records' = [records EXCEPT ![k] = Record("RUNNING", {}, r)]
        /\ overlapped \subseteq overlapped' /\ (k \notin overlapped' => Underway(k) = {})
    BY <1>2 DEF Submit, Submits
  <2>3. CASE j = k
    <3>1. Underway(j) = {}
      BY <2>1, <2>2, <2>3
    <3>2. Underway(j)' = {r}
      BY <2>2, <2>3, <3>1 DEF Underway, TypeOK
    <3>3. records'[j] = Record("RUNNING", {}, r)
      BY <2>2, <2>3 DEF TypeOK
    <3>4. QED BY <3>2, <3>3 DEF Record
  <2>4. CASE j # k
    <3>1. Underway(j)' = Underway(j)
      BY <2>2, <2>4 DEF Underway, TypeOK, Active
    <3>2. records'[j] = records[j] /\ j \notin overlapped
      BY <2>1, <2>2, <2>4 DEF TypeOK
    <3>3. QED BY <3>1, <3>2 DEF AloneInv
  <2>5. QED BY <2>3, <2>4
<1>3. ASSUME NEW r \in Runs, NEW k \in JobIds, SubmitRefused(r, k)
      PROVE  AloneInv'
  <2>1. /\ pc[r] = "new" /\ pc' = [pc EXCEPT ![r] = "refused"] /\ job' = [job EXCEPT ![r] = k]
        /\ records' = [records EXCEPT ![k] = Record("RUNNING", {}, r)]
        /\ overlapped' = overlapped
    BY <1>3 DEF SubmitRefused, Submits, env, rest
  <2>2. \A j \in JobIds : Underway(j)' = Underway(j)
    BY <2>1 DEF Underway, TypeOK, Active
  <2>3. /\ records'[k].state = "RUNNING"
        /\ \A j \in JobIds \ {k} : records'[j] = records[j]
    BY <2>1 DEF TypeOK, Record
  <2>4. QED BY <2>1, <2>2, <2>3 DEF AloneInv
<1>4. CASE Start
  <2>1. \A j \in JobIds : Underway(j)' \subseteq Underway(j)
    BY <1>4 DEF Start, Goes, Underway, TypeOK, Active
  <2>2. QED BY <1>1, <1>4, <2>1 DEF Start, env, rest
<1>5. ASSUME NEW r \in Runs, Work(r)
      PROVE  AloneInv'
  <2>1. \A j \in JobIds : Underway(j)' \subseteq Underway(j)
    BY <1>5, WorkFrame DEF Underway
  <2>2. CASE UNCHANGED records
    BY <1>1, <1>5, <2>1, <2>2, WorkEffects
  <2>3. CASE Publish(r)
    <3>1. \A j \in JobIds \ {job[r]} : records'[j] = records[j]
      BY <2>3 DEF Publish, TypeOK
    <3>2. \A j \in JobIds : r \notin Underway(j)' /\ (j = job[r] => r \in Underway(j))
      BY <2>3 DEF Publish, Goes, Underway, TypeOK, Active
    <3>3. ASSUME NEW j \in JobIds \ overlapped, j = job[r] PROVE Underway(j)' = {}
      BY <2>1, <3>2, <3>3 DEF AloneInv
    <3>4. UNCHANGED overlapped
      BY <1>5, WorkEffects
    <3>5. QED BY <2>1, <3>1, <3>3, <3>4 DEF AloneInv
  <2>4. QED BY <1>5, <2>2, <2>3, WorkRecords
<1>6. ASSUME NEW c \in Callers, Call(c) \/ TimeOut(c) \/ Shutdown(c) \/ \E j \in JobIds : Wait(c, j)
      PROVE  AloneInv'
  BY <1>1, <1>6, CallFrame DEF thread, rest, Underway
<1>7. CASE Restart
  <2>1. \A j \in JobIds : Underway(j)' = {}
    BY <1>7 DEF Restart, Underway, Active
  <2>2. QED BY <2>1 DEF AloneInv
<1>8. CASE UNCHANGED vars
  BY <1>1, <1>8 DEF vars, env, rest, memory, thread, Underway
<1>9. QED BY <1>2, <1>3, <1>4, <1>5, <1>6, <1>7, <1>8 DEF Next

(* What is left to render is not what has just been rendered. *)
LEMMA OnceTail ==
  ASSUME NEW s \in Seq(Formats), s # <<>>, Once(s)
  PROVE  /\ Once(Tail(s))
         /\ \A i \in 1..Len(Tail(s)) : Tail(s)[i] # Head(s) /\ \E k \in 1..Len(s) : Tail(s)[i] = s[k]
<1>1. /\ Len(s) \in Nat /\ Len(s) # 0 /\ Len(Tail(s)) = Len(s) - 1 /\ Head(s) = s[1]
      /\ \A i \in 1..Len(Tail(s)) : Tail(s)[i] = s[i + 1]
  BY HeadTailProperties, LenProperties, EmptySeq
<1>2. \A i \in 1..Len(Tail(s)) : i + 1 \in 1..Len(s) /\ i + 1 # 1
  BY <1>1
<1>3. 1 \in 1..Len(s)
  BY <1>1
<1>4. \A i \in 1..Len(Tail(s)) : Tail(s)[i] # Head(s) /\ \E k \in 1..Len(s) : Tail(s)[i] = s[k]
  BY <1>1, <1>2, <1>3 DEF Once
<1>5. Once(Tail(s))
  <2>1. SUFFICES ASSUME NEW i \in 1..Len(Tail(s)), NEW k \in 1..Len(Tail(s)), Tail(s)[i] = Tail(s)[k]
                 PROVE  i = k
    BY DEF Once
  <2>2. i + 1 = k + 1
    BY <1>1, <1>2, <2>1 DEF Once
  <2>3. QED BY <1>1, <2>2
<1>6. QED BY <1>4, <1>5

(* A run that leaves run(), or fails, has nothing left to render; one that *)
(* goes on renders the rest of its formats.                                *)
LEMMA RenderStep ==
  EachFormatOnce /\ RecordInv /\ RenderInv /\ [Next]_vars => RenderInv'
<1> SUFFICES ASSUME EachFormatOnce, RecordInv, RenderInv, [Next]_vars PROVE RenderInv'
  OBVIOUS
<1> USE DEF RecordInv, IInv
<1> DEFINE Good(r) ==
             Once(toRender[r]) /\ \A i \in 1..Len(toRender[r]) : toRender[r][i] \notin Listed(r)
<1>1. ASSUME NEW q \in Runs, toRender'[q] = <<>> PROVE Good(q)'
  BY <1>1 DEF Once
<1>2. ASSUME NEW q \in Runs, toRender'[q] = toRender[q], outcome'[q] \in {outcome[q], None}
      PROVE  Good(q)'
  BY <1>2 DEF RenderInv, Listed
<1>3. ASSUME NEW r \in Runs, NEW k \in JobIds, NEW formats \in Requests, Submit(r, k, formats)
      PROVE  RenderInv'
  <2>1. /\ toRender' = [toRender EXCEPT ![r] = formats] /\ outcome' = outcome
        /\ outcome[r] = None
    BY <1>3 DEF Submit, Submits, OutcomeInv
  <2>2. Good(r)'
    BY <2>1 DEF TypeOK, Listed, EachFormatOnce
  <2>3. \A q \in Runs \ {r} : Good(q)'
    BY <1>2, <2>1 DEF TypeOK
  <2>4. QED BY <2>2, <2>3 DEF RenderInv
<1>4. ASSUME UNCHANGED <<toRender, outcome>> PROVE RenderInv'
  BY <1>2, <1>4 DEF RenderInv
<1>5. ASSUME NEW r \in Runs, Work(r)
      PROVE  RenderInv'
  <2>1. \A q \in Runs \ {r} : Good(q)'
    BY <1>2, <1>5, WorkFrame, WorkEffects
  <2>2. SUFFICES Good(r)'
    BY <2>1 DEF RenderInv
  <2> DEFINE Listing == outcome' = [outcome EXCEPT ![r] = Record("COMPLETED", Listed(r) \cup {Format(r)}, r)]
  <2>3. ASSUME toRender[r] # <<>>, toRender' = [toRender EXCEPT ![r] = Tail(@)],
               UNCHANGED outcome \/ Listing
        PROVE  Good(r)'
    <3>1. toRender'[r] = Tail(toRender[r]) /\ toRender[r] \in Seq(Formats)
      BY <2>3 DEF TypeOK
    <3>2. /\ Once(Tail(toRender[r]))
          /\ \A i \in 1..Len(Tail(toRender[r])) :
               /\ Tail(toRender[r])[i] # Format(r)
               /\ \E k \in 1..Len(toRender[r]) : Tail(toRender[r])[i] = toRender[r][k]
      BY <2>3, <3>1, OnceTail DEF RenderInv, Format
    <3>3. Listed(r)' \subseteq Listed(r) \cup {Format(r)}
      <4>1. CASE UNCHANGED outcome
        BY <4>1 DEF Listed
      <4>2. CASE Listing
        BY <4>2 DEF Listed, Record, TypeOK
      <4>3. QED BY <2>3, <4>1, <4>2
    <3>4. QED BY <3>1, <3>2, <3>3 DEF RenderInv
  <2>4. CASE Forget(r) \/ (toRender[r] = <<>> /\ UNCHANGED toRender)
    BY <1>1, <2>4 DEF Forget, TypeOK
  <2>5. CASE Reject(r) \/ FailReconcile(r) \/ ReconcileRaises(r) \/ SaveFails(r)
               \/ RenderRaises(r) \/ Complete(r)
    BY <2>4, <2>5 DEF Reject, FailReconcile, ReconcileRaises, SaveFails, RenderRaises, Complete
  <2>6. CASE Reconcile(r) \/ Lookup(r) \/ Save(r) \/ OpenArtifact(r)
    BY <1>2, <2>6 DEF Reconcile, Lookup, Save, OpenArtifact
  <2>7. CASE Publish(r)
    BY <1>2, <2>7 DEF Publish, TypeOK
  <2>8. CASE WriteArtifact(r)
    <3>1. toRender[r] # <<>>
      BY <2>8 DEF WriteArtifact, Goes, WorkInv
    <3>2. QED BY <2>3, <2>8, <3>1 DEF WriteArtifact
  <2>9. CASE WriteFails(r)
    BY <2>3, <2>9 DEF WriteFails
  <2>10. QED BY <1>5, <2>5, <2>6, <2>7, <2>8, <2>9 DEF Work
<1>6. CASE Start \/ (\E r \in Runs, j \in JobIds : SubmitRefused(r, j)) \/ UNCHANGED vars
  BY <1>4, <1>6 DEF Start, SubmitRefused, vars, thread
<1>7. ASSUME NEW c \in Callers, Call(c) \/ TimeOut(c) \/ Shutdown(c) \/ \E j \in JobIds : Wait(c, j)
      PROVE  RenderInv'
  BY <1>4, <1>7, CallFrame DEF thread
<1>8. CASE Restart
  BY <1>1, <1>8 DEF Restart, RenderInv
<1>9. QED BY <1>3, <1>5, <1>6, <1>7, <1>8 DEF Next

(* What a run that has a job to itself has saved and rendered stays, as    *)
(* nobody else writes its row or, unless the directory is shared, its      *)
(* files; what it renders next it has not listed yet.                      *)
LEMMA OwnStep == RecordInv /\ AloneInv /\ RenderInv /\ OwnInv /\ [Next]_vars => OwnInv'
<1> SUFFICES ASSUME RecordInv, AloneInv, RenderInv, OwnInv, [Next]_vars,
                    NEW q \in Runs, HasSaved(q)', job'[q] \notin overlapped'
             PROVE  Shows(job[q], q, Listed(q))'
  BY DEF OwnInv
<1> USE DEF RecordInv, IInv
<1>1. ASSUME HasSaved(q), job'[q] = job[q], overlapped \subseteq overlapped',
             outcome'[q] = outcome[q], UNCHANGED <<stored, files, directory>>
      PROVE  Shows(job[q], q, Listed(q))'
  BY <1>1 DEF OwnInv, Shows, Listed, SharesDirectory
<1>2. CASE \A r \in Runs : ~Work(r)
  <2>1. /\ UNCHANGED <<stored, files, directory>>
        /\ overlapped \subseteq overlapped'
    BY <1>2, OtherEffects
  <2>2. HasSaved(q) /\ job'[q] = job[q] /\ outcome'[q] = outcome[q]
    <3>1. CASE Start \/ UNCHANGED vars
      BY <3>1 DEF Start, Goes, HasSaved, TypeOK, env, vars, thread
    <3>2. ASSUME NEW c \in Callers, Call(c) \/ TimeOut(c) \/ Shutdown(c) \/ \E j \in JobIds : Wait(c, j)
          PROVE  HasSaved(q) /\ job'[q] = job[q] /\ outcome'[q] = outcome[q]
      BY <3>2, CallFrame DEF thread, HasSaved
    <3>3. ASSUME NEW r \in Runs, NEW j \in JobIds,
                 SubmitRefused(r, j) \/ \E formats \in Requests : Submit(r, j, formats)
          PROVE  HasSaved(q) /\ job'[q] = job[q] /\ outcome'[q] = outcome[q]
      BY <3>3 DEF SubmitRefused, Submit, Submits, HasSaved, TypeOK
    <3>4. CASE Restart
      BY <3>4 DEF Restart, HasSaved, TypeOK, Active
    <3>5. QED BY <1>2, <3>1, <3>2, <3>3, <3>4 DEF Next
  <2>3. QED BY <1>1, <2>1, <2>2
<1>3. ASSUME NEW r \in Runs, Work(r), r # q
      PROVE  Shows(job[q], q, Listed(q))'
  <2>1. /\ HasSaved(q) /\ job' = job /\ outcome'[q] = outcome[q]
        /\ UNCHANGED <<directory, overlapped>>
    BY <1>3, WorkFrame, WorkEffects DEF HasSaved
  <2>2. job[q] \in JobIds /\ job[q] \notin overlapped /\ job[r] \in JobIds
    BY <1>3, <2>1, WorkFrame DEF HasSaved, WorkInv, Active
  <2>3. job[r] # job[q]
    <3>1. SUFFICES ASSUME job[r] = job[q] PROVE FALSE
      OBVIOUS
    <3>2. q \in Underway(job[q]) /\ r \in Underway(job[q])
      BY <1>3, <2>1, <3>1, WorkFrame DEF Underway, HasSaved, Active
    <3>3. QED BY <1>3, <2>2, <3>2 DEF AloneInv
  <2>4. stored'[job[q]] = stored[job[q]]
    BY <1>3, <2>2, <2>3, WorkEffects
  <2>5. SharesDirectory(job[q]) \/ files'[directory[job[q]]] = files[directory[job[q]]]
    BY <1>3, <2>2, <2>3, WorkEffects DEF SharesDirectory, TypeOK
  <2>6. QED BY <2>1, <2>2, <2>4, <2>5 DEF OwnInv, Shows, Listed, SharesDirectory
<1>4. ASSUME Work(q)
      PROVE  Shows(job[q], q, Listed(q))'
  <2>1. job' = job /\ UNCHANGED <<directory, overlapped>> /\ job[q] \in JobIds
    BY <1>4, WorkFrame, WorkEffects DEF WorkInv
  <2>2. CASE Reject(q) \/ FailReconcile(q) \/ SaveFails(q)
    <3>1. /\ pc' = [pc EXCEPT ![q] = "publishing"]
          /\ \E state \in {"REJECTED", "FAILED"} :
               outcome' = [outcome EXCEPT ![q] = Record(state, {}, q)]
      BY <2>2 DEF Reject, FailReconcile, SaveFails, Ends, Goes
    <3>2. pc'[q] = "publishing" /\ outcome'[q].state # "COMPLETED"
      BY <3>1 DEF Record, TypeOK
    <3>3. QED BY <3>2 DEF HasSaved
  <2>3. CASE ReconcileRaises(q) \/ Reconcile(q) \/ Lookup(q) \/ RenderRaises(q) \/ Publish(q)
    BY <2>3 DEF ReconcileRaises, Reconcile, Lookup, RenderRaises, Publish, Goes, HasSaved, TypeOK
  <2>4. CASE Save(q)
    <3>1. outcome[q] = None /\ outcome' = outcome
      BY <2>4 DEF Save, Goes, OutcomeInv
    <3>2. stored'[job[q]] = q
      BY <2>1, <2>4 DEF Save, RowAfter, TypeOK
    <3>3. Listed(q)' = {}
      BY <3>1 DEF Listed
    <3>4. QED BY <2>1, <3>2, <3>3 DEF Shows
  <2>5. CASE OpenArtifact(q)
    <3>1. HasSaved(q) /\ toRender[q] # <<>> /\ outcome' = outcome /\ stored' = stored
      BY <2>5 DEF OpenArtifact, Goes, HasSaved
    <3>2. Format(q) \notin Listed(q)
      <4>1. toRender[q] \in Seq(Formats) /\ Format(q) = toRender[q][1]
        BY DEF TypeOK, Format
      <4>2. 1 \in 1..Len(toRender[q])
        BY <3>1, <4>1, LenProperties, EmptySeq
      <4>3. QED BY <4>1, <4>2 DEF RenderInv
    <3>3. \A f \in Formats \ {Format(q)} : files'[directory[job[q]]][f] = files[directory[job[q]]][f]
      BY <2>1, <2>5 DEF OpenArtifact, TypeOK
    <3>4. Listed(q) \subseteq Formats
      BY ListedType
    <3>5. QED BY <2>1, <3>1, <3>2, <3>3, <3>4 DEF OwnInv, Shows, Listed, SharesDirectory
  <2>6. CASE WriteArtifact(q)
    <3>1. HasSaved(q) /\ toRender[q] # <<>> /\ stored' = stored
      BY <2>6 DEF WriteArtifact, Goes, HasSaved, WorkInv
    <3>2. Format(q) \in Formats /\ Listed(q) \subseteq Formats
      BY <3>1, FormatType, ListedType
    <3>3. /\ files'[directory[job[q]]][Format(q)] = q
          /\ \A f \in Formats \ {Format(q)} : files'[directory[job[q]]][f] = files[directory[job[q]]][f]
      BY <2>1, <2>6, <3>2 DEF WriteArtifact, TypeOK
    <3>4. Listed(q)' \subseteq Listed(q) \cup {Format(q)}
      BY <2>6 DEF WriteArtifact, Listed, Record, TypeOK
    <3>5. QED BY <2>1, <3>1, <3>2, <3>3, <3>4 DEF OwnInv, Shows, SharesDirectory
  <2>7. CASE WriteFails(q)
    BY <1>1, <2>1, <2>7 DEF WriteFails, Goes, HasSaved, disk
  <2>8. CASE Complete(q)
    <3>1. HasSaved(q) /\ UNCHANGED <<stored, files>>
      BY <2>8 DEF Complete, Ends, Goes, HasSaved, disk
    <3>2. Listed(q)' \subseteq Listed(q)
      BY <2>8 DEF Complete, Ends, Listed, Record, TypeOK
    <3>3. QED BY <2>1, <3>1, <3>2 DEF OwnInv, Shows, SharesDirectory
  <2>9. QED BY <1>4, <2>2, <2>3, <2>4, <2>5, <2>6, <2>7, <2>8 DEF Work
<1>5. QED BY <1>2, <1>3, <1>4

(* A completed record is the outcome of a run that had its job to itself;  *)
(* until the next submission replaces it nobody writes the job's row.      *)
LEMMA CurrentStep ==
  RecordInv /\ AloneInv /\ OwnInv /\ CompletedIsCurrent /\ [Next]_vars => CompletedIsCurrent'
<1> SUFFICES ASSUME RecordInv, AloneInv, OwnInv, CompletedIsCurrent, [Next]_vars,
                    NEW j \in JobIds, j \notin overlapped',
                    records'[j] # None, records'[j].state = "COMPLETED"
             PROVE  Shows(j, records[j].run, records[j].written)'
  BY DEF CompletedIsCurrent, Shows
<1> USE DEF RecordInv, IInv
<1>1. ASSUME records'[j] = records[j], j \notin overlapped, UNCHANGED directory,
             stored'[j] = stored[j],
             SharesDirectory(j) \/ files'[directory[j]] = files[directory[j]]
      PROVE  Shows(j, records[j].run, records[j].written)'
  BY <1>1 DEF CompletedIsCurrent, Shows, SharesDirectory
<1>2. CASE \A r \in Runs : ~Work(r)
  <2>1. /\ UNCHANGED <<stored, files, directory>>
        /\ overlapped \subseteq overlapped'
    BY <1>2, OtherEffects
  <2>2. records'[j] = records[j]
    <3>1. CASE Start \/ UNCHANGED vars
      BY <3>1 DEF Start, vars, memory
    <3>2. ASSUME NEW c \in Callers, Call(c) \/ TimeOut(c) \/ Shutdown(c) \/ \E k \in JobIds : Wait(c, k)
          PROVE  records'[j] = records[j]
      BY <3>2, CallFrame
    <3>3. ASSUME NEW r \in Runs, NEW k \in JobIds,
                 SubmitRefused(r, k) \/ \E formats \in Requests : Submit(r, k, formats)
          PROVE  records'[j] = records[j]
      BY <3>3 DEF SubmitRefused, Submit, Submits, Record, TypeOK
    <3>4. CASE Restart
      BY <3>4 DEF Restart
    <3>5. QED BY <1>2, <3>1, <3>2, <3>3, <3>4 DEF Next
  <2>3. QED BY <1>1, <2>1, <2>2
<1>3. ASSUME NEW r \in Runs, Work(r), job[r] # j
      PROVE  Shows(j, records[j].run, records[j].written)'
  <2>1. job[r] \in JobIds /\ UNCHANGED <<directory, overlapped>>
    BY <1>3, WorkFrame, WorkEffects DEF WorkInv
  <2>2. records'[j] = records[j]
    BY <1>3, <2>1, WorkRecords DEF Publish, TypeOK
  <2>3. stored'[j] = stored[j]
    BY <1>3, WorkEffects
  <2>4. SharesDirectory(j) \/ files'[directory[j]] = files[directory[j]]
    BY <1>3, <2>1, WorkEffects DEF SharesDirectory, TypeOK
  <2>5. QED BY <1>1, <2>1, <2>2, <2>3, <2>4
<1>4. ASSUME NEW r \in Runs, Work(r), job[r] = j
      PROVE  Shows(j, records[j].run, records[j].written)'
  <2>1. UNCHANGED <<directory, overlapped>>
    BY <1>4, WorkEffects
  <2>2. CASE Publish(r)
    <3>1. /\ records'[j] = outcome[r] /\ UNCHANGED <<stored, files>> /\ pc[r] = "publishing"
      BY <1>4, <2>2 DEF Publish, Goes, TypeOK, disk
    <3>2. outcome[r] # None /\ outcome[r].run = r /\ outcome[r].state = "COMPLETED"
      BY <3>1 DEF OutcomeInv
    <3>3. Shows(j, r, outcome[r].written)
      BY <1>4, <2>1, <3>1, <3>2 DEF OwnInv, HasSaved, Listed
    <3>4. QED BY <2>1, <3>1, <3>2, <3>3 DEF Shows, SharesDirectory
  <2>3. CASE UNCHANGED records
    <3>1. r \in Underway(j)
      BY <1>4, WorkFrame DEF Underway
    <3>2. QED BY <2>1, <2>3, <3>1 DEF AloneInv
  <2>4. QED BY <1>4, <2>2, <2>3, WorkRecords
<1>5. QED BY <1>2, <1>3, <1>4

(* For requests that name each format once: a completed record belongs to  *)
(* the row the repository serves, and the reports it lists are those of    *)
(* that run, unless two runs of the job overlapped or two ids share a      *)
(* directory; whatever fails, is submitted again or restarts in between.   *)
THEOREM CompletedIsCurrentHolds ==
  ASSUME EachFormatOnce
  PROVE  Spec => []CompletedIsCurrent
<1>1. RecordInv /\ [Next]_vars => RecordInv'
  BY TypeStep, WorkStep, SavedStep, ReportsStep, RunningStep, OutcomeStep, WaitStep DEF RecordInv, IInv
<1>2. CurrentInv /\ [Next]_vars => CurrentInv'
  BY <1>1, AloneStep, RenderStep, OwnStep, CurrentStep DEF CurrentInv
<1>3. CurrentInv => CompletedIsCurrent
  BY DEF CurrentInv
<1>4. QED BY CurrentInit, <1>2, <1>3, PTL DEF Spec
=============================================================================
