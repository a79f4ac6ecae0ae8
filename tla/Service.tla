------------------------------ MODULE Service ------------------------------
(***************************************************************************)
(* The HTTP service: the routers for comparisons and decisions, the table  *)
(* of jobs in memory, and the two repositories on one SQLite database.     *)
(* Each request is handled by a thread of its own; a step is what a thread *)
(* does between two points where another thread can see it.                *)
(*                                                                         *)
(* A job is named by the request that creates it (its id is a fresh uuid), *)
(* and a row by the request that writes it: the result of a create, the    *)
(* decision of a decide.                                                   *)
(***************************************************************************)
EXTENDS Naturals, FiniteSets

CONSTANTS
  MaxRequests,     \* bounds the requests
  MaxRestarts,     \* bounds the restarts of the process
  Databases,       \* what database_url may name: "file", "memory"
  None             \* no answer, no record

Requests == 1..MaxRequests

JobStates == {"REJECTED", "FAILED", "COMPLETED"}
Answered  == {"created", "ok", "error"}
Endpoints == {"create", "status", "results", "decide"}

ASSUME ServiceAssumption ==
  /\ MaxRequests \in Nat /\ MaxRestarts \in Nat
  /\ Databases \subseteq {"file", "memory"}
  /\ None \notin Requests /\ None \notin JobStates \cup Answered \cup Endpoints

VARIABLES
  database,
  jobs,            \* ApiState.jobs: per job, the state in its record
  committed,       \* the rows of both tables
  pending,         \* per connection, the rows its open transaction inserted
  pc, kind, about, \* per request: where its thread is, the endpoint, the job
  saw,             \* per request: whether it has found a result
  answer,          \* per request: "created" (201), "ok" (200) or "error"
  before,          \* history: per request, those that had ended when it came
  restarts

request == <<pc, kind, about, saw, answer, before>>
tables  == <<committed, pending>>
vars    == <<database, jobs, tables, request, restarts>>

Init ==
  /\ database \in Databases
  /\ jobs = [r \in Requests |-> None]
  /\ committed = {} /\ pending = [c \in {0} \cup Requests |-> {}]
  /\ pc = [r \in Requests |-> "new"] /\ kind = [r \in Requests |-> None]
  /\ about = [r \in Requests |-> None] /\ saw = [r \in Requests |-> FALSE]
  /\ answer = [r \in Requests |-> None] /\ before = [r \in Requests |-> {}]
  /\ restarts = 0

-----------------------------------------------------------------------------
(* Sessions.  The threads share the one connection of a database in        *)
(* memory (StaticPool); for a file each session has its own.  A session    *)
(* that is closed gives its connection back, and that rolls back whatever  *)
(* the connection has not committed.                                       *)

(* Mutant of Connection: one connection for every database. *)
MutantConnection(r) == 0

Connection(r) == IF database = "memory" THEN 0 ELSE r

Visible(r) == committed \cup pending[Connection(r)]

RollBack(r) == pending' = [pending EXCEPT ![Connection(r)] = {}]

(* One connection at a time writes to a SQLite file. *)
MayWrite(r) == \A c \in DOMAIN pending \ {Connection(r)} : pending[c] = {}

-----------------------------------------------------------------------------
Goes(r, from, to) == pc[r] = from /\ pc' = [pc EXCEPT ![r] = to]

Answers(r, from, code) ==
  /\ Goes(r, from, "done")
  /\ answer' = [answer EXCEPT ![r] = code]

Ended == { r \in Requests : pc[r] \in {"done", "lost"} }

(* The job ids a client has been told, in a body or a correlation id. *)
Named == { r \in Requests : kind[r] = "create" /\ answer[r] # None }

Comes(r, k, j, to) ==
  /\ \A q \in Requests : q < r => pc[q] # "new"
  /\ Goes(r, "new", to)
  /\ kind' = [kind EXCEPT ![r] = k]
  /\ about' = [about EXCEPT ![r] = j]
  /\ before' = [before EXCEPT ![r] = Ended]

Create(r) ==
  /\ Comes(r, "create", r, "running")
  /\ UNCHANGED <<database, jobs, tables, saw, answer, restarts>>

AsksForResult(r) ==
  /\ \E k \in {"results", "decide"}, j \in Named : Comes(r, k, j, "reading")
  /\ UNCHANGED <<database, jobs, tables, saw, answer, restarts>>

-----------------------------------------------------------------------------
(* create_comparison: the job runs in the thread of the request, and its   *)
(* record is put into the table of jobs when it has ended.                 *)

Records(r, state) == jobs' = [jobs EXCEPT ![r] = state]

Reject(r) ==
  /\ Answers(r, "running", "error")
  /\ Records(r, "REJECTED")
  /\ UNCHANGED <<database, tables, kind, about, saw, before, restarts>>

Fail(r) ==
  /\ Answers(r, "running", "error")
  /\ Records(r, "FAILED")
  /\ UNCHANGED <<database, tables, kind, about, saw, before, restarts>>

(* What run() does not catch has no handler: a 500, and no record. *)
RunRaises(r) ==
  /\ Answers(r, "running", "error")
  /\ UNCHANGED <<database, jobs, tables, kind, about, saw, before, restarts>>

Validated(r) ==
  /\ Goes(r, "running", "inserting")
  /\ UNCHANGED <<database, jobs, tables, kind, about, saw, answer, before, restarts>>

-----------------------------------------------------------------------------
(* save() and add(): a fresh row is inserted, committed, and the session   *)
(* closed.                                                                 *)

Insert(r) ==
  /\ Goes(r, "inserting", "committing")
  /\ MayWrite(r)
  /\ pending' = [pending EXCEPT ![Connection(r)] = @ \cup {r}]
  /\ UNCHANGED <<database, jobs, committed, kind, about, saw, answer, before, restarts>>

Commit(r) ==
  /\ Goes(r, "committing", "closing")
  /\ committed' = committed \cup pending[Connection(r)]
  /\ RollBack(r)
  /\ UNCHANGED <<database, jobs, kind, about, saw, answer, before, restarts>>

Close(r) ==
  /\ Answers(r, "closing", "created")
  /\ RollBack(r)
  /\ IF kind[r] = "create" THEN Records(r, "COMPLETED") ELSE UNCHANGED jobs
  /\ UNCHANGED <<database, committed, kind, about, saw, before, restarts>>

(* Mutant of StateUnsaved: the comparison itself has succeeded. *)
MutantStateUnsaved == "COMPLETED"

(* The job whose result could not be saved is a failed one. *)
StateUnsaved == "FAILED"

(* The database may refuse a statement at any time.  A RepositoryError of  *)
(* save() fails the job, one of add() is answered by its handler.          *)
SaveFails(r) ==
  /\ pc[r] \in {"inserting", "committing"}
  /\ Answers(r, pc[r], "error")
  /\ RollBack(r)
  /\ IF kind[r] = "create" THEN Records(r, StateUnsaved) ELSE UNCHANGED jobs
  /\ UNCHANGED <<database, committed, kind, about, saw, before, restarts>>

-----------------------------------------------------------------------------
(* get_comparison reads the table of jobs; get_results and get_report      *)
(* read the stored result, as a decision does first.                       *)

Status(r) ==
  /\ \E j \in Named :
       /\ Comes(r, "status", j, "done")
       /\ answer' = [answer EXCEPT ![r] = IF jobs[j] = None THEN "error" ELSE "ok"]
  /\ UNCHANGED <<database, jobs, tables, saw, restarts>>

(* Mutant of Finds: the result a decision is about is not looked for. *)
MutantFinds(r) == TRUE

Finds(r) == about[r] \in Visible(r)

Read(r) ==
  /\ Goes(r, "reading", "read")
  /\ saw' = [saw EXCEPT ![r] = Finds(r)]
  /\ UNCHANGED <<database, jobs, tables, kind, about, answer, before, restarts>>

(* Every exception of get() is a RepositoryError, and has its handler. *)
ReadFails(r) ==
  /\ Answers(r, "reading", "error")
  /\ RollBack(r)
  /\ UNCHANGED <<database, jobs, committed, kind, about, saw, before, restarts>>

CloseRead(r) ==
  /\ \/ ~saw[r] /\ Answers(r, "read", "error")
     \/ saw[r] /\ kind[r] = "decide" /\ Goes(r, "read", "deciding") /\ UNCHANGED answer
     \/ saw[r] /\ kind[r] # "decide" /\ Answers(r, "read", "ok")
  /\ saw' = [saw EXCEPT ![r] = FALSE]
  /\ RollBack(r)
  /\ UNCHANGED <<database, jobs, committed, kind, about, before, restarts>>

-----------------------------------------------------------------------------
(* add_decision, after its result was read.  An unknown issue is a 422; an *)
(* override without a replacement, or to the same status, breaks a         *)
(* contract and has no handler.                                            *)
RefuseDecision(r) ==
  /\ Answers(r, "deciding", "error")
  /\ UNCHANGED <<database, jobs, tables, kind, about, saw, before, restarts>>

Decide(r) ==
  /\ Goes(r, "deciding", "inserting")
  /\ UNCHANGED <<database, jobs, tables, kind, about, saw, answer, before, restarts>>

-----------------------------------------------------------------------------
(* The process ends and is started again: a file is still there. *)
Restart ==
  /\ restarts < MaxRestarts
  /\ restarts' = restarts + 1
  /\ jobs' = [r \in Requests |-> None]
  /\ pc' = [r \in Requests |-> IF pc[r] \in {"new", "done"} THEN pc[r] ELSE "lost"]
  /\ saw' = [r \in Requests |-> FALSE]
  /\ pending' = [c \in DOMAIN pending |-> {}]
  /\ committed' = IF database = "file" THEN committed ELSE {}
  /\ UNCHANGED <<database, kind, about, answer, before>>

Quiet == Ended = Requests /\ UNCHANGED vars

Next ==
  \/ \E r \in Requests :
       \/ Create(r) \/ AsksForResult(r)
       \/ Reject(r) \/ Fail(r) \/ RunRaises(r) \/ Validated(r)
       \/ Insert(r) \/ Commit(r) \/ Close(r) \/ SaveFails(r)
       \/ Status(r) \/ Read(r) \/ ReadFails(r) \/ CloseRead(r)
       \/ RefuseDecision(r) \/ Decide(r)
  \/ Restart
  \/ Quiet

Spec == Init /\ [][Next]_vars

-----------------------------------------------------------------------------
(* Properties. *)

Arrived == { r \in Requests : pc[r] # "new" }

Overlap(r, q) == r \notin before[q] /\ q \notin before[r]

Alone(r) == \A q \in Arrived \ {r} : ~Overlap(r, q)

(* REQ-211: what was answered 201 stays, whatever else is going on and     *)
(* across restarts, if the database is a file.  If it is in memory, the    *)
(* default, that is so only for requests that overlapped with no other:    *)
(* the closing of another session may undo an insert that is not yet       *)
(* committed, and the commit that follows says nothing.                    *)
AnswersAreKept ==
  \A r \in Requests :
    /\ answer[r] = "created"
    /\ database = "file" \/ (restarts = 0 /\ Alone(r))
    => r \in committed

(* What GET says of a job and what GET says of its results agree: there    *)
(* are results if it is completed and none if it was rejected or failed;   *)
(* stored results of an unknown job have no answer yet, or have seen a     *)
(* restart.  If the database is in memory, that is so of a job only whose  *)
(* request overlapped with no other: what the others may do to it is in    *)
(* CompletedJobsHaveResults.                                               *)
JobsMatchResults ==
  \A r \in Requests : database = "file" \/ Alone(r) =>
    /\ jobs[r] = "COMPLETED" => r \in committed
    /\ jobs[r] \in {"REJECTED", "FAILED"} => r \notin committed
    /\ (r \in committed /\ kind[r] = "create" /\ jobs[r] = None) =>
         answer[r] = None \/ restarts > 0

(* A decision is never on record without the result it quotes the status   *)
(* of; the tables have no foreign key.                                     *)
DecisionsRestOnResults ==
  \A r \in committed : kind[r] = "decide" => about[r] \in committed

(* What REQ-211 asks of every database, where nothing has gone wrong: a    *)
(* job that GET calls completed has its results.  A database in memory,    *)
(* the default, does not keep to it: the end of another request's session  *)
(* takes an insert back.                                                   *)
CompletedJobsHaveResults ==
  (\A q \in Requests : answer[q] # "error") =>
    \A r \in Requests : jobs[r] = "COMPLETED" => r \in committed
=============================================================================
