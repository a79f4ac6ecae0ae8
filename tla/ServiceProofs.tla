--------------------------- MODULE ServiceProofs ---------------------------
(***************************************************************************)
(* What the HTTP service guarantees for any number of requests and         *)
(* restarts, on a database of either kind.                                 *)
(***************************************************************************)
EXTENDS Service, TLAPS

Connections == {0} \cup Requests

Places ==
  {"new", "running", "inserting", "committing", "closing",
   "reading", "read", "deciding", "done", "lost"}

(* Every variable has its type. *)
TypeOK ==
  /\ database \in {"file", "memory"}
  /\ jobs \in [Requests -> JobStates \cup {None}]
  /\ committed \subseteq Requests
  /\ pending \in [Connections -> SUBSET Requests]
  /\ pc \in [Requests -> Places]
  /\ kind \in [Requests -> Endpoints \cup {None}]
  /\ about \in [Requests -> Requests \cup {None}]
  /\ saw \in [Requests -> BOOLEAN]
  /\ answer \in [Requests -> Answered \cup {None}]
  /\ before \in [Requests -> SUBSET Requests]
  /\ restarts \in Nat

-----------------------------------------------------------------------------
(* The inductive invariant. *)

(* Where the thread of a request can be, given what else is known of it.   *)
PlaceInv ==
  \A r \in Requests :
    /\ answer[r] # None => pc[r] = "done"
    /\ jobs[r] # None => pc[r] = "done"
    /\ \A q \in before[r] : pc[q] \in {"done", "lost"}
    /\ pc[r] = "running" => kind[r] = "create"
    /\ saw[r] => pc[r] = "read"
    /\ pc[r] \in {"reading", "read"} => kind[r] \in {"results", "decide"}
    /\ kind[r] \in {"results", "decide"} =>
         about[r] \in Requests /\ pc[about[r]] = "done"

(* A row is uncommitted only in the connection of the request that is      *)
(* committing it, and no row is there before.                              *)
RowInv ==
  /\ \A c \in Connections : \A r \in pending[c] :
       pc[r] = "committing" /\ c = Connection(r)
  /\ \A r \in committed :
       \/ pc[r] \in {"closing", "done", "lost"}
       \/ database = "memory" /\ pc[r] = "committing"

(* The requests no other thread can disturb. *)
Safe(r) == database = "file" \/ Alone(r)

(* The row of such a request goes from its connection into its table, and  *)
(* there it stays, unless the memory that holds it ends with the process.  *)
KeptInv ==
  \A r \in Requests : Safe(r) =>
    /\ pc[r] = "committing" => r \in pending[Connection(r)] /\ r \notin committed
    /\ pc[r] = "closing" => r \in committed
    /\ answer[r] = "created" /\ (database = "file" \/ restarts = 0) => r \in committed

(* Whoever has found a result and goes on with it is right about it. *)
FoundInv ==
  \A r \in Requests : kind[r] = "decide" =>
    /\ saw[r] => about[r] \in committed
    /\ pc[r] \in {"deciding", "inserting", "committing", "closing"} => about[r] \in committed
    /\ r \in committed => about[r] \in committed

IInv ==
  /\ TypeOK /\ PlaceInv /\ RowInv /\ KeptInv /\ FoundInv
  /\ JobsMatchResults

-----------------------------------------------------------------------------
(* Type correctness. *)

(* The helpers the actions share, and the sets the variables range over.   *)
USE ServiceAssumption
    DEF Goes, Answers, Records, RollBack, request, tables,
        TypeOK, Places, Connections, JobStates, Answered, Endpoints

(* Every connection is one of the connections. *)
LEMMA ConnectionType ==
  ASSUME NEW r \in Requests
  PROVE  Connection(r) \in Connections
BY DEF Connection, Connections

(* No step of the service changes a type. *)
LEMMA TypeStep == TypeOK /\ [Next]_vars => TypeOK'
<1> SUFFICES ASSUME TypeOK, [Next]_vars PROVE TypeOK'
  OBVIOUS
<1>1. ASSUME NEW r \in Requests,
             Create(r) \/ AsksForResult(r) \/ Status(r)
      PROVE  TypeOK'
  BY <1>1 DEF Create, AsksForResult, Status, Comes, Named, Ended
<1>2. ASSUME NEW r \in Requests,
             Reject(r) \/ Fail(r) \/ RunRaises(r) \/ Validated(r)
      PROVE  TypeOK'
  BY <1>2 DEF Reject, Fail, RunRaises, Validated
<1>3. ASSUME NEW r \in Requests,
             Insert(r) \/ Commit(r) \/ Close(r) \/ SaveFails(r)
      PROVE  TypeOK'
  <2>1. CASE Insert(r)
    BY <2>1, ConnectionType DEF Insert
  <2>2. CASE Commit(r)
    BY <2>2, ConnectionType DEF Commit
  <2>3. CASE Close(r)
    BY <2>3, ConnectionType DEF Close
  <2>4. CASE SaveFails(r)
    BY <2>4, ConnectionType DEF SaveFails, StateUnsaved
  <2>5. QED BY <1>3, <2>1, <2>2, <2>3, <2>4
<1>4. ASSUME NEW r \in Requests,
             Read(r) \/ ReadFails(r) \/ CloseRead(r)
      PROVE  TypeOK'
  <2>1. CASE Read(r)
    <3>1. Finds(r) \in BOOLEAN
      BY DEF Finds
    <3>2. QED BY <2>1, <3>1 DEF Read
  <2>2. CASE ReadFails(r)
    BY <2>2, ConnectionType DEF ReadFails
  <2>3. CASE CloseRead(r)
    BY <2>3, ConnectionType DEF CloseRead
  <2>4. QED BY <1>4, <2>1, <2>2, <2>3
<1>5. ASSUME NEW r \in Requests,
             RefuseDecision(r) \/ Decide(r)
      PROVE  TypeOK'
  BY <1>5 DEF RefuseDecision, Decide
<1>6. CASE Restart
  BY <1>6 DEF Restart
<1>7. CASE UNCHANGED vars
  BY <1>7 DEF vars
<1>8. QED BY <1>1, <1>2, <1>3, <1>4, <1>5, <1>6, <1>7 DEF Next, Quiet

-----------------------------------------------------------------------------
(* Places. *)

(* A request that comes has not been anywhere. *)
LEMMA PlaceComes ==
  ASSUME TypeOK, PlaceInv, NEW x \in Requests,
         Create(x) \/ AsksForResult(x) \/ Status(x)
  PROVE  PlaceInv'
<1>1. CASE Create(x)
  BY <1>1 DEF Create, Comes, Ended, PlaceInv
<1>2. CASE AsksForResult(x)
  BY <1>2 DEF AsksForResult, Comes, Named, Ended, PlaceInv
<1>3. CASE Status(x)
  BY <1>3 DEF Status, Comes, Named, Ended, PlaceInv
<1>4. QED BY <1>1, <1>2, <1>3

(* Threads stay where they can be: an answer or a record ends a request,   *)
(* and what has ended stays so.                                            *)
LEMMA PlaceStep ==
  ASSUME IInv, TypeOK', [Next]_vars
  PROVE  PlaceInv'
<1> USE DEF IInv, PlaceInv
<1>1. ASSUME NEW x \in Requests, Create(x) \/ AsksForResult(x) \/ Status(x)
      PROVE  PlaceInv'
  BY <1>1, PlaceComes
<1>2. ASSUME NEW x \in Requests, Reject(x) \/ Fail(x) \/ RunRaises(x) \/ Validated(x)
      PROVE  PlaceInv'
  BY <1>2 DEF Reject, Fail, RunRaises, Validated
<1>3. ASSUME NEW x \in Requests, Insert(x)
      PROVE  PlaceInv'
  BY <1>3 DEF Insert
<1>4. ASSUME NEW x \in Requests, Commit(x)
      PROVE  PlaceInv'
  BY <1>4 DEF Commit
<1>5. ASSUME NEW x \in Requests, Close(x)
      PROVE  PlaceInv'
  BY <1>5 DEF Close
<1>6. ASSUME NEW x \in Requests, SaveFails(x)
      PROVE  PlaceInv'
  BY <1>6 DEF SaveFails, StateUnsaved
<1>7. ASSUME NEW x \in Requests, Read(x)
      PROVE  PlaceInv'
  BY <1>7 DEF Read, Finds, Visible
<1>8. ASSUME NEW x \in Requests, ReadFails(x)
      PROVE  PlaceInv'
  BY <1>8 DEF ReadFails
<1>9. ASSUME NEW x \in Requests, CloseRead(x)
      PROVE  PlaceInv'
  BY <1>9 DEF CloseRead
<1>10. ASSUME NEW x \in Requests, RefuseDecision(x) \/ Decide(x)
      PROVE  PlaceInv'
  BY <1>10 DEF RefuseDecision, Decide
<1>11. CASE Restart
  BY <1>11 DEF Restart
<1>12. CASE UNCHANGED vars
  BY <1>12 DEF vars
<1>13. QED BY <1>1, <1>2, <1>3, <1>4, <1>5, <1>6, <1>7, <1>8, <1>9, <1>10, <1>11, <1>12
     DEF Next, Quiet

-----------------------------------------------------------------------------
(* Rows. *)

(* A row is inserted in the connection of its request. *)
LEMMA RowInsert ==
  ASSUME TypeOK, RowInv, PlaceInv, NEW x \in Requests, Insert(x)
  PROVE  RowInv'
<1>1. /\ pc[x] = "inserting" /\ pc' = [pc EXCEPT ![x] = "committing"]
      /\ pending' = [pending EXCEPT ![Connection(x)] = @ \cup {x}]
      /\ committed' = committed /\ database' = database
  BY DEF Insert
<1>2. \A r \in Requests : Connection(r)' = Connection(r)
  BY <1>1 DEF Connection
<1>3. ASSUME NEW c \in Connections, NEW r \in pending'[c]
      PROVE  pc'[r] = "committing" /\ c = Connection(r)
  <2>1. r \in pending[c] \/ (r = x /\ c = Connection(x))
    BY <1>1, <1>3
  <2>2. r \in Requests
    BY <2>1
  <2>3. QED BY <1>1, <2>1, <2>2 DEF RowInv
<1>4. QED BY <1>1, <1>2, <1>3 DEF RowInv

(* A commit empties one connection: in a file that of the request alone,   *)
(* in memory the one that all share.                                       *)
LEMMA RowCommit ==
  ASSUME TypeOK, RowInv, PlaceInv, NEW x \in Requests, Commit(x)
  PROVE  RowInv'
<1>1. /\ pc[x] = "committing" /\ pc' = [pc EXCEPT ![x] = "closing"]
      /\ pending' = [pending EXCEPT ![Connection(x)] = {}]
      /\ committed' = committed \cup pending[Connection(x)] /\ database' = database
  BY DEF Commit
<1>2. \A r \in Requests : Connection(r)' = Connection(r)
  BY <1>1 DEF Connection
<1>3. ASSUME NEW c \in Connections, NEW r \in pending'[c]
      PROVE  pc'[r] = "committing" /\ c = Connection(r)
  <2>1. r \in pending[c] /\ c # Connection(x) /\ r \in Requests
    BY <1>1, <1>3, ConnectionType
  <2>2. QED BY <1>1, <2>1 DEF RowInv
<1>4. ASSUME NEW r \in committed'
      PROVE  \/ pc'[r] \in {"closing", "done", "lost"}
             \/ database = "memory" /\ pc'[r] = "committing"
  <2>1. r \in committed \/ r \in pending[Connection(x)]
    BY <1>1
  <2>2. r \in Requests
    BY <2>1, ConnectionType
  <2>3. CASE r \in committed
    BY <1>1, <2>2, <2>3 DEF RowInv
  <2>4. CASE r \in pending[Connection(x)]
    <3>1. pc[r] = "committing" /\ Connection(r) = Connection(x)
      BY <2>4, ConnectionType DEF RowInv
    <3>2. database = "memory" \/ r = x
      BY <3>1 DEF Connection
    <3>3. QED BY <1>1, <2>2, <3>1, <3>2
  <2>5. QED BY <2>1, <2>3, <2>4
<1>5. QED BY <1>1, <1>2, <1>3, <1>4 DEF RowInv

(* Rows are where their requests are. *)
LEMMA RowStep ==
  ASSUME IInv, TypeOK', [Next]_vars
  PROVE  RowInv'
<1> USE DEF IInv, PlaceInv, RowInv, Connection
<1>1. ASSUME NEW x \in Requests, Create(x) \/ AsksForResult(x) \/ Status(x)
      PROVE  RowInv'
  <2>1. UNCHANGED <<database, tables>> /\ pc[x] = "new"
        /\ \A r \in Requests : r # x => pc'[r] = pc[r]
    BY <1>1 DEF Create, AsksForResult, Status, Comes, Goes
  <2>2. QED BY <2>1 DEF tables, TypeOK
<1>2. ASSUME NEW x \in Requests, Reject(x) \/ Fail(x) \/ RunRaises(x) \/ Validated(x)
      PROVE  RowInv'
  BY <1>2 DEF Reject, Fail, RunRaises, Validated
<1>3. ASSUME NEW x \in Requests, Insert(x)
      PROVE  RowInv'
  BY <1>3, RowInsert
<1>4. ASSUME NEW x \in Requests, Commit(x)
      PROVE  RowInv'
  BY <1>4, RowCommit
<1>5. ASSUME NEW x \in Requests, Close(x)
      PROVE  RowInv'
  BY <1>5 DEF Close
<1>6. ASSUME NEW x \in Requests, SaveFails(x)
      PROVE  RowInv'
  BY <1>6 DEF SaveFails, StateUnsaved
<1>7. ASSUME NEW x \in Requests, Read(x)
      PROVE  RowInv'
  BY <1>7 DEF Read, Finds, Visible
<1>8. ASSUME NEW x \in Requests, ReadFails(x)
      PROVE  RowInv'
  BY <1>8 DEF ReadFails
<1>9. ASSUME NEW x \in Requests, CloseRead(x)
      PROVE  RowInv'
  BY <1>9 DEF CloseRead
<1>10. ASSUME NEW x \in Requests, RefuseDecision(x) \/ Decide(x)
      PROVE  RowInv'
  BY <1>10 DEF RefuseDecision, Decide
<1>11. CASE Restart
  BY <1>11 DEF Restart
<1>12. CASE UNCHANGED vars
  BY <1>12 DEF vars
<1>13. QED BY <1>1, <1>2, <1>3, <1>4, <1>5, <1>6, <1>7, <1>8, <1>9, <1>10, <1>11, <1>12
     DEF Next, Quiet

-----------------------------------------------------------------------------
(* Decisions and their results. *)

(* A request that comes has found nothing yet and has no row. *)
LEMMA FoundComes ==
  ASSUME TypeOK, RowInv, PlaceInv, FoundInv, NEW x \in Requests,
         Create(x) \/ AsksForResult(x) \/ Status(x)
  PROVE  FoundInv'
<1>1. /\ pc[x] = "new"
      /\ kind'[x] = "decide" => pc'[x] = "reading"
      /\ \A r \in Requests \ {x} : pc'[r] = pc[r] /\ kind'[r] = kind[r] /\ about'[r] = about[r]
      /\ committed' = committed /\ saw' = saw
  BY DEF Create, AsksForResult, Status, Comes
<1>2. x \notin committed /\ ~saw[x]
  BY <1>1 DEF RowInv, PlaceInv
<1>3. QED BY <1>1, <1>2 DEF FoundInv

(* A decision that becomes visible is one that is being committed. *)
LEMMA FoundCommit ==
  ASSUME TypeOK, RowInv, FoundInv, NEW x \in Requests, Commit(x)
  PROVE  FoundInv'
<1>1. /\ pc' = [pc EXCEPT ![x] = "closing"] /\ pc[x] = "committing"
      /\ committed' = committed \cup pending[Connection(x)]
      /\ kind' = kind /\ about' = about /\ saw' = saw
  BY DEF Commit
<1>2. \A r \in pending[Connection(x)] : r \in Requests /\ pc[r] = "committing"
  BY ConnectionType DEF RowInv
<1>3. QED BY <1>1, <1>2 DEF FoundInv

(* A result that is seen is committed: the client was told of its job, so  *)
(* that the request that wrote it has ended.                               *)
LEMMA FoundRead ==
  ASSUME TypeOK, PlaceInv, RowInv, FoundInv, NEW x \in Requests, Read(x)
  PROVE  FoundInv'
<1>1. /\ pc' = [pc EXCEPT ![x] = "read"] /\ pc[x] = "reading"
      /\ saw' = [saw EXCEPT ![x] = Finds(x)]
      /\ committed' = committed /\ kind' = kind /\ about' = about
  BY DEF Read
<1>2. Finds(x) => about[x] \in committed
  <2>1. kind[x] \in {"results", "decide"} /\ about[x] \in Requests /\ pc[about[x]] = "done"
    BY <1>1 DEF PlaceInv
  <2>2. about[x] \notin pending[Connection(x)]
    BY <2>1, ConnectionType DEF RowInv
  <2>3. QED BY <2>2 DEF Finds, Visible
<1>3. QED BY <1>1, <1>2 DEF FoundInv

(* Only a decision that has found its result goes on. *)
LEMMA FoundCloseRead ==
  ASSUME TypeOK, FoundInv, NEW x \in Requests, CloseRead(x)
  PROVE  FoundInv'
<1>1. /\ pc[x] = "read" /\ saw' = [saw EXCEPT ![x] = FALSE]
      /\ \/ pc' = [pc EXCEPT ![x] = "done"]
         \/ saw[x] /\ pc' = [pc EXCEPT ![x] = "deciding"]
      /\ committed' = committed /\ kind' = kind /\ about' = about
  BY DEF CloseRead
<1>2. QED BY <1>1 DEF FoundInv

(* No step takes a result from under a decision. *)
LEMMA FoundStep ==
  ASSUME IInv, TypeOK', [Next]_vars
  PROVE  FoundInv'
<1> USE DEF IInv, PlaceInv, RowInv, FoundInv, Connection, Visible
<1>1. ASSUME NEW x \in Requests, Create(x) \/ AsksForResult(x) \/ Status(x)
      PROVE  FoundInv'
  BY <1>1, FoundComes
<1>2. ASSUME NEW x \in Requests, Reject(x) \/ Fail(x) \/ RunRaises(x) \/ Validated(x)
      PROVE  FoundInv'
  BY <1>2 DEF Reject, Fail, RunRaises, Validated
<1>3. ASSUME NEW x \in Requests, Insert(x)
      PROVE  FoundInv'
  BY <1>3 DEF Insert
<1>4. ASSUME NEW x \in Requests, Commit(x)
      PROVE  FoundInv'
  BY <1>4, FoundCommit
<1>5. ASSUME NEW x \in Requests, Close(x)
      PROVE  FoundInv'
  BY <1>5 DEF Close
<1>6. ASSUME NEW x \in Requests, SaveFails(x)
      PROVE  FoundInv'
  BY <1>6 DEF SaveFails, StateUnsaved
<1>7. ASSUME NEW x \in Requests, Read(x)
      PROVE  FoundInv'
  BY <1>7, FoundRead
<1>8. ASSUME NEW x \in Requests, ReadFails(x)
      PROVE  FoundInv'
  BY <1>8 DEF ReadFails
<1>9. ASSUME NEW x \in Requests, CloseRead(x)
      PROVE  FoundInv'
  BY <1>9, FoundCloseRead
<1>10. ASSUME NEW x \in Requests, RefuseDecision(x) \/ Decide(x)
      PROVE  FoundInv'
  BY <1>10 DEF RefuseDecision, Decide
<1>11. CASE Restart
  BY <1>11 DEF Restart
<1>12. CASE UNCHANGED vars
  BY <1>12 DEF vars
<1>13. QED BY <1>1, <1>2, <1>3, <1>4, <1>5, <1>6, <1>7, <1>8, <1>9, <1>10, <1>11, <1>12
     DEF Next, Quiet

-----------------------------------------------------------------------------
(* What is kept. *)

(* While an undisturbed request has work to do, no other thread uses its   *)
(* connection.                                                             *)
LEMMA Undisturbed ==
  ASSUME TypeOK, PlaceInv, NEW r \in Requests, NEW x \in Requests \ {r}, Safe(r),
         pc[r] \notin {"new", "done", "lost"}, pc[x] \notin {"new", "done", "lost"}
  PROVE  Connection(x) # Connection(r)
<1>1. CASE database = "file"
  BY <1>1 DEF Connection
<1>2. CASE database # "file"
  <2>1. ~Overlap(r, x)
    BY <1>2 DEF Safe, Alone, Arrived
  <2>2. QED BY <2>1 DEF Overlap, PlaceInv
<1>3. QED BY <1>1, <1>2

(* A request that is safe after a step was safe before it. *)
LEMMA SafeBefore ==
  ASSUME TypeOK, [Next]_vars, NEW r \in Requests, pc[r] # "new", Safe(r)'
  PROVE  Safe(r)
<1>1. /\ database' = database
      /\ \A q \in Requests : pc[q] # "new" => pc'[q] # "new" /\ before'[q] = before[q]
  <2> SUFFICES ASSUME Next PROVE <1>1!:
    BY DEF vars
  <2>1. CASE Restart
    BY <2>1 DEF Restart
  <2>2. ASSUME NEW x \in Requests, Create(x) \/ AsksForResult(x) \/ Status(x)
        PROVE  <1>1!:
    BY <2>2 DEF Create, AsksForResult, Status, Comes
  <2>3. ASSUME NEW x \in Requests,
               \/ Reject(x) \/ Fail(x) \/ RunRaises(x) \/ Validated(x) \/ Insert(x) \/ Commit(x)
               \/ Close(x) \/ SaveFails(x) \/ Read(x) \/ ReadFails(x) \/ CloseRead(x)
               \/ RefuseDecision(x) \/ Decide(x)
        PROVE  <1>1!:
    BY <2>3 DEF Reject, Fail, RunRaises, Validated, Insert, Commit, Close, SaveFails,
                Read, ReadFails, CloseRead, RefuseDecision, Decide
  <2>4. QED BY <2>1, <2>2, <2>3 DEF Next, Quiet, vars
<1>2. CASE database = "file"
  BY <1>2 DEF Safe
<1>3. CASE Alone(r)'
  <2>1. ASSUME NEW q \in Arrived \ {r} PROVE ~Overlap(r, q)
    <3>1. q \in Arrived' /\ before'[q] = before[q] /\ before'[r] = before[r]
      BY <1>1 DEF Arrived
    <3>2. ~Overlap(r, q)'
      BY <1>3, <3>1 DEF Alone
    <3>3. QED BY <3>1, <3>2 DEF Overlap
  <2>2. QED BY <1>1, <1>3, <2>1 DEF Safe, Alone
<1>4. QED BY <1>1, <1>2, <1>3 DEF Safe

(* The row of a safe request is in its connection until it is committed,   *)
(* and then in its table.                                                  *)
LEMMA KeptStep ==
  ASSUME IInv, TypeOK', [Next]_vars
  PROVE  KeptInv'
<1> USE DEF IInv
<1> DEFINE Kept(r) ==
      /\ pc'[r] = "committing" => r \in pending'[Connection(r)] /\ r \notin committed'
      /\ pc'[r] = "closing" => r \in committed'
      /\ answer'[r] = "created" /\ (database = "file" \/ restarts' = 0) => r \in committed'
<1>1. database' = database
  BY DEF vars, Next, Quiet, Create, AsksForResult, Status, Comes, Reject, Fail, RunRaises,
       Validated,
         Insert, Commit, Close, SaveFails, Read, ReadFails, CloseRead, RefuseDecision, Decide,
              Restart
<1>2. SUFFICES ASSUME NEW r \in Requests, Safe(r)' PROVE Kept(r)
  BY <1>1 DEF KeptInv, Connection
<1>3. CASE pc[r] # "new"
  <2>1. Safe(r) /\ Connection(r) \in Connections
    BY <1>2, <1>3, SafeBefore, ConnectionType
  <2>2. /\ pc[r] = "committing" => r \in pending[Connection(r)] /\ r \notin committed
        /\ pc[r] = "closing" => r \in committed
        /\ answer[r] = "created" /\ (database = "file" \/ restarts = 0) => r \in committed
    BY <2>1 DEF KeptInv
  <2>3. ASSUME NEW x \in Requests, Create(x) \/ AsksForResult(x) \/ Status(x)
        PROVE  Kept(r)
    BY <1>3, <2>2, <2>3 DEF Create, AsksForResult, Status, Comes
  <2>4. ASSUME NEW x \in Requests,
               \/ Reject(x) \/ Fail(x) \/ RunRaises(x) \/ Validated(x)
               \/ Read(x) \/ RefuseDecision(x) \/ Decide(x)
        PROVE  Kept(r)
    BY <2>2, <2>4 DEF Reject, Fail, RunRaises, Validated, Read, RefuseDecision, Decide
  <2>5. ASSUME NEW x \in Requests, Insert(x)
        PROVE  Kept(r)
    <3>1. pc[x] = "inserting" => x \notin committed
      BY DEF RowInv
    <3>2. QED BY <2>1, <2>2, <2>5, <3>1, ConnectionType DEF Insert
  <2>6. ASSUME NEW x \in Requests,
       Commit(x) \/ Close(x) \/ SaveFails(x) \/ ReadFails(x) \/ CloseRead(x)
        PROVE  Kept(r)
    <3>1. CASE x = r
      BY <2>1, <2>2, <2>6, <3>1 DEF Commit, Close, SaveFails, ReadFails, CloseRead
    <3>2. CASE x # r
      <4>1. pc[x] \notin {"new", "done", "lost"}
        BY <2>6 DEF Commit, Close, SaveFails, ReadFails, CloseRead
      <4>2. /\ pending' = [pending EXCEPT ![Connection(x)] = {}]
            /\ pc'[r] = pc[r] /\ answer'[r] = answer[r] /\ restarts' = restarts
            /\ committed' \in {committed, committed \cup pending[Connection(x)]}
        BY <2>6, <3>2 DEF Commit, Close, SaveFails, ReadFails, CloseRead
      <4>3. pc[r] = "committing" => Connection(x) # Connection(r)
        BY <2>1, <3>2, <4>1, Undisturbed
      <4>4. pc[r] = "committing" => r \notin pending[Connection(x)]
        BY <4>3, ConnectionType DEF RowInv
      <4>5. QED BY <2>1, <2>2, <4>2, <4>3, <4>4
    <3>3. QED BY <3>1, <3>2
  <2>7. CASE Restart
    <3>1. /\ restarts' # 0 /\ answer' = answer
          /\ pc'[r] \notin {"committing", "closing"}
          /\ database = "file" => committed' = committed
      BY <2>7 DEF Restart
    <3>2. QED BY <2>2, <3>1
  <2>8. CASE UNCHANGED vars
    BY <2>2, <2>8 DEF vars
  <2>9. QED BY <2>3, <2>4, <2>5, <2>6, <2>7, <2>8 DEF Next, Quiet
<1>4. CASE pc[r] = "new"
  <2>1. answer[r] = None
    BY <1>4 DEF PlaceInv
  <2>2. pc'[r] \notin {"committing", "closing"} /\ answer'[r] # "created"
    BY <1>4, <2>1
       DEF vars, Next, Quiet, Create, AsksForResult, Status, Comes, Reject, Fail, RunRaises,
            Validated,
           Insert, Commit, Close, SaveFails, Read, ReadFails, CloseRead, RefuseDecision,
                Decide, Restart
  <2>3. QED BY <2>2
<1>5. QED BY <1>3, <1>4

-----------------------------------------------------------------------------
(* Jobs and their results. *)

(* A request that only comes, now or later, has neither a row nor a        *)
(* record.                                                                 *)
LEMMA JobsNew ==
  ASSUME IInv, [Next]_vars, NEW r \in Requests, pc[r] = "new"
  PROVE  jobs'[r] = None /\ r \notin committed'
<1> USE DEF IInv
<1>1. jobs[r] = None /\ r \notin committed
  BY DEF PlaceInv, RowInv
<1>2. ASSUME NEW x \in Requests, Commit(x)
      PROVE  jobs'[r] = None /\ r \notin committed'
  <2>1. r \notin pending[Connection(x)]
    BY ConnectionType DEF RowInv
  <2>2. QED BY <1>1, <1>2, <2>1 DEF Commit
<1>3. ASSUME NEW x \in Requests,
             \/ Create(x) \/ AsksForResult(x) \/ Status(x)
             \/ Reject(x) \/ Fail(x) \/ RunRaises(x) \/ Validated(x) \/ Insert(x)
             \/ Close(x) \/ SaveFails(x) \/ Read(x) \/ ReadFails(x) \/ CloseRead(x)
             \/ RefuseDecision(x) \/ Decide(x)
      PROVE  jobs'[r] = None /\ r \notin committed'
  BY <1>1, <1>3 DEF Create, AsksForResult, Status, Comes, Reject, Fail, RunRaises, Validated,
     Insert, Close, SaveFails, Read, ReadFails, CloseRead, RefuseDecision, Decide
<1>4. CASE Restart
  BY <1>1, <1>4 DEF Restart
<1>5. CASE UNCHANGED vars
  BY <1>1, <1>5 DEF vars
<1>6. QED BY <1>2, <1>3, <1>4, <1>5 DEF Next, Quiet

(* The record of a job and its row are written apart and end up agreeing,  *)
(* unless another session takes the row back.                              *)
LEMMA JobsStep ==
  ASSUME IInv, TypeOK', [Next]_vars
  PROVE  JobsMatchResults'
<1> USE DEF IInv, PlaceInv
<1> DEFINE Agree(r) ==
      /\ jobs'[r] = "COMPLETED" => r \in committed'
      /\ jobs'[r] \in {"REJECTED", "FAILED"} => r \notin committed'
      /\ (r \in committed' /\ kind'[r] = "create" /\ jobs'[r] = None) =>
           answer'[r] = None \/ restarts' > 0
<1>1. SUFFICES ASSUME NEW r \in Requests, Safe(r)' PROVE Agree(r)
  BY DEF JobsMatchResults, Safe
<1>2. CASE pc[r] = "new"
  BY <1>2, JobsNew
<1>3. CASE pc[r] # "new"
  <2>1. Safe(r)
    BY <1>1, <1>3, SafeBefore
  <2>2. /\ jobs[r] = "COMPLETED" => r \in committed
        /\ jobs[r] \in {"REJECTED", "FAILED"} => r \notin committed
        /\ (r \in committed /\ kind[r] = "create" /\ jobs[r] = None) =>
             answer[r] = None \/ restarts > 0
    BY <2>1 DEF JobsMatchResults, Safe
  <2>3. /\ pc[r] = "committing" => r \notin committed
        /\ pc[r] = "closing" => r \in committed
        /\ pc[r] \in {"running", "inserting", "reading", "read", "deciding"} =>
             r \notin committed
    BY <2>1 DEF KeptInv, RowInv
  <2>4. ASSUME NEW x \in Requests, Create(x) \/ AsksForResult(x) \/ Status(x)
        PROVE  Agree(r)
    BY <1>3, <2>2, <2>4 DEF Create, AsksForResult, Status, Comes
  <2>5. ASSUME NEW x \in Requests,
               Reject(x) \/ Fail(x) \/ RunRaises(x) \/ RefuseDecision(x)
        PROVE  Agree(r)
    BY <2>2, <2>3, <2>5 DEF Reject, Fail, RunRaises, RefuseDecision
  <2>6. ASSUME NEW x \in Requests, Validated(x) \/ Insert(x) \/ Read(x) \/ Decide(x)
        PROVE  Agree(r)
    BY <2>2, <2>6 DEF Validated, Insert, Read, Decide
  <2>7. ASSUME NEW x \in Requests, Commit(x)
        PROVE  Agree(r)
    <3>1. r \in pending[Connection(x)] => jobs[r] = None /\ answer[r] = None
      BY ConnectionType DEF RowInv
    <3>2. QED BY <2>2, <2>7, <3>1 DEF Commit
  <2>8. ASSUME NEW x \in Requests, Close(x)
        PROVE  Agree(r)
    BY <2>2, <2>3, <2>8 DEF Close
  <2>9. ASSUME NEW x \in Requests, SaveFails(x)
        PROVE  Agree(r)
    BY <2>2, <2>3, <2>9 DEF SaveFails, StateUnsaved
  <2>10. ASSUME NEW x \in Requests, ReadFails(x) \/ CloseRead(x)
        PROVE  Agree(r)
    BY <2>2, <2>3, <2>10 DEF ReadFails, CloseRead
  <2>11. CASE Restart
    BY <2>11 DEF Restart
  <2>12. CASE UNCHANGED vars
    BY <2>2, <2>12 DEF vars
  <2>13. QED BY <2>4, <2>5, <2>6, <2>7, <2>8, <2>9, <2>10, <2>11, <2>12 DEF Next, Quiet
<1>4. QED BY <1>2, <1>3

-----------------------------------------------------------------------------
(* The theorems. *)

(* The service starts with every invariant. *)
LEMMA InitInv == Init => IInv
<1> SUFFICES ASSUME Init PROVE IInv
  OBVIOUS
<1>1. TypeOK
  BY DEF Init
<1>2. PlaceInv /\ RowInv /\ FoundInv /\ JobsMatchResults
  BY DEF Init, PlaceInv, RowInv, FoundInv, JobsMatchResults
<1>3. KeptInv
  BY DEF Init, KeptInv
<1>4. QED BY <1>1, <1>2, <1>3 DEF IInv

(* Every state the service passes through satisfies the invariant. *)
LEMMA Invariance == Spec => []IInv
<1>1. IInv /\ [Next]_vars => IInv'
  BY TypeStep, PlaceStep, RowStep, KeptStep, FoundStep, JobsStep DEF IInv
<1>2. QED BY InitInv, <1>1, PTL DEF Spec

(* Every variable keeps its type. *)
THEOREM TypeCorrect == Spec => []TypeOK
<1>1. IInv => TypeOK
  BY DEF IInv
<1>2. QED BY Invariance, <1>1, PTL

(* REQ-211: what was answered 201 stays, across other requests and, in a   *)
(* file, restarts; in memory, if the request overlapped with no other.     *)
THEOREM AnswersAreKeptHolds == Spec => []AnswersAreKept
<1>1. IInv => AnswersAreKept
  BY DEF IInv, KeptInv, Safe, AnswersAreKept
<1>2. QED BY Invariance, <1>1, PTL

(* The status of a job and its results agree on a file, whatever requests  *)
(* run beside it; in memory, if its request overlapped with no other.      *)
THEOREM JobsMatchResultsHolds == Spec => []JobsMatchResults
<1>1. IInv => JobsMatchResults
  BY DEF IInv
<1>2. QED BY Invariance, <1>1, PTL

(* No decision is on record without its result, on either database. *)
THEOREM DecisionsRestOnResultsHolds == Spec => []DecisionsRestOnResults
<1>1. IInv => DecisionsRestOnResults
  BY DEF IInv, FoundInv, DecisionsRestOnResults
<1>2. QED BY Invariance, <1>1, PTL

=============================================================================
