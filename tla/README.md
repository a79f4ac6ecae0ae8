# A TLA+ verification of the Structural Reconciliation Engine

The program compares two canonical trees, the source and the target of one
document, decides which nodes are the same, and reports structural operations
(match, update, insert, delete, move, reorder), their root causes and what a
cause makes redundant. Adapters make such trees of XML, DITA, JSON and YAML
documents, a localisation layer reads issues and repairs off the report, and a
job layer (command line, REST API, thread pool, SQL store) runs it all. This
directory models the way of a comparison from the documents to the report,
the threaded job executor and the HTTP service, and model-checks them with
TLC. TLAPS proves, for every value of the constants, that the matcher
implements its policy and that the core, the interpretation of its report, the
executor and the service keep most of their safety invariants.

Paths below are relative to `src/src/reconciliation/` unless they start with
`src/`.

## 1. Inventory

| Component | State | Operations | What makes it correct | Here |
|---|---|---|---|---|
| Evidence, constraints, scoring: `core/evidence/`, `core/matching/{constraints,scorer,confidence}.py` | none | extract evidence per node; score a pair | absent features do not count; a duplicated id names nothing | `Evidence` |
| Node matcher: `core/matching/matcher.py`, `core/contracts/matches.py` | candidates, rows, ambiguous edges, claims | phase 1 (ids), scoring, ambiguity, greedy confirmation, graph | one-to-one; ties and order never decide; the graph's contracts do not raise | `Matcher`, `MatchPolicy`, `MatcherProofs`, `MatcherRefinement` |
| Aligner: `core/alignment/aligner.py` | regions | one region per corresponding parent pair | each child is aligned, one-sided or unresolved; reorder means inversion | `Engine`, `EngineProofs` |
| Classifiers: `core/classification/` | operations | four classifiers in registry order | one verdict per node, none lost, absence means no counterpart | `Engine`, `EngineProofs` |
| Root cause: `core/causality/` | roots, alternative | read the operations | every change is explained | `Engine` (partly) |
| Suppression: `core/suppression/` | effects, retained defects | read operations and regions | a moved subtree does not hide defects of its own | `Engine`, `EngineProofs` (partly) |
| Engine: `core/engine.py` | stage of the job | limit check, then the stages in order | an over-limit job gets an empty result or an error | `Engine`, `EngineProofs` (partly) |
| Adapters: `adapters/` | none | parse within limits, build a canonical tree | a document can be read back from its tree; what is refused is refused in a way the job service knows | `Documents` (the CCMS stub is left out) |
| Validation, normalisation: `core/validation/`, `core/normalization/` | none | reject or normalise a tree | exactly the rooted trees pass; every change has its rule | `Trees`, `Documents` (profile validation as an assumption of `Engine`) |
| LCS helper: `core/alignment/lcs.py` | none | `align_sequences` | a longest common subsequence | `Documents` |
| Localisation: `application/services/` | issues, summary, repairs, price | interpret the report, filter, recommend, attach, summarise, assess | one status per node; ambiguity outranks absence; the repairs together restore the structure; the counts share out the issues | `Localization`, `LocalizationProofs` |
| Rows and exit code: `reporting/rows.py`, `delivery/cli/exit_codes.py` | none | flatten a result; decide whether a pipeline passes | every defect surfaces once; 0 means nothing to do | `Localization`, `LocalizationProofs` |
| Job service: `application/orchestration/` | none | adapt, reconcile, interpret, save, render | every boundary failure becomes a job state; reports follow the stored result | `JobExecutor`, `Localization`, `Service` (partly: not the CCMS variant) |
| Executors: `infrastructure/jobs/` | records, futures, pool | submit, wait, get, shutdown | each accepted job ends; a wait outlasts its run | `JobExecutor`, `JobExecutorProofs` (the threaded one) |
| Stores: `infrastructure/persistence/`, `artifact_store.py` | rows, files, open transactions | save, get, add, list, write | one result per job id; what was committed stays; artifacts belong to a result | `JobExecutor`, `Service` (partly: not the in-memory artifact store) |
| Reviewer decisions, API: `application/services/reviewer_decisions.py`, `delivery/api/` | decisions, job table | create, status, results, decide | what is answered is kept; a decision rests on a stored result | `Service`, `ServiceProofs` |
| Rendering, logging, settings, benchmark | none | format, print, measure | (I/O and formatting) | not modelled |

**Interaction.** `reconcile()` is synchronous: the matcher reads the evidence
indexes; the aligner reads both trees and the match graph; the classifiers
share one `ClassificationContext` of trees, graph and regions; the analyser
reads operations and the graph; suppression reads operations and regions. A
stage never changes the output of an earlier one, and no concurrency exists
inside the core. The job service calls adapters, validation and normalisation
before it, and interpretation, recommendation and summary after it, in one
thread; each reads what the stage before has returned. The only shared mutable
state of the program is in the job layer: an executor's dictionaries under a
lock, the API's table of jobs (a dictionary that request threads share without
one), the database, and the artifact directory, all keyed by job id.

**What is hard.** In the core it is combinatorial. The matcher has four loops
that confirm or exclude nodes independently and rely on sorted references to
be deterministic. Who moved, who is absent and which parents correspond are
derived three times, by the aligner and two classifiers, each in its own way.
Ambiguity must pass through all of them without a node being reported as
absent. Contracts raise out of the middle of a stage. In the job layer it is
concurrency and failure: an exception that is not a `ReconciliationError`,
resubmission of a job id, submission after shutdown, a read-then-insert
transaction, and a connection that all request threads share when the database
is in memory. In between it is agreement: statuses, repairs, prices and exit
code are each derived from the report again, in code of their own. In the
adapters it is numbering: references are sibling positions, and comments,
metadata, repeated keys and empty containers shift them. `PROJECT.json` lists
each hazard at the line where it bites, with the properties that cover it or
the reason none does yet.

## 2. Modules

| Module | Role |
|---|---|
| `Evidence` | evidence records, hard constraint and pair score, as operators |
| `Matcher` | `match()` as a state machine, one loop iteration per step |
| `MatchPolicy` | what matching promises, without an algorithm; `Matcher` implements it |
| `MatcherProofs` | theorems about `Matcher` |
| `MatcherRefinement` | `Matcher` implements `MatchPolicy` |
| `Inductions` | lemmas by least counterexample: least elements, what filtering keeps, when two filtered sequences agree; no model |
| `Filtering` | a list comprehension with a membership test, as the aligner has it |
| `Engine` | `reconcile()`: limits, `Matcher` step by step (`INSTANCE`), alignment, classification, root cause, suppression |
| `EngineProofs` | theorems about `Engine`, on those of an instance of `MatcherRefinement` |
| `Localization` | what the job service makes of `Engine`'s result: issues, repairs, summary, price, rows, exit code; extends `Engine` |
| `LocalizationProofs` | theorems about `Localization` |
| `Trees` | canonical trees: contracts, `validate_tree`, `normalize`, as operators |
| `Documents` | adapters, then `Trees`; and `align_sequences`; as a state machine |
| `DocumentsProofs` | theorems about `Documents` and the operators of `Trees` |
| `Service` | request threads of the API, its job table, two repositories on one database |
| `ServiceProofs` | theorems about `Service` |
| `JobExecutor` | callers, pool, job service, result row and report files, with every step another thread can see |
| `JobExecutorProofs` | theorems about `JobExecutor` |
| `MCMatcherXml`, `MCMatcherDita`, `MCEngine`, `MCLocalization`, `MCDocuments`, `MCJobExecutor`, `MCService` | evidence, trees, commands, documents, policies and requests for TLC |

### Evidence

`Total` and `Matched` are the sums of applicable and matching weights that
`consider()` accumulates in `score_pair`; `Value` is their quotient rounded to
six decimals; `HardViolation` is the node type constraint; `UniqueIds` is
`_unique_id_index`, which skips ids carried by several nodes of one tree.

Weights are whole hundredths and scores whole millionths. Python computes in
binary floats, so a difference that equals the margin in decimals may fall on
either side of it (`0.85 - 0.7 > 0.15`). The margins in the configurations
are such that no two scores differ by exactly the margin, so that exact and
binary arithmetic agree on every comparison made. Which of several id or
label keys is found first is abstracted: a node has at most one of each.

### Matcher

| Action | Code in `matcher.py` |
|---|---|
| `RejectId`, `ConfirmId`, `RaiseId` | the loop over the sorted shared unique ids |
| `ScoreRows` | `_score_rows` and `_ambiguous_edges` |
| `EmitAmbiguous`, `RaiseAmbiguous` | the ambiguous candidates and their alternatives; the entries left to confirm |
| `SkipEntry`, `ConfirmEntry`, `RaiseEntry` | one entry of the greedy loop |
| `BuildGraph` | `MatchGraph(...)` and its validator |
| `Ended` | `match()` has returned or raised |

`candidates`, `rows` (the list `scored`), `edges` and `confirmable` are the
local variables of `match()`; `phase` and `pendingIds` stand for its program
counter. The Raise actions are the validators of `MatchCandidate`, which a
profile the contracts admit can trip. `source` and `target` are the two
evidence indexes: chosen by `Init`, never changed.

### MatchPolicy

The policy states which pairs two evidence indexes settle: `Identified` (an id
unique on both sides, on compatible types) and `Settled` (a shortlist of one
target that no other source comes near). Pairs are confirmed in any order, the
identified ones first. No definition of it mentions an order on references, so
the refinement says that neither the order of the loops nor how references
sort shows in the result.

### Engine

`command` is what a job brings besides the trees: limits, operation profile,
order semantics and suppression thresholds. `Refuse`, `ReturnIncomplete` and
`Accept` are the limit check; `Match` is one step of the instance `Matching`
of `Matcher`; `MatchRaised` is an exception of it leaving `reconcile()`;
`Align`, the four `Classify...` actions, `AnalyseRootCause` and `Suppress`
are the later stages, each atomic, since nothing runs beside them.

Abstractions: trees are validated and normalised; an operation is its type,
nodes, confidence and the parents it was found under (in the code
`operation_id` is derived from type and references); at most one suppression
rule per operation type, as the packaged profiles have; objective score,
diagnostics, evidence codes, metrics and timings are left out, as nothing
reads them back. `max_candidates`, `max_duration_ms`, `tie_break_keys`,
`use_anchor_partitioning` and `disable_similarity_for_translatable` are
accepted by the contracts and read by no code, so they are not in the model.

### Localization

| Action | Code |
|---|---|
| `Reconcile` | a step of `Engine` |
| `Fail` | the core raised: a FAILED record or an exception, both a technical error to the command line |
| `Interpret` | `localization_validation.py` `validate()` up to the filter of contradictory presence issues |
| `Recommend` | `recommend()` and the links from issues to recommendations |
| `Summarise` | `_summarize()` |
| `Report` | `reporting/rows.py` and `delivery/cli/exit_codes.py` |
| `JobEnded` | the job is over, or the core returned an incomplete result |

`issues`, `repairs`, `summary` are the fields of
`LocalizationValidationResult`, `table` the rows of `ReportTable`. `Price` is
`assess()` as counts times rates: rounding and currency are left out.
`Table` has its rows with and without those of suppressed effects
(`include_suppressed`), whichever the caller asks for.
`validation` is what `validate()` is told besides the report; revisions are
properties of nodes in the code and arguments here, since the core does not
read them.

Abstractions: an operation stands for its id, so two reorders that share an id
are still two (`core/classification/classifiers/reorder.py:45`); generated
ids, labels, paths, messages and evidence are left out.

What a reader of the code may not expect, and the model follows:

- a node that moved and is stale is WRONG_PARENT; its staleness is only in
  `translation` (`StalenessVisible` says when the code reports SOURCE_UPDATED;
  AC-022 asks for more: disagreement 6 of section 3);
- under a profile without MOVE a node in the wrong place is a match, or stale
  (disagreement 7);
- a confirmed pair whose confidence is below the move threshold is a match
  *and* an absence (REQ-094), the one case `OneStatus` excepts besides
  exemptions under EMIT_ALL;
- under an authoritative LOCALE the side of a repair is SOURCE, while the node
  it names is the locale's when there is one, and ADD_NODE still adds to the
  locale what the source has (REQ-121);
- LOCALE_DIVERGED and MOVED are in the contracts and produced by nothing;
- the exit code does not look at the completeness of the result, which the job
  service's limits never make incomplete.

### Trees and Documents

| Action | Code |
|---|---|
| `Reject` | an `AdaptationError` of a parser or adapter: the job is rejected |
| `Raise` | what a parser lets through: `ValueError` and `RecursionError` |
| `Adapt` | the adapter of the format builds a tree |
| `Build`, `BuildRaises` | a caller of the library builds one: the contracts of `CanonicalNode` and `CanonicalTree` |
| `Validate` | `validate_tree` |
| `Normalise` | `TreeNormalizerService.normalize` |
| `AlignEqual`, `AlignLeft`, `AlignRight`, `AlignDone` | the loop of `align_sequences` |

A document is a function from positions (paths of child numbers) to labels;
`call` is the document with its format, limits and normalisation profile, or a
tree built by hand, or two sequences. What labels cannot tell is a mark:
bytes, syntax, YAML tokens, nesting beyond the interpreter's stack. The
adapters are operators on a call, so that lemmas can speak of any document
and not only of the one in the state.

Abstractions: the key of a node in the map is its own reference (adapters and
every caller in the repository make it so); structural properties, source
lines, prefixes of node types, ids other than the canonical one of a DITA
node and the order of the trace are left out; attributes are not blank and
hrefs already normalised; text is letters, blanks and tabs. The content of a
node may have lists and dicts, whose strings `normalize` reaches at any depth:
such a value is a function from the paths inside of it to its scalars. No
adapter makes one, so they come with trees built by hand. A data document does
not have both a number that is not finite and an integer too long for `int()`:
which of the two `json.loads` meets first decides how the job ends.

Facts the model brought out, none of which contradicts a document:

- a repeated key of a JSON object keeps the first place and the last value;
- a generic XML element with `id` and `xml:id` gets whichever comes last, so
  that its identity depends on the order of attributes; DITA has an order of
  its own (`id`, `xml:id`, `keys`, `href`);
- a YAML date that does not exist and an integer with more digits than `int()`
  takes raise a `ValueError`, and very deep JSON or YAML a `RecursionError`, which `_run()` does not catch: the job raises
  instead of being rejected;
- `align_sequences` is used by tests only.

### Service

A step is what a request's thread does between two points where another
thread can see it; `Restart` may come between any two.

| Action | Code |
|---|---|
| `Create`, `Reject`, `Fail`, `RunRaises`, `Validated` | `routers/comparisons.py` `create_comparison` around `ComparisonJobService.run` |
| `Insert`, `Commit`, `Close`, `SaveFails` | `save()` of the result, `add()` of the decision |
| `Status` | `get_comparison`: the table of jobs only |
| `AsksForResult`, `Read`, `ReadFails`, `CloseRead` | `get_results`, and the first half of `add_decision` |
| `RefuseDecision`, `Decide` | `reviewer_decisions.py` `record()` and its contract |
| `Restart` | the process ends; a file is still there, memory is not |

A job and its row are named by the request that makes them (in the code a
fresh uuid), a decision by the request that stores it. `jobs` is
`ApiState.jobs`; `committed` the rows of both tables; `pending` the rows a
connection has inserted and not committed. That sessions on a `StaticPool`
share one connection and that returning it rolls back is the behaviour of
SQLAlchemy (external), as is one writer at a time of a SQLite file.
An answered export is the row of the result: no export of the program passes
decisions to `build_report_table` (disagreement 9 of section 3).

Abstractions: all decisions of a job are on one issue, and their order, which
nothing reads, is left out; a query is one step.

### JobExecutor

A run is one `submit()`; several may bear one job id. What a thread does
between two points where another thread can see it is one step.

| Action | Code |
|---|---|
| `Submit`, `SubmitRefused` | `in_memory.py` `submit()`: the record is stored, then the pool accepts, or raises after `shutdown()` |
| `Start` | a pool thread takes the oldest work item (external: `ThreadPoolExecutor`) |
| `Reject`, `FailReconcile`, `Reconcile`, `ReconcileRaises` | `comparison_job.py` `_run()` up to the result; what it computes is local, so only the outcome counts |
| `Lookup`, `Save`, `SaveFails` | `result_repository.py` `save()`: `session.get`, then insert or update and commit; every exception becomes a failed job |
| `OpenArtifact`, `WriteArtifact`, `WriteFails`, `RenderRaises`, `Complete` | `_render_artifacts()` and `FilesystemArtifactStore.write()`, which empties the file before it writes it |
| `Publish` | `_execute()` stores the record under the lock; then the future is done |
| `Wait`, `Wake`, `TimeOut`, `Read` | `wait()`: future, result (or its exception, or a timeout), record |
| `Shutdown`, `Stopped` | `shutdown()` waits for what is queued and running |
| `Restart` | the process ends at any point and starts again with rows and files only |

`records`, `futures` are the executor's dictionaries, `queue` and `closed` the
pool's; `pc`, `job`, `toRender`, `found`, `outcome` are what a pool thread has
in hand; `stored` and `files` are the database and the artifact directory.
Records, rows and files carry the run that wrote them instead of their
contents. `directory` is what `_sanitize` makes of a job id: characters other
than letters, digits, `.`, `_` and `-` become `_`, so that two ids a caller
supplies may name one directory of reports. `overlapped` is history: the jobs of which two runs were ever under
way at once.

Abstractions: repository and artifact store are both configured, and the
database is a file, so that each thread has a connection of its own. Locals of
a run that has ended are forgotten. Two overlapping writes of one file count
as the last writer's, although their bytes may mix, and a row is written even
when its payload is the one loaded (SQLAlchemy then sends nothing); both
differ only for overlapping runs. Logging is left out.

## 3. Runs

| Run | Question | Bounds | Result |
|---|---|---|---|
| `matcher_xml` | Does `match()` keep its contracts and implement the policy under the packaged generic-XML profile? | 3 sources, 2 targets; 6 kinds of source and of target node | holds |
| `matcher_similarity` | Does it when ids are evidence only, rows hold near ties, and a contract may raise? | 3 x 3 nodes of 5 kinds, DITA-map weights, thresholds 0, margin 0.15 | holds |
| `engine_packaged` | Does the report say one thing, the right one, of every node, and do issues, repairs, counts and exit code agree with it? | 135 x 135 trees: a root and three elements in 5 shapes, 3 kinds of element; 3 policies | holds |
| `engine_profiles` | Do they under other profiles and limits, and when the matcher raises? | 40 x 40 trees, 5 commands, 3 policies, weightless id | holds |
| `engine_identical` | Is a tree equal to itself? | 40 x 40 trees | violated |
| `engine_content` | Is changed content always reported? | 40 x 40 trees | violated |
| `engine_wrapped_root` | Does absence mean no counterpart when the root was wrapped? | one tree of four identified nodes and the same tree below a new root, all of one type | violated |
| `documents` | Is a document its tree, do exactly the trees pass, is normalisation attributed, is the alignment longest? | every document of up to 4 positions, 3 hand-made references, lists and dicts of two scalars, texts and sequences of up to 4 | holds |
| `service` | Is what was answered kept, and do jobs, results and decisions agree? | 4 requests, 1 restart; a file, and memory for requests that overlap with no other | holds |
| `service_memory` | Does a completed job have its results in memory too? | 2 requests, no restart, memory | violated |
| `jobs` | Do threads, failures, resubmission, shutdown and restart leave records, row and files consistent, and does everybody finish? | 2 runs, 2 job ids in one or two directories, 1 caller, pools of 1 and 2, 1 restart, no report or one | holds |
| `jobs_render` | Does a failing renderer cost the artifact only? | as `jobs` | violated |

**Why the bounds are enough.** Ambiguity in the matcher is a relation
between a node, its rival and the target they share: a rival on the source
side needs two targets, contention two sources, and one source outside a
contention it influences makes three. The kinds of node in `MCMatcherXml`
reach ids that are unique, shared, duplicated on one or both sides, or on
incompatible types; those in `MCMatcherDita` reach equal scores, scores
within and scores outside the margin, and pairs without any evidence, on
which contracts raise when the thresholds are zero. In `Engine` a move needs two parents
besides the moved node, a reorder two matched siblings and a third to shift
them: a root and three elements, in every shape three nodes can take below a
root, have both, with a chain of three for the subtree of a moved node and
for an ambiguous parent between two confirmed nodes. The thresholds and
weights of the runs are those of `profiles/*.yaml`, except where the run's
purpose is another one (`matcher_similarity`, the id without weight of
`engine_profiles`, and the commands of `MCVaried`).

The issues of `Localization` are about a node, a pair or a siblings' order,
and a chain of moves needs three elements; of the three policies one has
nothing stale and no exemption, one has a stale, a current and an unknown
translation, and one permits differences of some type and of any. In
`Documents` a reference depends on the position among siblings and the kinds
above: four positions hold a repeated key with another key between them,
metadata before an element, and a container in a container; three references
hold every cycle that is not excluded by a contract, and every pair of parent
and children that disagree. In `Service` a lost row takes the thread that
inserts, the one that closes and the one that reads; a decision takes the
comparison it is about, and a third and a fourth request may run beside them.

In `JobExecutor` every hazard is between two runs: of one id (one after the
other, overlapping, or across a restart) or of two ids (one thread for both,
a run that raises before another). A second report only repeats the loop, as
each file has one format.

No symmetry is declared: references and ids are ordered in the code, and
their order is one of the things in question.

**Deadlock** is checked in every run: an ended job of the core stutters in
`Ended`, `JobEnded`, the HTTP service in `Quiet` once every request has ended,
and a caller of the executor that is not waiting can always call.

**Fairness.** The core is one synchronous call, as are adaptation and
interpretation: these modules state no fairness, only their safety is of
interest, and their termination is visible in the models (each step consumes
an id, an entry, a key or a stage). Of `Service` only safety is asked: its
requests wait for nothing but the database. `JobExecutor` assumes weak
fairness of `Start`, of each run's thread and of a caller that can go on: the
operating system schedules threads, and the pool hands out work items in the
order they came. Nobody has to submit, wait, shut down or restart, and no
timeout has to strike, so `CallersReturn` owes nothing to `TimeOut`.

### Properties

Matcher: `ConfirmedOneToOne` (at every step, not just when the graph is
built), `AmbiguousNeverConfirmed`, `ConfirmedDominates` (a pair confirmed on
similarity beats all rivals on both sides by more than the margin; run under
the packaged profile, proved for all), `NeverRaises`, `ImplementsPolicy`.

Engine: `OneVerdict` and `NothingLost` (the classifiers partition the nodes
among them), `AbsentMeansUnmatched`, `ReorderMeansInversion` (exactly the
inversions of matched siblings), `SelfComparison` (what does hold of a tree
compared with itself), `SilenceMeansIdentity` (no operation but matches means
equal trees below the root), `MovesChangeParent` (the two parents of a move are
looked up in different ways and differ), `MovedDefectsKept` (content that changed inside a moved subtree is
reported and on the retained list).

Localization: `AmbiguityDominates` (no node with an ambiguous candidate is
called missing or extra or repaired), `OneStatus`, `MatchMeansPlaced` (a match
has compatible parents), `DefectsSurface` (each defect in exactly one issue
with its hidden effects counted, or dropped for ambiguity), `StalenessVisible`
(stale exactly when both revisions are known and differ, in one issue of the
pair, which is SOURCE_UPDATED exactly if it is stale and no move of it is
reported),
`RepairsRestoreStructure` (all recommended moves together leave a tree in
which every counterpart is below the counterpart of its parent, if the profile
reports moves),
`FindingsPricedOnce`, `CleanExit` (exit code 0 means every source node is in
its place, or its identity is open).

Documents: `ValidatorIsExact` (contracts and `validate_tree` accept exactly
the rooted trees, said without a walk), `AdaptationFaithful` (the document can
be read back from the tree, which keeps the limits), `NormalisationAttributed`
(idempotent; the strings of a value tidy, at every path of a list or a dict;
each change by one rule, named in the trace), `LcsIsLongest`.

Service: `AnswersAreKept` (REQ-211: a 201 is not undone by other requests or a
restart), `JobsMatchResults` (status and results agree),
`DecisionsRestOnResults`.

The first two hold of a database file whatever requests run side by side. Of a
database in memory, which is the default of the API, they speak of requests
that overlap with no other only, and `DecisionsRestOnResults` of both. All
threads share one connection in memory, and a session that closes rolls back
what another has inserted and not yet committed; the other one then commits
nothing and answers 201. `CompletedJobsHaveResults` asks for more and is
violated (disagreement 5 below); the mutant `MutantConnection` of
`AnswersAreKept` brings the same about on a file.

JobExecutor: `ReportsHaveResult` (reports come after the stored result,
as the docstring of `comparison_job.py` says, whatever fails),
`CompletedIsCurrent` (a completed record describes the stored row, and the
reports it lists were rendered from it, also on top of what a failed or lost
run left), `WaitOutlastsItsRun` (a wait never returns
the RUNNING record of the run it waited for), `AcceptedJobsEnd` (an accepted
job has a terminal record unless its run raises or the process ends, also
behind a run that raised), `CallersReturn`.

`wait()` promises a terminal state and cannot keep it in two cases the model
reaches: resubmission of the id between the end of the future and the read of
the record, and a submission the pool refused after `shutdown()`, whose RUNNING
record is stored and has no future. `WaitOutlastsItsRun` says what does hold.

`CompletedIsCurrent` excepts jobs whose runs overlapped: two runs of one id
share row, files and record, each in an order of its own, and their outcomes
can mix. It excepts the reports of jobs whose ids name one directory: the
later one replaces them, while the record of the earlier still lists them. The
documents promise nothing in either case.

Every property of a passing run comes with a mutant of a mapped definition
that breaks it (`PROJECT.json`, "mutants"): those named `Mutant...` stand
just before the definition they replace.

### Where code and documents disagree

Runs show these:

1. **Identical trees** (`IdentityIsSilent`,
   `core/classification/registry.py:53`). `parents_correspond` knows the
   roots and confirmed pairs only. The confirmed child of a parent that is
   ambiguous because its content repeats is reported as a `MOVE`, although
   both trees are equal; AC-001 excludes it.
2. **Content of moved nodes** (`ContentChangeReported`,
   `core/classification/classifiers/match.py:29`). Contents are compared for
   aligned pairs only; a node with a confirmed id that moved and changed is
   reported as `MOVE` alone, where AC-008 asks for an update.
3. **Wrapped root** (`AbsentMeansUnmatched`, `core/alignment/aligner.py:76`).
   The roots are aligned whatever they match. In the trace the target is the
   source tree below a new root, and each source node is confirmed by its id
   with the node it was. The three children of the source root are then in two
   regions: source-only in that of the two roots, whose target side has the
   old root alone, and aligned in that of the source root and its counterpart.
   They are reported as `DELETE` besides their `MATCH`, and the old root as
   `INSERT`, which the docstring of `insert_delete.py` reserves for nodes with
   no viable correspondence. In `engine_packaged` roots have a type of their
   own, as document elements usually do, and the property holds.
4. **Renderer failures** (`SavedJobsEnd`,
   `application/orchestration/comparison_job.py:195`). The module's docstring,
   `reporting/errors.py` and section 8.8 of the SRS say that a renderer that
   fails costs its artifact only. `_render_artifacts` catches
   `ArtifactWriteError` around the write; `ReportGenerationError` is caught
   nowhere, nor is a text that cannot be encoded. It leaves `run()`: the
   result is stored, the record is RUNNING for good, and the reports already
   written are listed nowhere.
5. **Results in memory** (`CompletedJobsHaveResults`,
   `infrastructure/persistence/database.py:32`). The API is wired with a
   database in memory (`delivery/api/dependencies.py:38`), whose one
   connection all request threads share. In the trace two comparisons are
   created at the same time: the session of the first, its own row committed,
   closes between the insert and the commit of the second and rolls it back.
   Both are answered 201 and COMPLETED, and the second has no result, which
   REQ-211 and the docstring of `application/ports/results.py` say is kept.

These were read off the code while its definitions were written. The models do
what the code does, and no run asks for what the document says:

6. **Stale nodes that moved**
   (`application/services/localization_validation.py:174`). A pair gets one
   status, and a move comes before the translation state: the node is
   WRONG_PARENT, and STALE only in its translation state. AC-022 and REQ-098
   ask for SOURCE_UPDATED whenever the source changed after its translation.
   `StalenessVisible` holds because it says when the code reports it.
7. **Moves that are not enabled** (`core/classification/classifiers/move.py:25`).
   WRONG_PARENT is read off MOVE operations. Under a profile without MOVE there
   are none, while the presence classifier still leaves moved nodes to the move
   classifier; a confirmed node below an incompatible parent is in no
   operation, and its pair is a match or stale. AC-020 asks for WRONG_PARENT;
   `MatchMeansPlaced` and `NothingLost` are about profiles that report moves.
8. **Near ties** (`core/matching/matcher.py:232`). The contenders for a target
   are compared with the leading one only. Of three sources with the same best
   target, at scores 1.0, 0.85 and 0.70 under a margin of 0.16, the first two
   are kept as ambiguous. The third is within the margin of the second and not
   of the leader, so that it is not kept; nor can it be confirmed, because the
   target has become ambiguous (line 183). It ends with no candidate, where
   REQ-044 and `docs/design/matching.md` promise that candidates within the
   margin are preserved. The packaged margin 0.05 is narrower than any
   difference of these scores. `MatchPolicy`, which `match()` implements, says
   the same as the code.
9. **Exports without decisions** (`delivery/api/routers/comparisons.py:86`).
   Decisions are stored, and nothing but tests lists them: the API's results
   and report, the command line and the artifacts of a job are built from the
   result alone, although `build_report_table` would take decisions. AC-030
   asks that the export contain the decision beside the engine's conclusion,
   REQ-131 that it be exportable.

## 4. Proofs

Eight modules hold theorems. Each proves, for every value of the constants
that the assumptions of its component admit, what the runs show on a small
instance. The assumptions are the bounds of `contracts/profiles.py` and
`contracts/commands.py`, what `validate_tree` guarantees of trees
(`IsTree`), trees being finite, and references and ids being numbers
because the code sorts them. No property but a few is inductive as it stands;
each module states its strengthening (`IInv`, in `DocumentsProofs`
`DocumentsInv`) before its proof.

`DocumentsAssumption` says what a call can be. A document is a finite set of
positions whose children are numbered from 0 without gaps, since lxml, `json`
and YAML return lists and mappings in order; a value below another one is
below a container; the root of XML is an element and no element has two
attributes of one name, as lxml sees to. A tree built by hand is a finite map
with lists of children and contents, the types of `CanonicalNode` and
`CanonicalTree`, and may violate everything else; sequences are lists. `NoRef`
is no reference. It does not say that a document is within limits, readable or
well-formed, or that a tree is rooted.

| Module | Theorems |
|---|---|
| `MatcherProofs` | `TypeCorrect`, `OneToOneHolds`, `DisjointHolds`, `DominanceHolds`, `NeverRaisesHolds` |
| `MatcherRefinement` | `PolicyImplemented` |
| `EngineProofs` | `TypeCorrect`, `MovesChangeParentHolds`, `NothingLostHolds`, `ReorderMeansInversionHolds`, `SilenceMeansIdentityHolds`; with a hypothesis on weights: `SelfComparisonHolds`; with a premise on roots: `OneVerdictHolds`, `AbsentMeansUnmatchedHolds`, `MovedDefectsKeptHolds`; `ReportsAreSound` |
| `LocalizationProofs` | `MatchMeansPlacedHolds`, `AmbiguityDominatesHolds`, `StalenessVisibleHolds`, `CleanExitHolds`, `RepairsRestoreStructureHolds`, `DefectsSurfaceHolds`, `FindingsPricedOnceHolds`; with the premise on roots: `OneStatusHolds` |
| `DocumentsProofs` | `DocumentsInvariant`, `ValidatorIsExactHolds`, `LcsIsLongestHolds`, `NormalisationAttributedHolds`, `AdaptationFaithfulHolds`, `AdaptedTreesPassHolds` |
| `JobExecutorProofs` | `TypeCorrect`, `ReportsHaveResultHolds`, `WaitOutlastsItsRunHolds`; with a hypothesis on requests: `CompletedIsCurrentHolds` |
| `ServiceProofs` | `TypeCorrect`, `AnswersAreKeptHolds`, `JobsMatchResultsHolds`, `DecisionsRestOnResultsHolds` |

`Inductions` has the lemmas several of them need. The library's induction
theorems take an operator as parameter, which no installed prover can
instantiate; its facts about well-founded *relations* take a set, and say that
a set of numbers has a least element (`LeastNumber`). What would be an
induction is done by least counterexample: were there an index at which a
statement fails, there would be a least one, and a step from the one before
it refutes that. `FilterFacts` (a filtered sequence is its source at an
increasing run of indexes, namely all those that pass) and `SameOrder` are
proved so, about the recursive function in `Filtering`.

### The matcher

The invariant of `MatcherProofs` is

- `TypeOK`;
- `IdsInv`: every shared id phase 1 is done with has its pair confirmed.
  Without it the rows could hold a node that an id is still to settle;
- `RowsInv`: rows hold scores of at least the probable threshold, and no node
  an id has settled. It separates the similarity phase from phase 1;
- `PhaseInv`: what each phase has not produced yet, and that `edges` are the
  edges of `rows` from then on;
- `ClaimsInv`: an ambiguous candidate is an edge, a confirmed one comes from
  its id or from a claim already visited, and a visited claim has left its
  target matched. It ties `candidates` to `rows`, which never change again;
- `ConfirmedDominates` and `NeverRaises` themselves.

The argument for dominance: when the greedy loop takes a claim, its source is
not ambiguous, so every rival target is outside the margin
(`AmbiguousContender`, `BestClaimDominates`); any other source that heads its
row with the same target and is within the margin would make the target
ambiguous, and claims on ambiguous targets do not exist; and one with a better
score would have been visited earlier and have left the target matched
(`ClaimsInv`), so that the claim would be skipped. One-to-one
(`InvOneToOne`) and disjointness (`InvDisjoint`) follow from `IInv` without
another induction. For `NeverRaises`, a score of at least a positive threshold
has a matched feature behind it (`PositiveScore`), a shared id is such a
feature when it has weight (`IdEvidence`), and no edge stands alone
(`EdgesHaveAlternatives`). `StepInv` splits on the actions of `Next`, one
lemma each.

The refinement adds `ExactInv`: once the ids are done with, the rows hold
exactly the pairs that the policy calls plausible. Confirming by id is then a
step of the policy at once, and there are two more things to show of the
loop. What it confirms is settled (`ConfirmedSettled`): dominance leaves no
second target on the source's shortlist and no second source near the target.
What is settled gets confirmed before the loop ends (`SettledClaims`,
`BuildGraphFinishes`): such a pair is the head of its row, no contention
touches it (`SettledUncontested`), so a claim for it exists, and whoever takes
its target first could only be that pair.

### The core

`EngineProofs` takes the matcher's theorems from an instance of
`MatcherRefinement` (and so of `MatcherProofs`) with the evidence of the trees, and adds what each stage
leaves behind: one region per corresponding parent pair, which shares out
their children (`RegionInv`); the operations found so far, each by the
classifier its type belongs to (`OperationInv`); effects and retained defects
that speak of operations only (`EffectInv`); and `JobInv`, the job itself.
From these, `NothingLost` is a case split on where a child ends in its region;
`MovesChangeParent` needs only what a move is.

`ReorderMeansInversion` compares two sequences: the partners of the matched
sources in the order of their own siblings, and the matched targets in theirs.
Both list the same nodes once each, and `SameOrder` says that two such lists
differ exactly when two pairs cross: from the first place at which they
differ to a crossing, and from a crossing to two places that cannot agree.
Positions among all siblings decide a crossing (`CrossingInverts`), since
filters keep the order and a child is listed once (`PlaceOf`, from the
contract of `child_refs`), and a single pair crosses nothing
(`AlignedPlace`), so the code's threshold of two pairs loses nothing
(`OrderFacts`). A region is then reported by its own operation only, because
regions have different parents.

`SilenceMeansIdentity`: a child of corresponding parents always has a verdict
of its own or an ambiguous candidate (`NoChildLost`). Were there nodes without
an unchanged counterpart in its place, going up from one of them would lead to
the first node that has a counterpart, or to the root, and to a child of it
that has none: parents are well-founded, so some node without counterpart has
a parent with one. That child has a verdict, and the verdict is no match.

`SelfComparison` is about what the matcher returns, not only about what its
result satisfies, so it needs the refinement: `OutcomeInv` (in
`MatcherRefinement`) says that the returned graph confirms exactly what the
policy identifies or settles and marks every ambiguous edge. Evidence compared
with itself scores 1.0 (`SelfScore`) and scores are symmetric
(`ScoreSymmetric`, `ShortlistSymmetric`), hence every node leads its own row,
and is settled with itself or ambiguous (`SelfMatched`). `MatchedInv` carries
that through the stages. The hypothesis `SelfScored` says that the signature or
the children of a node carry weight, as in every packaged profile. It is
needed: under a profile that weights ids and labels only, a node that has
neither scores nothing with itself and is reported as absent on both sides.

`OneVerdict`, `AbsentMeansUnmatched` and `MovedDefectsKept` need that regions
do not overlap, hence that corresponding parents are one-to-one
(`ParentsOneToOne`). That is false when a root is confirmed with an inner
node, which is disagreement 3 of section 3, and the theorems say so: they are
`Spec => [](RootsMatchRoots => ...)`. `ReportsAreSound` removes the premise
for documents whose root has a type no other node has under a profile where
types are a hard constraint (`RootsApart`), by `InvRoots`. The premise and
`RootsApart` hold in `engine_packaged` and `engine_profiles`, and fail in
`engine_wrapped_root`. `NothingLost` needs neither.

### Interpretation

A step of the job is a step of the core or leaves it alone (`CoreStep`), so
the core's invariant holds all along (`CoreInvariance`). `IssueInv` adds that
the issues and repairs are those of the graph and operations the core ended
with, that the summary counts them, and what exit code 0 excludes. Lemmas say of each kind of issue what it
is about (`OfPair`, `OfAmbiguity`, `OfOrder`, `OfPresence`, `OfConflict`) and
`IssueCases` that there is no other; the properties are read off these.

- `AmbiguityDominates` needs that the node a reorder points at is one of its
  siblings and hence confirmed (`FirstSiblingFacts`, by `LeastNumber`).
- `CleanExit` is an induction on the tree, by the well-foundedness of parents:
  going up from a node that is not in its place, the first one that is in
  its place has a child that is not (`CleanChild` excludes it). `PathUp` says
  that the path is closed. `Ancestors` is for that reason written as the
  least closed set and not as a recursion.
- `RepairsRestoreStructure`: each recommended move is that of one confirmed
  pair (`MoveRepairIs`, `MoveRepairAlone`, `MoveRepairOf`), so afterwards the
  parents of every pair correspond (`RepairedPair`), whether it moved or not.
  A cycle of locale nodes would then be one of their counterparts in the
  source tree, or one in the target tree. The attempt to prove it without the
  premise that the profile reports moves failed for a good reason: with MOVE
  disabled no repair is recommended, and the tree stays as it is.
- `DefectsSurface` and `FindingsPricedOnce` count, so they need that the sets
  involved are finite (`FiniteImage`, `EffectsFinite`, `IssuesFinite`). The
  statuses of the categories and the two that no category prices exclude each
  other and are all there are (`StatusCases`), and counts of statuses that
  exclude each other add up (`CountsAdd`).

### Trees and documents

`DocumentsInv` says at every stage what there is: a tree given by hand is still
that tree, and its stage agrees with its contracts and violations
(`GivenTree`); the tree of a document is `Adapted(call)`, of a call that is not
refused (`AdaptedTree`); the normalised tree and its trace are those of the
tree (`NormalTree`); and the script has read both sequences up to the cursor,
in order, with equal keys aligned (`AlignedSoFar`). The properties are then
facts about operators, which have recursive functions in them. These are
reasoned about by least counterexample, too.

- *Validation.* `ValidTreesAreRooted`: take a part with the root that is closed
  under children, and a node outside. Its parent is outside (local rules), so
  the walk up from it never gets in; nor does it end, as only the root is
  without parent. It has more steps than there are nodes and so comes back to
  a node (`WalksEnterTheRoot`), which `_detect_cycles` reports. In the other
  direction, what a walk circles in is a set whose complement is closed and has
  the root (`RootedTreesHaveNoCircles`).
- *The longest common subsequence.* The table exists and satisfies its
  recurrence (`TableExists`, `TableFacts`); what it has in a cell bounds every
  common subsequence of the rests (`TableBounds`, by the number of keys left);
  and aligned edits plus the table at the cursor are constant along the script
  (`AlignedTo`, `EditStep`), so the finished script is as long as the bound.
  The tie that the code breaks to the left is an edit that costs nothing.
- *Normalisation.* The places of letters, and of blanks after a letter, in
  order (`Ascending`) are what `Collapse` keeps. It makes a text single-spaced
  (`CollapseTidies`), a single-spaced text stays (`TidyStays`), and the words
  are those of before (`CollapseIsTidy`). A value is then tidy, if it is a list
  or a dict at each path (`NormalValueTwice`). From there, a content differs only
  where a rule of the profile applies, and not again (`NormalContentFacts`).
- *Adapters.* Children are numbered without gaps (`NoGaps`, `ChildrenFacts`).
  What is kept of them is exactly what stays, once, in the order of the
  document (`KeptFacts`): of the entries with one key, the last in the place
  of the first (`ObjectKeeps`). A survivor's path has the place of each of its
  beginnings among what is kept there (`PathIs`), so paths of different
  survivors differ (`PathsDiffer`) and a child's path is its parent's and one
  number more (`PathGoesOn`, `KeptPath`). In data the references of values have
  odd and those of entries even length, so they do not clash (`RefsDiffer`).
  Hence no node of the map replaces another, and a tree whose references get
  longer downwards and whose lists and parents agree is rooted
  (`GrownIsRooted`). Counting is by `OmittedFacts`: what is said to be omitted,
  there or above, are the positions that do not survive, if the document is
  not refused. An entity, which is neither kept nor omitted, is why this
  needs the refusal.
- `AdaptedTreesPass` follows from the first and the last: an adapter's tree is
  rooted, so `validate_tree` finds nothing in it.

The proof attempts corrected the statement of `AdaptationFaithful` in one
point: an element whose text is blank has no `text` property, and `ReadsBack`
now asks for the texts that are there (`HasText`). The instances of the run
had had text at every element, and the root of its XML documents is blank now.

### The executor and the service

`ReportsHaveResult` is not inductive: a thread that is to write a report must
be known to have a stored result, in whatever directory its job's id names.
The strengthening adds `SavedInv` (a run that renders has a row; `RowsStay`:
no step removes one) and `WorkInv` (a run under way has a job, a write has a
format, a reading caller has a job), on which the types depend too: without
it the file of no job might be written. It needs no hypothesis on overlapping
runs. `RecordInv` adds where a RUNNING record and an outcome come from
(`RunningInv`, `OutcomeInv`) and that who reads after a future has seen it
done (`WaitInv`); that gives `WaitOutlastsItsRun`. `CurrentInv` adds, for jobs
that never overlapped, that a run under way is alone (`AloneInv`), that what
it lists is not rendered again (`RenderInv`) and that row and files are its
own from `save()` on (`OwnInv`); that gives `CompletedIsCurrent`. Its
hypothesis `EachFormatOnce` is a request that names each report format once:
with a repeated format a listed report is rendered a second time and may fail
then.

`ServiceProofs` needs where a request can be given what is known of it
(`PlaceInv`); that a row is uncommitted in the connection of the request that
is committing it only (`RowInv`); that such a row goes into its table if
nothing can undo it (`KeptInv`, with `Safe` for a file or a request that
overlapped with no other); and that who goes on with a result it has found is
right about it (`FoundInv`). `JobsMatchResults` is a conjunct itself; it and
`AnswersAreKept` are about `Safe` requests, as in section 3.

### Only model-checked

- `AcceptedJobsEnd` and `CallersReturn`: liveness under fairness;
- the properties that the code violates, each by a run of its own.

## 5. Plan

What is left:

1. The float margin as a nondeterministic choice in `Matcher`.
2. Documents and the core in one machine: `Engine` assumes of its trees what
   `ValidatorIsExactHolds` and `AdaptedTreesPassHolds` prove of the validator
   and the adapters (`IsTree` against `IsRootedTree`); the two are stated on
   different representations of a node.

**Not modelled.** Rendering of rows as CSV, JSON, text and HTML, logging with
redaction, settings, the benchmark harness, the loading of profiles and the
CCMS stub: formatting, I/O or fixed data, without state of a comparison. The
cross-profile rules of `validate_profiles` are an assumption of `Engine`'s
commands. `SynchronousJobExecutor` is used by nothing in the program, and its
one run in the caller's thread is what `Service` has for the router. Of
`ResourceLimits`, `max_candidates` and `max_duration_ms` are read by no code.
