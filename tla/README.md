# A TLA+ model of Better Context

The repository keeps a company's knowledge graph: nodes and edges in Neo4j, the
traces of every fact, the raw records and the control tables in SQLite.
Records are ingested under mapping specs, humans edit facts and settle
conflicts over a REST API, and queries walk a cascade of retrieval tiers. This
directory holds TLA+ modules for the parts that keep or decide something, the
TLC runs that check them on small instances, and theorems about them that TLAPS
checks for every instance.

Run one model with `tlc -config <name>.cfg <MC module>.tla`, one proof with
`tlapm <Module>Proofs.tla`. PROJECT.json lists the runs, and says which lines of
the code every definition stands for.

## 1. Inventory

| Component | State | Operations | Interacts with |
|---|---|---|---|
| Conflict decision (`conflict.py`) | rows of `conflicts` | `decide`, `reconcile`, `record`, `resolve` | called by the store while it merges |
| Graph store (`graph/store.py`) | Neo4j nodes and edges; `source_records`, `provenance` | `add_source_record`, `add_node`, `edit_node`, `resolve_conflict`, `add_edge`, `delete_node`, `delete_edge` | called by ingestor, API, identity resolver, bootstrap script |
| Ingestor (`ingest/ingestor.py`, `ingest/store.py`) | `ingest_runs`, `ingest_runs_records`, `dead_letter` | drift check, a batch run, a push, LLM blocks | graph store, LLM client |
| Mapping spec registry (`ingest/store.py`, `ingest/onboard.py`, `ingest/__main__.py`, `api/app.py`) | `mapping_specs`, the YAML files | onboard, edit, promote, look up | API, command line, a human |
| LLM client (`ingest/llm.py`) | `llm_cache` | structured extraction, repair | onboarder, ingestor |
| Onboarder (`ingest/onboard.py`) | local to one onboarding | sample, draft, repair, stamp, save | LLM client, registry |
| Cascade (`retrieval/orchestrator.py`) | the list of tiers of one query | `run` | the tiers |
| Tiers (`retrieval/exact.py`, `hybrid.py`, `router.py`, `agentic.py`, stub) | local to one search | `search` | reads of the graph; entity models; Gemini |
| Tools and VFS (`retrieval/tools.py`, `vfs/`) | the citations of one request | ten tools | the agent and the thread summary call them; reads of the graph |
| Workflows (`retrieval/workflows/`) | local to one call | customer email, thread summary | hybrid and exact tiers, graph, tools, Gemini |
| Identity resolver, bootstrap script | edges in the graph | write `SAME_AS` and `MEMBER_OF` | graph store |
| API (`api/app.py`) | none of its own | the handlers | all of the above |
| Frontend, evaluation, migration, embedding pass, Pioneer scripts | none in the running system | reads, offline work | |

Processes: the API is one process and its handlers never await between the
first and the last call to the store, so inside it operations run one after the
other. The command line starts other processes (`run`, `onboard`, `promote`, the
scripts) on the same SQLite file and the same Neo4j database. They share
nothing else: SQLite's write lock is all that orders them.

What is hard here, and what has to hold:

* **Two stores, no transaction across them.** `add_node` and `edit_node` stage
  rows in SQLite, write Neo4j, which commits at once, and commit SQLite last.
  Each of the steps can fail, a reply can be lost, the process can die, and the
  compensations can fail as well. SQLite must never describe what the graph does
  not have; every value must have a trace; a committed trace must stay.
* **Reads that are old when they are used.** The node and its provenance are
  read before SQLite's lock is taken; `record()` looks a row up and then
  updates it by id. One open row per attribute and resolutions that stay
  resolved depend on an index and on who may write.
* **Who wins.** The ladder of confidences, the same-source rule and the queue
  together decide what a human sees. A human's value must not be lost to a
  machine's.
* **Idempotence.** The ledger must never claim a record that was not applied,
  whatever crashes; a completed run must have dealt with all of its records.
* **References to rows that are replaced.** `save_spec` gives a redrafted spec a
  new rowid and takes its "active" away, while ids and files are in use.
* **A list reordered while it is walked.** The cascade moves tiers to the front
  and must neither cycle nor skip one for good.
* **Programs that read first and write later.** The identity resolver and the bootstrap script
  read all persons and then write edges and attributes one by one while others
  ingest, lose and delete. Edges must have ends and traces, pairs must be linked once, however old
  what the program read is by then.
* **Loops driven by a language model.** It may ask for any tools, any number of times; calls fail,
  and so does the model. A request must end, an answer that reaches the caller must have evidence, and
  what was found must not change between two statements in a way that fails the request.
* **Answers out of a cache.** The cache of the LLM client is filled before an answer is validated, and its
  key names less than the prompt. An onboarding must end with a spec that fits the file or none, no fact may count as grounded in a text it
  does not occur in, and no record may be marked before its facts are in the graph.
* **A file read three times**, by the onboarder, the drift check and the run.

## 2. Modules

| Module | Models | State and actions |
|---|---|---|
| `ConflictDecision` | `conflict.py`, pure | operators: `Decide` is the ladder and the same-source rule, `Reconcile` what `reconcile()` returns, `CandidateFor` and `Latest` how a side is read off the provenance, `ConflictOf`, `Refreshed`, `Closed` the rows |
| `GraphTypes` | nodes, traces and records | types that the stores share |
| `GraphStore` | the two stores and the processes that write them | one action per step between two I/O calls; see below |
| `AtomicGraph` | what the store promises: one store, one step per operation | `Assert`, `Override`, `Settle` |
| `Ingest` | batch runs and pushes | one action per commit: `Run`, `Take`, `ApplyNode`, `ApplyEdge`, `CallLLM`, `MarkSeen`, `DeadLetter`, `Complete`, `Push`, and `Fail`, `Crash` |
| `SpecRegistry` | `mapping_specs` | `ApiOnboard`, `ApiAnswer`, `ApiPromote`, `CliOnboard`, `EditFile`, `CliPromote`; `Lookup` is what a push finds |
| `Cascade` | `CascadeOrchestrator.run` | `Ask`, `Search`, `SearchRaises` |
| `EdgeStore` | edges and deletions of the graph store, and the programs that write edges | `add_edge` as `StageEdge`, `MergeEdge`, `CommitEdge`, `CompensateEdge`; `IngestEdge`, `Resolve`, `Bootstrap`; `DeleteNode`, `DeleteEdge` with `Detach` and `Untrace`; the failures |
| `Evidence` | the graph as a request reads it, and its citations | `Cite`; `Meanwhile` is an ingest in another process |
| `Tiers` | the exact and the hybrid tier | one action per statement: `ExactIds`, `ExactText`, `VectorArm`, `FulltextArm`; `Fused` is the rank fusion |
| `ToolBox` | the tools and the VFS below them | one action per tool; `Neighbors`, `Visit`, `EndWalk` for the one that reads node by node |
| `Retrieval` | a query in the cascade of production: router, agent, orchestrator | `Ask`, `Deliver...`, `Classify`; `Start`, `Turn`, `Tools`, `FollowUp`, `Overrun`, `Answer`; `Failing` |
| `Requests` | one request of the retrieval API: a query, a thread summary, an answer to an email | the actions of `Retrieval`, and those of the two workflows |
| `LlmClient` | the LLM client of the ingestion and `llm_cache` | `Extract`, `AskAnew`, `CallFails` |
| `Drift` | fingerprints and the drift check, pure | `Fingerprint`, `Differs`, `Missing`, `Drifts` |
| `Onboarding` | the onboarder, the human and the file | `DrawSample`, `DraftSpec`, `Reject`, `Repair`, `SaveSpec`, `OnboardFails`; `EditSpec`, `ReplaceFile` |
| `Mapping` | the runs of a spec: drift check, records, LLM blocks and their items | `StartRun`, `OpenFile`, `SkipSeen`, `RunBlock`, `AddItem`, `MarkSeen`, `DeadLetter`, `EndRun` |
| `MC...` | constants of the runs | |
| `...Proofs` | theorems of the module they extend | |

**GraphStore.** `graph` is Neo4j. `disk` is the committed SQLite image (records,
traces, conflict rows), `staged` the image the connection that holds the write
lock (`locker`) sees. `pc` and `op` are, for each process, where it is in its
operation and the operation's local variables. An ingest goes `SaveRecord`
(`add_source_record`, a transaction of its own), `ReadNode` (`get_node`),
`ReconcileNode`, then for each queued conflict `FindOpenRow` and
`RecordConflict`, then `StageTraces`, `Merge` (the MERGE in Neo4j), `CommitNode`.
An edit goes `EditNode`, `SaveEdit`, `SetNode`, `CommitEdit`; a resolution is
`ResolveConflict`, an edit, `CloseConflict`, `CommitClose`. `Compensate` and `Restore`
are the except branches. `Faults` names what may go wrong in a run.

A failed commit is a choice: SQLite may or may not still have the transaction
open, and only `_tx()` rolls back. In the second case the process keeps the
write lock, and its next commit publishes the rows. This is what the code does.

**Ingest** uses `AtomicGraph` for the store: each `add_node` is one step. The
interleavings inside it are GraphStore's subject, and the refinement
`ActsAsOneStore` says under which circumstances the simplification is exact. An
`add_edge` is one step too. A *content* is a record as read at some time, with the
writes the spec makes of it and those of the items an LLM block returns; JSONPath,
transformers and templates are thus inputs, and a rule that raises on the record
is the write `Malformed`.

**SpecRegistry.** What the model drafts is a choice from a set. The drafts of the
API and of the command line are sets of their own, so that a run can keep them
apart.

**Cascade** has no list. The list of the code is always the tiers that have not
run, in cascade order, but for at most one at the front; the model keeps these
three facts. The tiers may return any relevance and route anywhere.

**EdgeStore.** `add_edge` goes the way of `add_node`: traces are staged, Neo4j is written, SQLite commits; a
deletion goes the other way, in two steps. `job` says what each process does and what it has read.
`add_node` is one step here, of which the email, the location and the trace are kept, and
`LoseNode` is the compensation that deletes a node. An exception ends a script, and SQLite rolls back when the
process dies; the API goes on with whatever it had staged. `severed` is history: edges that lost their
traces in one of the ways `EdgesTraced` names.

**Retrieval** is a chain: `Evidence`, `Tiers`, `ToolBox`, `Retrieval`, `Requests`, each extending
the one before. The handlers of the API block its event loop, so one request at a time runs in the process: a
behaviour is one request from any state of the graph, and a command line ingest may change the graph between any two
statements. The traces of a node are read in the step that found it, as `Evidence` explains. What a
model or an index returns is open: any intent, any calls, any nodes in any order. Scores are
thousandths, rounded down. `ordered` is the list of the code; `Requests` shows that with it the query implements
`Cascade` (`ImplementsCascade`: `todo <- ToSet(ordered)`, `front <- MovedAhead`, `calls <- results`).

**Mapping** is a chain as well: `LlmClient`, `Drift`, `Onboarding`, `Mapping`. A record is known by the type tags of
its fields and by the items that occur in its text; a file is a sequence of records. The onboarder and the runs share the
cache. A call of the model is one step. Node and edge rules are left to `Ingest`; here a record is its
LLM block. What the model answers is any draft or any set of items, well formed or not.

## 3. Runs

| Run | Question | Bounds |
|---|---|---|
| `store_one_process` | does one process keep values, traces and queue consistent when Neo4j may refuse a statement, and act as one atomic store? | one node, two attributes, four values of which two are equal when normalized, two records over the whole ladder, four operations |
| `store_faults` | what survives lost replies, refusals and crashes? | two nodes, one attribute, three values, five operations |
| `store_two_processes` | do two processes keep one open row per attribute, and does every operation end? | one node, one attribute, four operations, failing commits |
| `ingest_runs` | is the ledger honest, are completed runs complete, do counts add up? | an importer and the API, four contents of two records (one that fails midway, one without an id), two states of the file, three runs, pushes or changes |
| `registry` | do ids the API answered name the drafts it showed, and is nothing in service before it is promoted? | two tenants, one pattern, two versions, two texts, three drafts |
| `cascade` | do tiers run once, in order, and all of them before a weak answer? | four tiers, two relevances, one of the tiers always escalates |
| `edges` | do edges keep their ends, their traces and their uniqueness while two processes write, derive and delete them? | three persons of whom all may get one email, two organizations, two edges of a spec, five operations, every fault |
| `retrieval` | does every request end, with evidence, and does the query implement the cascade? | two nodes, one change by another process, two candidates per arm of the hybrid tier, two turns with two calls, two tool calls of a thread |
| `mapping` | are saved specs true to the file, do onboardings end, and are facts grounded and not lost? | two records of different types that share a cache key, two fields of which one needs quotes, five files, three drafts, one repair, one change, two onboardings, two runs |
| `finding_*` | one disagreement with a comment of the repository each, section 6 | |

The bounds let the interesting case happen. A conflict needs two records that
disagree; that it is refreshed, settled and met again needs four operations;
a compensation that hits an older node needs two, and so does a lost
update; a re-run after a crash is the second of three. Two nodes matter only where a
row of one could be taken for a row of the other, two attributes only where several
conflicts are recorded in one operation. Four tiers are enough for a preferred one, a routed one,
one that was skipped and one that is tried last. Two nodes let the arms of the hybrid tier agree and disagree in every
order, and one change is enough for a node to vanish between two statements or a trace to appear. Two onboardings are enough to be
served the broken draft of the first, two runs to be served the answer of another record or to find it marked.
Samples of one, two and three records stand for those of the code (the model is shown fewer records than the onboarder
samples, and the drift check samples more). The theorems of section 5 do not depend on
the bounds.

`MaxOps`, `MaxDrafts`, `MaxRuns`, `MaxOnboardings` and `MaxChanges` bound the operations started, and a behaviour of `Requests` is
one request, so every run comes to a stop: deadlock is not checked, and liveness is stated as `OperationsEnd`, `RequestEnds`,
`SummaryAlwaysComes` and `OnboardingEnds` instead. `MaxCalls` and `MaxQueries` bound what the code leaves
unbounded, the calls of one turn and the searches of a thread; `MaxK`, `MaxListing`, `MaxNeighbors`, `MaxIterations`,
`MaxToolCalls`, `MaxRepairs`, `MaxItems` and the limits of the tiers are constants of the code, made small.

**Fairness.** `FairSpec` of GraphStore asks for weak fairness of each process while it is in
an operation: a handler, once begun, runs to completion without awaiting, and
the operating system schedules both processes. It is not assumed that an
operation is ever begun, that a fault ever happens or that a lock is ever
released: a process that finds the lock taken gives up after SQLite's busy timeout
(`BusyTimeout`).

`Spec` of Requests asks for weak fairness of the process that serves the request: statements, embeddings and
calls of a model return or raise, and the handler goes on. Nothing is asked of the other process or of what the model chooses; that a
loop ends is the doing of its counters. `Spec` of Mapping asks for weak fairness of an onboarding that has begun, for the same
reason. The other runs assume none.

## 4. What the runs show

* An ingest never replaces what the latest trace says a human wrote
  (`LatestHumanKept`); every disagreement nobody can settle is in the queue when
  `add_node` returns (`ConflictsReachQueue`); every value has a trace (`ValuesTraced`,
  `store_one_process`: it fails when a crash may fall between MERGE and commit,
  because the traces are then lost and the value stays).
* With one process and no failure after Neo4j was written, the two stores
  implement `AtomicGraph` under the mapping `traces <- Visible.traces, queue <- open
  rows, settled <- closed rows`, where `Visible` is the staged image between the write
  of Neo4j and the commit (`ActsAsOneStore`).
* Whatever fails, a committed trace names a stored record, a committed conflict row's incoming
  side is a committed trace, a resolved row's value is a committed human trace, and no committed
  trace is lost. Without failing commits the node of a trace exists.
* Two processes cannot open two rows for one attribute, and none waits for ever.
* The ledger holds only contents whose node and edge rules have been applied, whatever crashed;
  completed runs cover their input; counts add up.
* An id answered by the API stays true or becomes dangling; it never names another draft
  as long as the command line drafts for other keys.
* Saving a draft never puts a text into service (`DraftsWait`).
* The cascade never runs a tier twice, never gives a weak answer before all tiers
  ran, and keeps its order but for two tiers moved ahead. The list of the code with the five tiers of production is
  such a cascade (`ImplementsCascade`).
* However deletions, compensations and merges meet, an edge has both ends (`EndpointsPresent`); a committed trace is about
  an edge that was merged (`TracesFollowMerges`); an edge is traced but for the lost replies, crashes, failed
  compensations, overtaken deletions and bare edge rules that `EdgesTraced` names; resolving again or twice at a time links no pair twice
  and misses none (`OneSameAsPerPair`, `ResolverLinksAll`).
* A query stops at the hybrid tier exactly when both arms ranked its best hit (`ConfidentIffAgreed`); without evidence the
  caller gets the stub's empty answer and never the agent's prose (`AnswersTrusted`). Every request ends
  (`RequestEnds`), a thread summary in an answer whatever fails (`SummaryAlwaysComes`), and an email fails for
  no other reason than a failing store or model or a change by another process (`OnlyAChangeRaises`).
* A file the onboarder saw whole runs as long as
  nobody changes it or its spec (`UnchangedFileRuns`), and what a run reads has the types the onboarder saw (`FlipsCaught`),
  both within the limits their comments name. Facts that count as grounded occur in their own record's text (`GroundedInText`),
  and a record that is marked has its facts in the graph (`SeenMeansAdded`). Onboardings end,
  although the cache serves a broken draft again (`OnboardingEnds`).

Every property is also checked against a mutant: the definition of the model named in PROJECT.json,
changed as a plausible bug would, violates it.

## 5. Theorems

Every safety invariant and every action property that a run expects to hold, and both refinements, are proved: for any processes,
records, bounds and so on that satisfy the ASSUMEs of the module, and the hypothesis of the theorem where the table names one.
Of the properties of the passing runs only the four liveness properties are not.

| Module | Theorem | States | Hypothesis |
|---|---|---|---|
| `GraphStoreProofs` | `TypeCorrect`, `TracesGrow`, `AuditTrail`, `OneRowPerAttribute`, `ResolutionsAreTraced` | `TypeOK`, `TracesAppendOnly`, `AuditComplete`, `OneOpenRow`, `ResolutionTraced` | |
| | `TracesHaveNodes` | `TracedNodeExists` | `"commit" \notin Faults` |
| | `ResolvedStaysResolved`, `NoConflictIsLost`, `LatestHumanStays` | `ResolutionsFinal`, `ConflictsReachQueue`, `LatestHumanKept` | `Importers = {}` |
| | `ValuesHaveTraces`, `OneStoreRefines` | `ValuesTraced`, `ActsAsOneStore` | `OneStore` |
| `ConflictDecisionProofs` | `HumanOverrides`, `DecideMirrored` | of `Decide`: from another source a machine's value never beats a human's; which of two sources wins does not depend on who came first | in the statements |
| `IngestProofs` | `IngestTypeCorrect`, `LedgerIsHonest`, `CompletedRunsCover`, `CountsAddUp` | `TypeOK`, `LedgerMeansApplied`, `CompletedRunCovers`, `RunsAddUp` | |
| `EdgeStoreProofs` | `EdgesTypeCorrect`, `EdgesHaveEnds`, `TracesComeAfter`, `EdgesAreTraced`, `ResolversMissNone` | `TypeOK`, `EndpointsPresent`, `TracesFollowMerges`, `EdgesTraced`, `ResolverLinksAll` | |
| | `OnePerPair` | `OneSameAsPerPair` | `SpecsLeaveIdentity` |
| `SpecRegistryProofs` | `RegistryTypeCorrect`, `DraftsDoNotServe` | `TypeOK`, `DraftsWait` | |
| | `AnswersStayTrue` | `AnswersNameTheirDraft` | `Apart` |
| `CascadeProofs` | `ListIsWhatHasNotRun`, `NoTierRunsTwice`, `AnswersAreBestEffort`, `TiersRunInOrder` | `TypeOK`, `NoCycle`, `BestEffort`, `InOrder` | |
| `RequestsProofs` | `RequestTypeCorrect`, `TrustMeansAgreement`, `ProseNeedsCitations`, `EmailFailsForAReason`, `RequestsImplementCascade`, `EveryStepIsForSomething` | `TypeOK`, `ConfidentIffAgreed`, `AnswersTrusted`, `OnlyAChangeRaises`, `ImplementsCascade`, `EveryStepCounts` | |
| `MappingProofs` | `MappingTypeCorrect`, `UnchangedIsNotRefused`, `FlipsAreCaught`, `GroundedIsInText`, `SeenIsAdded` | `TypeOK`, `UnchangedFileRuns`, `FlipsCaught`, `GroundedInText`, `SeenMeansAdded` | |

### The hypotheses

Each is needed: without it the property is false, in the model and in the code.

* `"commit" \notin Faults`: `finding_compensation` is the counterexample when commits fail.
* `Importers = {}`: the API is the only process that writes. Its handlers do not await between their statements, so one at a time runs. With
  a command line ingest beside it, an update can be lost and a resolved row refreshed (section 6). Every other fault is allowed:
  lost replies, refusals, failed commits and crashes.
* `OneStore`: in addition Neo4j may at most refuse statements, and no two records give an id different types. A reply that is lost or a crash
  between MERGE and commit leaves a value without a trace, and a collision of types leaves the attributes of the wrong type.
* `SpecsLeaveIdentity`: no mapping spec makes `SAME_AS` edges. The registry of relations would allow it; no spec of the repository does.
* `Apart`: the command line replaces no draft of the API. Without it the id is read in a second statement, after somebody else's draft.
* The ASSUMEs of the modules type the constants. Those that say more: a trace is about a node or an edge and never both
  (`SubjectsApart`: the table has a column for either); the identifiers of tiers are not `NoTier` or `Foreign`; the tag `Mixed` is no value's
  (`DriftAssumption`); an arm of the hybrid tier returns at most 30 hits, the limit of the
  code (`TiersAssumption`).

### The arguments

None of the properties is inductive as it stands. What has to be added is stated in the modules, after or beside the properties of each of
them, and was model-checked as an invariant before it was proved.

* **GraphStore.** *Any processes, any fault.* A conflict row is staged before the trace it speaks of, by an operation that may still
  fail: a staged row is traced or the holder of the lock is about to trace it (`TracedInv`), conflicts still to be recorded are
  conflicts of the operation (`RecordingInv`), a lookup's hit stays the row of the attribute although another process may commit in
  between (`HitInv`), and a record is stored before a trace names it (`SourcedInv`). Staged traces continue the
  committed ones (`PrefixInv`). No image has two open rows (`OpenInv`, by the unique index). A resolution carries a human edit of the
  row's node from its start to the closing, and its trace stays in sight (`EditInv`, in `SettledInv`). *No failing commits*: the node of a
  staged trace is there or the lock holder is about to write it (`NodesInv`). *One process*: what an ingest has read stays true until it
  writes (`ReadInv`), a conflict recorded is open until its node is committed (`QueueInv`), nothing staged
  changes a resolved row (`DoneInv`), only edits make human traces (`HumanInv`). *One store*: what is staged is exactly what the
  operation has done so far to the committed image (`StagedInv`), the lock is held from the first staged row to the commit (`LockInv`), and an edit
  carries what it writes (`ChangeInv`, `BatchInv`).
* **The store as one.** `OneStoreRefines` maps `traces` to those of `Visible`, the staged image between the write of Neo4j and the commit and
  the committed one otherwise, and `queue` and `settled` to its open and closed rows. MERGE is then the step `Assert`, the SET of an edit is
  `Override`, the commit of a closed row is `Settle`, and every other step stutters. Most of the work is that the rows `record()` inserts and
  updates one by one, each after a lookup of its own, are together the queue `Assert` puts in place.
* **EdgeStore.** What a process has in hand determines what is staged (`Staged`), which edges it may still merge and whose ends it has found
  (`Held`, `Planned`), what it has merged (`Merged`) and which pairs it has linked (`Linked`); `HandInv` says so of every process. An
  edge joins nodes that are there by what each step does to the graph alone.
* **Ingest.** The store, the edges and the ledger only grow; a record in hand is saved and each of its writes is made or still to
  come (`ApplyingInv`); an open run has dealt with its input but for what it still holds (`ReadingInv`); its tally and what it
  holds add up (`CountingInv`).
* **SpecRegistry.** Ids only grow, and nobody replaces the row of a pending draft (`PendingInv`).
* **Cascade.** What has run is what has a result, and nothing that ran outranks what is still to run but for the tiers moved ahead
  (`OrderInv`); a moved tier stays in front until it runs (`FrontInv`).
* **Requests.** `RequestsInv` adds to the types that the list behind its head is in cascade order (`ListInv`), that a moved tier is
  the head until it has run (`FrontInv`), that a query is at a step of the tier at the head and the stub has not run (`QueryInv`), that each kind of
  request is at its own steps (`FreshInv`, `WorkflowInv`), that a turn has a call left and turns are counted up to the bound (`TurnInv`), and that the
  neighbors an email has still to visit are there unless somebody changed the graph (`EmailInv`). `RequestsImplementCascade` shows
  from it that reordering a list while it is walked is what `Cascade` does with sets; `CascadeFits` shows that the assumptions of `Cascade` hold of
  the instance, so its theorems carry over. `TrustMeansAgreement` rests on the scores: the threshold is 600 thousandths, one arm yields at most 500 and two yield 676 or more (`RankScores`).
  That a set of scores has a largest one (`Largest`) follows from the well-foundedness of `<` on the naturals.
  `EveryStepIsForSomething` is what `RequestEnds` rests on: each step lowers what is ahead (tiers, searches, the parts of an email), or else the
  budget of turns or calls, or else the calls of the turn, or else goes to a later stage or leaves a neighbor less to visit
  (`Advances`), and no step of another process gives any of it back. The three numbers are naturals (`Measured`), the stages are ten and the
  neighbors finitely many. It needs that an email past its first search has a sender (`WorkflowInv`). `EveryStepCounts` was model-checked with the bounds of
  `retrieval`; no run repeats it beside `RequestEnds`.
* **Mapping.** A spec carries the fingerprint of the sample it was drawn from, whatever was edited since (`SavedSpec`); a run goes on with
  a spec that the file it checked has not drifted from (`RunInv`); what the block kept of the record at hand is in the graph or still to be added, and
  the record is not marked yet (`AddingInv`); a repair is under way only while a round is left (`OnboardInv`). The lemmas say that the head of a
  short file is the file (`HeadIsFile`) and that a fingerprint has a tag exactly where the sample has that one (`OneTag`).

### Only model-checked

`OperationsEnd`, `RequestEnds`, `SummaryAlwaysComes` and `OnboardingEnds` are liveness under fairness, which is out of the reach
of the prover. What their arguments rest on is proved of a request, whose every step uses something up (`EveryStepIsForSomething`), and of the
rounds of a repair, which are bounded (`OnboardInv`). What stays with TLC is that a step which counts is enabled until the end, and fairness. Of the three properties of the `finding_*` runs two are false, and `TracedNodeExists` is proved for the
faults that leave it true.

## 6. Where the code and its documentation disagree

Each has a run that ends in a counterexample.

| Run | The repository says | The code |
|---|---|---|
| `finding_sacred` | "HUMAN is sacred" (`conflict.py:38`) | judges a stored value by the latest trace of the attribute, which a record that lost has left: the next machine value replaces the human's |
| `finding_compensation` | the node is deleted "so the two stores cannot diverge" (`graph/store.py:306`) | deletes a node that was there before the operation, and its traces stay |
| `finding_partial` | partial citations of a failed agent "are still surfaced" (`retrieval/agentic.py:613`) | the failed result is below the tier's threshold, so the cascade goes on and answers with the result of a later tier |

Seen while modelling, true of the model, and without a run of their own:

* `conflict.py:380` says "resolutions are append-only"; `record()` updates by id the row it looked up, also if it was resolved
  in between by another process (`ResolutionsFinal` holds with one process only).
* `graph/store.py:293` says id collisions across types "raise rather than silently merge"; they raise after Neo4j has merged the
  attributes, and only SQLite is rolled back.
* `ingest/ingestor.py:160` and `api/app.py:420` say that replaying a body returns `skipped` without touching the graph; a push leaves no
  ledger entry, so it is applied again.
* `ingest/__main__.py:94` says "Review the YAML, edit if needed, then promote"; `promote` reads no file and activates the draft
  as it was before the edit.
* `retrieval/agentic.py:14` calls `max_iterations` a cap on tool calls; it caps turns, and a turn has any number of calls.
* The docstring of `HybridTier` (`retrieval/hybrid.py:111`) says the default cascade uses 0.3, at which every hit would do; it uses 0.6, which only
  hits of both arms reach.
* `get_node` of the tools cites a node before it looks for it: a call that fails may ground an answer.
* A hit of the exact tier on any word that is a node id ends the cascade, whatever else the query asks.
* The sender of an email is the first row of a statement without an order.
* A malformed answer to an LLM block stays in the cache, and the block never yields anything for its key.
* A spec whose required paths were edited differs in its hash, which alone is not reported as drift; a required path whose
  name a JSONPath has to quote is always reported as missing.
* An edge rule without fields makes an edge that nothing traces.
* The bootstrap asserts the attributes it read at the start without a provenance, which counts as exact: they replace what was written
  since at a lower confidence. `SAME_AS` edges are never withdrawn.
* `retrieval/models.py:86` calls the result of a routed tier final. It is not: below its threshold
  the cascade goes on, and the caller gets the last result, normally the stub's.
* `TierConfig` says that a threshold of 0.0 always escalates; no relevance is below it, so it never does.
* A record that lost and is ingested again wins by the same-source rule while its conflict is open.
* A refreshed open row keeps the existing side it was opened with.
* A content that changes from A to B and back to A is skipped the third time. A push of B after which
  the batch file with A is run again is overwritten by A, once.
* An LLM block that failed is never retried: the record is marked as seen all the same.
* A record that is dead-lettered keeps the writes made before it failed.
* Two processes that read a node before either locks lose one of the updates.
* A redrafted spec is no longer active; pushes for it are refused until it is promoted again.

## 7. Not modelled

Conversions of data (JSONPath, transformers, normalizers, Lucene escaping, previews), wording, timestamps (the order of
traces stands for them), latencies (a budget of time may be over whenever it is checked), pagination, and API handlers that return what one
read of the store returns. The LLM, the entity models, the embedder and the Neo4j indexes are external; what they return is an
input. Not modelled either: store operations that nothing calls (`update_node_attributes`, `add_node_provenance`,
`add_edge_provenance`), dry runs, the embedding pass, the schema migration, evaluation, configuration, the Pioneer scripts and the frontend; PROJECT.json
gives the reasons.

Two simplifications are worth knowing. `Ingest` and `EdgeStore` take `add_node` as one step; its interior is in
`GraphStore`. Two calls of the LLM client for one key that overlap in two processes are taken one after the other:
each uses its own answer and the later one is stored, which `LlmClient` explains.

## 8. Plan

Done: all modules of section 2, the runs, and the proofs of section 5.

What could still be proved:

1. The bounded part of the liveness properties, as `EveryStepIsForSomething` states it of a request: that each step of an onboarding and of an
   operation of the store lowers a measure (rounds; steps left) too.
2. `AtomicGraph` on its own: what a caller of the atomic store may rely on, so that `OneStoreRefines` carries it over to the two stores.
3. The pure parts of `ConflictDecision`: what `Reconcile` keeps of a node, and that `Refreshed` and `Closed` keep the node and attribute of a row.
