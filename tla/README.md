# A formal model of Hygieia

Hygieia is a DevOps dashboard. Collectors (one process per tool) poll build
servers, repositories, deploy tools and so on and store what they find in one
MongoDB; an API server takes pushed data and user edits, stores them in the
same database and answers the web UI. What makes the system more than a set of
forms is the *pipeline*: whenever a commit, a build or an environment component
is saved, a listener in the saving process moves commits through the stages
Commit, Build and the environments of every team dashboard concerned. Before it
come the collectors' runs, which must store everything once and keep up with
the dashboards; after it comes the browser, where the product widget keeps ninety
days of data in a database of its own and asks only for what is newer.

This directory holds a TLA+ model of these three, the TLC runs that check it and
the TLAPS proofs about it. Paths below are relative to `src/`; `CORE` is
`core/src/main/java/com/capitalone/dashboard`, `API` is
`api/src/main/java/com/capitalone/dashboard`, `PRODUCT` is
`UI/src/components/widgets/product`.

## Inventory

| component | state | operations | talks to |
|---|---|---|---|
| Pipeline event listeners (`CORE/event`) | none of their own; the call stack of the saving thread | `onAfterSave` of commits, builds, environment components, dashboards; `onAfterDelete` of dashboards | called by every repository `save`; read dashboards, components, collector items, commits, builds, artifacts; read and write pipelines; save builds again |
| Pipeline document (`CORE/model/Pipeline.java`, `Stage`, `EnvironmentStage`, `PipelineCommit`) | commits per stage, last artifact per environment, failed builds | `addCommit`, `addFailedBuild`, `getCommitsByStage` | edited in memory by the listeners, saved whole |
| Pipeline search (`API/service/PipelineServiceImpl.java`) | none | `search`, which inserts a missing pipeline | reads pipelines and dashboards |
| Build and artifact submission (`BuildServiceImpl`, `BinaryArtifactServiceImpl`) | builds, artifacts | create or overwrite a build; insert an artifact once | saving a build runs the listener |
| Dashboard service (`DashboardServiceImpl`) | dashboards, components, widgets | create, update, delete, add and update a widget, associate collector items | saving a dashboard runs `DashboardEventListener`; enables collector items that collectors read |
| Collector service (`CollectorServiceImpl`) | collectors, collector items | find or create | called by the submissions |
| Collector life cycle (`CORE/collector/CollectorTask.java`) | one collector document per collector | `onStartup`, `run` on a schedule, `onShutdown` | reads and overwrites its document, which the API edits too |
| Jenkins, GitHub, uDeploy collectors (`collectors/`) | jobs, repositories, applications with an enabled flag; builds, commits, environment components | `clean` (enable what dashboards use), discover, fetch what is new | external servers; saves run the listeners |
| Product widget's cache (`PRODUCT/view.js`, `PRODUCT/js`) | IndexedDB tables: the end of the last request for each component and service, and the rows received | load (first and delta), reset, clean-up; a page that closes | the API's searches; other pages of the same browser over the same database |
| other collectors, other API services, Jenkins plugin, the other widgets | their own documents | fetch and insert; query | as above; none takes part in the pipeline except through the same saves |

Several processes and, inside the API server, several request threads run at
the same time. MongoDB gives atomicity of one operation on one document and
nothing more: there are no transactions and no version fields. A Spring event is
handled synchronously in the thread that saved the document.

What is hard in each part, and what makes it correct:

* **Listeners.** Read, edit in memory and write back whole, from many threads:
  lost updates and duplicate documents. Queried dashboards are visited later
  and may have changed. A listener that throws leaves the other dashboards
  unvisited. A process may die anywhere. `BuildEventListener` saves the build
  inside its own handler, which is recursion through the database. Correct means:
  a pipeline shows nothing that is not its dashboard's; it loses nothing; what
  is under way arrives; the recursion ends.
* **Deployments.** A deployment brings the artifacts since the last one, told
  by one timestamp for each environment. Correct means: the last artifact never
  goes back and never passes over an artifact without taking its commits.
* **Search.** A commit is in many stages; it must be shown in exactly one
  column, the last it reached, however the environments are mapped.
* **Collectors.** A run is one long sequence of single operations, may die between
  any two and is then repeated; it works on copies it read at its start while
  the API registers, associates and deletes the same items; a server may fail, or
  answer wrongly, for a while. Correct means: a build or commit is stored once;
  nothing is deleted that is still wanted; items are enabled as the dashboards
  say, in the end; what a dashboard's item has to offer arrives.
* **Associating items.** Components embed copies of items, and saving a widget
  writes these copies back, disabled, beside the enabled new ones. Correct
  means the same as for the collectors, since the two share the flag.
* **The widget's cache.** The end of the last request and the rows are written
  by separate transactions, loads overlap, pages share the tables and close at any
  moment. Correct means: what is remembered as asked is held, what the server
  had is shown, nothing is asked for twice.
* **Collector life cycle** (not modelled). A run ends by saving a collector
  document it read when it began.
* **Dashboard service** (only what pipelines see of it). Multi-document creates
  and deletes with a compensation that deletes on failure; safe-delete checks
  that are stale when used.

`PROJECT.json` lists every hazard at its line with the properties that cover
it.

## Modules

| module | what it models |
|---|---|
| `PipelineDocument` | the content of a pipeline document and the edits made to a copy of it, as operators |
| `StageLedger` | the abstract promise: stages only grow, and a failed build waits until a success of its job takes its commits to the Build stage |
| `PipelineEvents` | the listeners, the saves that trigger them, the life of dashboards, threads, crashes |
| `PipelineView` | `PipelineServiceImpl.search` over an arbitrary pipeline |
| `ItemStore` | collector items, the components that embed copies of them, and the API requests that edit both |
| `CollectorRun` | what the three collectors' runs share: the tool's side, the run's locals, looking up and storing results, death |
| `HudsonCollector`, `GitHubCollector`, `UDeployCollector` | the run of each collector, and the Jenkins plugin's posts |
| `Collectors` | the three over `ItemStore` and the tool, with their properties |
| `ProductCache` | the product widget's loads over IndexedDB |
| `MCPipelineEvents`, `MCPipelineView`, `MCCollectors`, `MCProductCache` | small instances for TLC |
| `PipelineDocument_proofs`, `PipelineEvents_proofs`, `PipelineSound_proofs`, `PipelineLedger_proofs`, `PipelineView_proofs`, `Collectors_proofs`, `CollectorsKept_proofs`, `ProductCache_proofs` | the proofs |

The three groups meet at documents: a `Write` of `CollectorRun` and an insert of
`UDeployInsert` are where `SaveBuild`, `SaveCommit` and `SaveEnvironmentComponent`
of `PipelineEvents` begin; a response of `PipelineView!Search` is what
`ProductCache!Answer` gives the browser for commits. They are not composed into
one state machine: the product of the state spaces is out of TLC's reach,
and no property here is about more than one group.

### PipelineDocument and StageLedger

A stage is the set of revisions that came into it. A failed build is embedded in
the document as a copy, so it is a record of its job and the change set it had
when copied; two copies that are equal are one here. `last` is the timestamp of
an environment's last artifact, 0 for none. `ProcessBuild` is the
whole body of the loop of `processBuild`: the build's change set, the failed
builds of the same job, then the commits of the Commit stage that may be moved.

`StageLedger` has no documents or threads. Its `LedgerSpec` is the property
`KeepsLedger` of `PipelineEvents`, under the refinement mapping that takes the
union of the documents of a dashboard.

### PipelineEvents

| in the model | in the code |
|---|---|
| `dash` | where a dashboard and its Product collector item are: `absent`, `saved` (no item yet), `ready`, `orphaned` (no dashboard any more, item still there), `gone` |
| `buildItems` | the build items of the dashboard's component |
| `commits`, `builds`, `artifacts` | the collections, with what a listener reads of a document |
| `inserted`, `pipelines` | the pipeline documents of a dashboard. There may be several, at most one by each thread, named by the thread that inserted it |
| `pc`, `event`, `frames`, `at`, `copy` | a thread in a listener: where it is, the document it handles, the dashboards still to visit of every nested call, the dashboard it is visiting and its copy of the pipeline |
| `everBound`, `succeeded` | history variables for `PipelinesSound`: the jobs that were ever on a dashboard's build widget, the builds that were ever stored as successful |
| `PostsOf` | a bound, not code: the statuses with which an instance lets a build be posted |

`SaveCommit`, `SaveBuild`, `SaveArtifact`, `SaveEnvironmentComponent` and
`Search` store a document and begin the handling of its event; which process
does so is nondeterministic. `FindDashboards` is the query at the start of a call,
`LoadPipeline` is `getOrCreatePipeline` (`ItemMissing` its exception),
`EditFor...` the edit in memory, `StorePipeline` the save, `ResaveBuild` the
nested save of the build, `StackOverflow` its end when `StackLimit` calls are
nested, `Return` the end of a call, `Crash` the death of the process. Each is one
database operation, or the computation between two. Dashboards are visited in any
order, for the query does not sort.

The edits read `commits`, `builds` and `artifacts` in the step that computes the
edit. The code reads them one by one between the load and the save of the
pipeline, so the model puts all the reads of one edit at one moment, which may
be any moment of that interval. A build whose change set is overwritten between
two of these reads is the only difference this hides; no property tells the two
outcomes apart, since each read gives a change set that builds reported.

`createBuild` looks at no status: a post overwrites what is stored of its build, so
`SaveBuild` has no guard on it, a success may turn into a failure or back into "in
progress", and `ResaveBuild` may put the success back that a thread still has in
memory. What was moved by a success stays in the Build stage whatever is posted
later, which is why `PipelinesSound` needs `succeeded`: a build's present status does
not tell what it moved. Posts of one build differ in their status only; the change
set, the start time and the repositories they report are constants.

The queries at the start of a call (`FindDashboards`) and the two look-ups of
`getOrCreatePipeline` (`LoadPipeline`) are one step each: a change by another thread that
falls between two of these queries comes before or after all of them in the model.

Left out: documents other than those named; failures of a single database
operation (a crash covers the loss of the rest); `InProgress` and the other
build statuses are one status, `Other`.

### PipelineView

`entries` are the times at which a revision came into a stage.
`PipelineCommit.equals` compares revisions but `hashCode` is the time, so a
stage may hold a revision more than once and `getCommitsByStage` keeps the one
listed last: `CommitMaps` is any choice of one. `mappings` are the pipeline
widget's mappings. `Search` sets `response`, and any change resets it, so that the
properties relate a response to the state it was computed from. The default
dates are inputs like any others.

### ItemStore, CollectorRun and the collectors

| in the model | in the code |
|---|---|
| `items`, `used` | the collection `collector_items`: for each id its document, reduced to the tool it stands for, `enabled`, `pushed`, whether it has a nice name and whether `lastUpdated` is set; ids are never given out twice |
| `comps` | the copies that `Component.collectorItems` embeds (it is not a reference) |
| `req` | an API thread between two operations of a request |
| `present`, `remote` | what the tool lists, and what each of its things has to offer |
| `stored` | how many documents there are for an item and a result: 0, 1 or more |
| `at`, `existing`, `listed`, `todo`, `ok`, `answer`, `cur`, `new`, `batch` | the place of the run and its local variables |
| `missing`, `garbled`, `clashed`, `deployed`, `torn` | history variables for the properties |

A behaviour is about one collector, chosen by `kind`. An operator with a
collector's name is one operation of its run with the computation that follows;
`SaveCleaned`, `List`, `Look`, `Write` and `Collected` are the same in several.
`Dies` may come between any two, and the next run starts afresh; a collector's
runs do not overlap, for the cron trigger waits for the last one to end. What
the tool answers is the model's choice: `HudsonFetchFails` is a
`RestClientException`, which spares the server's jobs; `HudsonFetchGarbled` an answer
that cannot be parsed, which is taken for an empty list; `GitHubAskFails` and
`UDeployAskFails` keep any part of what there is, as those clients swallow the
exceptions of single calls.

Requests are `AssociateBegin` to `AssociateSaveComponent` (the saving of a widget:
all embedded copies of the type are saved disabled, the new items enabled, in
any order, and then the component), `DeleteComponent`, `RegisterFind` and
`RegisterSave` (find or create), and the plugin's `Push...`. A request that saves a
widget of another type writes back the component it read, which is `ids = {}`.

What is abstracted: one server is configured and items of other servers are
left over; the delete and the insert of a list are single operations; a post names
its job by its options, not by a nice name; environment statuses go the way of
environment components. `spare` keeps an id for every insert that may still
come; it is a bound on new documents, not part of the code.

### ProductCache

The five services (`kind`) run the same protocol with small differences, and
these are in the model: the test results take their moments only when lastRequest
has been read, the commits are asked for up to a moment taken earlier than the
one remembered, an empty pipeline answer still moves lastRequest, a reload of the
test results or of the security analysis ends when there is nothing new, and a
reset does not clear `securityAnalysis`. The static analysis does just what the builds
do. `mark` is the row of lastRequest, `copies` the rows of the table, `load` what each call of
`process` has in hand: `moves` and `adds` are writes made and not done yet.
Nobody waits for these writes in the code, but IndexedDB runs the transactions
on one table in the order they were made, so a later read of that table waits for
them (`MarkPending`, `RowsPending`). `had` is what the server had when it
answered, for the property.

The properties excuse, by name, what the protocol cannot do: rows that the
server stored after a later moment was remembered (`late`), rows that a
closed page took with it (`dropped`), commits between the moment asked up
to and the one remembered (`skipped`, of the other services none), and everything once another load has come
between the clears of a reset (`raced`). That rows come late is not rare for
commits: `late_commits` drops that excuse.

The display computed from the rows (`Read`) is abstracted to the set of rows; the
`?delete` parameter and the local test data (`HygieiaConfig.local`) are left out.

## Runs

| run | instance | shows |
|---|---|---|
| `interleaved` | 2 threads, crashes, 1 dashboard, 1 commit, 2 builds of a job, one of which can only move the commit | `TypeOK`, `PipelinesSound`, `SavesWhatItHandles` under every interleaving of two handlers of commits and builds |
| `serial_builds` | 1 thread, 2 dashboards, 2 jobs with a build each, 1 commit, stack of 4 | `KeepsLedger`, `NestingBounded` |
| `serial_commits` | 1 thread, 2 dashboards, 2 commits, a build, an artifact, an environment | `CommitArrives`, under fairness |
| `serial_deploys` | 1 thread, a dashboard that comes and goes, 2 commits, 2 builds of a job, 2 artifacts of 2 components, 1 environment | `PipelinesSound`, `LastArtifactCarries` |
| `view` | 1 revision, 2 environments, 3 environment types, 2 times | `ShownWhereItStands`, `NoCommitLeftOut` |
| `lost_update` | 2 threads, 2 commits | `StageKeepsCommits` is violated |
| `overflow` | 1 thread, 2 dashboards, 2 jobs | `BuildReachesEveryDashboard` is violated |
| `shared_environment` | 1 thread, 2 artifacts of 2 components | `DeployCarriesArtifacts` is violated |
| `half_created` | 1 thread, 2 dashboards, one of them created meanwhile | `CommitReachesEveryDashboard` is violated |
| `product_cache` | 2 rows, 2 loads, builds, security analyses and commits, 1 page reset or closed | `NothingForgotten`, `AllShown`, `AskedOnce` |
| `late_commits` | 1 commit, 1 load at a time | `AllShownWhenever` is violated |
| `collectors` | each collector, 2 ids, a configured tool and another, 1 component, 1 API thread, 1 result | `CollectedOnce`, `DeployDataKept`, `DeletesOnlyGone`, and under fairness `EnabledFollowsDashboards`, `DataArrives` |

Deadlock is not checked in the runs of `PipelineEvents`: an instance in which
every document is stored and every dashboard deleted may stop, as the system may.
It is checked in `product_cache`, `late_commits` and `collectors`, where a next
load or a next run is always possible.

**Bounds.** Two threads are enough for a lost update, a duplicate document and a
stale query; a crash takes a thread's place. Two dashboards are the least for a
handler that fails on one to miss another, and for nested calls over more than
one. A stack of four is one more than two dashboards need when no other job's
failed build is in the way, so that `NestingBounded` can fail; a real stack is
some thousands of frames. Two artifacts of two components are the least that can
share an environment. How the statuses of a build overwrite one another is bounded by
`MCPostsOf`: a build that is its job's only one gets every status in any order; of
two, one goes between success and failure and the other between success and "in
progress", in `interleaved` and `serial_deploys`. One of these moves a commit that no build
reports, so a `PipelinesSound` that read the present status would fail there.
Deployments are interleaved by the theorems alone (`Sound`, `LastArtifactCorrect`, `SavesCarry`): with
statuses that overwrite one another, two threads and an artifact are too many states, and
`serial_deploys` has one thread. One revision is enough for the view because columns are
computed for each revision by itself; three environment types give a first, a
middle and the last. Counters need no bound in the guards: times are constants,
and collections are sets over the constants. Threads are interchangeable, which is
the symmetry `interleaved` uses, and so are the dashboards of `serial_builds`,
which all show the same; neither run checks liveness.

In `collectors`, one request thread against one run is the least for every race
between the two, and the run can be anywhere when it comes; two ids are an item and
another one for what is created meanwhile; the second tool is one whose
server is not configured any more. `MCMaxEdits` allows two requests, and one with the
Jenkins collector, whose run is longest. With one result a uDeploy list is
either empty or whole: that partial lists keep `DeployDataKept` is shown by the
theorem alone. How often collectors die, servers fail and tools come and go is not bounded
but by `spare`. In `product_cache`, three moments and a window of one are the least
at which a row is in a first period, in a delta, at the boundary and too old;
`MaxPages` allows one reset or one closed page; states after a raced reset are not
explored (`NotRaced`), for the properties say nothing there. The kinds `static` and `tests`
are left to the theorems.

**Fairness.** `PipelineEvents!FairSpec` says that a thread inside a listener keeps running
(weak fairness of `Handle(w)`): the JVM schedules runnable threads and each step
is a database call that returns or throws. Nothing is assumed to be saved, and
no particular branch is preferred. `CommitArrives` is checked under it with
one thread and no crashes, where nothing can be lost; with two threads
`lost_update` shows that the commit need not stay.
`Collectors!FairSpec` says that the cron trigger starts run after run and a run goes on
(weak fairness of `Run`), that a request that has begun goes on (`RequestStep`), that a
tool that is asked again and again answers at some time (strong fairness of
`Answered`, and of `Write`, which is a call for the details of a build before it
is an insert), and that the process does not die for ever. Without the last two nothing
could be promised; with them `EnabledFollowsDashboards` and `DataArrives` still need
every run to undo what the races before it left. Requests are not assumed to
come, and their number is bounded, which is the "when users leave the dashboards
alone" of the property.

**What the violations show.** Five statements of the code's own comments do
not hold of it: a stage does not keep all commits (`lost_update`), a successful
build need not reach all dashboards (`overflow`), a deployment need not carry the
artifacts of its component (`shared_environment`), a commit need not reach
the dashboards it is part of (`half_created`), and the request for what has moved to
Prod since the last one does not return all of it (`late_commits`). The "findings" of `PROJECT.json`
quote the comments and tell the counterexamples.

Every property of a passing run has a mutant: a changed definition, stated as an
operator whose comment begins with `Mutant:`, under which TLC finds the property
violated.

## Proofs

TLC shows the properties on the instances above; these theorems hold for every
value of the constants that satisfies the modules' assumptions: environments are
not called Commit or Build, the functions have the types their comments say, an
artifact's timestamp is positive, and in `PipelineView` Commit and Build come first
of at least three stage types; for the collectors the ids and tools are finite and
`Null` is none of the other values. No theorem assumes fairness.

The promises that the violations break are proved as well, under conditions that
`PipelineEvents` (`Apart`, `OneJobEach`, `DeploysOnly`, `StoredInOrder`) and
`ProductCache` (`StoredAtOnce`) define and that the code does not ensure. Such a
theorem says that nothing but what its condition excludes can break the promise, and
the violation run that some such thing does:

| promise | holds where (theorem) | without it |
|---|---|---|
| `KeepsLedger`, `StageKeepsCommits` | no two threads have the pipeline of one dashboard in hand (`LedgerKeptApart`, `StagesKept`) | `lost_update` |
| `BuildReachesEveryDashboard` | one thread that does not die, Product items in place, more stack than dashboards, and no build widget that changes jobs (`BuildReaches`) | `overflow`, whose widget changes jobs |
| `CommitReachesEveryDashboard` | no process dies and Product items are in place, with any number of threads (`CommitReaches`) | `half_created`, whose item is not there yet |
| `DeployCarriesArtifacts` | one component for each environment, its artifacts stored in the order of their timestamps, with any number of threads (`ArtifactsCarried`) | `shared_environment`, where two components share one |
| `AllShownWhenever` | things are stored at the moment they happen (`ShowsAllAtOnce`) | `late_commits` |

* `TypeCorrect`: `Spec => []TypeOK`. Besides types, `TypeOK` says what a thread
  has in hand at each place in the listener (`ThreadOK`), which every later
  proof needs. One lemma per action.
* `Sound`: `Spec => []PipelinesSound`, for any number of threads, crashes and
  duplicate documents. `PipelinesSound` is not inductive: a thread writes back
  a copy it made earlier, from an event and artifacts stored earlier. The inductive
  invariant `SoundInv` adds that the change set of every stored build
  (`BuildsSound`) and of every embedded copy (`ArtifactsSound`) is what builds of
  that job reported, that the items on a widget were ever there (`ItemsBound`), and
  that every thread's copy is sound for the dashboard it is visiting and its event
  sound in the same sense (`ThreadSound`). Its proof has two halves. What was sound
  once stays so (`StepGrows` and the `...Stays` lemmas). A build's status does not, for
  any post overwrites it; what does is that the build is known and, when it ever was
  successful, that it was, which is what `succeeded` records. And each edit of a sound copy is sound (the `...EditSound` lemmas). `SoundInv`
  was model-checked on the instances of `interleaved` and `serial_deploys` first.
* `SavesCarry`: `Spec => SavesWhatItHandles`, for any number of threads and crashes.
  The invariant (`Shows`) is about the copy a thread is about to save: the edit put
  into it what the thread handles, and only the thread itself changes it. With
  `CommitReaches` (the call visits all that it found) and `StagesKept` (what
  is saved stays) it is the safety behind `CommitArrives`, which with one thread is
  model-checked; the theorems cover more threads, as long as they are apart.
* `CommitReaches`: from `EndsHow`, which lists the four ways in which a call ends: the
  process dies, a Product item is missing, the stack overflows, or the call returns with
  nothing left to visit. The third is for builds only, by `TypeOK`.
* `LedgerKeptApart`: `Spec /\ []Apart => KeepsLedger`. `LedgerInv` adds to
  `TypeOK` that a dashboard has one document, that a document not inserted is
  empty, and that every thread's copy, until it is edited, is what is stored, and
  after that one ledger step away from it (`Current`): a save by another thread would break
  this, but that thread has a different dashboard's pipeline in hand. Then
  `StorePipeline` is that step and every other action a stutter. The theorem
  covers crashes, deployments and dashboards that come and go, which the run
  `serial_builds` leaves out. `LedgerKept` is the case of one thread, which is always
  apart. `StagesKept` follows from the same invariant.
* `ArtifactsCarried`: `CarriesInv` says of every document, stored or in hand, that its
  environment stages have the commits of all artifacts up to their last one
  (`Carried`) and that the last one is an artifact of the component that deploys
  there (`LastStored`). Documents may overwrite one another: each is true to its own
  last artifacts, so no condition on the threads is needed. What makes it
  inductive is the order of the timestamps: an artifact stored later is never behind
  the last one of any copy about.
* `NestingLimited`: with one thread and finitely many dashboards,
  `Spec => []NestingBounded`, whatever the size of the stack. By itself the bound
  on the frames is not inductive: a call that saves its build again must leave room
  for the next one. `NestingInv` counts the pipelines without failed builds
  (`Clean`) instead: a successful build's calls never outnumber them, but for the
  call that is visiting. The step that matters is the store before a second save
  (`StoreCleans`): the copy had failed builds and keeps those of other jobs only, so,
  if none of these are left on a dashboard of the job, one more pipeline is clean.
  Pipelines of dashboards that never showed the job do not matter, for the
  call never visits them. Crashes,
  overflows, deployments and dashboards that come and go are covered.
* `BuildReaches`: with widgets that keep their job, `PipelinesSound` leaves no failed
  build of another job on a dashboard of the job, so `NestingBounded` bounds the
  calls, the stack is never full, and a call that ends has returned.
* `LastArtifactCorrect`: `Spec => LastArtifactCarries`, from the type invariant:
  an action property of the edit, for any interleaving.
* `ShownCorrect` and `NothingLeftOut`: the two properties of the view. `ViewInv`
  says that a response, while it stands, is what `BuildPipelineResponse` gives for
  some choice of entries of the present pipeline.
* `ProductCache_proofs`: `TypeCorrect`, `NeverForgets`, `ShowsAll`, `ShowsAllAtOnce` and `AsksOnce`, for
  any number of rows, loads and pages and all five services. `Shape` says which of a
  load's fields are in use at which place, `Answered` what an answer holds; `Keeps`
  is the heart: every moment that a load has in hand, has pending or has written to
  lastRequest is one before which every row, but the excused ones, is in the table or
  pending. A reset empties the table, so `Refills`
  adds that the page that resets has what it needs by itself. `AsksOnce` needs an
  invariant of its own, `Single`: without overlaps there is one load, and what is held
  has been remembered. `ShowsAllAtOnce` needs that nobody remembers a moment to come.
* `Collectors_proofs!TypeCorrect`: `TypeOK` says more than types, that the run has an
  item and a result in hand just where its loops do; it is inductive with `Loops`,
  which says that what is still to visit has been listed and what is to be saved is
  there.
* `StoredOnce` (`OnceInv`): whoever is about to store a result has found none, and
  two that are about to store the same one have been noted as a clash; every other
  step is `Quiet`. Only builds are stored by others than the run, so a commit is never stored
  twice. It holds for all three collectors, any number of request threads,
  and deaths between any two operations.
* `DataKept` (`KeptInv`): a run that is about to replace data has data to put there.
* `DeletedGone` (`DeleteInv`): what the run knows of its server is true of some
  moment of this run (`GoneInv`), and an id stands for the same tool in every copy about,
  embedded, listed, in a request's hand or stored (`SameTool`): without it a
  stale copy saved over an item could turn it into another job before it is deleted.

Only model-checked: `CommitArrives`, `EnabledFollowsDashboards` and `DataArrives` (liveness is
out of the prover's reach). The violations are counterexamples of TLC; what the
theorems say of them is in the table above.

## Not modelled, and the plan

What would come next, in this order:

1. `CollectorLifecycle`: the collector's own document between start, run, shutdown
   and the API (`CollectorTask`, `CollectorServiceImpl.createCollector`); an abstract
   specification of "online while running, enabled as last set".
2. `DashboardStore`: create and update with failing saves and their compensation,
   the whole-document saves of widgets, safe deletion.
3. Items found by nice name (`createCollectorItemByNiceNameAndJobName`), which needs
   two items that stand for one job; several configured servers.

Not planned, with the reason: collectors whose data never enters a pipeline
(quality, cloud, feature, chat) and those that repeat another one's loop (gitlab,
bitbucket, subversion, bamboo, xldeploy) are HTTP clients and parsers; the other
API services are queries and single inserts; the Jenkins plugin is a client of
the API; the other widgets are forms and charts that ask anew each time and keep
nothing, and their JavaScript, with the vendored Swagger UI under
`api/src/main/resources/static`, which is more than half of all JavaScript here, has
no state machine to speak of. Pixel and chart computations of the product widget
are presentation too: only the protocol by which its data come and stay is modelled.
