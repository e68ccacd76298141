--------------------------- MODULE PipelineEvents ---------------------------
(***************************************************************************)
(* The event listeners of core/event that keep the pipelines of the team   *)
(* dashboards up to date, run by several threads of several processes (the *)
(* API server and one process per collector) that share one MongoDB.       *)
(*                                                                         *)
(* Saving a commit, a build or an environment component publishes an       *)
(* AfterSaveEvent which the saving thread handles itself before save       *)
(* returns.  A handler queries the dashboards the document concerns and,   *)
(* for each, loads the pipeline document, edits the copy and saves the     *)
(* whole document back.  Every database operation is a step of its own and *)
(* no two are in one transaction.  A build whose copy of the pipeline had  *)
(* failed builds is saved again, and that save runs the same listener      *)
(* inside the first call: "frames" is the call stack of the listener.      *)
(***************************************************************************)
EXTENDS PipelineDocument, Sequences, FiniteSets

CONSTANTS
    Dashboards,   \* team dashboards
    Workers,      \* threads that save documents
    Repos,        \* SCM collector items
    Builds,       \* build documents: one per job and build number
    Artifacts,    \* binary artifacts
    Apps,         \* component names known to the deploy tool
    Nowhere,      \* no dashboard: what "at" holds before the first load
    Volatile,     \* dashboards created and deleted while the system runs
    ScmOf,        \* dashboard -> the repositories on its SCM widget
    DeployOf,     \* dashboard -> the components on its deploy widget
    RepoOf,       \* revision -> its repository
    CommitTime,   \* revision -> scmCommitTimestamp
    JobOf,        \* build -> its job
    ChangesOf,    \* build -> the change set that its posts report
    PostsOf,      \* bound: build -> the statuses it is posted with
    StartOf,      \* build -> startTime
    CodeReposOf,  \* build -> codeRepos
    AppOf,        \* artifact -> artifactName
    ArtifactTime, \* artifact -> timestamp
    BuildOf,      \* artifact -> the build its metadata names
    StackLimit,   \* nested listener calls the thread's stack can hold
    MayCrash      \* whether processes may die in the middle of a handler

ASSUME ConstantsAssumption ==
    /\ Nowhere \notin Dashboards
    /\ Volatile \subseteq Dashboards
    /\ ScmOf \in [Dashboards -> SUBSET Repos]
    /\ DeployOf \in [Dashboards -> SUBSET Apps]
    /\ RepoOf \in [Revs -> Repos]
    /\ CommitTime \in [Revs -> Nat]
    /\ JobOf \in [Builds -> Jobs]
    /\ ChangesOf \in [Builds -> SUBSET Revs]
    /\ PostsOf \in [Builds -> SUBSET {"Success", "Failure", "Other"}]
    /\ StartOf \in [Builds -> Nat]
    /\ CodeReposOf \in [Builds -> SUBSET Repos]
    /\ AppOf \in [Artifacts -> Apps]
    /\ ArtifactTime \in [Artifacts -> Nat \ {0}]
    /\ BuildOf \in [Artifacts -> Builds]
    /\ StackLimit \in Nat \ {0}
    /\ MayCrash \in BOOLEAN

VARIABLES
    dash,       \* where each dashboard is in its life
    buildItems, \* the jobs on the build widget of each dashboard
    everBound,  \* history: the jobs that ever were on it
    commits,    \* the commits collection: the CommitType, or "none"
    builds,     \* the builds collection
    artifacts,  \* the artifacts collection
    succeeded,  \* history: the builds ever stored as successful
    inserted,   \* the pipeline documents of a dashboard, by who inserted them
    pipelines,  \* their contents
    pc,         \* where each thread is in the listener
    event,      \* the document whose save it is handling
    frames,     \* per nested call, the dashboards still to be visited
    at,         \* the dashboard it is visiting
    copy        \* its copy of that dashboard's pipeline

store == <<commits, builds, artifacts, succeeded>>
wiring == <<dash, buildItems, everBound>>
documents == <<inserted, pipelines>>
thread == <<pc, event, frames, at, copy>>
vars == <<store, wiring, documents, thread>>

CommitTypes == {"none", "New", "Other"}

\* "Other" is any status the listener does not act on, InProgress among them.
BuildStatuses == {"none", "Success", "Failure", "Other"}

BuildDocuments == [status : BuildStatuses, changes : SUBSET Revs]

\* info: "metadata" when the artifact only names its build, "embedded" when it
\* holds a copy of it (buildInfo).
ArtifactDocuments == [info : {"none", "metadata", "embedded"},
                      changes : SUBSET Revs]

CommitEvents == [kind : {"commit"}, rev : Revs]
BuildEvents == [kind : {"Success", "Failure"}, build : Builds,
                changes : SUBSET Revs]
DeployEvents == [kind : {"deploy"}, app : Apps, env : Envs]
SearchEvents == [kind : {"search"}]
NoEvent      == [kind |-> "none"]

Events == CommitEvents \cup BuildEvents \cup DeployEvents \cup SearchEvents
              \cup {NoEvent}

\* id: which document of the dashboard the copy is of; resave: hasFailedBuilds.
Copies == [id : Workers, doc : Documents, resave : BOOLEAN]

NoCopy(w) == [id |-> w, doc |-> EmptyDocument, resave |-> FALSE]

Init ==
    /\ dash = [d \in Dashboards |-> IF d \in Volatile THEN "absent" ELSE "ready"]
    /\ buildItems = [d \in Dashboards |-> {}]
    /\ everBound = [d \in Dashboards |-> {}]
    /\ commits = [r \in Revs |-> "none"]
    /\ builds = [b \in Builds |-> [status |-> "none", changes |-> {}]]
    /\ artifacts = [a \in Artifacts |-> [info |-> "none", changes |-> {}]]
    /\ succeeded = {}
    /\ inserted = [d \in Dashboards |-> {}]
    /\ pipelines = [d \in Dashboards |-> [w \in Workers |-> EmptyDocument]]
    /\ pc = [w \in Workers |-> "idle"]
    /\ event = [w \in Workers |-> NoEvent]
    /\ frames = [w \in Workers |-> <<>>]
    /\ at = [w \in Workers |-> Nowhere]
    /\ copy = [w \in Workers |-> NoCopy(w)]
-----------------------------------------------------------------------------
(***************************************************************************)
(* The life of a dashboard.  Its document is saved before the listener     *)
(* saves its Product collector item, and deleted before the item is.       *)
(***************************************************************************)
Saved(d) == dash[d] \in {"saved", "ready"}

HasItem(d) == dash[d] \in {"ready", "orphaned"}

LifeStep(d, from, to) ==
    /\ dash[d] = from
    /\ dash' = [dash EXCEPT ![d] = to]
    /\ UNCHANGED <<buildItems, everBound, store, documents, thread>>

CreateDashboard(d) == d \in Volatile /\ LifeStep(d, "absent", "saved")

CreateItem(d) == LifeStep(d, "saved", "ready")

DeleteDashboard(d) == d \in Volatile /\ LifeStep(d, "ready", "orphaned")

DeleteItem(d) == LifeStep(d, "orphaned", "gone")

\* Saving the build widget replaces the build items of the component.
AssociateJob(d, job) ==
    /\ Saved(d)
    /\ buildItems' = [buildItems EXCEPT ![d] = {job}]
    /\ everBound' = [everBound EXCEPT ![d] = @ \cup {job}]
    /\ UNCHANGED <<dash, store, documents, thread>>
-----------------------------------------------------------------------------
(***************************************************************************)
(* Saving a document, and the event it publishes.                          *)
(***************************************************************************)
Publish(w, e) ==
    /\ pc' = [pc EXCEPT ![w] = "find"]
    /\ event' = [event EXCEPT ![w] = e]
    /\ UNCHANGED <<frames, at, copy>>

\* Mutant: the listener takes commits of every type.
SaveAnyCommit(w, r, type) ==
    /\ pc[w] = "idle"
    /\ commits[r] = "none"
    /\ commits' = [commits EXCEPT ![r] = type]
    /\ Publish(w, [kind |-> "commit", rev |-> r])
    /\ UNCHANGED <<builds, artifacts, succeeded, wiring, documents>>

\* A commit is inserted once; the listener acts on the New ones only.
SaveCommit(w, r, type) ==
    /\ pc[w] = "idle"
    /\ commits[r] = "none"
    /\ commits' = [commits EXCEPT ![r] = type]
    /\ IF type = "New"
       THEN Publish(w, [kind |-> "commit", rev |-> r])
       ELSE UNCHANGED thread
    /\ UNCHANGED <<builds, artifacts, succeeded, wiring, documents>>

\* A post about a build overwrites what is stored of it, whatever its status
\* was: a result may follow another, and a late "in progress" a result.
SaveBuild(w, b, status) ==
    /\ pc[w] = "idle"
    /\ builds' = [builds EXCEPT ![b] =
                     [status |-> status, changes |-> ChangesOf[b]]]
    /\ succeeded' = IF status = "Success" THEN succeeded \cup {b} ELSE succeeded
    /\ IF status \in {"Success", "Failure"}
       THEN Publish(w, [kind |-> status, build |-> b, changes |-> ChangesOf[b]])
       ELSE UNCHANGED thread
    /\ UNCHANGED <<commits, artifacts, wiring, documents>>

\* An artifact has no listener.  The API copies the build it is posted with;
\* the repository collectors only record where it was built.
SaveArtifact(a, info) ==
    /\ artifacts[a].info = "none"
    /\ info = "embedded" => builds[BuildOf[a]].status # "none"
    /\ artifacts' = [artifacts EXCEPT ![a] =
          [info    |-> info,
           changes |-> IF info = "embedded" THEN builds[BuildOf[a]].changes
                                            ELSE {}]]
    /\ UNCHANGED <<commits, builds, succeeded, wiring, documents, thread>>

\* Every run of a deploy collector saves all its environment components anew;
\* the listener ignores those that are not deployed.
SaveEnvironmentComponent(w, app, env) ==
    /\ pc[w] = "idle"
    /\ Publish(w, [kind |-> "deploy", app |-> app, env |-> env])
    /\ UNCHANGED <<store, wiring, documents>>

\* A search that finds no pipeline inserts an empty one.
Search(w, d) ==
    /\ pc[w] = "idle"
    /\ HasItem(d)
    /\ inserted[d] = {}
    /\ pc' = [pc EXCEPT ![w] = "store"]
    /\ event' = [event EXCEPT ![w] = [kind |-> "search"]]
    /\ frames' = [frames EXCEPT ![w] = << {} >>]
    /\ at' = [at EXCEPT ![w] = d]
    /\ copy' = [copy EXCEPT ![w] = NoCopy(w)]
    /\ UNCHANGED <<store, wiring, documents>>
-----------------------------------------------------------------------------
(***************************************************************************)
(* The listener.                                                           *)
(***************************************************************************)
\* Mutant: the dashboards are not matched by the build's job.
ConcernsAnyJob(e, d) ==
    /\ Saved(d)
    /\ \/ e.kind = "commit" /\ RepoOf[e.rev] \in ScmOf[d]
       \/ e.kind \in {"Success", "Failure"}
       \/ e.kind = "deploy" /\ e.app \in DeployOf[d]

\* The dashboards that a document is found to concern.
Concerns(e, d) ==
    /\ Saved(d)
    /\ \/ /\ e.kind = "commit"
          /\ RepoOf[e.rev] \in ScmOf[d]
          /\ buildItems[d] # {}
       \/ /\ e.kind \in {"Success", "Failure"}
          /\ JobOf[e.build] \in buildItems[d]
       \/ /\ e.kind = "deploy"
          /\ e.app \in DeployOf[d]

\* A call begins: the dashboards it will visit are queried once.
FindDashboards(w) ==
    /\ pc[w] = "find"
    /\ frames' = [frames EXCEPT ![w] =
                     << {d \in Dashboards : Concerns(event[w], d)} >> \o @]
    /\ pc' = [pc EXCEPT ![w] = "next"]
    /\ UNCHANGED <<event, at, copy, store, wiring, documents>>

\* getOrCreatePipeline: any of the dashboard's documents may be found first.
GetOrCreatePipeline(w, d) ==
    IF inserted[d] = {} THEN {NoCopy(w)}
    ELSE {[id |-> i, doc |-> pipelines[d][i], resave |-> FALSE] :
             i \in inserted[d]}

\* Mutant: a call visits one dashboard only.
LoadOnePipeline(w, d) ==
    /\ pc[w] = "next"
    /\ d \in Head(frames[w])
    /\ HasItem(d)
    /\ \E c \in GetOrCreatePipeline(w, d) : copy' = [copy EXCEPT ![w] = c]
    /\ at' = [at EXCEPT ![w] = d]
    /\ frames' = [frames EXCEPT ![w][1] = {}]
    /\ pc' = [pc EXCEPT ![w] = "edit"]
    /\ UNCHANGED <<event, store, wiring, documents>>

\* The next dashboard of the call's list: its pipeline is loaded, or a new one
\* is made in memory.
LoadPipeline(w, d) ==
    /\ pc[w] = "next"
    /\ d \in Head(frames[w])
    /\ HasItem(d)
    /\ \E c \in GetOrCreatePipeline(w, d) : copy' = [copy EXCEPT ![w] = c]
    /\ at' = [at EXCEPT ![w] = d]
    /\ frames' = [frames EXCEPT ![w][1] = @ \ {d}]
    /\ pc' = [pc EXCEPT ![w] = "edit"]
    /\ UNCHANGED <<event, store, wiring, documents>>

\* A thread that stops handling: the call returned, or it threw.
Stop(w) ==
    /\ pc' = [pc EXCEPT ![w] = "idle"]
    /\ event' = [event EXCEPT ![w] = NoEvent]
    /\ frames' = [frames EXCEPT ![w] = <<>>]
    /\ at' = [at EXCEPT ![w] = Nowhere]
    /\ copy' = [copy EXCEPT ![w] = NoCopy(w)]

\* The dashboard has no Product collector item: getOrCreatePipeline throws.
ItemMissing(w, d) ==
    /\ pc[w] = "next"
    /\ d \in Head(frames[w])
    /\ ~HasItem(d)
    /\ Stop(w)
    /\ UNCHANGED <<store, wiring, documents>>

Edit(w, doc, resave) ==
    /\ copy' = [copy EXCEPT ![w].doc = doc, ![w].resave = resave]
    /\ pc' = [pc EXCEPT ![w] = "store"]
    /\ UNCHANGED <<frames, at, store, wiring, documents>>

EditForCommit(w) ==
    /\ pc[w] = "edit"
    /\ event[w].kind = "commit"
    /\ Edit(w, AddCommits(copy[w].doc, "Commit", {event[w].rev}), FALSE)
    /\ UNCHANGED event

\* Mutant: a failed build is saved again, like a successful one.
EditForFailureAgain(w) ==
    /\ pc[w] = "edit"
    /\ event[w].kind = "Failure"
    /\ Edit(w, AddFailedBuild(copy[w].doc, JobOf[event[w].build],
                              event[w].changes), copy[w].doc.failedBuilds # {})
    /\ UNCHANGED event

EditForFailure(w) ==
    /\ pc[w] = "edit"
    /\ event[w].kind = "Failure"
    /\ Edit(w, AddFailedBuild(copy[w].doc, JobOf[event[w].build],
                              event[w].changes), FALSE)
    /\ UNCHANGED event

\* Commits of the build's repositories that were made before it started.
MovableTo(b) ==
    {r \in Revs : /\ commits[r] # "none"
                  /\ RepoOf[r] \in CodeReposOf[b]
                  /\ CommitTime[r] < StartOf[b]}

\* The failed builds' commits also join the change set of the build in memory.
EditForSuccess(w) ==
    LET doc == copy[w].doc
        b   == event[w].build
        own == FailedChanges(doc, JobOf[b])
    IN  /\ pc[w] = "edit"
        /\ event[w].kind = "Success"
        /\ Edit(w, ProcessBuild(doc, JobOf[b], event[w].changes, MovableTo(b)),
                doc.failedBuilds # {})
        /\ event' = [event EXCEPT ![w].changes = @ \cup own]

\* Mutant: the timestamp of the last artifact is ignored.
AllArtifacts(doc, app, env) ==
    {a \in Artifacts : artifacts[a].info # "none" /\ AppOf[a] = app}

\* The artifacts of the component that are newer than the stage's last one.
NewArtifacts(doc, app, env) ==
    {a \in Artifacts : /\ artifacts[a].info # "none"
                       /\ AppOf[a] = app
                       /\ ArtifactTime[a] > doc.last[env]}

\* The change set of the build of an artifact; a build that is not known yet
\* contributes nothing.
ArtifactChanges(a) ==
    IF artifacts[a].info = "embedded" THEN artifacts[a].changes
                                      ELSE builds[BuildOf[a]].changes

\* The last of the artifacts when they are sorted by timestamp.
SortedLast(as, a) ==
    a \in as /\ \A b \in as : ArtifactTime[b] <= ArtifactTime[a]

EditForDeploy(w) ==
    LET doc  == copy[w].doc
        e    == event[w]
        new  == NewArtifacts(doc, e.app, e.env)
        revs == UNION {ArtifactChanges(a) : a \in new}
    IN  /\ pc[w] = "edit"
        /\ e.kind = "deploy"
        /\ \/ /\ new = {}
              /\ Edit(w, doc, FALSE)
           \/ \E a \in Artifacts :
                 /\ SortedLast(new, a)
                 /\ Edit(w, Deploy(doc, e.env, revs, ArtifactTime[a]), FALSE)
        /\ UNCHANGED event

\* The whole document is written back, or inserted when the query found none.
StorePipeline(w) ==
    /\ pc[w] = "store"
    /\ pipelines' = [pipelines EXCEPT ![at[w]][copy[w].id] = copy[w].doc]
    /\ inserted' = [inserted EXCEPT ![at[w]] = @ \cup {copy[w].id}]
    /\ pc' = [pc EXCEPT ![w] = IF copy[w].resave THEN "resave" ELSE "next"]
    /\ UNCHANGED <<event, frames, at, copy, store, wiring>>

\* Saving the build again runs the listener again, one call deeper.  It stores
\* the build as the thread has it in memory, over whatever was posted meanwhile.
Resave(w) ==
    /\ builds' = [builds EXCEPT ![event[w].build] =
                     [status |-> "Success", changes |-> event[w].changes]]
    /\ succeeded' = succeeded \cup {event[w].build}

ResaveBuild(w) ==
    /\ pc[w] = "resave"
    /\ Len(frames[w]) < StackLimit
    /\ Resave(w)
    /\ pc' = [pc EXCEPT ![w] = "find"]
    /\ UNCHANGED <<event, frames, at, copy, commits, artifacts, wiring,
                   documents>>

StackOverflow(w) ==
    /\ pc[w] = "resave"
    /\ Len(frames[w]) = StackLimit
    /\ Resave(w)
    /\ Stop(w)
    /\ UNCHANGED <<commits, artifacts, wiring, documents>>

\* A call that has visited its dashboards returns to the call that saved the
\* build, or to the thread's own work.
Return(w) ==
    /\ pc[w] = "next"
    /\ Head(frames[w]) = {}
    /\ IF Len(frames[w]) = 1
       THEN Stop(w)
       ELSE /\ frames' = [frames EXCEPT ![w] = Tail(@)]
            /\ UNCHANGED <<pc, event, at, copy>>
    /\ UNCHANGED <<store, wiring, documents>>

\* The process dies between two database operations of a handler.
Crash(w) ==
    /\ pc[w] # "idle"
    /\ MayCrash
    /\ Stop(w)
    /\ UNCHANGED <<store, wiring, documents>>
-----------------------------------------------------------------------------
Handle(w) ==
    \/ FindDashboards(w)
    \/ \E d \in Dashboards : LoadPipeline(w, d) \/ ItemMissing(w, d)
    \/ EditForCommit(w)
    \/ EditForFailure(w)
    \/ EditForSuccess(w)
    \/ EditForDeploy(w)
    \/ StorePipeline(w)
    \/ ResaveBuild(w)
    \/ StackOverflow(w)
    \/ Return(w)

Save(w) ==
    \/ \E r \in Revs, type \in {"New", "Other"} : SaveCommit(w, r, type)
    \/ \E b \in Builds, status \in BuildStatuses \ {"none"} :
           status \in PostsOf[b] /\ SaveBuild(w, b, status)
    \/ \E app \in Apps, env \in Envs : SaveEnvironmentComponent(w, app, env)
    \/ \E d \in Dashboards : Search(w, d)

Administer ==
    \/ \E d \in Dashboards :
           \/ CreateDashboard(d)
           \/ CreateItem(d)
           \/ DeleteDashboard(d)
           \/ DeleteItem(d)
           \/ \E job \in Jobs : AssociateJob(d, job)
    \/ \E a \in Artifacts, info \in {"metadata", "embedded"} :
           SaveArtifact(a, info)

Next == Administer \/ \E w \in Workers : Save(w) \/ Handle(w) \/ Crash(w)

Spec == Init /\ [][Next]_vars

\* A thread inside a listener keeps running until the call ends.
FairSpec == Spec /\ \A w \in Workers : WF_vars(Handle(w))
-----------------------------------------------------------------------------
(***************************************************************************)
(* Properties.                                                             *)
(***************************************************************************)

\* A thread that visits dashboards is inside a call and one that is idle is not,
\* one that has a pipeline in hand visits a dashboard, and only a successful
\* build is saved again.
ThreadOK(w) ==
    /\ pc[w] \in {"next", "edit", "store", "resave"} => frames[w] # <<>>
    /\ pc[w] \in {"edit", "store", "resave"} => at[w] \in Dashboards
    /\ pc[w] = "idle" => frames[w] = <<>> /\ ~copy[w].resave
    /\ pc[w] = "resave" => copy[w].resave
    /\ copy[w].resave => event[w] \in BuildEvents /\ event[w].kind = "Success"

VariablesOK ==
    /\ dash \in [Dashboards -> {"absent", "saved", "ready", "orphaned", "gone"}]
    /\ buildItems \in [Dashboards -> SUBSET Jobs]
    /\ everBound \in [Dashboards -> SUBSET Jobs]
    /\ commits \in [Revs -> CommitTypes]
    /\ builds \in [Builds -> BuildDocuments]
    /\ artifacts \in [Artifacts -> ArtifactDocuments]
    /\ succeeded \in SUBSET Builds
    /\ inserted \in [Dashboards -> SUBSET Workers]
    /\ pipelines \in [Dashboards -> [Workers -> Documents]]
    /\ pc \in [Workers -> {"idle", "find", "next", "edit", "store", "resave"}]
    /\ event \in [Workers -> Events]
    /\ frames \in [Workers -> Seq(SUBSET Dashboards)]
    /\ at \in [Workers -> Dashboards \cup {Nowhere}]
    /\ copy \in [Workers -> Copies]

\* The type of every variable, and of what each thread has in hand.
TypeOK == VariablesOK /\ \A w \in Workers : ThreadOK(w)

\* A build of the job, of whatever status, reported the revision.
Reported(r, job) ==
    \E b \in Builds : /\ JobOf[b] = job
                      /\ builds[b].status # "none"
                      /\ r \in ChangesOf[b]

\* A build of the job that was once successful, whatever was posted of it since,
\* could move the revision to the Build stage.
Moved(r, job) ==
    \E b \in succeeded : JobOf[b] = job /\ r \in MovableTo(b)

CommitSound(d, revs) ==
    \A r \in revs : commits[r] = "New" /\ RepoOf[r] \in ScmOf[d]

BuildSound(d, revs) ==
    \A r \in revs : \E job \in everBound[d] : Reported(r, job) \/ Moved(r, job)

DeploySound(d, revs) ==
    \A r \in revs : \E a \in Artifacts : /\ artifacts[a].info # "none"
                                       /\ AppOf[a] \in DeployOf[d]
                                       /\ Reported(r, JobOf[BuildOf[a]])

FailedSound(d, failed) ==
    \A f \in failed : /\ f.job \in everBound[d]
                      /\ \A r \in f.changes : Reported(r, f.job)

DocumentSound(d, doc) ==
    /\ CommitSound(d, doc.stages["Commit"])
    /\ BuildSound(d, doc.stages["Build"])
    /\ \A e \in Envs : DeploySound(d, doc.stages[e])
    /\ FailedSound(d, doc.failedBuilds)

\* However the threads interleave, and wherever they crash, a pipeline shows no
\* commit that is not its dashboard's: the Commit stage has New commits of the
\* dashboard's repositories, the Build stage commits that builds of a job once
\* on its build widget reported or, when they succeeded, could move, an
\* environment stage commits of the jobs that built the dashboard's deployed
\* components, and a failed build waits only where its job was shown.
PipelinesSound ==
    \A d \in Dashboards, i \in Workers : DocumentSound(d, pipelines[d][i])

\* What a reader may see in a stage, and the failed builds still waiting.
Entered == [d \in Dashboards |-> [s \in StageNames |->
               UNION {pipelines[d][i].stages[s] : i \in inserted[d]}]]

Waiting == [d \in Dashboards |->
               UNION {pipelines[d][i].failedBuilds : i \in inserted[d]}]

Ledger == INSTANCE StageLedger WITH entered <- Entered, waiting <- Waiting

\* With one thread at a time the pipelines keep the promise of StageLedger: a
\* stage never loses a commit and a failed build leaves its bucket only for the
\* Build stage (Stage.java:15, BuildEventListener.java:152-155).
KeepsLedger == Ledger!LedgerSpec

\* No stage of a pipeline document ever loses a commit (Stage.java:15).
StageKeepsCommits ==
    [][\A d \in Dashboards, i \in Workers, s \in StageNames :
          pipelines[d][i].stages[s] \subseteq pipelines'[d][i].stages[s]]_vars

\* A dashboard that shows the job a thread handles, or once did, holds failed
\* builds of another job.
ForeignFailure(w) ==
    \E d \in Dashboards, i \in Workers :
        /\ JobOf[event[w].build] \in everBound[d]
        /\ \E f \in pipelines[d][i].failedBuilds : f.job # JobOf[event[w].build]

\* Saving the build again nests the listener once per dashboard that had failed
\* builds of that job, and deeper only where failed builds of another job stay
\* in the pipeline of such a dashboard (BuildEventListener.java:99-121).
NestingBounded ==
    \A w \in Workers :
        Len(frames[w]) > Cardinality(Dashboards) + 1 => ForeignFailure(w)

\* The call that a thread was in ended, returning or throwing.
Ends(w) == pc[w] # "idle" /\ pc'[w] = "idle"

Unvisited(w) == UNION {frames[w][k] : k \in DOMAIN frames[w]}

\* A successful build's commits reach the Build stage of every dashboard that
\* refers to it (BuildEventListener.java:90).
BuildReachesEveryDashboard ==
    [][\A w \in Workers :
          Ends(w) /\ event[w].kind = "Success" =>
              \A d \in Unvisited(w) :
                  HasItem(d) =>
                      event[w].changes \subseteq Entered[d]["Build"]]_vars

\* A New commit reaches the Commit stage of every dashboard it is part of that
\* has a Product item to hang a pipeline on (CommitEventListener.java:32-33).
CommitReachesEveryDashboard ==
    [][\A w \in Workers :
          Ends(w) /\ event[w].kind = "commit" =>
              \A d \in Unvisited(w) :
                  HasItem(d) => event[w].rev \in Entered[d]["Commit"]]_vars

\* With one thread, no crash and no dashboard half created, the commit of an
\* event under way does reach every dashboard that the event found.
CommitArrives ==
    \A w \in Workers, r \in Revs, d \in Dashboards :
        (/\ pc[w] = "next"
         /\ event[w] = [kind |-> "commit", rev |-> r]
         /\ d \in Head(frames[w]))
        ~> r \in Entered[d]["Commit"]

\* The handler of a deployment edits its copy of a pipeline.
EditsDeploy(w) ==
    event[w].kind = "deploy" /\ pc[w] = "edit" /\ pc'[w] = "store"

\* The artifacts of the component up to the stage's last artifact.
Covered(e, doc) ==
    {a \in Artifacts : /\ artifacts[a].info # "none"
                       /\ AppOf[a] = e.app
                       /\ ArtifactTime[a] <= doc.last[e.env]}

\* A stage's last artifact never goes back, and never passes over an artifact
\* of the deployed component without taking the commits known for it
\* (EnvironmentComponentEventListener.java:95-135).
LastArtifactCarries ==
    [][\A w \in Workers :
          EditsDeploy(w) =>
              LET e   == event[w]
                  old == copy[w].doc
                  new == copy'[w].doc
              IN  /\ old.last[e.env] <= new.last[e.env]
                  /\ \A a \in Covered(e, new) \ Covered(e, old) :
                        ArtifactChanges(a) \subseteq new.stages[e.env]]_vars

\* A deployment adds to the stage the commits of every artifact of its component
\* that carries its build (EnvironmentComponentEventListener.java:58-60, 79-80).
DeployCarriesArtifacts ==
    [][\A w \in Workers :
          EditsDeploy(w) =>
              \A a \in Covered(event[w], copy'[w].doc) :
                  artifacts[a].info = "embedded" =>
                      artifacts[a].changes \subseteq
                          copy'[w].doc.stages[event[w].env]]_vars

\* What a thread saves of a pipeline shows what it handles: the commit, or the
\* commits that the build has by now, those of the failed builds it found among
\* them (CommitEventListener.java:37-38, BuildEventListener.java:94-117).
SavesWhatItHandles ==
    [][\A w \in Workers :
          pc[w] = "store" /\ pc'[w] \in {"next", "resave"} =>
              /\ event[w].kind = "commit" =>
                     event[w].rev \in Entered'[at[w]]["Commit"]
              /\ event[w].kind = "Success" =>
                     event[w].changes \subseteq Entered'[at[w]]["Build"]]_vars
-----------------------------------------------------------------------------
(***************************************************************************)
(* Conditions under which the promises that the violations break are kept. *)
(* The code ensures none of them; the theorems that assume them say what   *)
(* it takes to break the promises.                                         *)
(***************************************************************************)

\* A thread is between the load and the save of a pipeline.
HoldsCopy(w) == pc[w] \in {"edit", "store"}

\* No two threads have the pipeline of one dashboard in hand at a time.
Apart ==
    \A v, w \in Workers :
        v # w /\ HoldsCopy(v) /\ HoldsCopy(w) => at[v] # at[w]

\* The build widget of a dashboard never changes from one job to another.
OneJobEach == \A d \in Dashboards : \A i, j \in everBound[d] : i = j

\* Each environment is deployed to by one component.
DeploysOnly(owner) ==
    \A w \in Workers :
        event[w].kind = "deploy" => event[w].app = owner[event[w].env]

\* The artifacts of a component are stored in the order of their timestamps.
StoredInOrder ==
    [][\A a, b \in Artifacts :
          /\ artifacts[a].info = "none" /\ artifacts'[a].info # "none"
          /\ artifacts[b].info # "none" /\ AppOf[a] = AppOf[b]
          => ArtifactTime[b] < ArtifactTime[a]]_vars
=============================================================================
