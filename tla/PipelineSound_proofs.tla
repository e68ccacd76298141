------------------------ MODULE PipelineSound_proofs ------------------------
(***************************************************************************)
(* PipelinesSound for any number of threads, dashboards and documents.     *)
(*                                                                         *)
(* The invariant speaks of stored pipelines only.  What a thread stores is *)
(* the copy it edited some steps before, with commits taken from an event, *)
(* from builds and from artifacts read at still other times, for a         *)
(* dashboard it found earlier still: SoundInv says that each of these was  *)
(* sound when it was read, and Grows that what makes it sound never goes   *)
(* away.                                                                   *)
(***************************************************************************)
EXTENDS PipelineEvents_proofs

BuildsSound ==
    \A b \in Builds : \A r \in builds[b].changes : Reported(r, JobOf[b])

ArtifactsSound ==
    \A a \in Artifacts :
        \A r \in artifacts[a].changes : Reported(r, JobOf[BuildOf[a]])

ItemsBound == \A d \in Dashboards : buildItems[d] \subseteq everBound[d]

EventSound(e) ==
    /\ e.kind = "commit" => commits[e.rev] = "New"
    /\ e.kind \in {"Success", "Failure"} =>
           /\ builds[e.build].status # "none"
           /\ \A r \in e.changes : Reported(r, JobOf[e.build])
    /\ e.kind = "Success" => e.build \in succeeded

\* The event is, or once was, a dashboard's business.
Bound(e, d) ==
    /\ e.kind = "commit" => RepoOf[e.rev] \in ScmOf[d]
    /\ e.kind \in {"Success", "Failure"} => JobOf[e.build] \in everBound[d]
    /\ e.kind = "deploy" => e.app \in DeployOf[d]

Visiting(w) == pc[w] \in {"edit", "store", "resave"}

VisitSound(w) == Bound(event[w], at[w]) /\ DocumentSound(at[w], copy[w].doc)

FramesBound(w) ==
    \A k \in DOMAIN frames[w] : \A d \in frames[w][k] : Bound(event[w], d)

ThreadSound(w) ==
    /\ EventSound(event[w])
    /\ FramesBound(w)
    /\ Visiting(w) => VisitSound(w)

SoundInv ==
    /\ TypeOK
    /\ BuildsSound
    /\ ArtifactsSound
    /\ ItemsBound
    /\ PipelinesSound
    /\ \A w \in Workers : ThreadSound(w)
-----------------------------------------------------------------------------
(***************************************************************************)
(* What was sound once stays so: a commit keeps its type, a build that is  *)
(* known stays known, whatever status it gets, one that succeeded has      *)
(* succeeded, whatever is posted after, an artifact that is known stays    *)
(* known, a dashboard keeps the history of its jobs.                       *)
(***************************************************************************)
Grows ==
    /\ \A r \in Revs : commits[r] # "none" => commits'[r] = commits[r]
    /\ \A b \in Builds : builds[b].status # "none" => builds'[b].status # "none"
    /\ succeeded \subseteq succeeded'
    /\ \A a \in Artifacts : artifacts[a].info # "none" =>
                                artifacts'[a].info # "none"
    /\ \A d \in Dashboards : everBound[d] \subseteq everBound'[d]

\* Saving a build again keeps every build known and every success recorded.
LEMMA ResaveGrows ==
    ASSUME TypeOK, NEW w \in Workers, pc[w] = "resave", Resave(w)
    PROVE  /\ \A b \in Builds :
                 builds[b].status # "none" => builds'[b].status # "none"
           /\ succeeded \subseteq succeeded'
    BY DEF Resave, TypeOK, VariablesOK

\* Every step keeps what is known.
LEMMA StepGrows == TypeOK /\ [Next]_vars => Grows
<1> SUFFICES ASSUME TypeOK, [Next]_vars PROVE Grows
    OBVIOUS
<1>1. CASE Administer
    <2>1. ASSUME NEW d \in Dashboards, NEW job \in Jobs, AssociateJob(d, job)
          PROVE  Grows
        BY <2>1 DEF AssociateJob, Grows, store, TypeOK, VariablesOK
    <2>2. ASSUME NEW a \in Artifacts, NEW info \in {"metadata", "embedded"},
                 SaveArtifact(a, info)
          PROVE  Grows
        BY <2>2 DEF SaveArtifact, Grows, wiring, TypeOK, VariablesOK
    <2>3. QED
        BY <1>1, <2>1, <2>2
        DEF Administer, CreateDashboard, CreateItem, DeleteDashboard,
            DeleteItem, LifeStep, Grows, store
<1>2. ASSUME NEW w \in Workers, Save(w) PROVE Grows
    <2>1. ASSUME NEW r \in Revs, NEW type \in {"New", "Other"},
                 SaveCommit(w, r, type)
          PROVE  Grows
        BY <2>1 DEF SaveCommit, Grows, wiring, TypeOK, VariablesOK
    <2>2. ASSUME NEW b \in Builds, NEW status \in BuildStatuses \ {"none"},
                 SaveBuild(w, b, status)
          PROVE  Grows
        BY <2>2
        DEF SaveBuild, Grows, wiring, TypeOK, VariablesOK
    <2>3. QED
        BY <1>2, <2>1, <2>2
        DEF Save, SaveEnvironmentComponent, Search, Grows, store, wiring
<1>3. ASSUME NEW w \in Workers, Handle(w) PROVE Grows
    <2>1. CASE ResaveBuild(w) \/ StackOverflow(w)
        BY <2>1, ResaveGrows
        DEF ResaveBuild, StackOverflow, Grows, wiring
    <2>2. CASE ~(ResaveBuild(w) \/ StackOverflow(w))
        <3>1. UNCHANGED <<store, wiring>>
            BY <1>3, <2>2
            DEF Handle, FindDashboards, LoadPipeline, ItemMissing, Edit,
                EditForCommit, EditForFailure, EditForSuccess, EditForDeploy,
                StorePipeline, Return
        <3>2. QED
            BY <3>1 DEF store, wiring, Grows
    <2>3. QED
        BY <2>1, <2>2
<1>4. ASSUME NEW w \in Workers, Crash(w) PROVE Grows
    BY <1>4 DEF Crash, Grows, store, wiring
<1>5. CASE UNCHANGED vars
    BY <1>5 DEF vars, Grows, store, wiring
<1>6. QED
    BY <1>1, <1>2, <1>3, <1>4, <1>5 DEF Next

\* A revision that builds of a job reported stays reported.
LEMMA ReportedStays ==
    ASSUME Grows, NEW r, NEW job, Reported(r, job)
    PROVE  Reported(r, job)'
    BY DEF Grows, Reported

\* A revision that a success of a job could move can still be moved.
LEMMA MovedStays ==
    ASSUME Grows, NEW r, NEW job, Moved(r, job)
    PROVE  Moved(r, job)'
<1>1. PICK b \in succeeded : JobOf[b] = job /\ r \in MovableTo(b)
    BY DEF Moved
<1>2. b \in succeeded' /\ r \in MovableTo(b)'
    BY <1>1 DEF Grows, MovableTo
<1>3. QED
    BY <1>1, <1>2 DEF Moved

\* A document that is sound stays so.
LEMMA DocumentStays ==
    ASSUME Grows, NEW d \in Dashboards, NEW doc \in Documents,
           DocumentSound(d, doc)
    PROVE  DocumentSound(d, doc)'
<1>1. /\ doc.stages \in [StageNames -> SUBSET Revs]
      /\ doc.failedBuilds \in SUBSET FailedBuilds
      /\ {"Commit", "Build"} \cup Envs \subseteq StageNames
    BY DEF Documents, StageNames
<1>2. CommitSound(d, doc.stages["Commit"])'
    BY <1>1 DEF DocumentSound, CommitSound, Grows
<1>3. BuildSound(d, doc.stages["Build"])'
    BY ReportedStays, MovedStays DEF DocumentSound, BuildSound, Grows
<1>4. ASSUME NEW e \in Envs PROVE DeploySound(d, doc.stages[e])'
    BY ReportedStays DEF DocumentSound, DeploySound, Grows
<1>5. FailedSound(d, doc.failedBuilds)'
    BY ReportedStays DEF DocumentSound, FailedSound, Grows
<1>6. QED
    BY <1>2, <1>3, <1>4, <1>5 DEF DocumentSound

\* An event that concerned a dashboard once still does.
LEMMA BoundStays ==
    ASSUME Grows, NEW d \in Dashboards, NEW e, Bound(e, d)
    PROVE  Bound(e, d)'
    BY DEF Grows, Bound

\* What an event says stays true while it is handled.
LEMMA EventStays ==
    ASSUME Grows, NEW e \in Events, EventSound(e)
    PROVE  EventSound(e)'
<1>1. CASE e.kind = "commit"
    BY <1>1, EventFields DEF Grows, EventSound
<1>2. CASE e.kind \in {"Success", "Failure"}
    BY <1>2, EventFields, ReportedStays DEF Grows, EventSound
<1>3. QED
    BY <1>1, <1>2 DEF EventSound
-----------------------------------------------------------------------------
(***************************************************************************)
(* The collections.                                                        *)
(***************************************************************************)

\* Only a save of a build changes a change set: to what the build server
\* reported, or to what the event of a successful build holds.
LEMMA SoundBuilds ==
    ASSUME SoundInv, [Next]_vars, Grows
    PROVE  BuildsSound'
<1>1. ASSUME NEW w \in Workers, NEW b \in Builds,
             NEW status \in BuildStatuses \ {"none"}, SaveBuild(w, b, status)
      PROVE  BuildsSound'
    <2>1. builds' = [builds EXCEPT ![b] =
                        [status |-> status, changes |-> ChangesOf[b]]]
        BY <1>1 DEF SaveBuild
    <2>2. builds'[b].status # "none"
        BY <2>1 DEF SoundInv, TypeOK, VariablesOK
    <2>3. \A r \in ChangesOf[b] : Reported(r, JobOf[b])'
        BY <2>2 DEF Reported
    <2>4. QED
        BY <2>1, <2>3, ReportedStays
        DEF SoundInv, TypeOK, VariablesOK, BuildsSound
<1>2. ASSUME NEW w \in Workers, pc[w] = "resave", Resave(w)
      PROVE  BuildsSound'
    <2>1. PICK e \in BuildEvents : e = event[w] /\ e.kind = "Success"
        BY <1>2 DEF SoundInv, TypeOK, ThreadOK
    <2>2. \A r \in e.changes : Reported(r, JobOf[e.build])
        BY <2>1 DEF SoundInv, ThreadSound, EventSound
    <2>3. /\ builds'[e.build].changes = e.changes
          /\ \A b \in Builds \ {e.build} : builds'[b] = builds[b]
        BY <1>2, <2>1 DEF SoundInv, TypeOK, VariablesOK, Resave, BuildEvents
    <2>4. QED
        BY <2>2, <2>3, ReportedStays DEF SoundInv, BuildsSound
<1>3. CASE builds' = builds
    BY <1>3, ReportedStays DEF SoundInv, BuildsSound
<1>4. CASE Administer
    BY <1>3, <1>4
    DEF Administer, CreateDashboard, CreateItem, DeleteDashboard, DeleteItem,
        LifeStep, AssociateJob, SaveArtifact, store
<1>5. ASSUME NEW w \in Workers, Save(w) PROVE BuildsSound'
    BY <1>1, <1>3, <1>5
    DEF Save, SaveCommit, SaveEnvironmentComponent, Search, store
<1>6. ASSUME NEW w \in Workers, Handle(w) PROVE BuildsSound'
    BY <1>2, <1>3, <1>6
    DEF Handle, FindDashboards, LoadPipeline, ItemMissing, Edit,
        EditForCommit, EditForFailure, EditForSuccess, EditForDeploy,
        StorePipeline, ResaveBuild, StackOverflow, Return, store
<1>7. ASSUME NEW w \in Workers, Crash(w) PROVE BuildsSound'
    BY <1>3, <1>7 DEF Crash, store
<1>8. CASE UNCHANGED vars
    BY <1>3, <1>8 DEF vars, store
<1>9. QED
    BY <1>4, <1>5, <1>6, <1>7, <1>8 DEF Next

\* An artifact is saved once, with the change set its build has then.
LEMMA SoundArtifacts ==
    ASSUME SoundInv, [Next]_vars, Grows
    PROVE  ArtifactsSound'
<1>1. ASSUME NEW a \in Artifacts, NEW info, SaveArtifact(a, info)
      PROVE  ArtifactsSound'
    <2>1. BuildOf[a] \in Builds
        BY ConstantsAssumption
    <2>2. \A r \in artifacts'[a].changes : Reported(r, JobOf[BuildOf[a]])
        BY <1>1, <2>1
        DEF SaveArtifact, SoundInv, TypeOK, VariablesOK, BuildsSound
    <2>3. \A c \in Artifacts \ {a} : artifacts'[c] = artifacts[c]
        BY <1>1 DEF SaveArtifact, SoundInv, TypeOK, VariablesOK
    <2>4. QED
        BY <2>2, <2>3, ReportedStays DEF SoundInv, ArtifactsSound
<1>2. CASE artifacts' = artifacts
    BY <1>2, ReportedStays DEF SoundInv, ArtifactsSound
<1>3. CASE Administer
    BY <1>1, <1>2, <1>3
    DEF Administer, CreateDashboard, CreateItem, DeleteDashboard, DeleteItem,
        LifeStep, AssociateJob, store
<1>4. ASSUME NEW w \in Workers, Save(w) \/ Handle(w) \/ Crash(w)
      PROVE  ArtifactsSound'
    BY <1>2, <1>4
    DEF Save, SaveCommit, SaveBuild, SaveEnvironmentComponent, Search, Handle,
        FindDashboards, LoadPipeline, ItemMissing, Edit, EditForCommit,
        EditForFailure, EditForSuccess, EditForDeploy, StorePipeline,
        ResaveBuild, StackOverflow, Return, Crash, store
<1>5. CASE UNCHANGED vars
    BY <1>2, <1>5 DEF vars, store
<1>6. QED
    BY <1>3, <1>4, <1>5 DEF Next

\* The jobs on a build widget are in its history.
LEMMA SoundItems ==
    ASSUME SoundInv, [Next]_vars
    PROVE  ItemsBound'
<1>1. ASSUME NEW d \in Dashboards, NEW job, AssociateJob(d, job)
      PROVE  ItemsBound'
    BY <1>1 DEF AssociateJob, SoundInv, TypeOK, VariablesOK, ItemsBound
<1>2. CASE UNCHANGED <<buildItems, everBound>>
    BY <1>2 DEF SoundInv, ItemsBound
<1>3. CASE Administer
    BY <1>1, <1>2, <1>3
    DEF Administer, CreateDashboard, CreateItem, DeleteDashboard, DeleteItem,
        LifeStep, SaveArtifact, wiring
<1>4. ASSUME NEW w \in Workers, Save(w) \/ Handle(w) \/ Crash(w)
      PROVE  ItemsBound'
    BY <1>2, <1>4
    DEF Save, SaveCommit, SaveBuild, SaveEnvironmentComponent, Search, Handle,
        FindDashboards, LoadPipeline, ItemMissing, Edit, EditForCommit,
        EditForFailure, EditForSuccess, EditForDeploy, StorePipeline,
        ResaveBuild, StackOverflow, Return, Crash, wiring
<1>5. CASE UNCHANGED vars
    BY <1>2, <1>5 DEF vars, wiring
<1>6. QED
    BY <1>3, <1>4, <1>5 DEF Next

\* DocumentSound of what a pipeline becomes, with the document named.
LEMMA StoredSound ==
    ASSUME NEW d \in Dashboards, NEW i \in Workers, NEW doc,
           doc = pipelines'[d][i], DocumentSound(d, doc)'
    PROVE  DocumentSound(d, pipelines[d][i])'
    BY DEF DocumentSound, CommitSound, BuildSound, DeploySound, FailedSound

\* A pipeline is stored by the thread that has its copy in hand.
LEMMA SoundPipelines ==
    ASSUME SoundInv, [Next]_vars, Grows
    PROVE  PipelinesSound'
<1>1. ASSUME NEW d \in Dashboards, NEW i \in Workers, NEW doc \in Documents,
             doc = pipelines'[d][i], DocumentSound(d, doc)
      PROVE  DocumentSound(d, pipelines[d][i])'
    BY <1>1, DocumentStays, StoredSound
<1>2. CASE pipelines' = pipelines
    <2> SUFFICES ASSUME NEW d \in Dashboards, NEW i \in Workers
                 PROVE  DocumentSound(d, pipelines[d][i])'
        BY DEF PipelinesSound
    <2>1. pipelines[d][i] \in Documents /\ DocumentSound(d, pipelines[d][i])
        BY DEF SoundInv, TypeOK, VariablesOK, PipelinesSound
    <2>2. PICK doc \in Documents : doc = pipelines[d][i]
        BY <2>1
    <2>3. DocumentSound(d, doc) /\ doc = pipelines'[d][i]
        BY <1>2, <2>1, <2>2
    <2>4. QED
        BY <1>1, <2>3
<1>3. ASSUME NEW w \in Workers, StorePipeline(w) PROVE PipelinesSound'
    <2> SUFFICES ASSUME NEW d \in Dashboards, NEW i \in Workers
                 PROVE  DocumentSound(d, pipelines[d][i])'
        BY DEF PipelinesSound
    <2>1. /\ pipelines[d][i] \in Documents
          /\ DocumentSound(d, pipelines[d][i])
          /\ copy[w].doc \in Documents
        BY InHand DEF SoundInv, TypeOK, VariablesOK, PipelinesSound
    <2>2. DocumentSound(at[w], copy[w].doc)
        BY <1>3
        DEF StorePipeline, SoundInv, ThreadSound, Visiting, VisitSound
    <2>3. \/ pipelines'[d][i] = pipelines[d][i]
          \/ d = at[w] /\ pipelines'[d][i] = copy[w].doc
        BY <1>3 DEF StorePipeline, SoundInv, TypeOK, VariablesOK
    <2>4. \E doc \in Documents : doc = pipelines'[d][i] /\ DocumentSound(d, doc)
        BY <2>1, <2>2, <2>3
    <2>5. QED
        BY <1>1, <2>4
<1>4. CASE Administer
    BY <1>2, <1>4
    DEF Administer, CreateDashboard, CreateItem, DeleteDashboard, DeleteItem,
        LifeStep, AssociateJob, SaveArtifact, documents
<1>5. ASSUME NEW w \in Workers, Save(w) \/ Handle(w) \/ Crash(w)
      PROVE  PipelinesSound'
    BY <1>2, <1>3, <1>5
    DEF Save, SaveCommit, SaveBuild, SaveEnvironmentComponent, Search, Handle,
        FindDashboards, LoadPipeline, ItemMissing, Edit, EditForCommit,
        EditForFailure, EditForSuccess, EditForDeploy, ResaveBuild,
        StackOverflow, Return, Crash, documents
<1>6. CASE UNCHANGED vars
    BY <1>2, <1>6 DEF vars, documents
<1>7. QED
    BY <1>4, <1>5, <1>6 DEF Next
-----------------------------------------------------------------------------
(***************************************************************************)
(* The edits of a sound document.                                          *)
(***************************************************************************)
LEMMA CommitEditSound ==
    ASSUME NEW d \in Dashboards, NEW doc \in Documents, DocumentSound(d, doc),
           NEW r \in Revs, commits[r] = "New", RepoOf[r] \in ScmOf[d]
    PROVE  DocumentSound(d, AddCommits(doc, "Commit", {r}))
<1> DEFINE new == AddCommits(doc, "Commit", {r})
<1>1. /\ new.stages = [doc.stages EXCEPT !["Commit"] = @ \cup {r}]
      /\ new.failedBuilds = doc.failedBuilds
    BY AddCommitsEffect DEF StageNames
<1> HIDE DEF new
<1> doc.stages \in [StageNames -> SUBSET Revs]
    BY DEF Documents
<1>2. /\ new.stages["Commit"] = doc.stages["Commit"] \cup {r}
      /\ new.stages["Build"] = doc.stages["Build"]
      /\ \A e \in Envs : new.stages[e] = doc.stages[e]
    BY <1>1, EnvAssumption DEF StageNames
<1>3. DocumentSound(d, new)
    BY <1>1, <1>2 DEF DocumentSound, CommitSound
<1>4. QED
    BY <1>3 DEF new

\* Keeping a failed build of a job the dashboard showed is sound.
LEMMA FailureEditSound ==
    ASSUME NEW d \in Dashboards, NEW doc \in Documents, DocumentSound(d, doc),
           NEW job \in everBound[d], job \in Jobs, NEW changes \in SUBSET Revs,
           \A r \in changes : Reported(r, job)
    PROVE  DocumentSound(d, AddFailedBuild(doc, job, changes))
<1> DEFINE new == AddFailedBuild(doc, job, changes)
           f   == [job |-> job, changes |-> changes]
<1>1. /\ new.stages = doc.stages
      /\ new.failedBuilds = doc.failedBuilds \cup {f}
    BY AddFailedBuildEffect
<1>2. FailedSound(d, {f})
    BY DEF FailedSound
<1> HIDE DEF new, f
<1>3. DocumentSound(d, new)
    BY <1>1, <1>2 DEF DocumentSound, FailedSound
<1>4. QED
    BY <1>3 DEF new

\* A successful build of a job the dashboard showed makes a sound document of
\* one.
LEMMA SuccessEditSound ==
    ASSUME NEW d \in Dashboards, NEW doc \in Documents, DocumentSound(d, doc),
           NEW b \in Builds, JobOf[b] \in everBound[d],
           b \in succeeded, NEW changes \in SUBSET Revs,
           \A r \in changes : Reported(r, JobOf[b])
    PROVE  DocumentSound(d, ProcessBuild(doc, JobOf[b], changes, MovableTo(b)))
<1> DEFINE job     == JobOf[b]
           movable == MovableTo(b)
           new     == ProcessBuild(doc, job, changes, movable)
<1>1. \A r \in movable : Moved(r, job)
    BY DEF MovableTo, Moved
<1> movable \in SUBSET Revs
    BY DEF MovableTo
<1> job \in Jobs
    BY ConstantsAssumption
<1> HIDE DEF movable, job
<1>2. BuildProcessed(new, doc, job, changes, movable)
    BY ProcessBuildEffect
<1> HIDE DEF new
<1>3. /\ new.stages = [doc.stages EXCEPT !["Build"] =
             @ \cup changes \cup FailedChanges(doc, job)
               \cup (doc.stages["Commit"] \cap movable)]
      /\ new.failedBuilds = doc.failedBuilds \ FailedOf(doc, job)
    BY <1>2 DEF BuildProcessed
<1> doc.stages \in [StageNames -> SUBSET Revs]
    BY DEF Documents
<1>4. /\ new.stages["Commit"] = doc.stages["Commit"]
      /\ new.stages["Build"] = doc.stages["Build"] \cup changes
             \cup FailedChanges(doc, job)
             \cup (doc.stages["Commit"] \cap movable)
      /\ \A e \in Envs : new.stages[e] = doc.stages[e]
    BY <1>3, EnvAssumption DEF StageNames
<1>5. \A r \in FailedChanges(doc, job) : Reported(r, job)
    BY DEF DocumentSound, FailedSound, FailedChanges, FailedOf
<1>6. job \in everBound[d] /\ \A r \in changes : Reported(r, job)
    BY DEF job
<1>7. BuildSound(d, new.stages["Build"])
    BY <1>1, <1>4, <1>5, <1>6 DEF DocumentSound, BuildSound
<1>8. FailedSound(d, new.failedBuilds)
    BY <1>3 DEF DocumentSound, FailedSound
<1>9. DocumentSound(d, new)
    BY <1>4, <1>7, <1>8 DEF DocumentSound
<1>10. QED
    BY <1>9 DEF new, job, movable

\* A deployment of what builds of the artifacts reported is sound.
LEMMA DeployEditSound ==
    ASSUME NEW d \in Dashboards, NEW doc \in Documents, DocumentSound(d, doc),
           NEW env \in Envs, NEW newest \in Nat, NEW revs \in SUBSET Revs,
           DeploySound(d, revs)
    PROVE  DocumentSound(d, Deploy(doc, env, revs, newest))
<1> DEFINE new == Deploy(doc, env, revs, newest)
<1>1. /\ new \in Documents
      /\ new.stages = [doc.stages EXCEPT ![env] = @ \cup revs]
      /\ new.last = [doc.last EXCEPT ![env] = newest]
      /\ new.failedBuilds = doc.failedBuilds
    BY DeployEffect
<1> HIDE DEF new
<1> doc.stages \in [StageNames -> SUBSET Revs]
    BY DEF Documents
<1>2. /\ new.stages["Commit"] = doc.stages["Commit"]
      /\ new.stages["Build"] = doc.stages["Build"]
      /\ new.stages[env] = doc.stages[env] \cup revs
      /\ \A e \in Envs \ {env} : new.stages[e] = doc.stages[e]
    BY <1>1, EnvAssumption DEF StageNames
<1>3. \A e \in Envs : DeploySound(d, new.stages[e])
    BY <1>2 DEF DocumentSound, DeploySound
<1>4. DocumentSound(d, new)
    BY <1>1, <1>2, <1>3 DEF DocumentSound
<1>5. QED
    BY <1>4 DEF new

\* A new document shows nothing, so nothing wrong.
LEMMA EmptySound ==
    ASSUME NEW d \in Dashboards
    PROVE  DocumentSound(d, EmptyDocument)
    BY DEF EmptyDocument, StageNames, DocumentSound, CommitSound, BuildSound,
           DeploySound, FailedSound
-----------------------------------------------------------------------------
(***************************************************************************)
(* What the threads have in hand.                                          *)
(***************************************************************************)

\* Seen from after a step: what a thread then has in hand is sound when each
\* part of it was sound before.
LEMMA ThreadFrom ==
    ASSUME Grows, NEW w \in Workers, NEW e, NEW fs,
           event'[w] = e, EventSound(e)', frames'[w] = fs,
           \A k \in DOMAIN fs : \A x \in fs[k] : x \in Dashboards /\ Bound(e, x),
           pc'[w] \in {"edit", "store", "resave"} =>
               \E d \in Dashboards, doc \in Documents :
                   /\ at'[w] = d /\ copy'[w].doc = doc
                   /\ Bound(e, d) /\ DocumentSound(d, doc)
    PROVE  ThreadSound(w)'
<1>1. EventSound(event[w])'
    BY DEF EventSound
<1>2. FramesBound(w)'
    <2>1. \A k \in DOMAIN fs : \A x \in fs[k] : Bound(e, x)'
        BY BoundStays
    <2>2. QED
        BY <2>1 DEF FramesBound, Bound
<1>3. ASSUME Visiting(w)' PROVE VisitSound(w)'
    <2>1. PICK d \in Dashboards, doc \in Documents :
             /\ at'[w] = d /\ copy'[w].doc = doc
             /\ Bound(e, d) /\ DocumentSound(d, doc)
        BY <1>3 DEF Visiting
    <2>2. Bound(e, d)' /\ DocumentSound(d, doc)'
        BY <2>1, BoundStays, DocumentStays
    <2>3. Bound(event[w], at[w])'
        BY <2>1, <2>2 DEF Bound
    <2>4. DocumentSound(at[w], copy[w].doc)'
        BY <2>1, <2>2
        DEF DocumentSound, CommitSound, BuildSound, DeploySound, FailedSound
    <2>5. QED
        BY <2>3, <2>4 DEF VisitSound
<1>4. QED
    BY <1>1, <1>2, <1>3 DEF ThreadSound

\* What SoundInv says of a thread before a step.
LEMMA ThreadBefore ==
    ASSUME SoundInv, NEW w \in Workers
    PROVE  /\ event[w] \in Events /\ EventSound(event[w])
           /\ \A k \in DOMAIN frames[w] : \A x \in frames[w][k] :
                  x \in Dashboards /\ Bound(event[w], x)
           /\ copy[w].doc \in Documents
           /\ pc[w] \in {"edit", "store", "resave"} =>
                  /\ at[w] \in Dashboards
                  /\ Bound(event[w], at[w])
                  /\ DocumentSound(at[w], copy[w].doc)
<1>1. ThreadOK(w) /\ ThreadSound(w) /\ event[w] \in Events
    BY InHand DEF SoundInv
<1>2. frames[w] \in Seq(SUBSET Dashboards) /\ copy[w].doc \in Documents
    BY InHand DEF SoundInv
<1>3. \A k \in DOMAIN frames[w] : frames[w][k] \in SUBSET Dashboards
    BY <1>2
<1>4. QED
    BY <1>1, <1>2, <1>3
    DEF ThreadOK, ThreadSound, FramesBound, Visiting, VisitSound

\* A thread that does not move keeps a sound event and a sound copy.
LEMMA SameThreadSound ==
    ASSUME SoundInv, Grows, NEW v \in Workers, SameThread(v)
    PROVE  ThreadSound(v)'
<1>1. EventSound(event[v]) /\ event[v] \in Events
    BY ThreadBefore
<1>2. PICK e \in Events : e = event[v] /\ EventSound(e)
    BY <1>1
<1>3. EventSound(e)' /\ event'[v] = e
    BY <1>2, EventStays DEF SameThread
<1>4. PICK fs : fs = frames[v]
    OBVIOUS
<1>5. /\ frames'[v] = fs
      /\ \A k \in DOMAIN fs : \A x \in fs[k] : x \in Dashboards /\ Bound(e, x)
    BY <1>2, <1>4, ThreadBefore DEF SameThread
<1>6. pc'[v] \in {"edit", "store", "resave"} =>
          \E d \in Dashboards, doc \in Documents :
              /\ at'[v] = d /\ copy'[v].doc = doc
              /\ Bound(e, d) /\ DocumentSound(d, doc)
    BY <1>2, ThreadBefore DEF SameThread
<1>7. QED
    BY <1>3, <1>5, <1>6, ThreadFrom

\* A thread that is idle after the step holds nothing.
LEMMA StopSound ==
    ASSUME SoundInv, NEW w \in Workers, Stop(w)
    PROVE  ThreadSound(w)'
<1>1. /\ event'[w] = NoEvent
      /\ frames'[w] = <<>>
      /\ pc'[w] = "idle"
    BY DEF SoundInv, TypeOK, VariablesOK, Stop
<1>2. EventSound(event[w])'
    BY <1>1 DEF EventSound, NoEvent
<1>3. QED
    BY <1>1, <1>2 DEF ThreadSound, FramesBound, Visiting

\* Changing dashboards and artifacts leaves every thread sound.
LEMMA SoundAdminister ==
    ASSUME SoundInv, Grows, Administer
    PROVE  \A v \in Workers : ThreadSound(v)'
<1>1. UNCHANGED thread
    BY DEF Administer, CreateDashboard, CreateItem, DeleteDashboard,
           DeleteItem, LifeStep, AssociateJob, SaveArtifact
<1>2. QED
    BY <1>1, SameThreadSound DEF thread, SameThread

\* The event a save publishes is sound when it is published, and the thread
\* that publishes it is in no call yet.
LEMMA PublishSound ==
    ASSUME SoundInv, Grows, NEW w \in Workers, pc[w] = "idle", NEW e,
           Publish(w, e), EventSound(e)'
    PROVE  ThreadSound(w)'
<1>1. /\ event'[w] = e
      /\ frames'[w] = <<>>
      /\ pc'[w] = "find"
    BY DEF SoundInv, TypeOK, VariablesOK, ThreadOK, Publish
<1>2. QED
    BY <1>1, ThreadFrom

\* A thread that saves a document begins with a sound event.
LEMMA SoundSave ==
    ASSUME SoundInv, Grows, NEW w \in Workers, Save(w)
    PROVE  ThreadSound(w)'
<1>1. ASSUME NEW r \in Revs, NEW type \in {"New", "Other"},
             SaveCommit(w, r, type)
      PROVE  ThreadSound(w)'
    <2>1. CASE type = "New"
        <3> DEFINE e == [kind |-> "commit", rev |-> r]
        <3>1. commits'[r] = "New"
            BY <1>1, <2>1 DEF SaveCommit, SoundInv, TypeOK, VariablesOK
        <3>2. EventSound(e)'
            BY <3>1 DEF EventSound
        <3> HIDE DEF e
        <3>3. pc[w] = "idle" /\ Publish(w, e)
            BY <1>1, <2>1 DEF SaveCommit, e
        <3>4. QED
            BY <3>2, <3>3, PublishSound
    <2>2. CASE type # "New"
        BY <1>1, <2>2, SameThreadSound DEF SaveCommit, thread, SameThread
    <2>3. QED
        BY <2>1, <2>2
<1>2. ASSUME NEW b \in Builds, NEW status \in BuildStatuses \ {"none"},
             SaveBuild(w, b, status)
      PROVE  ThreadSound(w)'
    <2>1. CASE status \in {"Success", "Failure"}
        <3> DEFINE e == [kind |-> status, build |-> b, changes |-> ChangesOf[b]]
        <3>1. builds'[b].status = status
            BY <1>2 DEF SaveBuild, SoundInv, TypeOK, VariablesOK
        <3>2. \A r \in ChangesOf[b] : Reported(r, JobOf[b])'
            BY <3>1 DEF Reported
        <3>3. EventSound(e)'
            BY <1>2, <2>1, <3>1, <3>2 DEF EventSound, SaveBuild
        <3> HIDE DEF e
        <3>4. pc[w] = "idle" /\ Publish(w, e)
            BY <1>2, <2>1 DEF SaveBuild, e
        <3>5. QED
            BY <3>3, <3>4, PublishSound
    <2>2. CASE status \notin {"Success", "Failure"}
        BY <1>2, <2>2, SameThreadSound DEF SaveBuild, thread, SameThread
    <2>3. QED
        BY <2>1, <2>2
<1>3. ASSUME NEW app \in Apps, NEW env \in Envs,
             SaveEnvironmentComponent(w, app, env)
      PROVE  ThreadSound(w)'
    <2> DEFINE e == [kind |-> "deploy", app |-> app, env |-> env]
    <2>1. EventSound(e)'
        BY DEF EventSound
    <2> HIDE DEF e
    <2>2. pc[w] = "idle" /\ Publish(w, e)
        BY <1>3 DEF SaveEnvironmentComponent, e
    <2>3. QED
        BY <2>1, <2>2, PublishSound
<1>4. ASSUME NEW d \in Dashboards, Search(w, d) PROVE ThreadSound(w)'
    <2> DEFINE e  == [kind |-> "search"]
               fs == << {} >>
    <2>1. /\ event'[w] = e
          /\ frames'[w] = fs
          /\ at'[w] = d
          /\ copy'[w].doc = EmptyDocument
        BY <1>4 DEF Search, SoundInv, TypeOK, VariablesOK, NoCopy
    <2>2. EventSound(e)' /\ Bound(e, d)
        BY DEF EventSound, Bound
    <2>3. \A k \in DOMAIN fs : \A x \in fs[k] : x \in Dashboards /\ Bound(e, x)
        OBVIOUS
    <2> HIDE DEF e, fs
    <2>4. QED
        BY <2>1, <2>2, <2>3, EmptySound, EmptyDocumentType, ThreadFrom
<1>5. QED
    BY <1>1, <1>2, <1>3, <1>4 DEF Save

\* The dashboards a call finds are the event's business.
LEMMA SoundFind ==
    ASSUME SoundInv, Grows, NEW w \in Workers, FindDashboards(w)
    PROVE  ThreadSound(w)'
<1> DEFINE found == {d \in Dashboards : Concerns(event[w], d)}
           fs    == << found >> \o frames[w]
<1>1. PICK e \in Events : e = event[w] /\ EventSound(e) /\ event'[w] = e
    BY ThreadBefore DEF FindDashboards
<1>2. EventSound(e)'
    BY <1>1, EventStays
<1>3. frames'[w] = fs /\ pc'[w] = "next"
    BY DEF FindDashboards, SoundInv, TypeOK, VariablesOK
<1>4. \A x \in found : x \in Dashboards /\ Bound(e, x)
    BY <1>1 DEF Concerns, Bound, SoundInv, ItemsBound
<1>5. frames[w] \in Seq(SUBSET Dashboards) /\ found \in SUBSET Dashboards
    BY InHand DEF SoundInv
<1> HIDE DEF found
<1>6. \A k \in DOMAIN fs : fs[k] = found \/ \E j \in DOMAIN frames[w] : fs[k] = frames[w][j]
    <2>1. /\ Len(fs) = 1 + Len(frames[w])
          /\ DOMAIN fs = 1..Len(fs)
          /\ DOMAIN frames[w] = 1..Len(frames[w])
          /\ Len(frames[w]) \in Nat
          /\ \A k \in 1..Len(fs) :
                fs[k] = IF k = 1 THEN found ELSE frames[w][k - 1]
        BY <1>5
    <2> HIDE DEF fs
    <2>2. QED
        BY <2>1
<1>7. \A k \in DOMAIN fs : \A x \in fs[k] : x \in Dashboards /\ Bound(e, x)
    BY <1>1, <1>4, <1>6, ThreadBefore
<1> HIDE DEF fs
<1>8. QED
    BY <1>2, <1>1, <1>3, <1>7, ThreadFrom

\* The copy that getOrCreatePipeline returns is sound for its dashboard.
LEMMA SoundLoad ==
    ASSUME SoundInv, Grows, NEW w \in Workers, NEW d \in Dashboards,
           LoadPipeline(w, d)
    PROVE  ThreadSound(w)'
<1> DEFINE fs == [frames[w] EXCEPT ![1] = @ \ {d}]
<1>1. PICK e \in Events : e = event[w] /\ EventSound(e) /\ event'[w] = e
    BY ThreadBefore DEF LoadPipeline
<1>2. EventSound(e)'
    BY <1>1, EventStays
<1>3. frames[w] \in Seq(SUBSET Dashboards) /\ frames[w] # <<>>
    BY InHand DEF LoadPipeline, ThreadOK, SoundInv
<1>4. d \in frames[w][1] /\ 1 \in DOMAIN frames[w]
    BY <1>3 DEF LoadPipeline
<1>5. Bound(e, d)
    BY <1>1, <1>4, ThreadBefore
<1>6. frames'[w] = fs
    BY DEF LoadPipeline, SoundInv, TypeOK, VariablesOK
<1>7. \A k \in DOMAIN fs : \A x \in fs[k] : x \in Dashboards /\ Bound(e, x)
    BY <1>1, ThreadBefore
<1>8. PICK c \in GetOrCreatePipeline(w, d) : copy'[w] = c /\ at'[w] = d
    BY DEF LoadPipeline, SoundInv, TypeOK, VariablesOK
<1>9. c.doc \in Documents /\ DocumentSound(d, c.doc)
    <2>1. CASE inserted[d] = {}
        BY <1>8, <2>1, EmptySound, EmptyDocumentType
        DEF GetOrCreatePipeline, NoCopy
    <2>2. CASE inserted[d] # {}
        <3>1. PICK i \in inserted[d] : c.doc = pipelines[d][i]
            BY <1>8, <2>2 DEF GetOrCreatePipeline
        <3>2. i \in Workers /\ pipelines[d][i] \in Documents
            BY DEF SoundInv, TypeOK, VariablesOK
        <3>3. QED
            BY <3>1, <3>2 DEF SoundInv, PipelinesSound
    <2>3. QED
        BY <2>1, <2>2
<1> HIDE DEF fs
<1>10. QED
    BY <1>1, <1>2, <1>5, <1>6, <1>7, <1>8, <1>9, ThreadFrom

\* An edit of the copy by a thread whose event keeps its kind and its fields.
LEMMA SoundEdit ==
    ASSUME SoundInv, Grows, NEW w \in Workers, pc[w] = "edit",
           NEW doc \in Documents, DocumentSound(at[w], doc), NEW resave,
           Edit(w, doc, resave),
           NEW e \in Events, event' = [event EXCEPT ![w] = e], EventSound(e),
           \A x \in Dashboards : Bound(event[w], x) => Bound(e, x)
    PROVE  ThreadSound(w)'
<1>1. EventSound(e)'
    BY EventStays
<1>2. PICK fs : fs = frames[w]
    OBVIOUS
<1>3. /\ event'[w] = e
      /\ frames'[w] = fs
      /\ at'[w] = at[w]
      /\ copy'[w].doc = doc
    BY <1>2 DEF Edit, SoundInv, TypeOK, VariablesOK, Copies
<1>4. \A k \in DOMAIN fs : \A x \in fs[k] : x \in Dashboards /\ Bound(e, x)
    BY <1>2, ThreadBefore
<1>5. at[w] \in Dashboards /\ Bound(e, at[w])
    BY ThreadBefore
<1>6. QED
    BY <1>1, <1>3, <1>4, <1>5, ThreadFrom

\* The commits of the artifacts of a component deployed by a dashboard.
LEMMA NewArtifactsSound ==
    ASSUME SoundInv, NEW d \in Dashboards, NEW doc, NEW app \in DeployOf[d],
           NEW env
    PROVE  DeploySound(d, UNION {ArtifactChanges(a) :
                                    a \in NewArtifacts(doc, app, env)})
<1>1. ASSUME NEW a \in NewArtifacts(doc, app, env), NEW r \in ArtifactChanges(a)
      PROVE  /\ a \in Artifacts
             /\ artifacts[a].info # "none"
             /\ AppOf[a] = app
             /\ Reported(r, JobOf[BuildOf[a]])
    <2>1. a \in Artifacts /\ artifacts[a].info # "none" /\ AppOf[a] = app
        BY DEF NewArtifacts
    <2>2. BuildOf[a] \in Builds
        BY <2>1, ConstantsAssumption
    <2>3. Reported(r, JobOf[BuildOf[a]])
        BY <2>1, <2>2
        DEF ArtifactChanges, SoundInv, ArtifactsSound, BuildsSound
    <2>4. QED
        BY <2>1, <2>3
<1>2. QED
    BY <1>1 DEF DeploySound

\* The four edits leave the thread with a sound copy.
LEMMA SoundEdits ==
    ASSUME SoundInv, Grows, NEW w \in Workers,
           \/ EditForCommit(w) \/ EditForFailure(w)
           \/ EditForSuccess(w) \/ EditForDeploy(w)
    PROVE  ThreadSound(w)'
<1> DEFINE doc == copy[w].doc
           d   == at[w]
           old == event[w]
<1>1. /\ pc[w] = "edit"
      /\ doc \in Documents /\ d \in Dashboards /\ DocumentSound(d, doc)
      /\ old \in Events /\ EventSound(old) /\ Bound(old, d)
      /\ event = [event EXCEPT ![w] = old]
    BY ThreadBefore
    DEF EditForCommit, EditForFailure, EditForSuccess, EditForDeploy, SoundInv,
        TypeOK, VariablesOK
<1>2. CASE EditForCommit(w)
    <2> DEFINE new == AddCommits(doc, "Commit", {old.rev})
    <2>1. old.rev \in Revs /\ commits[old.rev] = "New" /\ RepoOf[old.rev] \in ScmOf[d]
        BY <1>1, <1>2, EventFields DEF EditForCommit, EventSound, Bound
    <2>2. new \in Documents
        BY <1>1, <2>1, AddCommitsEffect DEF StageNames
    <2>3. DocumentSound(d, new)
        BY <1>1, <2>1, CommitEditSound
    <2>4. Edit(w, new, FALSE) /\ event' = event
        BY <1>2 DEF EditForCommit
    <2> HIDE DEF new
    <2>5. QED
        BY <1>1, <2>2, <2>3, <2>4, SoundEdit
<1>3. CASE EditForFailure(w)
    <2> DEFINE job == JobOf[old.build]
               new == AddFailedBuild(doc, job, old.changes)
    <2>1. /\ job \in Jobs /\ job \in everBound[d]
          /\ old.changes \in SUBSET Revs
          /\ \A r \in old.changes : Reported(r, job)
        BY <1>1, <1>3, EventFields DEF EditForFailure, EventSound, Bound
    <2> HIDE DEF job
    <2>2. new \in Documents
        BY <1>1, <2>1, AddFailedBuildEffect
    <2>3. DocumentSound(d, new)
        BY <1>1, <2>1, FailureEditSound
    <2>4. Edit(w, new, FALSE) /\ event' = event
        BY <1>3 DEF EditForFailure, job
    <2> HIDE DEF new
    <2>5. QED
        BY <1>1, <2>2, <2>3, <2>4, SoundEdit
<1>4. CASE EditForSuccess(w)
    <2> DEFINE b   == old.build
               own == FailedChanges(doc, JobOf[b])
               new == ProcessBuild(doc, JobOf[b], old.changes, MovableTo(b))
               e   == [old EXCEPT !.changes = @ \cup own]
    <2>1. /\ b \in Builds /\ JobOf[b] \in Jobs /\ JobOf[b] \in everBound[d]
          /\ old \in BuildEvents /\ old.kind = "Success"
          /\ builds[b].status # "none" /\ b \in succeeded
          /\ old.changes \in SUBSET Revs
          /\ \A r \in old.changes : Reported(r, JobOf[b])
        BY <1>1, <1>4, EventFields DEF EditForSuccess, EventSound, Bound
    <2>2. MovableTo(b) \in SUBSET Revs /\ own \in SUBSET Revs
        BY <1>1, FailedChangesType DEF MovableTo
    <2>3. new \in Documents
        BY <1>1, <2>1, <2>2, ProcessBuildEffect DEF BuildProcessed
    <2>4. DocumentSound(d, new)
        BY <1>1, <2>1, SuccessEditSound
    <2>5. \A r \in own : Reported(r, JobOf[b])
        BY <1>1 DEF DocumentSound, FailedSound, FailedChanges, FailedOf
    <2>6. /\ e \in BuildEvents
          /\ e.kind = "Success" /\ e.build = b /\ e.changes = old.changes \cup own
        BY <2>1, <2>2 DEF BuildEvents
    <2>7. Edit(w, new, doc.failedBuilds # {}) /\ event' = [event EXCEPT ![w] = e]
        BY <1>4 DEF EditForSuccess
    <2> HIDE DEF new, e
    <2>8. e \in Events
        BY <2>6 DEF Events
    <2>9. EventSound(e)
        BY <2>1, <2>5, <2>6 DEF EventSound
    <2>10. \A x \in Dashboards : Bound(old, x) => Bound(e, x)
        BY <2>1, <2>6 DEF Bound
    <2>11. QED
        BY <1>1, <2>3, <2>4, <2>7, <2>8, <2>9, <2>10, SoundEdit
<1>5. CASE EditForDeploy(w)
    <2> DEFINE as   == NewArtifacts(doc, old.app, old.env)
               revs == UNION {ArtifactChanges(a) : a \in as}
    <2>1. event' = event /\ old.app \in DeployOf[d] /\ old.env \in Envs
        BY <1>1, <1>5, EventFields DEF EditForDeploy, Bound
    <2>2. CASE Edit(w, doc, FALSE)
        BY <1>1, <2>1, <2>2, SoundEdit
    <2>3. ASSUME NEW a \in Artifacts,
                 Edit(w, Deploy(doc, old.env, revs, ArtifactTime[a]), FALSE)
          PROVE  ThreadSound(w)'
        <3> DEFINE new == Deploy(doc, old.env, revs, ArtifactTime[a])
        <3>1. revs \in SUBSET Revs
            BY ArtifactChangesType DEF NewArtifacts, SoundInv
        <3>2. DeploySound(d, revs)
            BY <1>1, <2>1, NewArtifactsSound
        <3>3. ArtifactTime[a] \in Nat
            BY ConstantsAssumption
        <3> HIDE DEF revs
        <3>4. new \in Documents
            BY <1>1, <2>1, <3>1, <3>3, DeployEffect
        <3>5. DocumentSound(d, new)
            BY <1>1, <2>1, <3>1, <3>2, <3>3, DeployEditSound
        <3>6. Edit(w, new, FALSE)
            BY <2>3 DEF revs
        <3> HIDE DEF new
        <3>7. QED
            BY <1>1, <2>1, <3>4, <3>5, <3>6, SoundEdit
    <2>4. QED
        BY <1>5, <2>2, <2>3 DEF EditForDeploy
<1>6. QED
    BY <1>2, <1>3, <1>4, <1>5

\* Storing the copy and saving the build again change nothing in hand.
LEMMA SoundKeep ==
    ASSUME SoundInv, Grows, NEW w \in Workers,
           event'[w] = event[w], frames'[w] = frames[w], at'[w] = at[w],
           copy'[w] = copy[w],
           pc'[w] \in {"edit", "store", "resave"} =>
               pc[w] \in {"edit", "store", "resave"}
    PROVE  ThreadSound(w)'
<1>1. PICK e \in Events : e = event[w] /\ EventSound(e) /\ event'[w] = e
    BY ThreadBefore
<1>2. PICK fs : fs = frames[w]
    OBVIOUS
<1>3. /\ frames'[w] = fs
      /\ \A k \in DOMAIN fs : \A x \in fs[k] : x \in Dashboards /\ Bound(e, x)
    BY <1>1, <1>2, ThreadBefore
<1>4. pc'[w] \in {"edit", "store", "resave"} =>
          \E d \in Dashboards, doc \in Documents :
              /\ at'[w] = d /\ copy'[w].doc = doc
              /\ Bound(e, d) /\ DocumentSound(d, doc)
    BY <1>1, ThreadBefore
<1>5. EventSound(e)'
    BY <1>1, EventStays
<1>6. QED
    BY <1>1, <1>3, <1>4, <1>5, ThreadFrom

\* A call that returns leaves its caller sound.
LEMMA SoundReturn ==
    ASSUME SoundInv, Grows, NEW w \in Workers, Return(w)
    PROVE  ThreadSound(w)'
<1>1. CASE Stop(w)
    BY <1>1, StopSound
<1>2. CASE ~Stop(w)
    <2> DEFINE s == frames[w]
    <2>1. PICK e \in Events : e = event[w] /\ EventSound(e) /\ event'[w] = e
        BY <1>2, ThreadBefore DEF Return
    <2>2. EventSound(e)'
        BY <2>1, EventStays
    <2>3. s \in Seq(SUBSET Dashboards) /\ s # <<>>
        BY InHand DEF Return, ThreadOK, SoundInv
    <2>4. frames'[w] = Tail(s) /\ pc'[w] = "next"
        BY <1>2 DEF Return, SoundInv, TypeOK, VariablesOK
    <2> HIDE DEF s
    <2>5. \A k \in DOMAIN Tail(s) : k + 1 \in DOMAIN s /\ Tail(s)[k] = s[k + 1]
        <3>1. /\ Tail(s) \in Seq(SUBSET Dashboards)
              /\ Len(Tail(s)) = Len(s) - 1
              /\ \A i \in 1..Len(Tail(s)) : Tail(s)[i] = s[i + 1]
            BY <2>3, HeadTailProperties
        <3>2. /\ Len(s) \in Nat
              /\ DOMAIN s = 1..Len(s)
              /\ DOMAIN Tail(s) = 1..Len(Tail(s))
            BY <2>3, <3>1, LenProperties
        <3>3. QED
            BY <3>1, <3>2
    <2>6. \A k \in DOMAIN Tail(s) : \A x \in Tail(s)[k] :
             x \in Dashboards /\ Bound(e, x)
        BY <2>1, <2>5, ThreadBefore DEF s
    <2>7. QED
        BY <2>1, <2>2, <2>4, <2>6, ThreadFrom
<1>3. QED
    BY <1>1, <1>2

\* Every step of the listener leaves its thread sound.
LEMMA SoundHandle ==
    ASSUME SoundInv, Grows, NEW w \in Workers, Handle(w)
    PROVE  ThreadSound(w)'
<1>1. ASSUME NEW d \in Dashboards, ItemMissing(w, d) PROVE ThreadSound(w)'
    BY <1>1, StopSound DEF ItemMissing
<1>2. CASE StorePipeline(w) \/ ResaveBuild(w)
    BY <1>2, SoundKeep
    DEF StorePipeline, ResaveBuild, SoundInv, TypeOK, VariablesOK
<1>3. CASE StackOverflow(w)
    BY <1>3, StopSound DEF StackOverflow
<1>4. QED
    BY <1>1, <1>2, <1>3, SoundFind, SoundLoad, SoundEdits, SoundReturn DEF Handle

\* Every step leaves every thread sound.
LEMMA SoundThreads ==
    ASSUME SoundInv, [Next]_vars, Grows
    PROVE  \A v \in Workers : ThreadSound(v)'
<1>1. CASE Administer
    BY <1>1, SoundAdminister
<1>2. ASSUME NEW w \in Workers, Save(w) \/ Handle(w) \/ Crash(w)
      PROVE  \A v \in Workers : ThreadSound(v)'
    <2>1. ThreadSound(w)'
        BY <1>2, SoundSave, SoundHandle, StopSound DEF Crash
    <2>2. \A v \in Workers \ {w} : SameThread(v)
        BY <1>2, OtherThreadsSame DEF SoundInv
    <2>3. QED
        BY <2>1, <2>2, SameThreadSound
<1>3. CASE UNCHANGED vars
    BY <1>3, SameThreadSound DEF vars, thread, SameThread
<1>4. QED
    BY <1>1, <1>2, <1>3 DEF Next
-----------------------------------------------------------------------------
\* The inductive invariant holds initially.
LEMMA SoundInit == Init => SoundInv
<1> SUFFICES ASSUME Init PROVE SoundInv
    OBVIOUS
<1>1. TypeOK
    BY TypeInit
<1>2. BuildsSound /\ ArtifactsSound /\ ItemsBound
    BY DEF Init, BuildsSound, ArtifactsSound, ItemsBound
<1>3. PipelinesSound
    BY EmptySound DEF Init, PipelinesSound
<1>4. ASSUME NEW w \in Workers PROVE ThreadSound(w)
    BY DEF Init, ThreadSound, EventSound, NoEvent, FramesBound, Visiting
<1>5. QED
    BY <1>1, <1>2, <1>3, <1>4 DEF SoundInv

\* The inductive invariant is kept by every step.
LEMMA SoundStep == SoundInv /\ [Next]_vars => SoundInv'
<1> SUFFICES ASSUME SoundInv, [Next]_vars PROVE SoundInv'
    OBVIOUS
<1>1. TypeOK' /\ Grows
    BY TypeStep, StepGrows DEF SoundInv
<1>2. QED
    BY <1>1, SoundBuilds, SoundArtifacts, SoundItems, SoundPipelines,
       SoundThreads
    DEF SoundInv

\* However many threads save documents, in whatever order their steps fall and
\* wherever they die, no pipeline shows a commit that is not its dashboard's.
THEOREM Sound == Spec => []PipelinesSound
<1>1. Spec => []SoundInv
    BY SoundInit, SoundStep, PTL DEF Spec
<1>2. SoundInv => PipelinesSound
    BY DEF SoundInv
<1>3. QED
    BY <1>1, <1>2, PTL
=============================================================================
