------------------------ MODULE PipelineLedger_proofs ------------------------
(***************************************************************************)
(* The pipelines implement StageLedger, whatever the number of threads,    *)
(* dashboards, jobs and documents, and wherever the threads die, as long   *)
(* as no two threads have the pipeline of one dashboard in hand (Apart).   *)
(* When two have, they do not: see the run lost_update.                    *)
(*                                                                         *)
(* Apart makes the difference because between the load and the store of a  *)
(* pipeline nobody else stores it: CopyCurrent says that the copy in hand  *)
(* is one step of the ledger ahead of the document, and that a dashboard   *)
(* without one gets no second document.                                    *)
(*                                                                         *)
(* For the same reason a second save of a build by the only thread always  *)
(* finds one more pipeline without failed builds, which bounds the nesting *)
(* (third part).                                                           *)
(***************************************************************************)
EXTENDS PipelineSound_proofs, FiniteSetTheorems

\* One step of the ledger, or none, on the pipeline of one dashboard.
Edited(old, new) ==
    \/ /\ \E r \in Revs :
             new.stages = [old.stages EXCEPT !["Commit"] = @ \cup {r}]
       /\ new.failedBuilds = old.failedBuilds
    \/ /\ new.stages = old.stages
       /\ \E f \in FailedBuilds :
             new.failedBuilds = old.failedBuilds \cup {f}
    \/ \E job \in Jobs, revs \in SUBSET Revs :
          /\ new.stages = [old.stages EXCEPT !["Build"] =
                              @ \cup (revs \cup FailedChanges(old, job))]
          /\ new.failedBuilds = old.failedBuilds \ FailedOf(old, job)
    \/ /\ \E env \in Envs, revs \in SUBSET Revs :
             new.stages = [old.stages EXCEPT ![env] = @ \cup revs]
       /\ new.failedBuilds = old.failedBuilds
    \/ /\ new.stages = old.stages
       /\ new.failedBuilds = old.failedBuilds

EmptyUntilInserted ==
    \A d \in Dashboards, i \in Workers :
        i \notin inserted[d] => pipelines[d][i] = EmptyDocument

OneInserted == \A d \in Dashboards : \A i, j \in inserted[d] : i = j

\* The copy a thread holds is of the only document there is, or will be, of the
\* dashboard, and what it will store is one step of the ledger ahead of it.
Current(w) ==
    /\ HoldsCopy(w) => inserted[at[w]] \subseteq {copy[w].id}
    /\ pc[w] = "edit" => copy[w].doc = pipelines[at[w]][copy[w].id]
    /\ pc[w] = "store" => Edited(pipelines[at[w]][copy[w].id], copy[w].doc)

CopyCurrent == \A w \in Workers : Current(w)

LedgerInv == TypeOK /\ EmptyUntilInserted /\ OneInserted /\ CopyCurrent

\* The invariant of the refinement holds initially.
LEMMA LedgerInvInit == Init => LedgerInv
<1> SUFFICES ASSUME Init PROVE LedgerInv
    OBVIOUS
<1>1. EmptyUntilInserted /\ OneInserted /\ CopyCurrent
    BY DEF Init, EmptyUntilInserted, OneInserted, CopyCurrent, Current, HoldsCopy
<1>2. QED
    BY <1>1, TypeInit DEF LedgerInv

\* Each edit is one step of the ledger.
LEMMA EditsAreSteps ==
    ASSUME LedgerInv, NEW w \in Workers,
           \/ EditForCommit(w) \/ EditForFailure(w)
           \/ EditForSuccess(w) \/ EditForDeploy(w)
    PROVE  /\ Edited(copy[w].doc, copy'[w].doc)
           /\ copy'[w].id = copy[w].id
           /\ UNCHANGED <<at, pipelines, inserted>>
           /\ pc'[w] = "store"
<1> DEFINE doc == copy[w].doc
           e   == event[w]
<1>1. /\ pc \in [Workers -> Locations] /\ copy \in [Workers -> Copies]
      /\ doc \in Documents /\ e \in Events
    BY InHand DEF LedgerInv, TypeOK, VariablesOK, Locations
<1>2. ASSUME NEW new, NEW resave, Edit(w, new, resave)
      PROVE  /\ copy'[w].doc = new
             /\ copy'[w].id = copy[w].id
             /\ UNCHANGED <<at, pipelines, inserted>>
             /\ pc'[w] = "store"
    BY <1>1, <1>2 DEF Edit, documents, Copies
<1>3. CASE EditForCommit(w)
    <2> DEFINE new == AddCommits(doc, "Commit", {e.rev})
    <2>1. e.rev \in Revs
        BY <1>1, <1>3, EventFields DEF EditForCommit
    <2>2. /\ new \in Documents
          /\ new.stages = [doc.stages EXCEPT !["Commit"] = @ \cup {e.rev}]
          /\ new.last = doc.last
          /\ new.failedBuilds = doc.failedBuilds
        BY <1>1, <2>1, AddCommitsEffect DEF StageNames
    <2>3. Edit(w, new, FALSE)
        BY <1>3 DEF EditForCommit
    <2> HIDE DEF new, doc, e
    <2>4. Edited(doc, new)
        BY <2>1, <2>2 DEF Edited
    <2>5. QED
        BY <1>2, <2>3, <2>4 DEF doc
<1>4. CASE EditForFailure(w)
    <2> DEFINE job == JobOf[e.build]
               new == AddFailedBuild(doc, job, e.changes)
               f   == [job |-> job, changes |-> e.changes]
    <2>1. job \in Jobs /\ e.changes \in SUBSET Revs
        BY <1>1, <1>4, EventFields DEF EditForFailure
    <2>2. f \in FailedBuilds
        BY <2>1 DEF FailedBuilds
    <2> HIDE DEF job
    <2>3. /\ new \in Documents
          /\ new.stages = doc.stages
          /\ new.last = doc.last
          /\ new.failedBuilds = doc.failedBuilds \cup {f}
        BY <1>1, <2>1, AddFailedBuildEffect
    <2>4. Edit(w, new, FALSE)
        BY <1>4 DEF EditForFailure, job
    <2> HIDE DEF new, doc, e, f
    <2>5. Edited(doc, new)
        BY <2>2, <2>3 DEF Edited
    <2>6. QED
        BY <1>2, <2>4, <2>5 DEF doc
<1>5. CASE EditForSuccess(w)
    <2> DEFINE job     == JobOf[e.build]
               movable == MovableTo(e.build)
               moved   == e.changes \cup (doc.stages["Commit"] \cap movable)
               new     == ProcessBuild(doc, job, e.changes, movable)
    <2>1. job \in Jobs /\ e.changes \in SUBSET Revs /\ movable \in SUBSET Revs
        BY <1>1, <1>5, EventFields DEF EditForSuccess, MovableTo
    <2> HIDE DEF job, movable
    <2>2. BuildProcessed(new, doc, job, e.changes, movable)
        BY <1>1, <2>1, ProcessBuildEffect
    <2>3. Edit(w, new, doc.failedBuilds # {})
        BY <1>5 DEF EditForSuccess, job, movable
    <2> HIDE DEF new, doc
    <2>4. /\ doc.stages \in [StageNames -> SUBSET Revs]
          /\ "Commit" \in StageNames
        BY <1>1 DEF Documents, StageNames
    <2>5. moved \in SUBSET Revs
        BY <2>1, <2>4
    <2>6. /\ new.stages = [doc.stages EXCEPT !["Build"] =
                              @ \cup (moved \cup FailedChanges(doc, job))]
          /\ new.failedBuilds = doc.failedBuilds \ FailedOf(doc, job)
        BY <2>2, <2>4 DEF BuildProcessed
    <2> HIDE DEF moved
    <2>7. Edited(doc, new)
        BY <2>1, <2>5, <2>6 DEF Edited
    <2>8. QED
        BY <1>2, <2>3, <2>7 DEF doc
<1>6. CASE EditForDeploy(w)
    <2> DEFINE as   == NewArtifacts(doc, e.app, e.env)
               revs == UNION {ArtifactChanges(a) : a \in as}
    <2>1. e.env \in Envs
        BY <1>1, <1>6, EventFields DEF EditForDeploy
    <2>2. CASE Edit(w, doc, FALSE)
        BY <1>2, <2>2 DEF Edited
    <2>3. ASSUME NEW a \in Artifacts,
                 Edit(w, Deploy(doc, e.env, revs, ArtifactTime[a]), FALSE)
          PROVE  /\ Edited(copy[w].doc, copy'[w].doc)
                 /\ copy'[w].id = copy[w].id
                 /\ UNCHANGED <<at, pipelines, inserted>>
                 /\ pc'[w] = "store"
        <3> DEFINE new == Deploy(doc, e.env, revs, ArtifactTime[a])
        <3>1. revs \in SUBSET Revs
            BY ArtifactChangesType DEF NewArtifacts, LedgerInv
        <3>2. ArtifactTime[a] \in Nat
            BY ConstantsAssumption
        <3> HIDE DEF revs
        <3>3. /\ new \in Documents
              /\ new.stages = [doc.stages EXCEPT ![e.env] = @ \cup revs]
              /\ new.last = [doc.last EXCEPT ![e.env] = ArtifactTime[a]]
              /\ new.failedBuilds = doc.failedBuilds
            BY <1>1, <2>1, <3>1, <3>2, DeployEffect
        <3>4. Edit(w, new, FALSE)
            BY <2>3 DEF revs
        <3> HIDE DEF new, doc
        <3>5. Edited(doc, new)
            BY <2>1, <3>1, <3>3 DEF Edited
        <3>6. QED
            BY <1>2, <3>4, <3>5 DEF doc
    <2>4. QED
        BY <1>6, <2>2, <2>3 DEF EditForDeploy
<1>7. QED
    BY <1>3, <1>4, <1>5, <1>6

\* Every step but a store leaves the documents alone.
LEMMA DocumentsChange ==
    ASSUME [Next]_vars
    PROVE  (\E w \in Workers : StorePipeline(w)) \/ UNCHANGED documents
    BY DEF Next, Administer, CreateDashboard, CreateItem, DeleteDashboard,
           DeleteItem, LifeStep, AssociateJob, SaveArtifact, Save, SaveCommit,
           SaveBuild, SaveEnvironmentComponent, Search, Handle, FindDashboards,
           LoadPipeline, ItemMissing, EditForCommit, EditForFailure,
           EditForSuccess, EditForDeploy, Edit, ResaveBuild, StackOverflow,
           Return, Crash, vars

\* A document stays empty until it is inserted.
LEMMA EmptyKept ==
    ASSUME LedgerInv, [Next]_vars
    PROVE  EmptyUntilInserted'
<1>1. CASE UNCHANGED documents
    BY <1>1 DEF documents, LedgerInv, EmptyUntilInserted
<1>2. ASSUME NEW w \in Workers, StorePipeline(w) PROVE EmptyUntilInserted'
    BY <1>2 DEF StorePipeline, LedgerInv, TypeOK, VariablesOK, EmptyUntilInserted
<1>3. QED
    BY <1>1, <1>2, DocumentsChange

\* A document is inserted by the thread that holds the only copy of it.
LEMMA OneInsertedKept ==
    ASSUME LedgerInv, [Next]_vars
    PROVE  OneInserted'
<1>1. CASE UNCHANGED documents
    BY <1>1 DEF documents, LedgerInv, OneInserted
<1>2. ASSUME NEW w \in Workers, StorePipeline(w) PROVE OneInserted'
    <2>1. inserted[at[w]] \subseteq {copy[w].id}
        BY <1>2 DEF StorePipeline, HoldsCopy, LedgerInv, CopyCurrent, Current
    <2>2. QED
        BY <1>2, <2>1
        DEF StorePipeline, LedgerInv, TypeOK, VariablesOK, OneInserted
<1>3. QED
    BY <1>1, <1>2, DocumentsChange

\* The copy a thread loads is the document it will overwrite.
LEMMA LoadIsCurrent ==
    ASSUME LedgerInv, NEW w \in Workers, NEW d \in Dashboards,
           LoadPipeline(w, d)
    PROVE  Current(w)'
<1>1. PICK c \in GetOrCreatePipeline(w, d) : copy'[w] = c
    BY DEF LoadPipeline, LedgerInv, TypeOK, VariablesOK
<1>2. pc'[w] = "edit" /\ at'[w] = d /\ UNCHANGED documents
    BY DEF LoadPipeline, LedgerInv, TypeOK, VariablesOK
<1>3. c.doc = pipelines[d][c.id] /\ inserted[d] \subseteq {c.id}
    <2>1. CASE inserted[d] = {}
        BY <1>1, <2>1
        DEF GetOrCreatePipeline, NoCopy, LedgerInv, EmptyUntilInserted
    <2>2. CASE inserted[d] # {}
        BY <1>1, <2>2 DEF GetOrCreatePipeline, LedgerInv, OneInserted
    <2>3. QED
        BY <2>1, <2>2
<1>4. QED
    BY <1>1, <1>2, <1>3 DEF Current, documents

\* A search that found no pipeline will insert an empty one.
LEMMA SearchIsCurrent ==
    ASSUME LedgerInv, NEW w \in Workers, NEW d \in Dashboards, Search(w, d)
    PROVE  Current(w)'
<1>1. /\ pc'[w] = "store" /\ at'[w] = d /\ UNCHANGED documents
      /\ copy'[w].id = w /\ copy'[w].doc = EmptyDocument
      /\ inserted[d] = {}
    BY DEF Search, NoCopy, LedgerInv, TypeOK, VariablesOK
<1>2. pipelines[d][w] = EmptyDocument
    BY <1>1 DEF LedgerInv, EmptyUntilInserted
<1>3. pipelines'[at'[w]][copy'[w].id] = copy'[w].doc
    BY <1>1, <1>2 DEF documents
<1>4. Edited(pipelines[at[w]][copy[w].id], copy[w].doc)'
    BY <1>3 DEF Edited
<1>5. QED
    BY <1>1, <1>4 DEF Current, documents

\* What a thread's step leaves it with when it neither loads, edits nor searches.
LEMMA NothingInHand ==
    ASSUME LedgerInv, NEW w \in Workers,
           \/ \E r \in Revs, type \in {"New", "Other"} : SaveCommit(w, r, type)
           \/ \E b \in Builds, status \in BuildStatuses \ {"none"} :
                 SaveBuild(w, b, status)
           \/ \E app \in Apps, env \in Envs :
                 SaveEnvironmentComponent(w, app, env)
           \/ FindDashboards(w) \/ \E d \in Dashboards : ItemMissing(w, d)
           \/ StorePipeline(w) \/ ResaveBuild(w) \/ StackOverflow(w)
           \/ Return(w) \/ Crash(w)
    PROVE  ~HoldsCopy(w)'
<1> SUFFICES pc'[w] \notin {"edit", "store"}
    BY DEF HoldsCopy
<1> pc \in [Workers -> Locations]
    BY DEF LedgerInv, TypeOK, VariablesOK, Locations
<1>1. ASSUME NEW e, Publish(w, e) PROVE pc'[w] = "find"
    BY <1>1 DEF Publish
<1>2. CASE Stop(w)
    BY <1>2 DEF Stop
<1>3. ASSUME NEW r \in Revs, NEW type \in {"New", "Other"},
             SaveCommit(w, r, type)
      PROVE  pc'[w] \notin {"edit", "store"}
    BY <1>1, <1>3 DEF SaveCommit, thread
<1>4. ASSUME NEW b \in Builds, NEW status \in BuildStatuses \ {"none"},
             SaveBuild(w, b, status)
      PROVE  pc'[w] \notin {"edit", "store"}
    BY <1>1, <1>4 DEF SaveBuild, thread
<1>5. ASSUME NEW app \in Apps, NEW env \in Envs,
             SaveEnvironmentComponent(w, app, env)
      PROVE  pc'[w] \notin {"edit", "store"}
    BY <1>1, <1>5 DEF SaveEnvironmentComponent
<1>6. CASE \/ \E d \in Dashboards : ItemMissing(w, d)
           \/ StackOverflow(w) \/ Crash(w)
    BY <1>2, <1>6 DEF ItemMissing, StackOverflow, Crash
<1>7. CASE FindDashboards(w) \/ StorePipeline(w) \/ ResaveBuild(w)
    BY <1>7 DEF FindDashboards, StorePipeline, ResaveBuild
<1>8. CASE Return(w)
    BY <1>2, <1>8 DEF Return
<1>9. QED
    BY <1>3, <1>4, <1>5, <1>6, <1>7, <1>8

\* A copy stays current while its thread does nothing and nobody stores the
\* pipeline of the dashboard.
LEMMA SameIsCurrent ==
    ASSUME NEW w \in Workers, Current(w), SameThread(w),
           HoldsCopy(w) => /\ pipelines'[at[w]] = pipelines[at[w]]
                           /\ inserted'[at[w]] = inserted[at[w]]
    PROVE  Current(w)'
<1>1. HoldsCopy(w)' <=> HoldsCopy(w)
    BY DEF SameThread, HoldsCopy
<1>2. CASE ~HoldsCopy(w)
    BY <1>1, <1>2 DEF Current, HoldsCopy
<1>3. CASE HoldsCopy(w)
    <2>1. PICK old, new :
             /\ old = pipelines[at[w]][copy[w].id] /\ new = copy[w].doc
             /\ old = pipelines'[at'[w]][copy'[w].id] /\ new = copy'[w].doc
        BY <1>3 DEF SameThread
    <2>2. pc[w] = "store" => Edited(old, new)
        BY <2>1 DEF Current
    <2>3. pc[w] = "store" =>
              Edited(pipelines[at[w]][copy[w].id], copy[w].doc)'
        BY <2>1, <2>2 DEF Edited, FailedChanges, FailedOf
    <2>4. QED
        BY <1>1, <1>3, <2>1, <2>3 DEF Current, SameThread, HoldsCopy
<1>4. QED
    BY <1>2, <1>3

\* Each step of a thread leaves it with a current copy, or none.
LEMMA OwnCopyKept ==
    ASSUME LedgerInv, NEW w \in Workers, Save(w) \/ Handle(w) \/ Crash(w)
    PROVE  Current(w)'
<1>1. CASE ~HoldsCopy(w)'
    BY <1>1 DEF Current, HoldsCopy
<1>2. CASE \/ EditForCommit(w) \/ EditForFailure(w)
           \/ EditForSuccess(w) \/ EditForDeploy(w)
    <2>1. /\ copy[w].doc = pipelines[at[w]][copy[w].id]
          /\ inserted[at[w]] \subseteq {copy[w].id}
        BY <1>2
        DEF EditForCommit, EditForFailure, EditForSuccess, EditForDeploy,
            LedgerInv, CopyCurrent, Current, HoldsCopy
    <2>2. /\ Edited(copy[w].doc, copy'[w].doc)
          /\ copy[w].doc = pipelines'[at'[w]][copy'[w].id]
          /\ inserted'[at'[w]] \subseteq {copy'[w].id}
          /\ pc'[w] = "store"
        BY <1>2, <2>1, EditsAreSteps
    <2>3. Edited(pipelines[at[w]][copy[w].id], copy[w].doc)'
        BY <2>2 DEF Edited, FailedChanges, FailedOf
    <2>4. QED
        BY <2>2, <2>3 DEF Current
<1>3. CASE Save(w)
    BY <1>1, <1>3, NothingInHand, SearchIsCurrent DEF Save
<1>4. CASE Handle(w) \/ Crash(w)
    BY <1>1, <1>2, <1>4, NothingInHand, LoadIsCurrent DEF Handle
<1>5. QED
    BY <1>3, <1>4

\* While no two threads have one pipeline in hand, nobody changes the document
\* behind a copy.
LEMMA CopyKept ==
    ASSUME LedgerInv, Apart, [Next]_vars
    PROVE  CopyCurrent'
<1> SUFFICES ASSUME NEW v \in Workers PROVE Current(v)'
    BY DEF CopyCurrent
<1>1. Current(v)
    BY DEF LedgerInv, CopyCurrent
<1>2. CASE UNCHANGED thread /\ UNCHANGED documents
    BY <1>1, <1>2, SameIsCurrent DEF thread, documents, SameThread
<1>3. CASE Administer
    BY <1>2, <1>3
    DEF Administer, CreateDashboard, CreateItem, DeleteDashboard, DeleteItem,
        LifeStep, AssociateJob, SaveArtifact
<1>4. ASSUME NEW w \in Workers, Save(w) \/ Handle(w) \/ Crash(w), v # w
      PROVE  Current(v)'
    <2>1. SameThread(v)
        BY <1>4, OtherThreadsSame DEF LedgerInv
    <2>2. CASE UNCHANGED documents
        BY <1>1, <2>1, <2>2, SameIsCurrent DEF documents
    <2>3. ASSUME NEW u \in Workers, StorePipeline(u)
          PROVE  Current(v)'
        <3>1. u # v
            BY <2>1, <2>3
            DEF StorePipeline, SameThread, LedgerInv, TypeOK, VariablesOK
        <3>2. HoldsCopy(v) => at[v] # at[u]
            BY <2>3, <3>1 DEF Apart, StorePipeline, HoldsCopy
        <3>3. /\ at[u] \in Dashboards
              /\ HoldsCopy(v) => at[v] \in Dashboards
            BY <2>3, InHand DEF StorePipeline, HoldsCopy, LedgerInv, ThreadOK
        <3>4. HoldsCopy(v) => /\ pipelines'[at[v]] = pipelines[at[v]]
                              /\ inserted'[at[v]] = inserted[at[v]]
            BY <2>3, <3>2, <3>3
            DEF StorePipeline, LedgerInv, TypeOK, VariablesOK
        <3>5. QED
            BY <1>1, <2>1, <3>4, SameIsCurrent
    <2>4. QED
        BY <2>2, <2>3, DocumentsChange
<1>5. CASE UNCHANGED vars
    BY <1>2, <1>5 DEF vars
<1>6. QED
    BY <1>3, <1>4, <1>5, OwnCopyKept DEF Next

\* The invariant of the refinement is inductive while the threads are apart.
LEMMA LedgerInvStep == LedgerInv /\ Apart /\ [Next]_vars => LedgerInv'
    BY TypeStep, EmptyKept, OneInsertedKept, CopyKept DEF LedgerInv

\* One thread is always apart.
LEMMA AloneIsApart ==
    ASSUME NEW w, Workers = {w}
    PROVE  Apart
    BY DEF Apart
-----------------------------------------------------------------------------
(***************************************************************************)
(* The refinement.                                                         *)
(***************************************************************************)

\* What readers see of a pipeline is what its one document holds.
ShowsOne ==
    \A d \in Dashboards, i \in Workers :
        inserted[d] \subseteq {i} =>
            /\ Entered[d] = pipelines[d][i].stages
            /\ Waiting[d] = pipelines[d][i].failedBuilds

\* A dashboard without a document shows what an empty one would.
LEMMA LedgerState == LedgerInv => ShowsOne
<1> SUFFICES ASSUME LedgerInv, NEW d \in Dashboards, NEW i \in Workers,
                    inserted[d] \subseteq {i}
             PROVE  /\ Entered[d] = pipelines[d][i].stages
                    /\ Waiting[d] = pipelines[d][i].failedBuilds
    BY DEF ShowsOne
<1> DEFINE doc == pipelines[d][i]
<1>1. doc.stages \in [StageNames -> SUBSET Revs]
    BY DEF LedgerInv, TypeOK, VariablesOK, Documents
<1>2. CASE inserted[d] = {}
    <2>1. doc = EmptyDocument
        BY <1>2 DEF LedgerInv, EmptyUntilInserted
    <2>2. Entered[d] = [s \in StageNames |-> {}] /\ Waiting[d] = {}
        BY <1>2 DEF Entered, Waiting
    <2>3. QED
        BY <2>1, <2>2 DEF EmptyDocument
<1>3. CASE inserted[d] = {i}
    <2>1. \A s \in StageNames : Entered[d][s] = doc.stages[s]
        BY <1>3 DEF Entered
    <2>2. Entered[d] = [s \in StageNames |-> Entered[d][s]]
        BY DEF Entered
    <2>3. Entered[d] = doc.stages
        BY <1>1, <2>1, <2>2
    <2>4. Waiting[d] = doc.failedBuilds
        BY <1>3 DEF Waiting
    <2>5. QED
        BY <2>3, <2>4
<1>4. QED
    BY <1>2, <1>3

\* The same of the next state.
LEMMA LedgerStateNext == LedgerInv' => ShowsOne'
    BY LedgerState, PTL

\* The instance of the ledger has the stages and failed builds of the pipelines.
LEMMA LedgerNames ==
    Ledger!StageNames = StageNames /\ Ledger!FailedBuilds = FailedBuilds
    BY DEF Ledger!StageNames, Ledger!FailedBuilds, StageNames, FailedBuilds

\* Saving the copy is the step of the ledger that its edit prepared.
LEMMA StoreIsStep ==
    ASSUME LedgerInv, LedgerInv', NEW w \in Workers, StorePipeline(w)
    PROVE  [Ledger!LedgerNext]_<<Entered, Waiting>>
<1> DEFINE d   == at[w]
           i   == copy[w].id
           old == pipelines[d][i]
           new == copy[w].doc
<1>1. /\ d \in Dashboards /\ i \in Workers
      /\ Edited(old, new) /\ new \in Documents
      /\ inserted[d] \subseteq {i}
    BY InHand
    DEF StorePipeline, LedgerInv, CopyCurrent, Current, HoldsCopy, ThreadOK
<1>2. /\ pipelines' = [pipelines EXCEPT ![d][i] = new]
      /\ inserted' = [inserted EXCEPT ![d] = @ \cup {i}]
    BY DEF StorePipeline
<1>3. /\ pipelines \in [Dashboards -> [Workers -> Documents]]
      /\ inserted \in [Dashboards -> SUBSET Workers]
    BY DEF LedgerInv, TypeOK, VariablesOK
<1>4. /\ pipelines'[d][i] = new /\ inserted'[d] \subseteq {i}
      /\ \A x \in Dashboards \ {d} : /\ pipelines'[x] = pipelines[x]
                                     /\ inserted'[x] = inserted[x]
    BY <1>1, <1>2, <1>3
<1>5. Entered[d] = old.stages /\ Waiting[d] = old.failedBuilds
    BY <1>1, LedgerState DEF ShowsOne
<1>6. Entered'[d] = new.stages /\ Waiting'[d] = new.failedBuilds
    BY <1>1, <1>4, LedgerStateNext DEF ShowsOne
<1> HIDE DEF d, i, old, new
<1>7. /\ Entered' = [Entered EXCEPT ![d] = new.stages]
      /\ Waiting' = [Waiting EXCEPT ![d] = new.failedBuilds]
    <2>1. \A x \in Dashboards \ {d} : /\ Entered'[x] = Entered[x]
                                      /\ Waiting'[x] = Waiting[x]
        BY <1>4 DEF Entered, Waiting
    <2>2. /\ Entered = [x \in Dashboards |-> Entered[x]]
          /\ Waiting = [x \in Dashboards |-> Waiting[x]]
          /\ Entered' = [x \in Dashboards |-> Entered'[x]]
          /\ Waiting' = [x \in Dashboards |-> Waiting'[x]]
        BY DEF Entered, Waiting
    <2>3. QED
        BY <1>1, <1>6, <2>1, <2>2
<1>8. /\ Entered = [Entered EXCEPT ![d] = old.stages]
      /\ Waiting = [Waiting EXCEPT ![d] = old.failedBuilds]
    BY <1>5 DEF Entered, Waiting
<1>9. ASSUME NEW s \in StageNames, NEW revs,
             new.stages = [old.stages EXCEPT ![s] = @ \cup revs]
      PROVE  Ledger!Enter(d, s, revs)
    BY <1>5, <1>7, <1>9 DEF Ledger!Enter
<1>10. new.failedBuilds = old.failedBuilds => Waiting' = Waiting
    BY <1>5, <1>7, <1>8
<1>11. new.stages = old.stages => Entered' = Entered
    BY <1>5, <1>7, <1>8
<1>12. {"Commit", "Build"} \cup Envs \subseteq StageNames
    BY DEF StageNames
<1>13. CASE /\ \E r \in Revs :
                  new.stages = [old.stages EXCEPT !["Commit"] = @ \cup {r}]
            /\ new.failedBuilds = old.failedBuilds
    <2>1. PICK r \in Revs :
             new.stages = [old.stages EXCEPT !["Commit"] = @ \cup {r}]
        BY <1>13
    <2>2. Ledger!CommitEnters(d, r)
        BY <1>9, <1>10, <1>12, <1>13, <2>1 DEF Ledger!CommitEnters
    <2>3. QED
        BY <1>1, <2>2 DEF Ledger!LedgerNext
<1>14. CASE /\ new.stages = old.stages
            /\ \E f \in FailedBuilds :
                  new.failedBuilds = old.failedBuilds \cup {f}
    <2>1. PICK f \in FailedBuilds : new.failedBuilds = old.failedBuilds \cup {f}
        BY <1>14
    <2>2. Ledger!BuildFails(d, f)
        BY <1>5, <1>7, <1>11, <1>14, <2>1 DEF Ledger!BuildFails
    <2>3. QED
        BY <1>1, <2>2, LedgerNames DEF Ledger!LedgerNext
<1>15. CASE \E job \in Jobs, revs \in SUBSET Revs :
               /\ new.stages = [old.stages EXCEPT !["Build"] =
                                   @ \cup (revs \cup FailedChanges(old, job))]
               /\ new.failedBuilds = old.failedBuilds \ FailedOf(old, job)
    <2>1. PICK job \in Jobs, revs \in SUBSET Revs :
             /\ new.stages = [old.stages EXCEPT !["Build"] =
                                 @ \cup (revs \cup FailedChanges(old, job))]
             /\ new.failedBuilds = old.failedBuilds \ FailedOf(old, job)
        BY <1>15
    <2>2. FailedOf(old, job) = {f \in Waiting[d] : f.job = job}
        BY <1>5, <1>7 DEF FailedOf
    <2>3. FailedChanges(old, job) =
              UNION {f.changes : f \in {g \in Waiting[d] : g.job = job}}
        BY <2>2 DEF FailedChanges
    <2>4. Ledger!Enter(d, "Build", revs \cup FailedChanges(old, job))
        BY <1>9, <1>12, <2>1
    <2>5. Waiting' = [Waiting EXCEPT ![d] = @ \ FailedOf(old, job)]
        BY <1>5, <1>7, <2>1
    <2>6. Ledger!BuildSucceeds(d, job, revs)
        BY <2>2, <2>3, <2>4, <2>5 DEF Ledger!BuildSucceeds
    <2>7. QED
        BY <1>1, <2>6 DEF Ledger!LedgerNext
<1>16. CASE /\ \E env \in Envs, revs \in SUBSET Revs :
                  new.stages = [old.stages EXCEPT ![env] = @ \cup revs]
            /\ new.failedBuilds = old.failedBuilds
    <2>1. PICK env \in Envs, revs \in SUBSET Revs :
             new.stages = [old.stages EXCEPT ![env] = @ \cup revs]
        BY <1>16
    <2>2. Ledger!Deployed(d, env, revs)
        BY <1>9, <1>10, <1>12, <1>16, <2>1 DEF Ledger!Deployed
    <2>3. QED
        BY <1>1, <2>2 DEF Ledger!LedgerNext
<1>17. CASE new.stages = old.stages /\ new.failedBuilds = old.failedBuilds
    BY <1>10, <1>11, <1>17
<1>18. QED
    BY <1>1, <1>13, <1>14, <1>15, <1>16, <1>17 DEF Edited

\* Every step is a step of the ledger or a stutter.
LEMMA LedgerStep ==
    LedgerInv /\ LedgerInv' /\ [Next]_vars =>
        [Ledger!LedgerNext]_<<Entered, Waiting>>
<1> SUFFICES ASSUME LedgerInv, LedgerInv', [Next]_vars
             PROVE  [Ledger!LedgerNext]_<<Entered, Waiting>>
    OBVIOUS
<1>1. CASE UNCHANGED documents
    BY <1>1 DEF documents, Entered, Waiting
<1>2. QED
    BY <1>1, DocumentsChange, StoreIsStep

\* The ledger begins empty.
LEMMA LedgerBegins == Init => Ledger!LedgerInit
    BY LedgerNames DEF Init, Entered, Waiting, Ledger!LedgerInit

\* However many threads there are, as long as no two have the pipeline of one
\* dashboard in hand a stage never loses a commit and a failed build leaves its
\* bucket only for the Build stage.
THEOREM LedgerKeptApart == Spec /\ []Apart => KeepsLedger
<1>1. QED
    BY LedgerBegins, LedgerInvInit, LedgerInvStep, LedgerStep, PTL
    DEF Spec, KeepsLedger, Ledger!LedgerSpec

\* With one thread a stage never loses a commit and a failed build leaves its
\* bucket only for the Build stage.
THEOREM LedgerKept ==
    ASSUME NEW w, Workers = {w}
    PROVE  Spec => KeepsLedger
<1>1. Apart
    BY AloneIsApart
<1>2. []Apart
    BY <1>1, PTL
<1>3. QED
    BY <1>2, LedgerKeptApart, PTL

\* An edit takes no commit out of a stage.
LEMMA EditedGrows ==
    ASSUME NEW old \in Documents, NEW new \in Documents, Edited(old, new),
           NEW s \in StageNames
    PROVE  old.stages[s] \subseteq new.stages[s]
<1>1. old.stages \in [StageNames -> SUBSET Revs]
    BY DEF Documents
<1>2. QED
    BY <1>1 DEF Edited

\* As long as no two threads have the pipeline of one dashboard in hand, no
\* stage of a pipeline document ever loses a commit.
THEOREM StagesKept == Spec /\ []Apart => StageKeepsCommits
<1>1. ASSUME LedgerInv, [Next]_vars, NEW d \in Dashboards, NEW i \in Workers,
             NEW s \in StageNames
      PROVE  pipelines[d][i].stages[s] \subseteq pipelines'[d][i].stages[s]
    <2>1. CASE UNCHANGED documents
        BY <2>1 DEF documents
    <2>2. ASSUME NEW w \in Workers, StorePipeline(w)
          PROVE  pipelines[d][i].stages[s] \subseteq pipelines'[d][i].stages[s]
        <3>1. \/ pipelines'[d][i] = pipelines[d][i]
              \/ /\ d = at[w] /\ i = copy[w].id
                 /\ pipelines'[d][i] = copy[w].doc
            BY <1>1, <2>2 DEF StorePipeline, LedgerInv, TypeOK, VariablesOK
        <3>2. Edited(pipelines[at[w]][copy[w].id], copy[w].doc)
            BY <1>1, <2>2 DEF StorePipeline, LedgerInv, CopyCurrent, Current
        <3>3. pipelines[d][i] \in Documents /\ copy[w].doc \in Documents
            BY <1>1, InHand DEF LedgerInv, TypeOK, VariablesOK
        <3>4. QED
            BY <1>1, <3>1, <3>2, <3>3, EditedGrows
    <2>3. QED
        BY <1>1, <2>1, <2>2, DocumentsChange
<1>2. LedgerInv /\ [Next]_vars =>
          [\A d \in Dashboards, i \in Workers, s \in StageNames :
              pipelines[d][i].stages[s] \subseteq
                  pipelines'[d][i].stages[s]]_vars
    BY <1>1
<1>3. QED
    BY <1>2, LedgerInvInit, LedgerInvStep, PTL DEF Spec, StageKeepsCommits
-----------------------------------------------------------------------------
(***************************************************************************)
(* How deep the listener nests.  A call that saves its build again has     *)
(* just taken the last failed builds out of a pipeline, so the calls on    *)
(* the stack never outnumber the pipelines without failed builds by more   *)
(* than the one that is visiting, until failed builds of another job stay. *)
(***************************************************************************)

\* The dashboards whose pipeline holds no failed builds.
Clean == {d \in Dashboards :
             \A i \in Workers : pipelines[d][i].failedBuilds = {}}

Succeeds(w) == event[w].kind = "Success"

\* The call a thread is in counts from its query of the dashboards until it
\* saves the build again.
Counts(w) == pc[w] \in {"next", "edit", "store"}

\* Only a successful build is handled by calls that nest.
OneCall(w) ==
    ~Succeeds(w) => /\ Len(frames[w]) <= 1
                    /\ pc[w] = "find" => Len(frames[w]) = 0

DepthBounded(w) ==
    Succeeds(w) /\ ~ForeignFailure(w) =>
        Len(frames[w]) <= Cardinality(Clean) + (IF Counts(w) THEN 1 ELSE 0)

\* The copy to store lacks the failed builds of the job, and asks for the build
\* to be saved again when there were failed builds of any job.
AsksWhenDirty(w) ==
    pc[w] = "store" /\ Succeeds(w) =>
        LET old == pipelines[at[w]][copy[w].id]
        IN  /\ copy[w].doc.failedBuilds =
                   old.failedBuilds \ FailedOf(old, JobOf[event[w].build])
            /\ copy[w].resave <=> old.failedBuilds # {}

NestingInv(w) == OneCall(w) /\ DepthBounded(w) /\ AsksWhenDirty(w)

\* There are finitely many clean pipelines, and no more than dashboards.
LEMMA CleanFinite ==
    ASSUME IsFiniteSet(Dashboards)
    PROVE  /\ IsFiniteSet(Clean)
           /\ Cardinality(Clean) \in Nat
           /\ Cardinality(Dashboards) \in Nat
           /\ Cardinality(Clean) <= Cardinality(Dashboards)
<1>1. Clean \in SUBSET Dashboards
    BY DEF Clean
<1>2. QED
    BY <1>1, FS_Subset, FS_CardinalityType

\* Nobody handles a build at first.
LEMMA NestingInit ==
    ASSUME Init, NEW w \in Workers
    PROVE  NestingInv(w)
<1>1. ~Succeeds(w) /\ pc[w] = "idle" /\ frames[w] = <<>>
    BY DEF Init, Succeeds, NoEvent
<1>2. Len(frames[w]) = 0
    BY <1>1
<1>3. QED
    BY <1>1, <1>2 DEF NestingInv, OneCall, DepthBounded, AsksWhenDirty

\* A step that leaves the thread, its event and the pipelines alone keeps the
\* bound, and so does one that only changes the thread's place and its stack to
\* ones that the bound allows.
LEMMA NestingMoves ==
    ASSUME NEW w \in Workers, LedgerInv, NestingInv(w), Grows,
           UNCHANGED pipelines,
           pc'[w] # "store",
           Succeeds(w)' <=> Succeeds(w),
           Succeeds(w) => event'[w].build = event[w].build,
           ~Succeeds(w) => /\ Len(frames'[w]) <= 1
                           /\ pc'[w] = "find" => Len(frames'[w]) = 0,
           Succeeds(w) /\ ~ForeignFailure(w) =>
               Len(frames'[w]) <=
                   Cardinality(Clean) + (IF Counts(w)' THEN 1 ELSE 0)
    PROVE  NestingInv(w)'
<1>1. Clean' = Clean
    BY DEF Clean
<1>2. Succeeds(w) /\ ForeignFailure(w) => ForeignFailure(w)'
    BY DEF ForeignFailure, Grows
<1>3. OneCall(w)'
    BY DEF OneCall
<1>4. DepthBounded(w)'
    BY <1>1, <1>2 DEF DepthBounded
<1>5. AsksWhenDirty(w)'
    BY DEF AsksWhenDirty
<1>6. QED
    BY <1>3, <1>4, <1>5 DEF NestingInv

\* A thread that stops handling has no call on its stack.
LEMMA NestingStops ==
    ASSUME NEW w \in Workers, LedgerInv, Stop(w)
    PROVE  NestingInv(w)'
<1>1. pc'[w] = "idle" /\ event'[w] = NoEvent /\ frames'[w] = <<>>
    BY DEF Stop, LedgerInv, TypeOK, VariablesOK
<1>2. ~Succeeds(w)' /\ Len(frames'[w]) = 0
    BY <1>1 DEF Succeeds, NoEvent
<1>3. QED
    BY <1>1, <1>2 DEF NestingInv, OneCall, DepthBounded, AsksWhenDirty

\* A thread that saves a document has no call on its stack yet.
LEMMA NestingPublishes ==
    ASSUME NEW w \in Workers, LedgerInv, IsFiniteSet(Dashboards),
           pc[w] = "idle", NEW e, Publish(w, e)
    PROVE  NestingInv(w)'
<1>1. pc'[w] = "find" /\ frames'[w] = <<>>
    BY DEF Publish, LedgerInv, TypeOK, VariablesOK, ThreadOK
<1>2. Len(frames'[w]) = 0
    BY <1>1
<1>3. Cardinality(Clean)' \in Nat
    <2>1. IsFiniteSet(Clean)'
        <3>1. Clean' \in SUBSET Dashboards
            BY DEF Clean
        <3>2. QED
            BY <3>1, FS_Subset
    <2>2. QED
        BY <2>1, FS_CardinalityType
<1> DEFINE n == Cardinality(Clean)'
           len == Len(frames'[w])
<1>4. DepthBounded(w)' <=>
          (Succeeds(w)' /\ ~ForeignFailure(w)' => len <= n)
    BY <1>1, <1>3 DEF DepthBounded, Counts
<1>5. len <= n
    BY <1>2, <1>3
<1>6. QED
    BY <1>1, <1>2, <1>4, <1>5 DEF NestingInv, OneCall, AsksWhenDirty

\* A successful build's edit of its copy, which asks for a second save when the
\* pipeline it loaded had failed builds.
LEMMA NestingEdits ==
    ASSUME NEW w \in Workers, LedgerInv, NestingInv(w), Grows,
           \/ EditForCommit(w) \/ EditForFailure(w)
           \/ EditForSuccess(w) \/ EditForDeploy(w)
    PROVE  NestingInv(w)'
<1> DEFINE doc == copy[w].doc
           b   == event[w].build
<1>1. /\ pc \in [Workers -> Locations] /\ copy \in [Workers -> Copies]
      /\ event \in [Workers -> Events] /\ doc \in Documents
      /\ event[w] \in Events /\ pc[w] = "edit"
    BY InHand
    DEF LedgerInv, TypeOK, VariablesOK, Locations, EditForCommit,
        EditForFailure, EditForSuccess, EditForDeploy
<1>2. /\ copy'[w].id = copy[w].id /\ pc'[w] = "store"
      /\ UNCHANGED <<at, pipelines>>
    BY EditsAreSteps
<1>3. UNCHANGED frames
    BY DEF EditForCommit, EditForFailure, EditForSuccess, EditForDeploy, Edit
<1>4. /\ Succeeds(w)' <=> Succeeds(w)
      /\ Succeeds(w) => event'[w].build = b
    <2>1. CASE EditForSuccess(w)
        <3>1. event'[w] = [event[w] EXCEPT
                  !.changes = @ \cup FailedChanges(doc, JobOf[b])]
            BY <1>1, <2>1 DEF EditForSuccess
        <3>2. event[w] \in BuildEvents
            BY <1>1, <2>1, EventFields DEF EditForSuccess
        <3> HIDE DEF doc
        <3>3. event'[w].kind = event[w].kind /\ event'[w].build = b
            BY <3>1, <3>2 DEF BuildEvents
        <3>4. QED
            BY <3>3 DEF Succeeds
    <2>2. CASE EditForCommit(w) \/ EditForFailure(w) \/ EditForDeploy(w)
        BY <2>2 DEF EditForCommit, EditForFailure, EditForDeploy, Succeeds
    <2>3. QED
        BY <2>1, <2>2
<1>5. OneCall(w)'
    BY <1>1, <1>2, <1>3, <1>4 DEF OneCall, NestingInv
<1>6. DepthBounded(w)'
    <2>1. Clean' = Clean
        BY <1>2 DEF Clean
    <2>2. Succeeds(w) /\ ForeignFailure(w) => ForeignFailure(w)'
        BY <1>2, <1>4 DEF ForeignFailure, Grows
    <2>3. QED
        BY <1>1, <1>2, <1>3, <1>4, <2>1, <2>2
        DEF DepthBounded, NestingInv, Counts
<1>7. AsksWhenDirty(w)'
    <2>1. SUFFICES ASSUME Succeeds(w)' PROVE AsksWhenDirty(w)'
        BY DEF AsksWhenDirty
    <2>2. EditForSuccess(w)
        BY <1>4, <2>1
        DEF Succeeds, EditForCommit, EditForFailure, EditForDeploy
    <2> DEFINE new == ProcessBuild(doc, JobOf[b], event[w].changes, MovableTo(b))
               resave == doc.failedBuilds # {}
    <2>3. copy'[w].doc = new /\ copy'[w].resave = resave
        BY <1>1, <2>2 DEF EditForSuccess, Edit, Copies
    <2>4. /\ JobOf[b] \in Jobs /\ event[w].changes \in SUBSET Revs
          /\ MovableTo(b) \in SUBSET Revs
        BY <1>1, <2>2, EventFields DEF EditForSuccess, MovableTo
    <2>5. BuildProcessed(new, doc, JobOf[b], event[w].changes, MovableTo(b))
        BY <1>1, <2>4, ProcessBuildEffect
    <2>6. new.failedBuilds = doc.failedBuilds \ FailedOf(doc, JobOf[b])
        BY <2>5 DEF BuildProcessed
    <2>7. doc = pipelines[at[w]][copy[w].id]
        BY <1>1 DEF LedgerInv, CopyCurrent, Current
    <2>8. doc = (pipelines[at[w]][copy[w].id])'
        BY <1>2, <2>7
    <2>9. event'[w].build = b
        BY <1>4, <2>1
    <2> HIDE DEF doc, b, new
    <2>10. /\ (copy[w].doc.failedBuilds)' =
                  doc.failedBuilds \ FailedOf(doc, JobOf[event'[w].build])
           /\ (copy[w].resave)' <=> doc.failedBuilds # {}
        BY <2>3, <2>6, <2>9
    <2>11. QED
        BY <2>8, <2>10 DEF AsksWhenDirty, FailedOf
<1>8. QED
    BY <1>5, <1>6, <1>7 DEF NestingInv

\* A store that will be followed by a second save cleans one more pipeline when
\* no failed build of another job is left.
LEMMA StoreCleans ==
    ASSUME NEW w, Workers = {w}, LedgerInv, SoundInv, AsksWhenDirty(w),
           IsFiniteSet(Dashboards), StorePipeline(w), Succeeds(w),
           ~ForeignFailure(w)'
    PROVE  /\ ~ForeignFailure(w)
           /\ Cardinality(Clean)' =
                  Cardinality(Clean) + (IF copy[w].resave THEN 1 ELSE 0)
<1> DEFINE d   == at[w]
           job == JobOf[event[w].build]
           old == pipelines[d][w]
           new == copy[w].doc
<1>1. /\ d \in Dashboards /\ copy[w].id = w /\ pc[w] = "store"
      /\ pipelines \in [Dashboards -> [Workers -> Documents]]
    BY InHand DEF StorePipeline, LedgerInv, ThreadOK, TypeOK, VariablesOK
<1>2. /\ pipelines'[d][w] = new
      /\ \A x \in Dashboards \ {d} : pipelines'[x][w] = pipelines[x][w]
    BY <1>1 DEF StorePipeline
<1>3. event' = event /\ everBound' = everBound
    BY DEF StorePipeline, wiring
<1>4. /\ new.failedBuilds = old.failedBuilds \ FailedOf(old, job)
      /\ copy[w].resave <=> old.failedBuilds # {}
    BY <1>1 DEF AsksWhenDirty
<1>5. event[w] \in Events /\ job \in everBound[d]
    BY <1>1, InHand, ThreadBefore DEF LedgerInv, Bound, Succeeds
<1> HIDE DEF d, new, old, job
<1>6. \A x \in Dashboards : job \in everBound[x] =>
          \A f \in pipelines'[x][w].failedBuilds : f.job = job
    BY <1>1, <1>3 DEF ForeignFailure, job
<1>7. new.failedBuilds = {} /\ \A f \in old.failedBuilds : f.job = job
    BY <1>1, <1>2, <1>4, <1>5, <1>6 DEF FailedOf
<1>8. ~ForeignFailure(w)
    <2>1. \A x \in Dashboards : job \in everBound[x] =>
              \A f \in pipelines[x][w].failedBuilds : f.job = job
        BY <1>2, <1>6, <1>7 DEF old
    <2>2. QED
        BY <2>1 DEF ForeignFailure, job
<1>9. /\ Clean = {x \in Dashboards : pipelines[x][w].failedBuilds = {}}
      /\ Clean' = {x \in Dashboards : pipelines'[x][w].failedBuilds = {}}
    BY DEF Clean
<1>10. Clean' = Clean \cup {d}
    BY <1>1, <1>2, <1>7, <1>9
<1>11. d \in Clean <=> ~copy[w].resave
    BY <1>1, <1>4, <1>9 DEF old
<1>12. /\ IsFiniteSet(Clean)
       /\ Cardinality(Clean) \in Nat
    BY CleanFinite
<1>13. Cardinality(Clean \cup {d}) =
           IF d \in Clean THEN Cardinality(Clean) ELSE Cardinality(Clean) + 1
    BY <1>12, FS_AddElement
<1>14. QED
    BY <1>8, <1>10, <1>11, <1>12, <1>13

\* Storing a pipeline keeps the bound: the call that visits is over for now, or
\* one more pipeline is clean.
LEMMA NestingStores ==
    ASSUME NEW w, Workers = {w}, LedgerInv, SoundInv, NestingInv(w),
           IsFiniteSet(Dashboards), StorePipeline(w)
    PROVE  NestingInv(w)'
<1>1. /\ pc \in [Workers -> Locations] /\ pc[w] = "store"
      /\ frames[w] \in Seq(SUBSET Dashboards)
      /\ frames' = frames /\ event' = event
      /\ pc'[w] = IF copy[w].resave THEN "resave" ELSE "next"
    BY InHand DEF LedgerInv, TypeOK, VariablesOK, Locations, StorePipeline
<1>2. Len(frames[w]) \in Nat /\ Cardinality(Clean) \in Nat
    BY <1>1, LenProperties, CleanFinite
<1>3. Succeeds(w)' <=> Succeeds(w)
    BY <1>1 DEF Succeeds
<1>4. OneCall(w)'
    BY <1>1, <1>3 DEF NestingInv, OneCall
<1>5. DepthBounded(w)'
    <2>1. SUFFICES ASSUME Succeeds(w), ~ForeignFailure(w)'
                   PROVE  DepthBounded(w)'
        BY <1>3 DEF DepthBounded
    <2>2. /\ ~ForeignFailure(w)
          /\ Cardinality(Clean)' =
                 Cardinality(Clean) + (IF copy[w].resave THEN 1 ELSE 0)
        BY <2>1, StoreCleans DEF NestingInv
    <2>3. Len(frames[w]) <= Cardinality(Clean) + 1
        BY <1>1, <2>1, <2>2 DEF NestingInv, DepthBounded, Counts
    <2>4. Counts(w)' <=> ~copy[w].resave
        BY <1>1 DEF Counts
    <2>5. Len(frames'[w]) <=
              Cardinality(Clean)' + (IF Counts(w)' THEN 1 ELSE 0)
        BY <1>1, <1>2, <2>2, <2>3, <2>4
    <2>6. QED
        BY <2>5 DEF DepthBounded
<1>6. AsksWhenDirty(w)'
    BY <1>1 DEF AsksWhenDirty
<1>7. QED
    BY <1>4, <1>5, <1>6 DEF NestingInv

\* A step that moves neither the thread nor a pipeline keeps the bound.
LEMMA NestingRests ==
    ASSUME NEW w \in Workers, NestingInv(w), Grows,
           UNCHANGED <<thread, pipelines>>
    PROVE  NestingInv(w)'
<1>1. ForeignFailure(w) => ForeignFailure(w)'
    BY DEF thread, ForeignFailure, Grows
<1>2. Clean' = Clean
    BY DEF Clean
<1>3. OneCall(w)'
    BY DEF thread, NestingInv, OneCall, Succeeds
<1>4. DepthBounded(w)'
    BY <1>1, <1>2 DEF thread, NestingInv, DepthBounded, Succeeds, Counts
<1>5. AsksWhenDirty(w)'
    BY DEF thread, NestingInv, AsksWhenDirty, Succeeds, FailedOf
<1>6. QED
    BY <1>3, <1>4, <1>5 DEF NestingInv

\* A thread that begins something: it saves a document, or searches.
LEMMA NestingSaves ==
    ASSUME NEW w \in Workers, LedgerInv, NestingInv(w), Grows,
           IsFiniteSet(Dashboards), Save(w)
    PROVE  NestingInv(w)'
<1>1. CASE UNCHANGED <<thread, pipelines>>
    BY <1>1, NestingRests
<1>2. ASSUME NEW e, pc[w] = "idle", Publish(w, e) PROVE NestingInv(w)'
    BY <1>2, NestingPublishes
<1>3. ASSUME NEW r \in Revs, NEW type \in {"New", "Other"},
             SaveCommit(w, r, type)
      PROVE  NestingInv(w)'
    BY <1>1, <1>2, <1>3 DEF SaveCommit, documents
<1>4. ASSUME NEW b \in Builds, NEW status \in BuildStatuses \ {"none"},
             SaveBuild(w, b, status)
      PROVE  NestingInv(w)'
    BY <1>1, <1>2, <1>4 DEF SaveBuild, documents
<1>5. ASSUME NEW app \in Apps, NEW env \in Envs,
             SaveEnvironmentComponent(w, app, env)
      PROVE  NestingInv(w)'
    BY <1>2, <1>5 DEF SaveEnvironmentComponent
<1>6. ASSUME NEW d \in Dashboards, Search(w, d) PROVE NestingInv(w)'
    <2>1. /\ pc'[w] = "store" /\ event'[w].kind = "search"
          /\ frames'[w] = << {} >>
        BY <1>6 DEF Search, LedgerInv, TypeOK, VariablesOK
    <2>2. ~Succeeds(w)' /\ Len(frames'[w]) = 1
        BY <2>1 DEF Succeeds
    <2>3. QED
        BY <2>1, <2>2 DEF NestingInv, OneCall, DepthBounded, AsksWhenDirty
<1>7. QED
    BY <1>3, <1>4, <1>5, <1>6 DEF Save

\* The steps of a call that neither edit nor store a pipeline.
LEMMA NestingCalls ==
    ASSUME NEW w \in Workers, LedgerInv, NestingInv(w), Grows,
           IsFiniteSet(Dashboards),
           \/ FindDashboards(w)
           \/ \E d \in Dashboards : LoadPipeline(w, d)
           \/ ResaveBuild(w)
           \/ Return(w)
    PROVE  NestingInv(w)'
<1> DEFINE stack == frames[w]
           n     == Cardinality(Clean)
<1>1. /\ pc \in [Workers -> Locations]
      /\ frames \in [Workers -> Seq(SUBSET Dashboards)]
      /\ stack \in Seq(SUBSET Dashboards)
      /\ Len(stack) \in Nat /\ n \in Nat
    BY InHand, LenProperties, CleanFinite
    DEF LedgerInv, TypeOK, VariablesOK, Locations
<1>2. /\ ~Succeeds(w) => /\ Len(stack) <= 1
                         /\ pc[w] = "find" => Len(stack) = 0
      /\ Succeeds(w) /\ ~ForeignFailure(w) =>
             Len(stack) <= n + (IF Counts(w) THEN 1 ELSE 0)
    BY DEF NestingInv, OneCall, DepthBounded
<1>3. CASE FindDashboards(w)
    <2> DEFINE first == {d \in Dashboards : Concerns(event[w], d)}
    <2>1. /\ frames'[w] = <<first>> \o stack /\ first \in SUBSET Dashboards
          /\ pc[w] = "find" /\ pc'[w] = "next"
          /\ UNCHANGED <<event, pipelines>>
        BY <1>1, <1>3 DEF FindDashboards, documents
    <2> HIDE DEF first
    <2>2. Len(frames'[w]) = Len(stack) + 1
        BY <1>1, <2>1, ConcatProperties
    <2>3. ~Counts(w) /\ Counts(w)'
        BY <2>1 DEF Counts
    <2>4. Succeeds(w)' <=> Succeeds(w)
        BY <2>1 DEF Succeeds
    <2>5. Succeeds(w) /\ ~ForeignFailure(w) => Len(frames'[w]) <= n + 1
        BY <1>1, <1>2, <2>2, <2>3
    <2>6. ~Succeeds(w) => Len(frames'[w]) <= 1
        BY <1>2, <2>1, <2>2
    <2>7. QED
        BY <2>1, <2>3, <2>4, <2>5, <2>6, NestingMoves
<1>4. ASSUME NEW d \in Dashboards, LoadPipeline(w, d) PROVE NestingInv(w)'
    <2> DEFINE rest == [frames[w] EXCEPT ![1] = @ \ {d}]
    <2>1. /\ frames' = [frames EXCEPT ![w] = rest]
          /\ pc[w] = "next" /\ pc'[w] = "edit"
          /\ UNCHANGED <<event, pipelines>>
        BY <1>1, <1>4 DEF LoadPipeline, documents
    <2>2. Len(rest) = Len(stack)
        BY <1>1
    <2> HIDE DEF rest
    <2>3. Len(frames'[w]) = Len(stack)
        BY <1>1, <2>1, <2>2
    <2>4. Counts(w) /\ Counts(w)' /\ (Succeeds(w)' <=> Succeeds(w))
        BY <2>1 DEF Counts, Succeeds
    <2>5. QED
        BY <1>2, <2>1, <2>3, <2>4, NestingMoves
<1>5. CASE ResaveBuild(w)
    <2>1. /\ frames' = frames /\ pc[w] = "resave" /\ pc'[w] = "find"
          /\ UNCHANGED <<event, pipelines>>
        BY <1>1, <1>5 DEF ResaveBuild, documents
    <2>2. Succeeds(w) /\ (Succeeds(w)' <=> Succeeds(w))
        BY <2>1 DEF Succeeds, LedgerInv, TypeOK, ThreadOK
    <2>3. ~Counts(w) /\ ~Counts(w)'
        BY <2>1 DEF Counts
    <2>4. QED
        BY <1>2, <2>1, <2>2, <2>3, NestingMoves
<1>6. CASE Return(w)
    <2>1. CASE Stop(w)
        BY <2>1, NestingStops
    <2>2. CASE ~Stop(w)
        <3>1. /\ frames'[w] = Tail(stack) /\ Len(stack) # 1
              /\ pc[w] = "next" /\ pc' = pc
              /\ UNCHANGED <<event, pipelines>>
            BY <1>1, <1>6, <2>2 DEF Return, documents
        <3>2. stack # <<>>
            BY <3>1 DEF LedgerInv, TypeOK, ThreadOK
        <3>3. Len(frames'[w]) = Len(stack) - 1
            BY <1>1, <3>1, <3>2, HeadTailProperties
        <3>4. Counts(w) /\ Counts(w)' /\ (Succeeds(w)' <=> Succeeds(w))
            BY <3>1 DEF Counts, Succeeds
        <3>5. ~Succeeds(w) => Len(frames'[w]) <= 1
            BY <1>1, <1>2, <3>3
        <3>6. Succeeds(w) /\ ~ForeignFailure(w) => Len(frames'[w]) <= n + 1
            BY <1>1, <1>2, <3>3, <3>4
        <3>7. QED
            BY <3>1, <3>4, <3>5, <3>6, NestingMoves
    <2>3. QED
        BY <2>1, <2>2
<1>7. QED
    BY <1>3, <1>4, <1>5, <1>6

\* The bound is inductive with one thread.
LEMMA NestingStep ==
    ASSUME NEW w, Workers = {w}, IsFiniteSet(Dashboards),
           LedgerInv, SoundInv, NestingInv(w), [Next]_vars
    PROVE  NestingInv(w)'
<1> Grows
    BY StepGrows DEF LedgerInv
<1>1. CASE UNCHANGED <<thread, pipelines>>
    BY <1>1, NestingRests
<1>2. CASE Administer
    BY <1>1, <1>2
    DEF Administer, CreateDashboard, CreateItem, DeleteDashboard, DeleteItem,
        LifeStep, AssociateJob, SaveArtifact, documents
<1>3. CASE Save(w)
    BY <1>3, NestingSaves
<1>4. CASE \/ \E d \in Dashboards : ItemMissing(w, d)
           \/ StackOverflow(w) \/ Crash(w)
    BY <1>4, NestingStops DEF ItemMissing, StackOverflow, Crash
<1>5. CASE Handle(w)
    BY <1>4, <1>5, NestingCalls, NestingEdits, NestingStores DEF Handle
<1>6. CASE UNCHANGED vars
    BY <1>1, <1>6 DEF vars, documents
<1>7. QED
    BY <1>2, <1>3, <1>4, <1>5, <1>6 DEF Next

SerialInv(w) == LedgerInv /\ SoundInv /\ NestingInv(w)

\* With one thread the three invariants are inductive together.
LEMMA SerialInductive ==
    ASSUME NEW w, Workers = {w}, IsFiniteSet(Dashboards)
    PROVE  /\ Init => SerialInv(w)
           /\ SerialInv(w) /\ [Next]_vars => SerialInv(w)'
<1>1. Init => SerialInv(w)
    BY LedgerInvInit, SoundInit, NestingInit DEF SerialInv
<1>2. SerialInv(w) /\ [Next]_vars => SerialInv(w)'
    BY AloneIsApart, LedgerInvStep, SoundStep, NestingStep DEF SerialInv
<1>3. QED
    BY <1>1, <1>2

\* With one thread and finitely many dashboards the listener nests no deeper
\* than one call per dashboard and one more, unless failed builds of another job
\* stay in the pipeline of a dashboard that shows, or once showed, the job of the
\* build (BuildEventListener.java:99-121).
THEOREM NestingLimited ==
    ASSUME NEW w, Workers = {w}, IsFiniteSet(Dashboards)
    PROVE  Spec => []NestingBounded
<1>1. SerialInv(w) => NestingBounded
    <2> USE DEF SerialInv
    <2> SUFFICES ASSUME SerialInv(w),
                        Len(frames[w]) > Cardinality(Dashboards) + 1
                 PROVE  ForeignFailure(w)
        BY DEF NestingBounded
    <2>1. /\ Len(frames[w]) \in Nat
          /\ Cardinality(Clean) \in Nat /\ Cardinality(Dashboards) \in Nat
          /\ Cardinality(Clean) <= Cardinality(Dashboards)
        BY InHand, LenProperties, CleanFinite DEF LedgerInv
    <2>2. Succeeds(w)
        BY <2>1 DEF NestingInv, OneCall
    <2>3. QED
        BY <2>1, <2>2 DEF NestingInv, DepthBounded
<1>2. /\ Init => SerialInv(w)
      /\ SerialInv(w) /\ [Next]_vars => SerialInv(w)'
    BY SerialInductive
<1>3. QED
    BY <1>1, <1>2, PTL DEF Spec

\* When no dashboard's build widget changes from one job to another no failed
\* build of another job waits where the job of a build is shown.
LEMMA OneJobNoForeign ==
    ASSUME SoundInv, OneJobEach, NEW w \in Workers
    PROVE  ~ForeignFailure(w)
<1> SUFFICES ASSUME NEW d \in Dashboards, NEW i \in Workers,
                    JobOf[event[w].build] \in everBound[d],
                    NEW f \in pipelines[d][i].failedBuilds
             PROVE  f.job = JobOf[event[w].build]
    BY DEF ForeignFailure
<1>1. FailedSound(d, pipelines[d][i].failedBuilds)
    BY DEF SoundInv, PipelinesSound, DocumentSound
<1>2. QED
    BY <1>1 DEF FailedSound, OneJobEach

\* With one thread that does not die, dashboards that neither come nor go nor
\* change their job, and room on the stack for a call per dashboard and one
\* more, a successful build's call ends with every dashboard it found visited
\* (BuildEventListener.java:90).
THEOREM BuildReaches ==
    ASSUME NEW only, Workers = {only}, IsFiniteSet(Dashboards),
           Cardinality(Dashboards) < StackLimit, ~MayCrash, Volatile = {}
    PROVE  Spec /\ []OneJobEach => BuildReachesEveryDashboard
<1>1. ASSUME SerialInv(only), OneJobEach, ItemsReady, [Next]_vars,
             Ends(only), event[only].kind = "Success"
      PROVE  Unvisited(only) = {}
    <2>1. TypeOK /\ SoundInv /\ NestingInv(only)
        BY <1>1 DEF SerialInv, LedgerInv
    <2>2. ~Crash(only)
        BY DEF Crash
    <2>3. ~\E d \in Dashboards : ItemMissing(only, d)
        BY <1>1 DEF ItemMissing, ItemsReady, HasItem
    <2>4. ~StackOverflow(only)
        <3>1. SUFFICES ASSUME pc[only] = "resave"
                       PROVE  Len(frames[only]) # StackLimit
            BY DEF StackOverflow
        <3>2. ~Counts(only) /\ Succeeds(only)
            BY <1>1, <3>1 DEF Counts, Succeeds
        <3>3. Len(frames[only]) \in Nat
            BY <2>1, InHand, LenProperties
        <3>4. /\ Cardinality(Clean) \in Nat
              /\ Cardinality(Dashboards) \in Nat
              /\ Cardinality(Clean) <= Cardinality(Dashboards)
            BY CleanFinite
        <3>5. Len(frames[only]) <= Cardinality(Clean)
            BY <1>1, <2>1, <3>2, <3>4, OneJobNoForeign DEF NestingInv, DepthBounded
        <3>6. QED
            BY <3>3, <3>4, <3>5, ConstantsAssumption
    <2>5. QED
        BY <1>1, <2>1, <2>2, <2>3, <2>4, EndsHow, ReturnedAll
<1>2. SerialInv(only) /\ OneJobEach /\ ItemsReady /\ [Next]_vars =>
          [\A w \in Workers :
              Ends(w) /\ event[w].kind = "Success" =>
                  \A d \in Unvisited(w) :
                      HasItem(d) =>
                          event[w].changes \subseteq Entered[d]["Build"]]_vars
    <2>1. \A w \in Workers : w = only
        OBVIOUS
    <2>2. QED
        BY <1>1, <2>1
<1>3. /\ Init => SerialInv(only)
      /\ SerialInv(only) /\ [Next]_vars => SerialInv(only)'
    BY SerialInductive
<1>4. QED
    BY <1>2, <1>3, ItemsStayReady, PTL DEF Spec, BuildReachesEveryDashboard
=============================================================================
