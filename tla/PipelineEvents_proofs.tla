------------------------ MODULE PipelineEvents_proofs ------------------------
(***************************************************************************)
(* Theorems about PipelineEvents for any number of dashboards, threads,    *)
(* jobs, commits, builds and artifacts.                                    *)
(***************************************************************************)
EXTENDS PipelineEvents, PipelineDocument_proofs, SequenceTheorems

-----------------------------------------------------------------------------
(***************************************************************************)
(* Types.                                                                  *)
(***************************************************************************)
Locations == {"idle", "find", "next", "edit", "store", "resave"}

\* A thread with nothing in hand has a well typed copy that is not saved again.
LEMMA NoCopyType == \A w \in Workers : NoCopy(w) \in Copies /\ ~NoCopy(w).resave
    BY EmptyDocumentType DEF NoCopy, Copies

\* Having no event is one of the events.
LEMMA NoEventType == NoEvent \in Events
    BY DEF Events

\* What the kind of an event says of its other fields.
LEMMA EventFields ==
    ASSUME NEW e \in Events
    PROVE  /\ e.kind = "commit" => e.rev \in Revs
           /\ e.kind \in {"Success", "Failure"} =>
                  /\ e \in BuildEvents
                  /\ e.build \in Builds
                  /\ e.changes \in SUBSET Revs
                  /\ JobOf[e.build] \in Jobs
           /\ e.kind = "deploy" => e.app \in Apps /\ e.env \in Envs
<1>1. CASE e \in CommitEvents
    BY <1>1 DEF CommitEvents
<1>2. CASE e \in BuildEvents
    BY <1>2, ConstantsAssumption DEF BuildEvents
<1>3. CASE e \in DeployEvents
    BY <1>3 DEF DeployEvents
<1>4. CASE e \in SearchEvents
    BY <1>4 DEF SearchEvents
<1>5. CASE e = NoEvent
    BY <1>5 DEF NoEvent
<1>6. QED
    BY <1>1, <1>2, <1>3, <1>4, <1>5 DEF Events

\* A call stack of more than one call is left with one when a call returns.
LEMMA TailType ==
    ASSUME NEW S, NEW s \in Seq(S), s # <<>>, Len(s) # 1
    PROVE  Tail(s) \in Seq(S) /\ Tail(s) # <<>>
<1>1. Tail(s) \in Seq(S) /\ Len(Tail(s)) = Len(s) - 1
    BY HeadTailProperties
<1>2. Len(s) \in Nat /\ Len(s) # 0
    BY EmptySeq, LenProperties
<1>3. Len(Tail(s)) # 0
    BY <1>1, <1>2
<1>4. QED
    BY <1>1, <1>3, EmptySeq

\* A step of one thread leaves what the other threads have in hand alone.
SameThread(v) ==
    /\ pc'[v] = pc[v]
    /\ event'[v] = event[v]
    /\ frames'[v] = frames[v]
    /\ at'[v] = at[v]
    /\ copy'[v] = copy[v]

\* A step of one thread leaves what the others have in hand alone.
LEMMA OtherThreads ==
    ASSUME TypeOK, NEW w \in Workers,
           \A v \in Workers \ {w} : SameThread(v),
           ThreadOK(w)'
    PROVE  \A v \in Workers : ThreadOK(v)'
<1> SUFFICES ASSUME NEW v \in Workers, v # w PROVE ThreadOK(v)'
    OBVIOUS
<1>1. SameThread(v) /\ ThreadOK(v)
    BY DEF TypeOK
<1>2. QED
    BY <1>1 DEF SameThread, ThreadOK

\* A step of no thread leaves what every thread has in hand alone.
LEMMA NoThreadMoves ==
    ASSUME TypeOK, UNCHANGED thread
    PROVE  \A v \in Workers : ThreadOK(v)'
<1> SUFFICES ASSUME NEW v \in Workers PROVE ThreadOK(v)'
    OBVIOUS
<1>1. ThreadOK(v)
    BY DEF TypeOK
<1>2. QED
    BY <1>1 DEF thread, ThreadOK

\* A thread that stops has nothing in hand.
LEMMA StopType ==
    ASSUME TypeOK, NEW w \in Workers, Stop(w)
    PROVE  /\ pc' \in [Workers -> Locations]
           /\ event' \in [Workers -> Events]
           /\ frames' \in [Workers -> Seq(SUBSET Dashboards)]
           /\ at' \in [Workers -> Dashboards \cup {Nowhere}]
           /\ copy' \in [Workers -> Copies]
           /\ \A v \in Workers : ThreadOK(v)'
<1>1. /\ pc' \in [Workers -> Locations]
      /\ event' \in [Workers -> Events]
      /\ frames' \in [Workers -> Seq(SUBSET Dashboards)]
      /\ at' \in [Workers -> Dashboards \cup {Nowhere}]
      /\ copy' \in [Workers -> Copies]
    BY NoCopyType, NoEventType DEF TypeOK, VariablesOK, Stop, Locations
<1>2. pc'[w] = "idle" /\ frames'[w] = <<>> /\ copy'[w] = NoCopy(w)
    BY DEF TypeOK, VariablesOK, Stop
<1>3. ThreadOK(w)'
    BY <1>2, NoCopyType DEF ThreadOK
<1>4. \A v \in Workers \ {w} : SameThread(v)
    BY DEF TypeOK, VariablesOK, Stop, SameThread
<1>5. QED
    BY <1>1, <1>3, <1>4, OtherThreads

\* The life of dashboards and the saving of artifacts keep the types.
LEMMA TypeAdminister == ASSUME TypeOK, Administer PROVE TypeOK'
<1>1. ASSUME NEW d \in Dashboards, NEW from, NEW to \in {"saved", "ready", "orphaned", "gone"}, LifeStep(d, from, to)
      PROVE  TypeOK'
    <2>1. VariablesOK'
        BY <1>1 DEF LifeStep, TypeOK, VariablesOK, store, documents, thread
    <2>2. QED
        BY <1>1, <2>1, NoThreadMoves DEF LifeStep, TypeOK
<1>2. ASSUME NEW d \in Dashboards,
             \/ CreateDashboard(d) \/ CreateItem(d)
             \/ DeleteDashboard(d) \/ DeleteItem(d)
      PROVE  TypeOK'
    BY <1>1, <1>2 DEF CreateDashboard, CreateItem, DeleteDashboard, DeleteItem
<1>3. ASSUME NEW d \in Dashboards, NEW job \in Jobs, AssociateJob(d, job)
      PROVE  TypeOK'
    <2>1. VariablesOK'
        BY <1>3 DEF AssociateJob, TypeOK, VariablesOK, store, documents, thread
    <2>2. QED
        BY <1>3, <2>1, NoThreadMoves DEF AssociateJob, TypeOK
<1>4. ASSUME NEW a \in Artifacts, NEW info \in {"metadata", "embedded"},
             SaveArtifact(a, info)
      PROVE  TypeOK'
    <2>1. builds[BuildOf[a]].changes \in SUBSET Revs
        BY ConstantsAssumption DEF TypeOK, VariablesOK, BuildDocuments
    <2>2. [info |-> info,
           changes |-> IF info = "embedded" THEN builds[BuildOf[a]].changes
                                            ELSE {}] \in ArtifactDocuments
        BY <2>1 DEF ArtifactDocuments
    <2>3. artifacts' \in [Artifacts -> ArtifactDocuments]
        BY <1>4, <2>2 DEF SaveArtifact, TypeOK, VariablesOK
    <2>4. VariablesOK'
        BY <1>4, <2>3
        DEF SaveArtifact, TypeOK, VariablesOK, wiring, documents, thread
    <2>5. QED
        BY <1>4, <2>4, NoThreadMoves DEF SaveArtifact, TypeOK
<1>5. QED
    BY <1>2, <1>3, <1>4 DEF Administer

\* A thread that begins to handle an event has nothing else in hand.
LEMMA TypePublish ==
    ASSUME TypeOK, NEW w \in Workers, pc[w] = "idle", NEW e \in Events,
           Publish(w, e)
    PROVE  /\ pc' \in [Workers -> Locations]
           /\ event' \in [Workers -> Events]
           /\ UNCHANGED <<frames, at, copy>>
           /\ \A v \in Workers : ThreadOK(v)'
<1>1. /\ pc' \in [Workers -> Locations]
      /\ event' \in [Workers -> Events]
      /\ UNCHANGED <<frames, at, copy>>
      /\ pc'[w] = "find"
      /\ \A v \in Workers \ {w} : SameThread(v)
    BY DEF TypeOK, VariablesOK, Publish, SameThread, Locations
<1>2. ~copy[w].resave
    BY DEF TypeOK, ThreadOK
<1>3. ThreadOK(w)'
    BY <1>1, <1>2 DEF ThreadOK
<1>4. QED
    BY <1>1, <1>3, OtherThreads

\* Saving a document, and the event it publishes, keep the types.
LEMMA TypeSave == ASSUME TypeOK, NEW w \in Workers, Save(w) PROVE TypeOK'
<1>1. ASSUME NEW r \in Revs, NEW type \in {"New", "Other"},
             SaveCommit(w, r, type)
      PROVE  TypeOK'
    <2>1. commits' \in [Revs -> CommitTypes]
        BY <1>1 DEF SaveCommit, TypeOK, VariablesOK, CommitTypes
    <2>2. CASE type = "New"
        <3> DEFINE e == [kind |-> "commit", rev |-> r]
        <3>1. e \in Events
            BY DEF Events, CommitEvents
        <3>2. Publish(w, e) /\ pc[w] = "idle"
            BY <1>1, <2>2 DEF SaveCommit
        <3> HIDE DEF e
        <3>3. VariablesOK'
            BY <1>1, <2>1, <3>1, <3>2, TypePublish
            DEF SaveCommit, TypeOK, VariablesOK, wiring, documents, Locations
        <3>4. QED
            BY <3>1, <3>2, <3>3, TypePublish DEF TypeOK
    <2>3. CASE type # "New"
        <3>1. VariablesOK' /\ UNCHANGED thread
            BY <1>1, <2>1, <2>3
            DEF SaveCommit, TypeOK, VariablesOK, wiring, documents, thread
        <3>2. QED
            BY <3>1, NoThreadMoves DEF TypeOK
    <2>4. QED
        BY <2>2, <2>3
<1>2. ASSUME NEW b \in Builds, NEW status \in BuildStatuses \ {"none"},
             SaveBuild(w, b, status)
      PROVE  TypeOK'
    <2>1. ChangesOf[b] \in SUBSET Revs
        BY ConstantsAssumption
    <2>2. [status |-> status, changes |-> ChangesOf[b]] \in BuildDocuments
        BY <2>1 DEF BuildDocuments
    <2>3. builds' \in [Builds -> BuildDocuments]
        BY <1>2, <2>2 DEF SaveBuild, TypeOK, VariablesOK
    <2>4. CASE status \in {"Success", "Failure"}
        <3> DEFINE e == [kind |-> status, build |-> b, changes |-> ChangesOf[b]]
        <3>1. e \in Events
            BY <2>1, <2>4 DEF Events, BuildEvents
        <3>2. pc[w] = "idle" /\ Publish(w, e)
            BY <1>2, <2>4 DEF SaveBuild
        <3> HIDE DEF e
        <3>3. VariablesOK'
            BY <1>2, <2>3, <3>1, <3>2, TypePublish
            DEF SaveBuild, TypeOK, VariablesOK, wiring, documents, Locations
        <3>4. QED
            BY <3>1, <3>2, <3>3, TypePublish DEF TypeOK
    <2>5. CASE status \notin {"Success", "Failure"}
        <3>1. VariablesOK' /\ UNCHANGED thread
            BY <1>2, <2>3, <2>5
            DEF SaveBuild, TypeOK, VariablesOK, wiring, documents, thread
        <3>2. QED
            BY <3>1, NoThreadMoves DEF TypeOK
    <2>6. QED
        BY <2>4, <2>5
<1>3. ASSUME NEW app \in Apps, NEW env \in Envs,
             SaveEnvironmentComponent(w, app, env)
      PROVE  TypeOK'
    <2> DEFINE e == [kind |-> "deploy", app |-> app, env |-> env]
    <2>1. e \in Events
        BY DEF Events, DeployEvents
    <2>2. pc[w] = "idle" /\ Publish(w, e)
        BY <1>3 DEF SaveEnvironmentComponent
    <2> HIDE DEF e
    <2>3. VariablesOK'
        BY <1>3, <2>1, <2>2, TypePublish
        DEF SaveEnvironmentComponent, TypeOK, VariablesOK, store, wiring,
            documents, Locations
    <2>4. QED
        BY <2>1, <2>2, <2>3, TypePublish DEF TypeOK
<1>4. ASSUME NEW d \in Dashboards, Search(w, d) PROVE TypeOK'
    <2>1. [kind |-> "search"] \in Events
        BY DEF Events, SearchEvents
    <2>2. << {} >> \in Seq(SUBSET Dashboards) /\ << {} >> # <<>>
        OBVIOUS
    <2>3. VariablesOK'
        BY <1>4, <2>1, <2>2, NoCopyType
        DEF Search, TypeOK, VariablesOK, store, wiring, documents
    <2>4. /\ pc'[w] = "store"
          /\ frames'[w] = << {} >>
          /\ at'[w] = d
          /\ copy'[w] = NoCopy(w)
          /\ \A v \in Workers \ {w} : SameThread(v)
        BY <1>4 DEF Search, TypeOK, VariablesOK, SameThread
    <2>5. ThreadOK(w)'
        BY <2>2, <2>4, NoCopyType DEF ThreadOK
    <2>6. QED
        BY <2>3, <2>4, <2>5, OtherThreads DEF TypeOK
<1>5. QED
    BY <1>1, <1>2, <1>3, <1>4 DEF Save

\* The copy that getOrCreatePipeline returns is one of a document.
LEMMA GetOrCreateType ==
    ASSUME TypeOK, NEW w \in Workers, NEW d \in Dashboards,
           NEW c \in GetOrCreatePipeline(w, d)
    PROVE  c \in Copies /\ ~c.resave
<1>1. CASE inserted[d] = {}
    BY <1>1, NoCopyType DEF GetOrCreatePipeline
<1>2. CASE inserted[d] # {}
    <2>1. PICK i \in inserted[d] :
             c = [id |-> i, doc |-> pipelines[d][i], resave |-> FALSE]
        BY <1>2 DEF GetOrCreatePipeline
    <2>2. i \in Workers /\ pipelines[d][i] \in Documents
        BY DEF TypeOK, VariablesOK
    <2>3. QED
        BY <2>1, <2>2 DEF Copies
<1>3. QED
    BY <1>1, <1>2

\* What a thread in the middle of a visit has in hand.
LEMMA InHand ==
    ASSUME TypeOK, NEW w \in Workers
    PROVE  /\ event[w] \in Events
           /\ copy[w] \in Copies
           /\ copy[w].doc \in Documents
           /\ copy[w].id \in Workers
           /\ frames[w] \in Seq(SUBSET Dashboards)
           /\ ThreadOK(w)
    BY DEF TypeOK, VariablesOK, Copies

\* An edit makes a document of a document; only a successful build's edit asks
\* for the build to be saved again.
LEMMA TypeEdit ==
    ASSUME TypeOK, NEW w \in Workers, pc[w] = "edit", NEW doc \in Documents,
           NEW resave \in BOOLEAN, Edit(w, doc, resave),
           NEW e \in Events, event' = [event EXCEPT ![w] = e],
           resave => e \in BuildEvents /\ e.kind = "Success"
    PROVE  TypeOK'
<1>1. [copy[w] EXCEPT !.doc = doc, !.resave = resave] \in Copies
    <2>1. copy[w] \in Copies
        BY InHand
    <2>2. QED
        BY <2>1 DEF Copies
<1>2. copy' = [copy EXCEPT ![w] =
                   [copy[w] EXCEPT !.doc = doc, !.resave = resave]]
    BY DEF Edit
<1>3. /\ copy' \in [Workers -> Copies]
      /\ copy'[w] = [copy[w] EXCEPT !.doc = doc, !.resave = resave]
      /\ copy'[w].resave = resave
    BY <1>1, <1>2, InHand DEF TypeOK, VariablesOK, Copies
<1>4. /\ pc'[w] = "store"
      /\ event'[w] = e
      /\ frames'[w] = frames[w]
      /\ at'[w] = at[w]
      /\ \A v \in Workers \ {w} : SameThread(v)
    BY <1>2 DEF TypeOK, VariablesOK, Edit, SameThread
<1>5. ThreadOK(w)'
    BY <1>3, <1>4, InHand DEF ThreadOK
<1>6. VariablesOK'
    BY <1>3 DEF TypeOK, VariablesOK, Edit, store, wiring, documents
<1>7. QED
    BY <1>4, <1>5, <1>6, OtherThreads DEF TypeOK

\* The commits that an edit takes from artifacts and builds are revisions.
LEMMA ArtifactChangesType ==
    ASSUME TypeOK, NEW a \in Artifacts
    PROVE  ArtifactChanges(a) \in SUBSET Revs
<1>1. /\ artifacts[a] \in ArtifactDocuments
      /\ builds[BuildOf[a]] \in BuildDocuments
    BY ConstantsAssumption DEF TypeOK, VariablesOK
<1>2. /\ artifacts[a].changes \in SUBSET Revs
      /\ builds[BuildOf[a]].changes \in SUBSET Revs
    BY <1>1 DEF ArtifactDocuments, BuildDocuments
<1>3. QED
    BY <1>2 DEF ArtifactChanges

\* The four edits of a copy keep the types.
LEMMA TypeEdits ==
    ASSUME TypeOK, NEW w \in Workers,
           \/ EditForCommit(w) \/ EditForFailure(w)
           \/ EditForSuccess(w) \/ EditForDeploy(w)
    PROVE  TypeOK'
<1> DEFINE doc == copy[w].doc
<1>1. /\ doc \in Documents
      /\ event[w] \in Events
      /\ event = [event EXCEPT ![w] = event[w]]
    BY InHand DEF TypeOK, VariablesOK
<1>2. CASE EditForCommit(w)
    <2>1. event[w].rev \in Revs
        BY <1>1, <1>2, EventFields DEF EditForCommit
    <2>2. AddCommits(doc, "Commit", {event[w].rev}) \in Documents
        BY <1>1, <2>1, AddCommitsEffect DEF StageNames
    <2>3. QED
        BY <1>1, <1>2, <2>2, TypeEdit DEF EditForCommit
<1>3. CASE EditForFailure(w)
    <2>1. AddFailedBuild(doc, JobOf[event[w].build], event[w].changes)
             \in Documents
        BY <1>1, <1>3, EventFields, AddFailedBuildEffect DEF EditForFailure
    <2>2. QED
        BY <1>1, <1>3, <2>1, TypeEdit DEF EditForFailure
<1>4. CASE EditForSuccess(w)
    <2> DEFINE b   == event[w].build
               own == FailedChanges(doc, JobOf[b])
               new == ProcessBuild(doc, JobOf[b], event[w].changes, MovableTo(b))
               e   == [event[w] EXCEPT !.changes = @ \cup own]
    <2>1. event[w].kind = "Success" /\ event[w] \in BuildEvents
        BY <1>1, <1>4, EventFields DEF EditForSuccess
    <2>2. MovableTo(b) \in SUBSET Revs /\ own \in SUBSET Revs
        BY <1>1, FailedChangesType DEF MovableTo
    <2>3. new \in Documents
        BY <1>1, <2>1, <2>2, EventFields, ProcessBuildEffect
        DEF BuildProcessed
    <2>4. event' = [event EXCEPT ![w] = e]
        BY <1>4 DEF EditForSuccess
    <2>5. e \in BuildEvents /\ e.kind = "Success"
        BY <2>1, <2>2 DEF BuildEvents
    <2>6. e \in Events
        BY <2>5 DEF Events
    <2>7. pc[w] = "edit" /\ Edit(w, new, doc.failedBuilds # {})
        BY <1>4 DEF EditForSuccess
    <2>8. (doc.failedBuilds # {}) \in BOOLEAN
        OBVIOUS
    <2> HIDE DEF new, e
    <2>9. QED
        BY <2>3, <2>4, <2>5, <2>6, <2>7, <2>8, TypeEdit
<1>5. CASE EditForDeploy(w)
    <2> DEFINE e    == event[w]
               as   == NewArtifacts(doc, e.app, e.env)
               revs == UNION {ArtifactChanges(a) : a \in as}
    <2>1. event' = event /\ pc[w] = "edit" /\ e.env \in Envs
        BY <1>1, <1>5, EventFields DEF EditForDeploy
    <2>2. CASE Edit(w, doc, FALSE)
        BY <1>1, <2>1, <2>2, TypeEdit
    <2>3. ASSUME NEW a \in Artifacts,
                 Edit(w, Deploy(doc, e.env, revs, ArtifactTime[a]), FALSE)
          PROVE  TypeOK'
        <3>1. revs \in SUBSET Revs
            BY ArtifactChangesType DEF NewArtifacts
        <3>2. ArtifactTime[a] \in Nat
            BY ConstantsAssumption
        <3>3. Deploy(doc, e.env, revs, ArtifactTime[a]) \in Documents
            BY <1>1, <2>1, <3>1, <3>2, DeployEffect
        <3>4. QED
            BY <1>1, <2>1, <2>3, <3>3, TypeEdit
    <2>4. QED
        BY <1>5, <2>2, <2>3 DEF EditForDeploy
<1>6. QED
    BY <1>2, <1>3, <1>4, <1>5

\* Every step of the listener keeps the types.
LEMMA TypeHandle == ASSUME TypeOK, NEW w \in Workers, Handle(w) PROVE TypeOK'
<1>1. CASE FindDashboards(w)
    <2> DEFINE found == {d \in Dashboards : Concerns(event[w], d)}
               fs    == << found >> \o frames[w]
    <2>1. fs \in Seq(SUBSET Dashboards) /\ fs # <<>>
        BY InHand
    <2>2. frames' = [frames EXCEPT ![w] = fs]
        BY <1>1 DEF FindDashboards
    <2> HIDE DEF found, fs
    <2>3. VariablesOK'
        BY <1>1, <2>1, <2>2
        DEF FindDashboards, TypeOK, VariablesOK, store, wiring, documents
    <2>4. /\ pc'[w] = "next"
          /\ frames'[w] = fs
          /\ event'[w] = event[w]
          /\ copy'[w] = copy[w]
          /\ \A v \in Workers \ {w} : SameThread(v)
        BY <1>1, <2>2 DEF FindDashboards, TypeOK, VariablesOK, SameThread
    <2>5. ThreadOK(w)'
        BY <2>1, <2>4, InHand DEF ThreadOK
    <2>6. QED
        BY <2>3, <2>4, <2>5, OtherThreads DEF TypeOK
<1>2. ASSUME NEW d \in Dashboards, LoadPipeline(w, d) PROVE TypeOK'
    <2> DEFINE fs == [frames[w] EXCEPT ![1] = @ \ {d}]
    <2>1. PICK c \in GetOrCreatePipeline(w, d) : copy' = [copy EXCEPT ![w] = c]
        BY <1>2 DEF LoadPipeline
    <2>2. c \in Copies /\ ~c.resave
        BY <2>1, GetOrCreateType
    <2>3. frames[w] \in Seq(SUBSET Dashboards) /\ frames[w] # <<>>
        BY <1>2, InHand DEF LoadPipeline, ThreadOK
    <2>4. fs \in Seq(SUBSET Dashboards) /\ fs # <<>>
        BY <2>3
    <2>5. frames' = [frames EXCEPT ![w] = fs]
        BY <1>2 DEF LoadPipeline
    <2> HIDE DEF fs
    <2>6. VariablesOK'
        BY <1>2, <2>1, <2>2, <2>4, <2>5
        DEF LoadPipeline, TypeOK, VariablesOK, store, wiring, documents
    <2>7. /\ pc'[w] = "edit"
          /\ frames'[w] = fs
          /\ at'[w] = d
          /\ copy'[w] = c
          /\ \A v \in Workers \ {w} : SameThread(v)
        BY <1>2, <2>1, <2>5 DEF LoadPipeline, TypeOK, VariablesOK, SameThread
    <2>8. ThreadOK(w)'
        BY <2>2, <2>4, <2>7 DEF ThreadOK
    <2>9. QED
        BY <2>6, <2>7, <2>8, OtherThreads DEF TypeOK
<1>3. ASSUME NEW d \in Dashboards, ItemMissing(w, d) PROVE TypeOK'
    BY <1>3, StopType
    DEF ItemMissing, TypeOK, VariablesOK, store, wiring, documents, Locations
<1>4. CASE \/ EditForCommit(w) \/ EditForFailure(w)
           \/ EditForSuccess(w) \/ EditForDeploy(w)
    BY <1>4, TypeEdits
<1>5. CASE StorePipeline(w)
    <2>1. at[w] \in Dashboards
        BY <1>5, InHand DEF StorePipeline, ThreadOK
    <2>2. /\ pipelines' \in [Dashboards -> [Workers -> Documents]]
          /\ inserted' \in [Dashboards -> SUBSET Workers]
        BY <1>5, <2>1, InHand DEF StorePipeline, TypeOK, VariablesOK
    <2>3. VariablesOK'
        BY <1>5, <2>2 DEF StorePipeline, TypeOK, VariablesOK, store, wiring
    <2>4. /\ pc'[w] = IF copy[w].resave THEN "resave" ELSE "next"
          /\ UNCHANGED <<event, frames, at, copy>>
          /\ \A v \in Workers \ {w} : SameThread(v)
        BY <1>5 DEF StorePipeline, TypeOK, VariablesOK, SameThread
    <2>5. ThreadOK(w) /\ pc[w] = "store"
        BY <1>5, InHand DEF StorePipeline
    <2>6. ThreadOK(w)'
        BY <2>4, <2>5 DEF ThreadOK
    <2>7. QED
        BY <2>3, <2>4, <2>6, OtherThreads DEF TypeOK
<1>6. ASSUME Resave(w), pc[w] = "resave"
      PROVE  /\ builds' \in [Builds -> BuildDocuments]
             /\ succeeded' \in SUBSET Builds
    <2>1. event[w].build \in Builds /\ event[w].changes \in SUBSET Revs
        BY <1>6, InHand, EventFields DEF ThreadOK
    <2>2. [status |-> "Success", changes |-> event[w].changes] \in BuildDocuments
        BY <2>1 DEF BuildDocuments, BuildStatuses
    <2>3. QED
        BY <1>6, <2>1, <2>2 DEF Resave, TypeOK, VariablesOK
<1>7. CASE ResaveBuild(w)
    <2>1. VariablesOK'
        BY <1>6, <1>7 DEF ResaveBuild, TypeOK, VariablesOK, wiring, documents
    <2>2. /\ pc'[w] = "find"
          /\ UNCHANGED <<event, frames, at, copy>>
          /\ \A v \in Workers \ {w} : SameThread(v)
        BY <1>7 DEF ResaveBuild, TypeOK, VariablesOK, SameThread
    <2>3. ThreadOK(w)'
        BY <2>2, InHand DEF ThreadOK
    <2>4. QED
        BY <2>1, <2>2, <2>3, OtherThreads DEF TypeOK
<1>8. CASE StackOverflow(w)
    BY <1>6, <1>8, StopType
    DEF StackOverflow, TypeOK, VariablesOK, wiring, documents, Locations
<1>9. CASE Return(w)
    <2>1. CASE Stop(w)
        BY <1>9, <2>1, StopType
        DEF Return, TypeOK, VariablesOK, store, wiring, documents, Locations
    <2>2. CASE ~Stop(w)
        <3> DEFINE fs == Tail(frames[w])
        <3>1. /\ frames[w] \in Seq(SUBSET Dashboards)
              /\ frames[w] # <<>>
              /\ Len(frames[w]) # 1
            BY <1>9, <2>2, InHand DEF Return, ThreadOK
        <3>2. fs \in Seq(SUBSET Dashboards) /\ fs # <<>>
            BY <3>1, TailType
        <3>3. frames' = [frames EXCEPT ![w] = fs]
            BY <1>9, <2>2 DEF Return
        <3> HIDE DEF fs
        <3>4. VariablesOK'
            BY <1>9, <2>2, <3>2, <3>3
            DEF Return, TypeOK, VariablesOK, store, wiring, documents
        <3>5. /\ UNCHANGED <<pc, event, at, copy>>
              /\ pc[w] = "next"
              /\ frames'[w] = fs
              /\ \A v \in Workers \ {w} : SameThread(v)
            BY <1>9, <2>2, <3>3 DEF Return, TypeOK, VariablesOK, SameThread
        <3>6. ThreadOK(w)'
            BY <3>2, <3>5, InHand DEF ThreadOK
        <3>7. QED
            BY <3>4, <3>5, <3>6, OtherThreads DEF TypeOK
    <2>3. QED
        BY <2>1, <2>2
<1>10. QED
    BY <1>1, <1>2, <1>3, <1>4, <1>5, <1>7, <1>8, <1>9 DEF Handle

\* The initial state is well typed.
LEMMA TypeInit == Init => TypeOK
<1> SUFFICES ASSUME Init PROVE TypeOK
    OBVIOUS
<1>1. VariablesOK
    BY EmptyDocumentType, NoCopyType, NoEventType, ConstantsAssumption
    DEF Init, VariablesOK, CommitTypes, BuildDocuments, BuildStatuses,
        ArtifactDocuments
<1>2. ASSUME NEW w \in Workers PROVE ThreadOK(w)
    BY NoCopyType DEF Init, ThreadOK
<1>3. QED
    BY <1>1, <1>2 DEF TypeOK

\* Every step keeps the types.
LEMMA TypeStep == TypeOK /\ [Next]_vars => TypeOK'
<1> SUFFICES ASSUME TypeOK, [Next]_vars PROVE TypeOK'
    OBVIOUS
<1>1. CASE Administer
    BY <1>1, TypeAdminister
<1>2. ASSUME NEW w \in Workers, Save(w) PROVE TypeOK'
    BY <1>2, TypeSave
<1>3. ASSUME NEW w \in Workers, Handle(w) PROVE TypeOK'
    BY <1>3, TypeHandle
<1>4. ASSUME NEW w \in Workers, Crash(w) PROVE TypeOK'
    BY <1>4, StopType
    DEF Crash, TypeOK, VariablesOK, store, wiring, documents, Locations
<1>5. CASE UNCHANGED vars
    <2>1. VariablesOK' /\ UNCHANGED thread
        BY <1>5
        DEF vars, store, wiring, documents, thread, TypeOK, VariablesOK
    <2>2. QED
        BY <2>1, NoThreadMoves DEF TypeOK
<1>6. QED
    BY <1>1, <1>2, <1>3, <1>4, <1>5 DEF Next

\* The variables and what a thread has in hand keep their types.
THEOREM TypeCorrect == Spec => []TypeOK
<1>1. QED
    BY TypeInit, TypeStep, PTL DEF Spec
-----------------------------------------------------------------------------
\* A thread's own steps leave the other threads alone.
LEMMA OtherThreadsSame ==
    ASSUME TypeOK, NEW w \in Workers, Save(w) \/ Handle(w) \/ Crash(w)
    PROVE  \A v \in Workers \ {w} : SameThread(v)
<1>1. CASE Save(w)
    BY <1>1
    DEF Save, SaveCommit, SaveBuild, SaveEnvironmentComponent, Search, Publish,
        thread, TypeOK, VariablesOK, SameThread
<1>2. ASSUME NEW d \in Dashboards, LoadPipeline(w, d) \/ ItemMissing(w, d)
      PROVE  \A v \in Workers \ {w} : SameThread(v)
    BY <1>2
    DEF LoadPipeline, ItemMissing, Stop, TypeOK, VariablesOK, SameThread
<1>3. CASE \/ EditForCommit(w) \/ EditForFailure(w)
           \/ EditForSuccess(w) \/ EditForDeploy(w)
    BY <1>3
    DEF EditForCommit, EditForFailure, EditForSuccess, EditForDeploy, Edit,
        TypeOK, VariablesOK, SameThread
<1>4. CASE \/ FindDashboards(w) \/ StorePipeline(w) \/ ResaveBuild(w)
           \/ StackOverflow(w) \/ Return(w)
    BY <1>4
    DEF FindDashboards, StorePipeline, ResaveBuild, StackOverflow, Return, Stop,
        TypeOK, VariablesOK, SameThread
<1>5. CASE Crash(w)
    BY <1>5 DEF Crash, Stop, TypeOK, VariablesOK, SameThread
<1>6. QED
    BY <1>1, <1>2, <1>3, <1>4, <1>5 DEF Handle

\* A thread's place changes by its own steps only.
LEMMA OwnStep ==
    ASSUME TypeOK, [Next]_vars, NEW w \in Workers, pc'[w] # pc[w]
    PROVE  Save(w) \/ Handle(w) \/ Crash(w)
<1>1. CASE Administer
    BY <1>1
    DEF Administer, CreateDashboard, CreateItem, DeleteDashboard,
        DeleteItem, LifeStep, AssociateJob, SaveArtifact, thread
<1>2. ASSUME NEW v \in Workers, v # w, Save(v) \/ Handle(v) \/ Crash(v)
      PROVE  FALSE
    BY <1>2, OtherThreadsSame DEF SameThread
<1>3. CASE UNCHANGED vars
    BY <1>3 DEF vars, thread
<1>4. QED
    BY <1>1, <1>2, <1>3 DEF Next

\* A step that edits a pipeline for a deployment is EditForDeploy of that thread.
LEMMA EditsDeployStep ==
    ASSUME TypeOK, [Next]_vars, NEW w \in Workers, EditsDeploy(w)
    PROVE  EditForDeploy(w)
<1>1. pc[w] = "edit" /\ pc'[w] = "store" /\ event[w].kind = "deploy"
    BY DEF EditsDeploy
<1>2. Save(w) \/ Handle(w) \/ Crash(w)
    BY <1>1, OwnStep
<1>3. ~Save(w)
    BY <1>1
    DEF Save, SaveCommit, SaveBuild, SaveEnvironmentComponent, Search
<1>4. ~Crash(w)
    BY <1>1 DEF Crash, Stop, TypeOK, VariablesOK
<1>5. Handle(w)
    BY <1>2, <1>3, <1>4
<1>6. QED
    BY <1>1, <1>5
    DEF Handle, FindDashboards, LoadPipeline, ItemMissing, EditForCommit,
        EditForFailure, EditForSuccess, StorePipeline, ResaveBuild,
        StackOverflow, Return

\* However many threads deploy, the last artifact of a copy never goes back and
\* never passes over an artifact of the component without its known commits.
THEOREM LastArtifactCorrect == Spec => LastArtifactCarries
<1> DEFINE Carries(w) ==
              LET e   == event[w]
                  old == copy[w].doc
                  new == copy'[w].doc
              IN  /\ old.last[e.env] <= new.last[e.env]
                  /\ \A a \in Covered(e, new) \ Covered(e, old) :
                        ArtifactChanges(a) \subseteq new.stages[e.env]
<1>1. ASSUME TypeOK, [Next]_vars, NEW w \in Workers, EditsDeploy(w)
      PROVE  Carries(w)
    <2> DEFINE e    == event[w]
               doc  == copy[w].doc
               new  == copy'[w].doc
               as   == NewArtifacts(doc, e.app, e.env)
               revs == UNION {ArtifactChanges(a) : a \in as}
    <2>1. EditForDeploy(w)
        BY <1>1, EditsDeployStep
    <2>2. doc \in Documents /\ e.env \in Envs
        BY <1>1, <2>1, InHand, EventFields DEF EditForDeploy
    <2>3. doc.last[e.env] \in Nat
        BY <2>2 DEF Documents
    <2>4. ASSUME NEW d, NEW resave, Edit(w, d, resave)
          PROVE  new = d
        BY <1>1, <2>4 DEF Edit, TypeOK, VariablesOK, Copies
    <2>5. CASE Edit(w, doc, FALSE)
        <3>1. new = doc
            BY <2>4, <2>5
        <3>2. Covered(e, new) \ Covered(e, doc) = {}
            BY <3>1
        <3>3. QED
            BY <2>3, <3>1, <3>2
    <2>6. ASSUME NEW a \in Artifacts, SortedLast(as, a),
                 Edit(w, Deploy(doc, e.env, revs, ArtifactTime[a]), FALSE)
          PROVE  Carries(w)
        <3>1. revs \in SUBSET Revs
            BY <1>1, ArtifactChangesType DEF NewArtifacts
        <3>2. ArtifactTime[a] \in Nat
            BY ConstantsAssumption
        <3>3. new = Deploy(doc, e.env, revs, ArtifactTime[a])
            BY <2>4, <2>6
        <3>4. as \subseteq Artifacts
                /\ \A x \in Artifacts :
                      x \in as <=> /\ artifacts[x].info # "none"
                                 /\ AppOf[x] = e.app
                                 /\ ArtifactTime[x] > doc.last[e.env]
            BY DEF NewArtifacts
        <3>5. \A x \in as : ArtifactChanges(x) \subseteq revs
            OBVIOUS
        <3>6. a \in as
            BY <2>6 DEF SortedLast
        <3> HIDE DEF revs, as
        <3>7. /\ new \in Documents
              /\ new.stages = [doc.stages EXCEPT ![e.env] = @ \cup revs]
              /\ new.last = [doc.last EXCEPT ![e.env] = ArtifactTime[a]]
              /\ new.failedBuilds = doc.failedBuilds
            BY <2>2, <3>1, <3>2, <3>3, DeployEffect
        <3>8. /\ doc.stages \in [StageNames -> SUBSET Revs]
              /\ doc.last \in [Envs -> Nat]
              /\ e.env \in StageNames
            BY <2>2 DEF Documents, StageNames
        <3> HIDE DEF new, doc, e
        <3>9. new.last[e.env] = ArtifactTime[a] /\ revs \subseteq new.stages[e.env]
            BY <2>2, <3>7, <3>8
        <3>10. doc.last[e.env] <= new.last[e.env]
            <4>1. ArtifactTime[a] > doc.last[e.env]
                BY <3>4, <3>6
            <4>2. QED
                BY <2>3, <3>2, <3>9, <4>1
        <3>11. \A x \in Artifacts :
                  ~(ArtifactTime[x] <= doc.last[e.env]) =>
                      ArtifactTime[x] > doc.last[e.env]
            <4>1. \A x \in Artifacts : ArtifactTime[x] \in Nat
                BY ConstantsAssumption
            <4>2. QED
                BY <2>3, <4>1
        <3>12. \A x \in Covered(e, new) \ Covered(e, doc) : x \in as
            BY <3>4, <3>11 DEF Covered
        <3>13. QED
            BY <3>5, <3>9, <3>10, <3>12 DEF new, doc, e
    <2>7. QED
        BY <2>1, <2>5, <2>6 DEF EditForDeploy
<1>2. TypeOK /\ [Next]_vars =>
          [\A w \in Workers : EditsDeploy(w) => Carries(w)]_vars
    BY <1>1
<1>3. QED
    BY <1>2, TypeCorrect, PTL DEF Spec, LastArtifactCarries
-----------------------------------------------------------------------------
(***************************************************************************)
(* A commit under way.  What a thread saves shows the commit               *)
(* (SavesCarry), and the call ends with dashboards left to visit only when *)
(* the process dies or a dashboard lacks its Product item (CommitReaches). *)
(***************************************************************************)
ItemsReady == \A d \in Dashboards : dash[d] = "ready"

\* Without volatile dashboards every dashboard keeps its Product item.
LEMMA ItemsStayReady ==
    ASSUME Volatile = {}
    PROVE  Spec => []ItemsReady
<1>1. Init => ItemsReady
    BY DEF Init, ItemsReady
<1>2. ItemsReady /\ [Next]_vars => ItemsReady'
    <2> SUFFICES ASSUME ItemsReady, [Next]_vars PROVE ItemsReady'
        OBVIOUS
    <2>1. CASE Administer
        BY <2>1
        DEF ItemsReady, Administer, CreateDashboard, CreateItem,
            DeleteDashboard, DeleteItem, LifeStep, AssociateJob, SaveArtifact,
            wiring
    <2>2. ASSUME NEW w \in Workers, Save(w) \/ Handle(w) \/ Crash(w)
          PROVE  UNCHANGED dash
        BY <2>2
        DEF Save, SaveCommit, SaveBuild, SaveEnvironmentComponent, Search,
            Handle, FindDashboards, LoadPipeline, ItemMissing, EditForCommit,
            EditForFailure, EditForSuccess, EditForDeploy, Edit, StorePipeline,
            ResaveBuild, StackOverflow, Return, Crash, wiring
    <2>3. QED
        BY <2>1, <2>2 DEF Next, vars, wiring, ItemsReady
<1>3. QED
    BY <1>1, <1>2, PTL DEF Spec

\* The ways in which a call ends.
LEMMA EndsHow ==
    ASSUME TypeOK, [Next]_vars, NEW w \in Workers, Ends(w)
    PROVE  \/ Crash(w)
           \/ \E d \in Dashboards : ItemMissing(w, d)
           \/ StackOverflow(w)
           \/ Return(w) /\ Len(frames[w]) = 1
<1>1. pc[w] # "idle" /\ pc'[w] = "idle" /\ pc \in [Workers -> Locations]
    BY DEF Ends, TypeOK, VariablesOK, Locations
<1>2. Handle(w) \/ Crash(w)
    BY <1>1, OwnStep
    DEF Save, SaveCommit, SaveBuild, SaveEnvironmentComponent, Search
<1>3. Return(w) => Len(frames[w]) = 1
    BY <1>1 DEF Return
<1>4. QED
    BY <1>1, <1>2, <1>3
    DEF Handle, FindDashboards, LoadPipeline, EditForCommit, EditForFailure,
        EditForSuccess, EditForDeploy, Edit, StorePipeline, ResaveBuild

\* A thread that returns from its only call has visited all it was to visit.
LEMMA ReturnedAll ==
    ASSUME TypeOK, NEW w \in Workers, Return(w), Len(frames[w]) = 1
    PROVE  Unvisited(w) = {}
<1> DEFINE fs == frames[w]
<1>1. fs \in Seq(SUBSET Dashboards) /\ Len(fs) = 1 /\ fs # <<>>
    BY InHand DEF Return, ThreadOK
<1>2. Head(fs) = fs[1] /\ DOMAIN fs = {1}
    BY <1>1
<1>3. Head(fs) = {}
    BY DEF Return
<1>4. QED
    BY <1>2, <1>3 DEF Unvisited

\* Whatever the number of threads, a call that handles a New commit ends with
\* every dashboard it found visited, unless the process dies in it or a
\* dashboard has no Product item.
THEOREM CommitReaches ==
    ASSUME ~MayCrash, Volatile = {}
    PROVE  Spec => CommitReachesEveryDashboard
<1>1. ASSUME TypeOK, ItemsReady, [Next]_vars, NEW w \in Workers, Ends(w),
             event[w].kind = "commit"
      PROVE  Unvisited(w) = {}
    <2>1. ~Crash(w)
        BY DEF Crash
    <2>2. ~\E d \in Dashboards : ItemMissing(w, d)
        BY <1>1 DEF ItemMissing, ItemsReady, HasItem
    <2>3. ~StackOverflow(w)
        <3>1. pc[w] = "resave" => event[w].kind = "Success"
            BY <1>1 DEF TypeOK, ThreadOK
        <3>2. QED
            BY <1>1, <3>1 DEF StackOverflow
    <2>4. QED
        BY <1>1, <2>1, <2>2, <2>3, EndsHow, ReturnedAll
<1>2. TypeOK /\ ItemsReady /\ [Next]_vars =>
          [\A w \in Workers :
              Ends(w) /\ event[w].kind = "commit" =>
                  \A d \in Unvisited(w) :
                      HasItem(d) => event[w].rev \in Entered[d]["Commit"]]_vars
    BY <1>1
<1>3. QED
    BY <1>2, TypeCorrect, ItemsStayReady, PTL
    DEF Spec, CommitReachesEveryDashboard

\* The copy a thread is about to save shows what it handles.
Shows(w) ==
    pc[w] = "store" =>
        /\ event[w].kind = "commit" =>
               event[w].rev \in copy[w].doc.stages["Commit"]
        /\ event[w].kind = "Success" =>
               event[w].changes \subseteq copy[w].doc.stages["Build"]

CopiesShow == \A w \in Workers : Shows(w)

\* The edit of a copy puts what the thread handles into its stages.
LEMMA EditShows ==
    ASSUME TypeOK, NEW w \in Workers,
           \/ EditForCommit(w) \/ EditForFailure(w)
           \/ EditForSuccess(w) \/ EditForDeploy(w)
    PROVE  Shows(w)'
<1> DEFINE doc == copy[w].doc
           e   == event[w]
<1>1. /\ doc \in Documents /\ e \in Events
      /\ doc.stages \in [StageNames -> SUBSET Revs]
    BY InHand DEF Documents
<1>2. ASSUME NEW new, NEW resave, Edit(w, new, resave)
      PROVE  copy'[w].doc = new
    BY <1>2 DEF Edit, TypeOK, VariablesOK, Copies
<1>3. CASE EditForFailure(w) \/ EditForDeploy(w)
    BY <1>3 DEF EditForFailure, EditForDeploy, Shows
<1>4. CASE EditForCommit(w)
    <2> DEFINE new == AddCommits(doc, "Commit", {e.rev})
    <2>1. e.rev \in Revs /\ e.kind = "commit" /\ event' = event
        BY <1>1, <1>4, EventFields DEF EditForCommit
    <2>2. new.stages = [doc.stages EXCEPT !["Commit"] = @ \cup {e.rev}]
        BY <1>1, <2>1, AddCommitsEffect DEF StageNames
    <2>3. copy'[w].doc = new
        BY <1>2, <1>4 DEF EditForCommit
    <2> HIDE DEF new
    <2>4. e.rev \in new.stages["Commit"]
        BY <1>1, <2>2 DEF StageNames
    <2>5. QED
        BY <2>1, <2>3, <2>4 DEF Shows
<1>5. CASE EditForSuccess(w)
    <2> DEFINE b   == e.build
               own == FailedChanges(doc, JobOf[b])
               new == ProcessBuild(doc, JobOf[b], e.changes, MovableTo(b))
    <2>1. /\ e \in BuildEvents /\ e.kind = "Success"
          /\ e.changes \in SUBSET Revs /\ JobOf[b] \in Jobs
          /\ MovableTo(b) \in SUBSET Revs
        BY <1>1, <1>5, EventFields DEF EditForSuccess, MovableTo
    <2>2. /\ event'[w].kind = "Success"
          /\ event'[w].changes = e.changes \cup own
        BY <1>5, <2>1 DEF EditForSuccess, TypeOK, VariablesOK, BuildEvents
    <2>3. BuildProcessed(new, doc, JobOf[b], e.changes, MovableTo(b))
        BY <1>1, <2>1, ProcessBuildEffect
    <2>4. copy'[w].doc = new
        BY <1>2, <1>5 DEF EditForSuccess
    <2> HIDE DEF new
    <2>5. e.changes \cup own \subseteq new.stages["Build"]
        BY <1>1, <2>3 DEF BuildProcessed, StageNames
    <2>6. QED
        BY <2>2, <2>4, <2>5 DEF Shows
<1>6. QED
    BY <1>3, <1>4, <1>5

\* Every step keeps what the copies show.
LEMMA ShowsStep == TypeOK /\ CopiesShow /\ [Next]_vars => CopiesShow'
<1> SUFFICES ASSUME TypeOK, CopiesShow, [Next]_vars, NEW w \in Workers
             PROVE  Shows(w)'
    BY DEF CopiesShow
<1>1. CASE SameThread(w)
    BY <1>1 DEF CopiesShow, Shows, SameThread
<1>2. CASE pc'[w] # "store"
    BY <1>2 DEF Shows
<1>3. CASE Save(w) \/ Handle(w) \/ Crash(w)
    <2>1. ASSUME NEW d \in Dashboards, Search(w, d) PROVE Shows(w)'
        BY <2>1 DEF Search, TypeOK, VariablesOK, Shows
    <2>2. CASE UNCHANGED thread
        BY <1>1, <2>2 DEF thread, SameThread
    <2>3. CASE Save(w)
        BY <1>2, <2>1, <2>2, <2>3
        DEF Save, SaveCommit, SaveBuild, SaveEnvironmentComponent, Publish,
            TypeOK, VariablesOK
    <2>4. CASE Crash(w)
        BY <1>2, <2>4 DEF Crash, Stop, TypeOK, VariablesOK
    <2>5. CASE Handle(w)
        BY <1>2, <2>5, EditShows
        DEF Handle, FindDashboards, LoadPipeline, ItemMissing, StorePipeline,
            ResaveBuild, StackOverflow, Return, Stop, TypeOK, VariablesOK
    <2>6. QED
        BY <1>3, <2>3, <2>4, <2>5
<1>4. CASE Administer \/ UNCHANGED vars
    BY <1>1, <1>4
    DEF Administer, CreateDashboard, CreateItem, DeleteDashboard, DeleteItem,
        LifeStep, AssociateJob, SaveArtifact, vars, thread, SameThread
<1>5. QED
    BY <1>1, <1>3, <1>4, OtherThreadsSame DEF Next

\* A step from "store" to the next dashboard or the second save is the store.
LEMMA StoreStep ==
    ASSUME TypeOK, [Next]_vars, NEW w \in Workers,
           pc[w] = "store", pc'[w] \in {"next", "resave"}
    PROVE  StorePipeline(w)
<1>1. Save(w) \/ Handle(w) \/ Crash(w)
    BY OwnStep
<1>2. ~Crash(w)
    BY DEF Crash, Stop, TypeOK, VariablesOK
<1>3. QED
    BY <1>1, <1>2
    DEF Save, SaveCommit, SaveBuild, SaveEnvironmentComponent, Search, Handle,
        FindDashboards, LoadPipeline, ItemMissing, EditForCommit,
        EditForFailure, EditForSuccess, EditForDeploy, ResaveBuild,
        StackOverflow, Return

\* However many threads there are, what a thread saves of a pipeline shows the
\* commit it handles, or the commits its build has by then.
THEOREM SavesCarry == Spec => SavesWhatItHandles
<1>1. ASSUME TypeOK, CopiesShow, [Next]_vars, NEW w \in Workers,
             pc[w] = "store", pc'[w] \in {"next", "resave"}
      PROVE  /\ event[w].kind = "commit" =>
                    event[w].rev \in Entered'[at[w]]["Commit"]
             /\ event[w].kind = "Success" =>
                    event[w].changes \subseteq Entered'[at[w]]["Build"]
    <2> DEFINE d   == at[w]
               i   == copy[w].id
               doc == copy[w].doc
    <2>1. StorePipeline(w) /\ Shows(w)
        BY <1>1, StoreStep DEF CopiesShow
    <2>2. d \in Dashboards /\ i \in Workers
        BY <1>1, InHand DEF ThreadOK
    <2>3. pipelines'[d][i] = doc /\ i \in inserted'[d]
        BY <1>1, <2>1, <2>2 DEF StorePipeline, TypeOK, VariablesOK
    <2>4. Entered'[d] = [s \in StageNames |->
              UNION {pipelines'[d][j].stages[s] : j \in inserted'[d]}]
        BY <2>2 DEF Entered
    <2> HIDE DEF d, i, doc
    <2>5. \A s \in StageNames : doc.stages[s] \subseteq Entered'[d][s]
        BY <2>3, <2>4
    <2>6. {"Commit", "Build"} \subseteq StageNames
        BY DEF StageNames
    <2>7. QED
        BY <1>1, <2>1, <2>5, <2>6 DEF Shows, d, doc
<1>2. TypeOK /\ CopiesShow /\ [Next]_vars =>
          [\A w \in Workers :
              pc[w] = "store" /\ pc'[w] \in {"next", "resave"} =>
                  /\ event[w].kind = "commit" =>
                         event[w].rev \in Entered'[at[w]]["Commit"]
                  /\ event[w].kind = "Success" =>
                         event[w].changes \subseteq
                             Entered'[at[w]]["Build"]]_vars
    BY <1>1
<1>3. Init => CopiesShow
    BY DEF Init, CopiesShow, Shows
<1>4. QED
    BY <1>2, <1>3, ShowsStep, TypeCorrect, PTL DEF Spec, SavesWhatItHandles
-----------------------------------------------------------------------------
(***************************************************************************)
(* When each environment is deployed to by one component, and the          *)
(* artifacts of a component are stored in the order of their timestamps, a *)
(* stage's last artifact stands for all the artifacts before it.           *)
(***************************************************************************)

\* The artifacts of its component up to a stage's last artifact are in the stage.
Carried(owner, doc, env) ==
    \A a \in Artifacts :
        /\ artifacts[a].info = "embedded"
        /\ AppOf[a] = owner[env]
        /\ ArtifactTime[a] <= doc.last[env]
        => artifacts[a].changes \subseteq doc.stages[env]

\* The last artifact of a stage, if any, is one of its component's.
LastStored(owner, doc, env) ==
    \/ doc.last[env] = 0
    \/ \E a \in Artifacts : /\ artifacts[a].info # "none"
                            /\ AppOf[a] = owner[env]
                            /\ ArtifactTime[a] = doc.last[env]

DocumentCarries(owner, doc) ==
    \A env \in Envs : Carried(owner, doc, env) /\ LastStored(owner, doc, env)

CarriesInv(owner) ==
    /\ TypeOK
    /\ \A d \in Dashboards, i \in Workers :
          DocumentCarries(owner, pipelines[d][i])
    /\ \A w \in Workers : DocumentCarries(owner, copy[w].doc)

InOrder ==
    \A a, b \in Artifacts :
        /\ artifacts[a].info = "none" /\ artifacts'[a].info # "none"
        /\ artifacts[b].info # "none" /\ AppOf[a] = AppOf[b]
        => ArtifactTime[b] < ArtifactTime[a]

\* An empty document has no last artifact.
LEMMA EmptyCarries == \A owner : DocumentCarries(owner, EmptyDocument)
<1>1. \A env \in Envs : EmptyDocument.last[env] = 0
    BY DEF EmptyDocument
<1>2. \A a \in Artifacts : ~(ArtifactTime[a] <= 0)
    BY ConstantsAssumption
<1>3. QED
    BY <1>1, <1>2 DEF DocumentCarries, Carried, LastStored

\* Only SaveArtifact changes the artifacts.
LEMMA ArtifactsChange ==
    ASSUME [Next]_vars
    PROVE  \/ UNCHANGED artifacts
           \/ \E a \in Artifacts, info \in {"metadata", "embedded"} :
                 SaveArtifact(a, info)
    BY DEF Next, Administer, CreateDashboard, CreateItem, DeleteDashboard,
           DeleteItem, LifeStep, AssociateJob, Save, SaveCommit, SaveBuild,
           SaveEnvironmentComponent, Search, Handle, FindDashboards,
           LoadPipeline, ItemMissing, EditForCommit, EditForFailure,
           EditForSuccess, EditForDeploy, Edit, StorePipeline, ResaveBuild,
           StackOverflow, Return, Crash, vars, store

\* An artifact that is stored after the others of its component is newer than
\* the last artifact of any document.
LEMMA CarriesStays ==
    ASSUME TypeOK, [Next]_vars, InOrder, NEW owner, NEW doc \in Documents,
           DocumentCarries(owner, doc)
    PROVE  DocumentCarries(owner, doc)'
<1>1. CASE UNCHANGED artifacts
    BY <1>1 DEF DocumentCarries, Carried, LastStored
<1>2. ASSUME NEW x \in Artifacts, NEW info \in {"metadata", "embedded"},
             SaveArtifact(x, info)
      PROVE  DocumentCarries(owner, doc)'
    <2>1. /\ artifacts[x].info = "none" /\ artifacts'[x].info # "none"
          /\ \A a \in Artifacts \ {x} : artifacts'[a] = artifacts[a]
        BY <1>2 DEF SaveArtifact, TypeOK, VariablesOK
    <2> SUFFICES ASSUME NEW env \in Envs
                 PROVE  /\ Carried(owner, doc, env)'
                        /\ LastStored(owner, doc, env)'
        BY DEF DocumentCarries
    <2>2. Carried(owner, doc, env) /\ LastStored(owner, doc, env)
        BY DEF DocumentCarries
    <2>3. doc.last[env] \in Nat /\ \A a \in Artifacts : ArtifactTime[a] \in Nat \ {0}
        BY ConstantsAssumption DEF Documents
    <2>4. LastStored(owner, doc, env)'
        BY <2>1, <2>2 DEF LastStored
    <2>5. AppOf[x] = owner[env] => ~(ArtifactTime[x] <= doc.last[env])
        <3>1. CASE doc.last[env] = 0
            BY <2>3, <3>1
        <3>2. ASSUME NEW a \in Artifacts, artifacts[a].info # "none",
                     AppOf[a] = owner[env], ArtifactTime[a] = doc.last[env]
              PROVE  AppOf[x] = owner[env] => ~(ArtifactTime[x] <= doc.last[env])
            <4>1. AppOf[x] = owner[env] => ArtifactTime[a] < ArtifactTime[x]
                BY <2>1, <3>2 DEF InOrder
            <4>2. QED
                BY <2>3, <3>2, <4>1
        <3>3. QED
            BY <2>2, <3>1, <3>2 DEF LastStored
    <2>6. Carried(owner, doc, env)'
        BY <2>1, <2>2, <2>5 DEF Carried
    <2>7. QED
        BY <2>4, <2>6
<1>3. QED
    BY <1>1, <1>2, ArtifactsChange

\* A document keeps what it carries when its stages grow and its last artifacts
\* stay.
LEMMA GrownCarries ==
    ASSUME NEW owner, NEW doc, NEW new, DocumentCarries(owner, doc),
           new.last = doc.last,
           \A env \in Envs : doc.stages[env] \subseteq new.stages[env]
    PROVE  DocumentCarries(owner, new)
    BY DEF DocumentCarries, Carried, LastStored

\* A deployment takes the commits of all the newer artifacts of the component
\* that owns the environment.
LEMMA DeployCarries ==
    ASSUME TypeOK, NEW owner, NEW doc \in Documents,
           DocumentCarries(owner, doc), NEW e, e.env \in Envs,
           e.app = owner[e.env],
           NEW x \in Artifacts, SortedLast(NewArtifacts(doc, e.app, e.env), x)
    PROVE  DocumentCarries(owner,
               Deploy(doc, e.env,
                      UNION {ArtifactChanges(a) :
                                a \in NewArtifacts(doc, e.app, e.env)},
                      ArtifactTime[x]))
<1> DEFINE as   == NewArtifacts(doc, e.app, e.env)
           revs == UNION {ArtifactChanges(a) : a \in as}
           new  == Deploy(doc, e.env, revs, ArtifactTime[x])
<1>1. revs \in SUBSET Revs
    BY ArtifactChangesType DEF NewArtifacts
<1>2. \A a \in Artifacts : ArtifactTime[a] \in Nat
    BY ConstantsAssumption
<1>3. \A a \in as : ArtifactChanges(a) \subseteq revs
    OBVIOUS
<1>4. x \in as
    BY DEF SortedLast
<1>5. \A a \in Artifacts :
         a \in as <=> /\ artifacts[a].info # "none"
                     /\ AppOf[a] = e.app
                     /\ ArtifactTime[a] > doc.last[e.env]
    BY DEF NewArtifacts
<1> HIDE DEF as, revs
<1>6. /\ new.stages = [doc.stages EXCEPT ![e.env] = @ \cup revs]
      /\ new.last = [doc.last EXCEPT ![e.env] = ArtifactTime[x]]
    BY <1>1, <1>2, DeployEffect
<1>7. /\ doc.stages \in [StageNames -> SUBSET Revs]
      /\ doc.last \in [Envs -> Nat]
      /\ Envs \subseteq StageNames
    BY DEF Documents, StageNames
<1> HIDE DEF new
<1>8. ASSUME NEW env \in Envs, env # e.env
      PROVE  Carried(owner, new, env) /\ LastStored(owner, new, env)
    <2>1. new.stages[env] = doc.stages[env] /\ new.last[env] = doc.last[env]
        BY <1>6, <1>7, <1>8
    <2>2. QED
        BY <2>1 DEF DocumentCarries, Carried, LastStored
<1>9. LastStored(owner, new, e.env)
    <2>1. new.last[e.env] = ArtifactTime[x]
        BY <1>6, <1>7
    <2>2. QED
        BY <1>4, <1>5, <2>1 DEF LastStored
<1>10. Carried(owner, new, e.env)
    <2>1. new.stages[e.env] = doc.stages[e.env] \cup revs
        BY <1>6, <1>7
    <2>2. SUFFICES ASSUME NEW a \in Artifacts,
                          artifacts[a].info = "embedded",
                          AppOf[a] = owner[e.env]
                   PROVE  artifacts[a].changes \subseteq new.stages[e.env]
        BY DEF Carried
    <2>3. CASE a \in as
        BY <1>3, <2>1, <2>2, <2>3 DEF ArtifactChanges
    <2>4. CASE a \notin as
        <3>1. ~(ArtifactTime[a] > doc.last[e.env])
            BY <1>5, <2>2, <2>4
        <3>2. ArtifactTime[a] <= doc.last[e.env]
            BY <1>2, <1>7, <3>1
        <3>3. QED
            BY <2>1, <2>2, <3>2 DEF DocumentCarries, Carried
    <2>5. QED
        BY <2>3, <2>4
<1>11. DocumentCarries(owner, new)
    BY <1>8, <1>9, <1>10 DEF DocumentCarries
<1>12. QED
    BY <1>11 DEF new, revs, as

\* The four edits leave a copy that carries its artifacts.
LEMMA EditCarries ==
    ASSUME NEW owner, CarriesInv(owner), DeploysOnly(owner), NEW w \in Workers,
           \/ EditForCommit(w) \/ EditForFailure(w)
           \/ EditForSuccess(w) \/ EditForDeploy(w)
    PROVE  DocumentCarries(owner, copy'[w].doc)
<1> DEFINE doc == copy[w].doc
           e   == event[w]
<1>1. /\ doc \in Documents /\ e \in Events /\ TypeOK
      /\ doc.stages \in [StageNames -> SUBSET Revs]
      /\ DocumentCarries(owner, doc)
    BY InHand DEF CarriesInv, Documents
<1>2. ASSUME NEW new, NEW resave, Edit(w, new, resave)
      PROVE  copy'[w].doc = new
    BY <1>1, <1>2 DEF Edit, TypeOK, VariablesOK, Copies
<1>3. CASE EditForCommit(w)
    <2> DEFINE new == AddCommits(doc, "Commit", {e.rev})
    <2>1. e.rev \in Revs
        BY <1>1, <1>3, EventFields DEF EditForCommit
    <2>2. /\ new.stages = [doc.stages EXCEPT !["Commit"] = @ \cup {e.rev}]
          /\ new.last = doc.last
        BY <1>1, <2>1, AddCommitsEffect DEF StageNames
    <2>3. copy'[w].doc = new
        BY <1>2, <1>3 DEF EditForCommit
    <2> HIDE DEF new
    <2>4. \A env \in Envs : doc.stages[env] \subseteq new.stages[env]
        BY <1>1, <2>2 DEF StageNames
    <2>5. QED
        BY <1>1, <2>2, <2>3, <2>4, GrownCarries
<1>4. CASE EditForFailure(w)
    <2> DEFINE new == AddFailedBuild(doc, JobOf[e.build], e.changes)
    <2>1. JobOf[e.build] \in Jobs /\ e.changes \in SUBSET Revs
        BY <1>1, <1>4, EventFields DEF EditForFailure
    <2>2. new.stages = doc.stages /\ new.last = doc.last
        BY <1>1, <2>1, AddFailedBuildEffect
    <2>3. copy'[w].doc = new
        BY <1>2, <1>4 DEF EditForFailure
    <2> HIDE DEF new
    <2>4. QED
        BY <1>1, <2>2, <2>3, GrownCarries
<1>5. CASE EditForSuccess(w)
    <2> DEFINE b   == e.build
               new == ProcessBuild(doc, JobOf[b], e.changes, MovableTo(b))
    <2>1. /\ e.changes \in SUBSET Revs /\ JobOf[b] \in Jobs
          /\ MovableTo(b) \in SUBSET Revs
        BY <1>1, <1>5, EventFields DEF EditForSuccess, MovableTo
    <2>2. BuildProcessed(new, doc, JobOf[b], e.changes, MovableTo(b))
        BY <1>1, <2>1, ProcessBuildEffect
    <2>3. copy'[w].doc = new
        BY <1>2, <1>5 DEF EditForSuccess
    <2> HIDE DEF new
    <2>4. /\ new.last = doc.last
          /\ \A env \in Envs : doc.stages[env] \subseteq new.stages[env]
        BY <1>1, <2>2 DEF BuildProcessed, StageNames
    <2>5. QED
        BY <1>1, <2>3, <2>4, GrownCarries
<1>6. CASE EditForDeploy(w)
    <2>1. e.env \in Envs /\ e.app = owner[e.env]
        BY <1>1, <1>6, EventFields DEF EditForDeploy, DeploysOnly
    <2>2. CASE Edit(w, doc, FALSE)
        BY <1>1, <1>2, <2>2
    <2>3. ASSUME NEW x \in Artifacts,
                 SortedLast(NewArtifacts(doc, e.app, e.env), x),
                 Edit(w, Deploy(doc, e.env,
                                UNION {ArtifactChanges(a) :
                                          a \in NewArtifacts(doc, e.app, e.env)},
                                ArtifactTime[x]), FALSE)
          PROVE  DocumentCarries(owner, copy'[w].doc)
        <3> DEFINE new == Deploy(doc, e.env,
                                 UNION {ArtifactChanges(a) :
                                           a \in NewArtifacts(doc, e.app, e.env)},
                                 ArtifactTime[x])
        <3>1. DocumentCarries(owner, new)
            BY <1>1, <2>1, <2>3, DeployCarries
        <3>2. copy'[w].doc = new
            BY <1>2, <2>3
        <3> HIDE DEF new
        <3>3. QED
            BY <3>1, <3>2
    <2>4. QED
        BY <1>6, <2>2, <2>3 DEF EditForDeploy
<1>7. QED
    BY <1>3, <1>4, <1>5, <1>6

\* A pipeline is stored by StorePipeline only.
LEMMA PipelinesChange ==
    ASSUME [Next]_vars
    PROVE  (\E w \in Workers : StorePipeline(w)) \/ UNCHANGED pipelines
    BY DEF Next, Administer, CreateDashboard, CreateItem, DeleteDashboard,
           DeleteItem, LifeStep, AssociateJob, SaveArtifact, Save, SaveCommit,
           SaveBuild, SaveEnvironmentComponent, Search, Handle, FindDashboards,
           LoadPipeline, ItemMissing, EditForCommit, EditForFailure,
           EditForSuccess, EditForDeploy, Edit, ResaveBuild, StackOverflow,
           Return, Crash, vars, documents

\* What a thread has in hand after a step carries what it did, or what a stored
\* pipeline did, or is empty, or is an edit of what it had.
LEMMA CopyCarries ==
    ASSUME NEW owner, CarriesInv(owner), DeploysOnly(owner), [Next]_vars,
           NEW v \in Workers
    PROVE  DocumentCarries(owner, copy'[v].doc)
<1>1. TypeOK /\ DocumentCarries(owner, copy[v].doc)
    BY DEF CarriesInv
<1>2. CASE copy'[v] = copy[v]
    BY <1>1, <1>2
<1>3. CASE copy'[v] = NoCopy(v)
    BY <1>3, EmptyCarries DEF NoCopy
<1>4. ASSUME NEW d \in Dashboards, LoadPipeline(v, d)
      PROVE  DocumentCarries(owner, copy'[v].doc)
    <2>1. PICK c \in GetOrCreatePipeline(v, d) : copy'[v] = c
        BY <1>1, <1>4 DEF LoadPipeline, TypeOK, VariablesOK
    <2>2. CASE inserted[d] = {}
        BY <1>3, <2>1, <2>2 DEF GetOrCreatePipeline
    <2>3. CASE inserted[d] # {}
        <3>1. PICK i \in inserted[d] : c.doc = pipelines[d][i]
            BY <2>1, <2>3 DEF GetOrCreatePipeline
        <3>2. i \in Workers
            BY <1>1 DEF TypeOK, VariablesOK
        <3>3. QED
            BY <2>1, <3>1, <3>2 DEF CarriesInv
    <2>4. QED
        BY <2>2, <2>3
<1>5. Stop(v) => copy'[v] = NoCopy(v)
    BY <1>1 DEF Stop, TypeOK, VariablesOK
<1>6. CASE Save(v)
    BY <1>1, <1>2, <1>3, <1>6
    DEF Save, SaveCommit, SaveBuild, SaveEnvironmentComponent, Search, Publish,
        thread, TypeOK, VariablesOK
<1>7. CASE Handle(v)
    BY <1>2, <1>3, <1>4, <1>5, <1>7, EditCarries
    DEF Handle, FindDashboards, ItemMissing, StorePipeline, ResaveBuild,
        StackOverflow, Return
<1>8. CASE Crash(v)
    BY <1>3, <1>5, <1>8 DEF Crash
<1>9. CASE Administer \/ UNCHANGED vars
    BY <1>2, <1>9
    DEF Administer, CreateDashboard, CreateItem, DeleteDashboard, DeleteItem,
        LifeStep, AssociateJob, SaveArtifact, vars, thread
<1>10. ASSUME NEW w \in Workers, w # v, Save(w) \/ Handle(w) \/ Crash(w)
       PROVE  DocumentCarries(owner, copy'[v].doc)
    BY <1>1, <1>2, <1>10, OtherThreadsSame DEF SameThread
<1>11. QED
    BY <1>6, <1>7, <1>8, <1>9, <1>10 DEF Next

\* Every document, stored or in hand, keeps carrying its artifacts.
LEMMA CarriesStep ==
    ASSUME NEW owner
    PROVE  CarriesInv(owner) /\ DeploysOnly(owner) /\ InOrder /\ [Next]_vars
               => CarriesInv(owner)'
<1> SUFFICES ASSUME CarriesInv(owner), DeploysOnly(owner), InOrder, [Next]_vars
             PROVE  CarriesInv(owner)'
    OBVIOUS
<1>1. TypeOK /\ TypeOK'
    BY TypeStep DEF CarriesInv
<1>2. ASSUME NEW w \in Workers PROVE DocumentCarries(owner, copy[w].doc)'
    <2>1. PICK doc \in Documents : doc = copy'[w].doc
        BY <1>1 DEF TypeOK, VariablesOK, Copies
    <2>2. DocumentCarries(owner, doc)
        BY <2>1, CopyCarries
    <2>3. DocumentCarries(owner, doc)'
        BY <1>1, <2>2, CarriesStays
    <2>4. QED
        BY <2>1, <2>3 DEF DocumentCarries, Carried, LastStored
<1>3. ASSUME NEW d \in Dashboards, NEW i \in Workers
      PROVE  DocumentCarries(owner, pipelines[d][i])'
    <2>1. PICK doc \in Documents : doc = pipelines'[d][i]
        BY <1>1 DEF TypeOK, VariablesOK
    <2>2. \/ doc = pipelines[d][i]
          \/ \E w \in Workers : doc = copy[w].doc
        <3>1. CASE UNCHANGED pipelines
            BY <2>1, <3>1
        <3>2. ASSUME NEW w \in Workers, StorePipeline(w)
              PROVE  pipelines'[d][i] \in {pipelines[d][i], copy[w].doc}
            <4>1. pipelines' =
                    [pipelines EXCEPT ![at[w]][copy[w].id] = copy[w].doc]
                BY <3>2 DEF StorePipeline
            <4>2. pipelines \in [Dashboards -> [Workers -> Documents]]
                BY <1>1 DEF TypeOK, VariablesOK
            <4>3. QED
                BY <4>1, <4>2
        <3>3. QED
            BY <2>1, <3>1, <3>2, PipelinesChange
    <2>3. DocumentCarries(owner, doc)
        BY <2>2 DEF CarriesInv
    <2>4. DocumentCarries(owner, doc)'
        BY <1>1, <2>3, CarriesStays
    <2>5. QED
        BY <2>1, <2>4 DEF DocumentCarries, Carried, LastStored
<1>4. QED
    BY <1>1, <1>2, <1>3 DEF CarriesInv

\* However many threads deploy: when each environment is deployed to by one
\* component, whose artifacts are stored in the order of their timestamps, a
\* deployment adds the commits of every artifact of its component that carries
\* its build.
THEOREM ArtifactsCarried ==
    ASSUME NEW owner
    PROVE  Spec /\ []DeploysOnly(owner) /\ StoredInOrder =>
               DeployCarriesArtifacts
<1>1. Init => CarriesInv(owner)
    BY TypeInit, EmptyCarries DEF Init, CarriesInv, NoCopy
<1>2. CarriesInv(owner) /\ DeploysOnly(owner) /\ InOrder /\ [Next]_vars
          => CarriesInv(owner)'
    BY CarriesStep
<1>3. UNCHANGED vars /\ CarriesInv(owner) => CarriesInv(owner)'
    <2>1. UNCHANGED vars => InOrder
        BY DEF vars, store, InOrder
    <2> SUFFICES ASSUME UNCHANGED vars, CarriesInv(owner)
                 PROVE  CarriesInv(owner)'
        OBVIOUS
    <2>2. TypeOK'
        BY TypeStep DEF CarriesInv
    <2>3. QED
        BY <2>2
        DEF vars, store, documents, thread, CarriesInv, DocumentCarries,
            Carried, LastStored
<1>4. ASSUME CarriesInv(owner), DeploysOnly(owner), [Next]_vars,
             NEW w \in Workers, EditsDeploy(w),
             NEW a \in Covered(event[w], copy'[w].doc),
             artifacts[a].info = "embedded"
      PROVE  artifacts[a].changes \subseteq copy'[w].doc.stages[event[w].env]
    <2>1. EditForDeploy(w)
        BY <1>4, EditsDeployStep DEF CarriesInv
    <2>2. DocumentCarries(owner, copy'[w].doc)
        BY <1>4, <2>1, EditCarries
    <2>3. event[w].env \in Envs /\ event[w].app = owner[event[w].env]
        BY <1>4, <2>1, InHand, EventFields
        DEF EditForDeploy, CarriesInv, DeploysOnly
    <2>4. QED
        BY <1>4, <2>2, <2>3 DEF DocumentCarries, Carried, Covered
<1>5. CarriesInv(owner) /\ DeploysOnly(owner) /\ [Next]_vars =>
          [\A w \in Workers :
              EditsDeploy(w) =>
                  \A a \in Covered(event[w], copy'[w].doc) :
                      artifacts[a].info = "embedded" =>
                          artifacts[a].changes \subseteq
                              copy'[w].doc.stages[event[w].env]]_vars
    BY <1>4
<1>6. QED
    BY <1>1, <1>2, <1>3, <1>5, PTL
    DEF Spec, StoredInOrder, InOrder, DeployCarriesArtifacts
=============================================================================
