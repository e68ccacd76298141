----------------------- MODULE PipelineDocument_proofs -----------------------
(***************************************************************************)
(* What the edits of PipelineDocument do to each part of a document.       *)
(***************************************************************************)
EXTENDS PipelineDocument, TLAPS

\* Adding commits grows one stage and touches nothing else (Pipeline.java:51-56).
LEMMA AddCommitsEffect ==
    ASSUME NEW doc \in Documents, NEW stage \in StageNames,
           NEW revs \in SUBSET Revs
    PROVE  LET new == AddCommits(doc, stage, revs)
           IN  /\ new \in Documents
               /\ new.stages = [doc.stages EXCEPT ![stage] = @ \cup revs]
               /\ new.last = doc.last
               /\ new.failedBuilds = doc.failedBuilds
    BY DEF AddCommits, Documents

\* A failed build joins the bucket and touches no stage (Pipeline.java:66-68).
LEMMA AddFailedBuildEffect ==
    ASSUME NEW doc \in Documents, NEW job \in Jobs, NEW changes \in SUBSET Revs
    PROVE  LET new == AddFailedBuild(doc, job, changes)
           IN  /\ new \in Documents
               /\ new.stages = doc.stages
               /\ new.last = doc.last
               /\ new.failedBuilds = doc.failedBuilds \cup
                                         {[job |-> job, changes |-> changes]}
<1>1. [job |-> job, changes |-> changes] \in FailedBuilds
    BY DEF FailedBuilds
<1>2. QED
    BY <1>1 DEF AddFailedBuild, Documents

\* The failed builds of a job hold revisions.
LEMMA FailedChangesType ==
    ASSUME NEW doc \in Documents, NEW job
    PROVE  FailedChanges(doc, job) \in SUBSET Revs
    BY DEF FailedChanges, FailedOf, Documents, FailedBuilds

\* What a successful build makes of a document: the Build stage gets the build's
\* own commits, those of the failed builds of its job and the movable ones of the
\* Commit stage, and those failed builds are taken out
\* (BuildEventListener.java:87-123, 160-178).
BuildProcessed(new, doc, job, changes, movable) ==
    /\ new \in Documents
    /\ new.stages = [doc.stages EXCEPT !["Build"] =
           @ \cup changes \cup FailedChanges(doc, job)
             \cup (doc.stages["Commit"] \cap movable)]
    /\ new.last = doc.last
    /\ new.failedBuilds = doc.failedBuilds \ FailedOf(doc, job)

\* The three parts of processBuild together have that effect
\* (BuildEventListener.java:94-117).
LEMMA ProcessBuildEffect ==
    ASSUME NEW doc \in Documents, NEW job \in Jobs, NEW changes \in SUBSET Revs,
           NEW movable \in SUBSET Revs
    PROVE  BuildProcessed(ProcessBuild(doc, job, changes, movable),
                          doc, job, changes, movable)
<1> DEFINE one   == AddCommits(doc, "Build", changes)
           two   == ProcessPreviousFailedBuilds(one, job)
           three == MoveToBuild(two, movable)
<1>1. "Build" \in StageNames /\ "Commit" \in StageNames
    BY DEF StageNames
<1>2. /\ one \in Documents
      /\ one.stages = [doc.stages EXCEPT !["Build"] = @ \cup changes]
      /\ one.last = doc.last
      /\ one.failedBuilds = doc.failedBuilds
    BY <1>1, AddCommitsEffect
<1>3. /\ FailedOf(one, job) = FailedOf(doc, job)
      /\ FailedChanges(one, job) = FailedChanges(doc, job)
    BY <1>2 DEF FailedOf, FailedChanges
<1>4. FailedChanges(doc, job) \in SUBSET Revs
    BY FailedChangesType
<1>5. /\ two \in Documents
      /\ two.stages = [one.stages EXCEPT !["Build"] =
                           @ \cup FailedChanges(doc, job)]
      /\ two.last = doc.last
      /\ two.failedBuilds = doc.failedBuilds \ FailedOf(doc, job)
    <2> DEFINE add == AddCommits(one, "Build", FailedChanges(doc, job))
    <2>1. /\ add \in Documents
          /\ add.stages = [one.stages EXCEPT !["Build"] =
                               @ \cup FailedChanges(doc, job)]
          /\ add.last = doc.last
          /\ add.failedBuilds = doc.failedBuilds
        BY <1>1, <1>2, <1>4, AddCommitsEffect
    <2>2. two = [add EXCEPT !.failedBuilds = @ \ FailedOf(doc, job)]
        BY <1>3 DEF ProcessPreviousFailedBuilds
    <2> HIDE DEF add, two
    <2>3. QED
        BY <2>1, <2>2 DEF Documents
<1>6. two.stages["Commit"] \cap movable \in SUBSET Revs
    BY <1>1, <1>5 DEF Documents
<1>7. /\ three \in Documents
      /\ three.stages = [two.stages EXCEPT !["Build"] =
                             @ \cup (two.stages["Commit"] \cap movable)]
      /\ three.last = two.last
      /\ three.failedBuilds = two.failedBuilds
    <2> HIDE DEF two
    <2>1. QED
        BY <1>1, <1>5, <1>6, AddCommitsEffect DEF MoveToBuild
<1>8. ProcessBuild(doc, job, changes, movable) = three
    BY DEF ProcessBuild
<1>9. doc.stages \in [StageNames -> SUBSET Revs]
    BY DEF Documents
<1>10. three.stages = [doc.stages EXCEPT !["Build"] =
                           @ \cup changes \cup FailedChanges(doc, job)
                             \cup (doc.stages["Commit"] \cap movable)]
    <2>1. /\ one.stages \in [StageNames -> SUBSET Revs]
          /\ two.stages \in [StageNames -> SUBSET Revs]
          /\ three.stages \in [StageNames -> SUBSET Revs]
        <3> HIDE DEF one, two, three
        <3>1. QED
            BY <1>2, <1>5, <1>7 DEF Documents
    <2> HIDE DEF one, two, three
    <2>2. /\ one.stages["Commit"] = doc.stages["Commit"]
          /\ one.stages["Build"] = doc.stages["Build"] \cup changes
        BY <1>1, <1>2, <1>9
    <2>3. /\ two.stages["Commit"] = doc.stages["Commit"]
          /\ two.stages["Build"] = doc.stages["Build"] \cup changes
                                       \cup FailedChanges(doc, job)
        BY <1>1, <1>5, <2>1, <2>2
    <2>4. three.stages["Build"] = doc.stages["Build"] \cup changes
                                      \cup FailedChanges(doc, job)
                                      \cup (doc.stages["Commit"] \cap movable)
        BY <1>1, <1>7, <2>1, <2>3
    <2>5. \A t \in StageNames \ {"Build"} : three.stages[t] = doc.stages[t]
        BY <1>2, <1>5, <1>7, <1>9, <2>1
    <2>6. QED
        BY <1>1, <1>9, <2>1, <2>4, <2>5
<1> HIDE DEF one, two, three
<1>11. QED
    BY <1>5, <1>7, <1>8, <1>10 DEF BuildProcessed

\* A deployment grows the stage of its environment and sets its last artifact
\* (EnvironmentComponentEventListener.java:109-135).
LEMMA DeployEffect ==
    ASSUME NEW doc \in Documents, NEW env \in Envs, NEW revs \in SUBSET Revs,
           NEW newest \in Nat
    PROVE  LET new == Deploy(doc, env, revs, newest)
           IN  /\ new \in Documents
               /\ new.stages = [doc.stages EXCEPT ![env] = @ \cup revs]
               /\ new.last = [doc.last EXCEPT ![env] = newest]
               /\ new.failedBuilds = doc.failedBuilds
<1> DEFINE add == AddCommits(doc, env, revs)
<1>1. env \in StageNames
    BY DEF StageNames
<1>2. /\ add \in Documents
      /\ add.stages = [doc.stages EXCEPT ![env] = @ \cup revs]
      /\ add.last = doc.last
      /\ add.failedBuilds = doc.failedBuilds
    BY <1>1, AddCommitsEffect
<1>3. Deploy(doc, env, revs, newest) = [add EXCEPT !.last[env] = newest]
    BY DEF Deploy
<1> HIDE DEF add
<1>4. QED
    BY <1>2, <1>3 DEF Documents

\* A new pipeline is a document.
LEMMA EmptyDocumentType == EmptyDocument \in Documents
    BY DEF EmptyDocument, Documents
=============================================================================
