-------------------------- MODULE PipelineDocument --------------------------
(***************************************************************************)
(* The document of the "pipelines" collection (core/model/Pipeline.java)   *)
(* and the edits the event listeners make to a copy of it in memory.       *)
(*                                                                         *)
(* A stage is the set of the revisions that came into it: the time at      *)
(* which a revision came in is the business of PipelineView.  A failed     *)
(* build is embedded in the document as a copy, so it is kept here as the  *)
(* job it belongs to and the change set it had when it was copied.         *)
(***************************************************************************)
EXTENDS Naturals

CONSTANTS
    Revs,   \* SCM revision numbers
    Jobs,   \* build collector items
    Envs    \* environment names the deploy tool reports

ASSUME EnvAssumption == {"Commit", "Build"} \cap Envs = {}

StageNames == {"Commit", "Build"} \cup Envs

FailedBuilds == [job : Jobs, changes : SUBSET Revs]

\* stages: the revisions of each stage.
\* last: the timestamp of the stage's lastArtifact, 0 while it has none.
\* failedBuilds: the failed builds that wait for a successful one.
Documents == [stages       : [StageNames -> SUBSET Revs],
              last         : [Envs -> Nat],
              failedBuilds : SUBSET FailedBuilds]

EmptyDocument == [stages       |-> [s \in StageNames |-> {}],
                  last         |-> [e \in Envs |-> 0],
                  failedBuilds |-> {}]

AddCommits(doc, stage, revs) ==
    [doc EXCEPT !.stages[stage] = @ \cup revs]

AddFailedBuild(doc, job, changes) ==
    [doc EXCEPT !.failedBuilds = @ \cup {[job |-> job, changes |-> changes]}]

\* Mutant: the failed builds are not told apart by their job.
AllFailed(doc, job) == doc.failedBuilds

\* A successful build of a job takes the failed builds of that job, and of no
\* other, out of the document; their commits go to the Build stage.
FailedOf(doc, job) == {f \in doc.failedBuilds : f.job = job}

FailedChanges(doc, job) == UNION {f.changes : f \in FailedOf(doc, job)}

\* Mutant: the failed builds stay in the document.
KeepPreviousFailedBuilds(doc, job) ==
    AddCommits(doc, "Build", FailedChanges(doc, job))

ProcessPreviousFailedBuilds(doc, job) ==
    [AddCommits(doc, "Build", FailedChanges(doc, job)) EXCEPT
        !.failedBuilds = @ \ FailedOf(doc, job)]

\* The commits of the Commit stage that a build may carry without listing them.
MoveToBuild(doc, movable) ==
    AddCommits(doc, "Build", doc.stages["Commit"] \cap movable)

\* Mutant: only commits of the Commit stage move, the build's own ones too.
ProcessKnown(doc, job, changes, movable) ==
    MoveToBuild(ProcessPreviousFailedBuilds(doc, job), changes \cup movable)

\* The whole edit a successful build makes to the pipeline of one dashboard.
ProcessBuild(doc, job, changes, movable) ==
    MoveToBuild(
        ProcessPreviousFailedBuilds(AddCommits(doc, "Build", changes), job),
        movable)

\* The edit a deployment makes: the commits and the new last artifact.
Deploy(doc, env, revs, newest) ==
    [AddCommits(doc, env, revs) EXCEPT !.last[env] = newest]
=============================================================================
