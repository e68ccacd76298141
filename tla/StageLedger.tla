----------------------------- MODULE StageLedger -----------------------------
(***************************************************************************)
(* What the pipeline of a team dashboard promises its readers, with no     *)
(* documents, handlers or processes: a stage is "a collection that         *)
(* includes all commits ever to come into the stage" (Stage.java:15), and  *)
(* a failed build waits until a successful build of its job takes its      *)
(* commits to the Build stage (BuildEventListener.java:152-155).           *)
(***************************************************************************)
EXTENDS PipelineDocument

CONSTANT Dashboards

VARIABLES
    entered,  \* per dashboard and stage, the commits that ever came in
    waiting   \* per dashboard, the failed builds no success has taken over

LedgerInit ==
    /\ entered = [d \in Dashboards |-> [s \in StageNames |-> {}]]
    /\ waiting = [d \in Dashboards |-> {}]

Enter(d, stage, revs) ==
    entered' = [entered EXCEPT ![d][stage] = @ \cup revs]

CommitEnters(d, r) == Enter(d, "Commit", {r}) /\ UNCHANGED waiting

BuildFails(d, f) ==
    /\ waiting' = [waiting EXCEPT ![d] = @ \cup {f}]
    /\ UNCHANGED entered

BuildSucceeds(d, job, revs) ==
    LET own == {f \in waiting[d] : f.job = job}
    IN  /\ Enter(d, "Build", revs \cup UNION {f.changes : f \in own})
        /\ waiting' = [waiting EXCEPT ![d] = @ \ own]

Deployed(d, env, revs) == Enter(d, env, revs) /\ UNCHANGED waiting

LedgerNext ==
    \E d \in Dashboards :
        \/ \E r \in Revs : CommitEnters(d, r)
        \/ \E f \in FailedBuilds : BuildFails(d, f)
        \/ \E job \in Jobs, revs \in SUBSET Revs : BuildSucceeds(d, job, revs)
        \/ \E env \in Envs, revs \in SUBSET Revs : Deployed(d, env, revs)

LedgerSpec == LedgerInit /\ [][LedgerNext]_<<entered, waiting>>
=============================================================================
