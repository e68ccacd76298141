-------------------------- MODULE MCPipelineEvents --------------------------
(***************************************************************************)
(* Small instances of PipelineEvents for TLC.                              *)
(***************************************************************************)
EXTENDS PipelineEvents, TLC

CONSTANTS d1, d2, j1, j2, r1, r2, b1, b2, b3, a1, a2, app1, app2, env1, repo1,
          w1, w2

\* Every dashboard shows the one repository and deploys both components.
MCScmOf == [d \in Dashboards |-> {repo1}]
MCDeployOf == [d \in Dashboards |-> Apps]
MCRepoOf == [r \in Revs |-> repo1]

\* r2 is made after b1 starts, so only b2 and b3 may move it.
MCCommitTime == [r \in Revs |-> IF r = r1 THEN 1 ELSE 3]
MCStartOf == [b \in Builds |-> IF b = b1 THEN 2 ELSE 4]

\* b1 and b2 are builds of j1; b3 is a build of j2, of another repository.  b2
\* does not report r1, and may only move it.
MCJobOf == [b \in Builds |-> IF b = b3 THEN j2 ELSE j1]
MCChangesOf == [b \in Builds |-> IF b = b2 THEN {r2} \cap Revs ELSE {r1}]

\* Of two builds of a job one gets either result, and may get the other later;
\* the other succeeds and may be in progress before and after.  A build that is
\* the only one of its job gets every status in any order.
MCPostsOf == [b \in Builds |->
                 IF b2 \in Builds
                 THEN IF b = b2 THEN {"Success", "Other"}
                                ELSE {"Success", "Failure"}
                 ELSE {"Success", "Failure", "Other"}]
MCCodeReposOf == [b \in Builds |-> IF b = b3 THEN {} ELSE {repo1}]

\* a1 is the older artifact; it is built by b1 and a2 by b2.
MCAppOf == [a \in Artifacts |->
                IF a = a1 \/ app2 \notin Apps THEN app1 ELSE app2]
MCArtifactTime == [a \in Artifacts |-> IF a = a1 THEN 1 ELSE 2]
MCBuildOf == [a \in Artifacts |-> IF a = a1 THEN b1 ELSE b2]

\* The threads run the same code and are told apart by nothing else.
WorkerSymmetry == Permutations(Workers)

\* Nor are the dashboards, which all show the same.
DashboardSymmetry == Permutations(Dashboards)
=============================================================================
