CONSTANTS
  d1 = d1  d2 = d2  j1 = j1  j2 = j2  r1 = r1  r2 = r2
  b1 = b1  b2 = b2  b3 = b3  a1 = a1  a2 = a2
  app1 = app1  app2 = app2  env1 = env1  repo1 = repo1
  w1 = w1  w2 = w2
  Nowhere = Nowhere
  Repos = {repo1}
  ScmOf <- MCScmOf
  DeployOf <- MCDeployOf
  RepoOf <- MCRepoOf
  CommitTime <- MCCommitTime
  JobOf <- MCJobOf
  ChangesOf <- MCChangesOf
  PostsOf <- MCPostsOf
  StartOf <- MCStartOf
  CodeReposOf <- MCCodeReposOf
  AppOf <- MCAppOf
  ArtifactTime <- MCArtifactTime
  BuildOf <- MCBuildOf
  Dashboards = {d1, d2}
  Jobs = {j1, j2}
  Revs = {r1}
  Builds = {b1, b3}
  Artifacts = {}
  Apps = {}
  Envs = {}
  Workers = {w1}
  Volatile = {}
  StackLimit = 4
  MayCrash = FALSE
SPECIFICATION Spec
CHECK_DEADLOCK FALSE
SYMMETRY DashboardSymmetry
INVARIANTS
  NestingBounded
PROPERTIES
  KeepsLedger
