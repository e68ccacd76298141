SPECIFICATION FairSpec
CONSTANTS
    Ids = {i1, i2}
    Tools = {t1, t2}
    Components = {c1}
    Requests = {r1}
    Results = {n1}
    Null = Null
    Kinds = {"Hudson", "GitHub", "uDeploy"}
    Configured = {t1}
    NiceName = TRUE
    MaxEdits <- MCMaxEdits
INVARIANTS TypeOK CollectedOnce DeployDataKept
PROPERTIES DeletesOnlyGone EnabledFollowsDashboards DataArrives
