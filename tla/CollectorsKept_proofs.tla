------------------------- MODULE CollectorsKept_proofs -------------------------
(***************************************************************************)
(* What the collectors promise about the data they store and the items     *)
(* they delete, with the plugin's posts and the saving of widgets beside   *)
(* them and with runs and requests that die anywhere.                      *)
(***************************************************************************)
EXTENDS Collectors_proofs

----------------------------------------------------------------------------
(* Results are stored once *)

Inserting(i, n) == [at |-> "insert", id |-> i, result |-> n]

\* A request that has no build in hand.
NoBuild(q) ==
    /\ q.at \notin {"build", "insert", "update"}
    /\ q.at = "register" => q.result = Null

\* Who is about to store a result has found none, or somebody else has meanwhile;
\* two who are about to store the same one have been noted; and only builds are
\* stored by others than the run.
OnceInv ==
    /\ kind # "Hudson" => clashed = {} /\ \A r \in Requests : NoBuild(req[r])
    /\ CollectedOnce
    /\ \A i \in Ids, n \in Results :
          BeingStored(i, n) => stored[i][n] = 0 \/ <<i, n>> \in clashed
    /\ \A i \in Ids, n \in Results, r, s \in Requests :
          /\ req[r] = Inserting(i, n)
          /\ \/ at = "write" /\ cur = i /\ new = n
             \/ s # r /\ req[s] = Inserting(i, n)
          => <<i, n>> \in clashed

\* A step that neither looks for a result nor stores one.
Quiet ==
    /\ kind' = kind
    /\ stored' = stored
    /\ clashed' = clashed
    /\ at' = "write" => at = "write" /\ cur' = cur /\ new' = new
    /\ \A r \in Requests : \/ req'[r] = req[r]
                           \/ req'[r].at # "insert" /\ (kind = "Hudson" \/ NoBuild(req'[r]))

\* Quiet steps keep it.
LEMMA QuietOnce == OnceInv /\ Quiet => OnceInv'
<1> SUFFICES ASSUME OnceInv, Quiet PROVE OnceInv'
    OBVIOUS
<1> USE DEF OnceInv, Quiet
<1>1. ASSUME NEW i \in Ids, NEW n \in Results, NEW r \in Requests, req'[r] = Inserting(i, n)
      PROVE  req[r] = Inserting(i, n)
    BY <1>1 DEF Inserting
<1>2. (kind # "Hudson" => clashed = {} /\ \A r \in Requests : NoBuild(req[r]))'
    OBVIOUS
<1>3. CollectedOnce'
    BY DEF CollectedOnce
<1>4. ASSUME NEW i \in Ids, NEW n \in Results, BeingStored(i, n)'
      PROVE  BeingStored(i, n)
    BY <1>1, <1>4 DEF BeingStored, Inserting
<1> QED BY <1>1, <1>2, <1>3, <1>4

\* The steps of a run that are quiet.
LEMMA RunQuiet ==
    ASSUME TInv, Run \/ Dies
    PROVE  Quiet \/ Look \/ Write
           \/ (kind = "uDeploy" /\ (UDeployReplace \/ UDeployInsert))
<1> USE DEF Quiet, storeVars, toolVars, histVars, localVars
<1>1. ASSUME SaveCleaned \/ List \/ Collected \/ Dies PROVE Quiet
    BY <1>1 DEF SaveCleaned, List, Collected, Dies, Ended
<1>2. CASE HudsonStep
    <2>1. ASSUME HudsonBegins \/ HudsonClean \/ HudsonCleaned \/ HudsonFetches \/ HudsonName
          PROVE  Quiet
        BY <2>1 DEF HudsonBegins, Begins, HudsonClean, HudsonCleaned, HudsonFetches,
                    HudsonFetch, HudsonFetchFails, HudsonFetchGarbled, HudsonName
    <2>2. ASSUME HudsonAdd \/ HudsonVisit \/ HudsonNoDetails \/ HudsonVisited \/ HudsonDelete
                 \/ HudsonEnds
          PROVE  Quiet
        BY <2>2 DEF HudsonAdd, HudsonVisit, HudsonNoDetails, HudsonVisited, HudsonDelete,
                    HudsonEnds, Ended
    <2> QED BY <1>1, <1>2, <2>1, <2>2 DEF HudsonStep
<1>3. ASSUME ReadComponents \/ ReadItems PROVE Quiet
    BY <1>3 DEF ReadComponents, ReadItems
<1>4. CASE GitHubStep
    <2>1. ASSUME GitHubBegins \/ GitHubCleaned \/ GitHubVisit \/ GitHubAsk \/ GitHubAskFails
                 \/ GitHubEnds
          PROVE  Quiet
        BY <2>1 DEF GitHubBegins, Begins, GitHubCleaned, GitHubVisit, GitHubAsk,
                    GitHubAskFails, GitHubEnds, Ended
    <2> QED BY <1>1, <1>3, <1>4, <2>1 DEF GitHubStep
<1>5. CASE kind = "uDeploy" /\ UDeployStep
    <2>1. ASSUME UDeployBegins \/ UDeployDrop \/ UDeployDropped \/ UDeployCleaned
                 \/ UDeployFetch \/ UDeployAdd
          PROVE  Quiet
        BY <2>1 DEF UDeployBegins, Begins, UDeployDrop, UDeployDropped, UDeployCleaned,
                    UDeployFetch, UDeployAdd
    <2>2. ASSUME UDeployAdded \/ UDeployVisit \/ UDeployAsk \/ UDeployAskFails \/ UDeployEnds
          PROVE  Quiet
        BY <2>2 DEF UDeployAdded, UDeployVisit, UDeployAsk, UDeployAskFails, Replaces,
                    UDeployEnds, Ended
    <2> QED BY <1>1, <1>3, <1>5, <2>1, <2>2 DEF UDeployStep
<1> QED BY <1>1, <1>2, <1>4, <1>5 DEF Run

\* The steps of a request that are quiet, and those of the tools.
LEMMA RequestQuiet ==
    ASSUME TInv, OnceInv, NEW r \in Requests, Request(r) \/ RequestStep(r)
    PROVE  Quiet \/ PushLook(r) \/ PushInsert(r)
<1> USE DEF Quiet, storeVars, toolVars, histVars, localVars, Alone, NoBuild, Idle
<1>1. ASSUME NEW q, req' = [req EXCEPT ![r] = q], q.at # "insert",
             kind = "Hudson" \/ NoBuild(q), kind' = kind, stored' = stored,
             clashed' = clashed, UNCHANGED <<at, cur, new>>
      PROVE  Quiet
    BY <1>1 DEF TInv, TypeOK
<1>2. ASSUME NEW c \in Components, NEW ids \in SUBSET Ids, AssociateBegin(r, c, ids), Alone
      PROVE  Quiet
    BY <1>1, <1>2 DEF AssociateBegin
<1>3. ASSUME NEW c \in Components, DeleteComponent(r, c), Alone
      PROVE  Quiet
    BY <1>3 DEF DeleteComponent
<1>4. ASSUME NEW t \in Tools, NEW n \in Results, kind = "Hudson", Push(r, t, n), Alone
      PROVE  Quiet
    BY <1>1, <1>4 DEF Push, RegisterFind
<1>5. ASSUME NEW t \in Tools, Register(r, t), Alone
      PROVE  Quiet
    <2>1. PICK i : req' = [req EXCEPT ![r] =
                             [at |-> "register", doc |-> FormDoc(t), id |-> i, result |-> Null]]
        BY <1>5 DEF Register, RegisterFind
    <2> QED BY <1>1, <1>5, <2>1
<1>6. CASE RequestDied(r)
    BY <1>1, <1>6 DEF RequestDied, RequestDies
<1>7. CASE AssociateItems(r) /\ Alone
    <2> DEFINE q == req'[r]
    <2>1. req' = [req EXCEPT ![r] = q] /\ q.at = "save"
        BY <1>7 DEF AssociateItems, TInv, TypeOK
    <2> HIDE DEF q
    <2>2. UNCHANGED <<kind, stored, clashed, at, cur, new>>
        BY <1>7
    <2> QED BY <1>1, <2>1, <2>2
<1>8. CASE (AssociateFails(r) \/ AssociateSaveComponent(r)) /\ Alone
    BY <1>1, <1>8 DEF AssociateFails, AssociateSaveComponent
<1>9. CASE AssociateSaveItem(r) /\ Alone
    <2>1. PICK w : req' = [req EXCEPT ![r] = [@ EXCEPT !.todo = req[r].todo \ {w}]]
        BY <1>9 DEF AssociateSaveItem
    <2>2. req[r] \in Saving
        BY <1>9, AtPlace DEF TInv, TypeOK, AssociateSaveItem
    <2>3. [req[r] EXCEPT !.todo = req[r].todo \ {w}].at = "save"
        BY <2>2 DEF Saving
    <2> QED BY <1>1, <1>9, <2>1, <2>3
<1>10. CASE RegisterSave(r) /\ Alone
    <2>1. CASE req[r].result = Null
        BY <1>1, <1>10, <2>1 DEF RegisterSave
    <2>2. CASE req[r].result # Null
        <3>1. PICK i : req' = [req EXCEPT ![r] =
                                 [at |-> "build", id |-> i, result |-> req[r].result]]
            BY <1>10, <2>2 DEF RegisterSave
        <3>2. kind = "Hudson"
            BY <1>10, <2>2 DEF OnceInv, RegisterSave
        <3> QED BY <1>1, <1>10, <3>1, <3>2
    <2> QED BY <2>1, <2>2
<1>11. CASE PushUpdate(r)
    BY <1>1, <1>11 DEF PushUpdate
<1> QED BY <1>2, <1>3, <1>4, <1>5, <1>6, <1>7, <1>8, <1>9, <1>10, <1>11
        DEF Request, RequestStep

\* The record of a request that is to insert a build.
LEMMA InsertRecord ==
    ASSUME TInv, NEW r \in Requests, req[r].at \in {"build", "insert"}
    PROVE  /\ req[r].id \in Ids /\ req[r].result \in Results
           /\ req[r].at = "insert" => req[r] = Inserting(req[r].id, req[r].result)
<1>1. req[r] \in Building
    BY AtPlace DEF TInv, TypeOK
<1> QED BY <1>1 DEF Building, Inserting

\* A run looks for a result.
LEMMA LookOnce == TInv /\ OnceInv /\ Look => OnceInv'
<1> SUFFICES ASSUME TInv, OnceInv, Look PROVE OnceInv'
    OBVIOUS
<1>1. PICK n \in batch :
          IF stored[cur][n] = 0
            THEN /\ new' = n
                 /\ at' = "write"
                 /\ clashed' = IF BeingStored(cur, n) THEN clashed \cup {<<cur, n>>} ELSE clashed
            ELSE UNCHANGED <<new, at, clashed>>
    BY DEF Look
<1>2. at = "look" /\ UNCHANGED <<kind, stored, req, cur>>
    BY DEF Look, storeVars
<1>3. CASE stored[cur][n] # 0
    <2>1. Quiet
        BY <1>1, <1>2, <1>3 DEF Quiet
    <2> QED BY <2>1, QuietOnce
<1>4. CASE stored[cur][n] = 0
    <2>1. clashed \subseteq clashed'
        BY <1>1, <1>4
    <2>2. CollectedOnce'
        BY <1>2, <2>1 DEF OnceInv, CollectedOnce
    <2>3. \A i \in Ids, m \in Results :
              BeingStored(i, m)' => stored'[i][m] = 0 \/ <<i, m>> \in clashed'
        BY <1>1, <1>2, <1>4, <2>1 DEF OnceInv, BeingStored
    <2>4. ASSUME NEW i \in Ids, NEW m \in Results, NEW r \in Requests, NEW s \in Requests,
                 req'[r] = Inserting(i, m),
                 \/ at' = "write" /\ cur' = i /\ new' = m
                 \/ s # r /\ req'[s] = Inserting(i, m)
          PROVE  <<i, m>> \in clashed'
        <3>1. CASE s # r /\ req'[s] = Inserting(i, m)
            BY <1>2, <2>1, <2>4, <3>1 DEF OnceInv
        <3>2. CASE cur' = i /\ new' = m
            BY <1>1, <1>2, <1>4, <2>4, <3>2 DEF BeingStored, Inserting
        <3> QED BY <2>4, <3>1, <3>2
    <2>5. kind # "Hudson" => clashed' = {} /\ \A r \in Requests : NoBuild(req'[r])
        BY <1>1, <1>2 DEF OnceInv, NoBuild, BeingStored, Inserting
    <2> QED BY <1>2, <2>2, <2>3, <2>4, <2>5 DEF OnceInv, NoBuild
<1> QED BY <1>3, <1>4

\* A result is stored for the first time, or where it has been noted.
LEMMA AddOnce ==
    ASSUME TInv, OnceInv, NEW i \in Ids, NEW n \in Results, Add(i, n),
           BeingStored(i, n), UNCHANGED <<kind, clashed>>
    PROVE  /\ CollectedOnce'
           /\ \A j \in Ids, m \in Results :
                 stored'[j][m] = IF j = i /\ m = n THEN One(stored[i][n]) ELSE stored[j][m]
<1>1. \A j \in Ids, m \in Results :
          stored'[j][m] = IF j = i /\ m = n THEN One(stored[i][n]) ELSE stored[j][m]
    BY DEF Add, TInv, TypeOK
<1>2. stored[i][n] = 0 \/ <<i, n>> \in clashed
    BY DEF OnceInv
<1> QED BY <1>1, <1>2 DEF CollectedOnce, OnceInv, One

\* A run stores what it has found to be new.
LEMMA WriteOnce == TInv /\ OnceInv /\ Write => OnceInv'
<1> SUFFICES ASSUME TInv, OnceInv, Write PROVE OnceInv'
    OBVIOUS
<1>1. /\ at = "write" /\ at' = "look" /\ UNCHANGED <<kind, req, cur, clashed>>
      /\ Add(cur, new)
    BY DEF Write, storeVars, histVars
<1>2. cur \in Ids /\ new \in Results
    BY <1>1 DEF TInv, TypeOK
<1>3. BeingStored(cur, new)
    BY <1>1 DEF BeingStored
<1>4. /\ CollectedOnce'
      /\ \A j \in Ids, m \in Results :
            stored'[j][m] = IF j = cur /\ m = new THEN One(stored[cur][new]) ELSE stored[j][m]
    BY <1>1, <1>2, <1>3, AddOnce
<1>5. ASSUME NEW i \in Ids, NEW n \in Results, BeingStored(i, n)'
      PROVE  stored'[i][n] = 0 \/ <<i, n>> \in clashed'
    <2>1. PICK r \in Requests : req[r] = Inserting(i, n)
        BY <1>1, <1>5 DEF BeingStored, Inserting
    <2>2. CASE i = cur /\ n = new
        BY <1>1, <2>1, <2>2 DEF OnceInv
    <2>3. CASE ~(i = cur /\ n = new)
        BY <1>1, <1>4, <2>1, <2>3 DEF OnceInv, BeingStored, Inserting
    <2> QED BY <2>2, <2>3
<1> QED BY <1>1, <1>4, <1>5 DEF OnceInv

\* A posted build is looked for.
LEMMA PushLookOnce ==
    ASSUME TInv, OnceInv, NEW r \in Requests, PushLook(r)
    PROVE  OnceInv'
<1> DEFINE i == req[r].id
           n == req[r].result
<1>1. /\ req[r].at = "build" /\ UNCHANGED <<kind, stored, at, cur, new>>
      /\ req' = [req EXCEPT ![r] = [at |-> IF stored[i][n] = 0 THEN "insert" ELSE "update",
                                    id |-> i, result |-> n]]
      /\ clashed' = IF stored[i][n] = 0 /\ BeingStored(i, n)
                       THEN clashed \cup {<<i, n>>} ELSE clashed
    BY DEF PushLook, localVars
<1>2. i \in Ids /\ n \in Results
    BY <1>1, InsertRecord
<1>3. kind = "Hudson"
    BY <1>1 DEF OnceInv, NoBuild
<1> HIDE DEF i, n
<1>4. CASE stored[i][n] # 0
    <2>1. Quiet
        BY <1>1, <1>3, <1>4 DEF Quiet, TInv, TypeOK
    <2> QED BY <2>1, QuietOnce
<1>5. CASE stored[i][n] = 0
    <2>1. /\ req'[r] = Inserting(i, n)
          /\ \A s \in Requests : s # r => req'[s] = req[s]
        BY <1>1, <1>5 DEF Inserting, TInv, TypeOK
    <2>2. clashed \subseteq clashed'
        BY <1>1
    <2>3. CollectedOnce'
        BY <1>1, <2>2 DEF OnceInv, CollectedOnce
    <2>4. ASSUME NEW j \in Ids, NEW m \in Results, BeingStored(j, m)'
          PROVE  stored'[j][m] = 0 \/ <<j, m>> \in clashed'
        <3>1. CASE j = i /\ m = n
            BY <1>1, <1>5, <3>1
        <3>2. CASE ~(j = i /\ m = n)
            <4>1. BeingStored(j, m)
                BY <1>1, <2>1, <2>4, <3>2 DEF BeingStored, Inserting
            <4> QED BY <1>1, <2>2, <4>1 DEF OnceInv
        <3> QED BY <3>1, <3>2
    <2>5. ASSUME NEW j \in Ids, NEW m \in Results, NEW p \in Requests, NEW s \in Requests,
                 req'[p] = Inserting(j, m),
                 \/ at' = "write" /\ cur' = j /\ new' = m
                 \/ s # p /\ req'[s] = Inserting(j, m)
          PROVE  <<j, m>> \in clashed'
        <3>1. CASE j = i /\ m = n
            <4>1. BeingStored(i, n)
                BY <1>1, <2>1, <2>5, <3>1 DEF BeingStored, Inserting
            <4> QED BY <1>1, <1>5, <3>1, <4>1
        <3>2. CASE ~(j = i /\ m = n)
            BY <1>1, <2>1, <2>2, <2>5, <3>2 DEF OnceInv, Inserting
        <3> QED BY <3>1, <3>2
    <2> QED BY <1>1, <1>3, <2>3, <2>4, <2>5 DEF OnceInv
<1> QED BY <1>4, <1>5

\* A posted build is inserted.
LEMMA PushInsertOnce ==
    ASSUME TInv, OnceInv, NEW r \in Requests, PushInsert(r)
    PROVE  OnceInv'
<1> DEFINE i == req[r].id
           n == req[r].result
<1>1. /\ req[r].at = "insert" /\ UNCHANGED <<kind, at, cur, new, clashed>>
      /\ req' = [req EXCEPT ![r] = Idle]
      /\ Add(i, n)
    BY DEF PushInsert, localVars, histVars
<1>2. i \in Ids /\ n \in Results /\ req[r] = Inserting(i, n)
    BY <1>1, InsertRecord
<1> HIDE DEF i, n
<1>3. BeingStored(i, n)
    BY <1>2 DEF BeingStored, Inserting
<1>4. /\ CollectedOnce'
      /\ \A j \in Ids, m \in Results :
            stored'[j][m] = IF j = i /\ m = n THEN One(stored[i][n]) ELSE stored[j][m]
    BY <1>1, <1>2, <1>3, AddOnce
<1>5. /\ req'[r] = Idle
      /\ \A s \in Requests : s # r => req'[s] = req[s]
    BY <1>1 DEF TInv, TypeOK
<1>6. kind = "Hudson"
    BY <1>1 DEF OnceInv, NoBuild
<1>7. ASSUME NEW p \in Requests, NEW j \in Ids, NEW m \in Results, req'[p] = Inserting(j, m)
      PROVE  p # r /\ req[p] = Inserting(j, m)
    BY <1>5, <1>7 DEF Idle, Inserting
<1>8. ASSUME NEW j \in Ids, NEW m \in Results, BeingStored(j, m)'
      PROVE  stored'[j][m] = 0 \/ <<j, m>> \in clashed'
    <2>1. \/ at = "write" /\ cur = j /\ new = m
          \/ \E p \in Requests : p # r /\ req[p] = Inserting(j, m)
        BY <1>1, <1>7, <1>8 DEF BeingStored, Inserting
    <2>2. CASE j = i /\ m = n
        BY <1>1, <1>2, <2>1, <2>2 DEF OnceInv
    <2>3. CASE ~(j = i /\ m = n)
        BY <1>1, <1>4, <2>1, <2>3 DEF OnceInv, BeingStored, Inserting
    <2> QED BY <2>2, <2>3
<1> QED BY <1>1, <1>4, <1>6, <1>7, <1>8 DEF OnceInv

\* The replacing of deployment data.
LEMMA DeployOnce ==
    TInv /\ OnceInv /\ kind = "uDeploy" /\ (UDeployReplace \/ UDeployInsert) => OnceInv'
<1> SUFFICES ASSUME TInv, OnceInv, kind = "uDeploy", UDeployReplace \/ UDeployInsert
             PROVE  OnceInv'
    OBVIOUS
<1>1. at \in {"replace", "insert"} /\ at' # "write" /\ UNCHANGED <<kind, req, clashed>>
    BY DEF UDeployReplace, UDeployInsert, storeVars, histVars
<1>2. \A i \in Ids, n \in Results : stored'[i][n] \in {stored[i][n], 0, 1}
    BY DEF UDeployReplace, UDeployInsert, TInv, TypeOK
<1>3. \A r \in Requests, i \in Ids, n \in Results : req[r] # Inserting(i, n)
    BY DEF OnceInv, NoBuild, Inserting
<1>4. CollectedOnce'
    BY <1>1, <1>2 DEF OnceInv, CollectedOnce
<1>5. \A i \in Ids, n \in Results : ~BeingStored(i, n)'
    BY <1>1, <1>3 DEF BeingStored, Inserting
<1> QED BY <1>1, <1>3, <1>4, <1>5 DEF OnceInv

\* Nothing is stored initially, nothing is in hand.
LEMMA InitOnce == Init => OnceInv
BY DEF Init, OnceInv, NoBuild, Idle, CollectedOnce, BeingStored, Inserting

\* Every step keeps it.
LEMMA NextOnce == TInv /\ OnceInv /\ [Next]_vars => OnceInv'
<1> SUFFICES ASSUME TInv, OnceInv, [Next]_vars PROVE OnceInv'
    OBVIOUS
<1>1. CASE Run \/ Dies
    BY <1>1, RunQuiet, QuietOnce, LookOnce, WriteOnce, DeployOnce
<1>2. ASSUME NEW r \in Requests, Request(r) \/ RequestStep(r) PROVE OnceInv'
    BY <1>2, RequestQuiet, QuietOnce, PushLookOnce, PushInsertOnce
<1>3. CASE World \/ UNCHANGED vars
    <2>1. Quiet
        BY <1>3 DEF Quiet, World, Produce, Age, Appear, Disappear, vars, storeVars, toolVars,
                    histVars, localVars
    <2> QED BY <2>1, QuietOnce
<1> QED BY <1>1, <1>2, <1>3 DEF Next

\* CollectedOnce: a commit is stored once for its item, and so is a build unless two
\* writers both looked for it before either of them stored it.
THEOREM StoredOnce == Spec => []CollectedOnce
<1>1. OnceInv => CollectedOnce
    BY DEF OnceInv
<1> QED BY InitTyped, NextTyped, InitOnce, NextOnce, <1>1, PTL DEF Spec

----------------------------------------------------------------------------
(* Deployment data are kept *)

\* Data are only replaced by data.
KeptInv ==
    /\ at \in {"replace", "insert"} => batch # {}
    /\ DeployDataKept

\* A step that takes no data away.
Keeps ==
    /\ \A i \in Ids, n \in Results : stored[i][n] > 0 => stored'[i][n] > 0
    /\ deployed' = deployed
    /\ torn' = torn
    /\ at' \in {"replace", "insert"} => at' = at /\ batch' = batch
    /\ at = "insert" => at' = at /\ cur' = cur

\* Such steps keep it.
LEMMA KeepsKept == TInv /\ KeptInv /\ Keeps => KeptInv'
BY DEF TInv, TypeOK, KeptInv, Keeps, DeployDataKept

\* A result that is added takes nothing away.
LEMMA AddKeeps ==
    ASSUME TInv, NEW i \in Ids, NEW n \in Results, Add(i, n)
    PROVE  \A j \in Ids, m \in Results : stored[j][m] > 0 => stored'[j][m] > 0
BY DEF Add, One, TInv, TypeOK

\* The steps of a run that take no data away.
LEMMA RunKeeps ==
    ASSUME TInv, Run
    PROVE  Keeps \/ UDeployAsk \/ UDeployAskFails \/ UDeployReplace \/ UDeployInsert
<1> USE DEF Keeps, storeVars, toolVars, histVars
<1>1. ASSUME SaveCleaned \/ List \/ Look \/ Collected PROVE Keeps
    BY <1>1 DEF SaveCleaned, List, Look, Collected
<1>2. CASE Write
    <2>1. cur \in Ids /\ new \in Results /\ Add(cur, new)
        BY <1>2 DEF Write, TInv, TypeOK
    <2>2. \A j \in Ids, m \in Results : stored[j][m] > 0 => stored'[j][m] > 0
        BY <2>1, AddKeeps
    <2> QED BY <1>2, <2>2 DEF Write
<1>3. CASE HudsonStep
    <2>1. ASSUME HudsonBegins \/ HudsonClean \/ HudsonCleaned \/ HudsonFetches \/ HudsonName
          PROVE  Keeps
        BY <2>1 DEF HudsonBegins, Begins, HudsonClean, HudsonCleaned, HudsonFetches,
                    HudsonFetch, HudsonFetchFails, HudsonFetchGarbled, HudsonName
    <2>2. ASSUME HudsonAdd \/ HudsonVisit \/ HudsonNoDetails \/ HudsonVisited \/ HudsonDelete
                 \/ HudsonEnds
          PROVE  Keeps
        BY <2>2 DEF HudsonAdd, HudsonVisit, HudsonNoDetails, HudsonVisited, HudsonDelete,
                    HudsonEnds, Ended
    <2> QED BY <1>1, <1>2, <1>3, <2>1, <2>2 DEF HudsonStep
<1>4. ASSUME ReadComponents \/ ReadItems PROVE Keeps
    BY <1>4 DEF ReadComponents, ReadItems
<1>5. CASE GitHubStep
    <2>1. ASSUME GitHubBegins \/ GitHubCleaned \/ GitHubVisit \/ GitHubAsk \/ GitHubAskFails
                 \/ GitHubEnds
          PROVE  Keeps
        BY <2>1 DEF GitHubBegins, Begins, GitHubCleaned, GitHubVisit, GitHubAsk,
                    GitHubAskFails, GitHubEnds, Ended
    <2> QED BY <1>1, <1>2, <1>4, <1>5, <2>1 DEF GitHubStep
<1>6. CASE UDeployStep
    <2>1. ASSUME UDeployBegins \/ UDeployDrop \/ UDeployDropped \/ UDeployCleaned
                 \/ UDeployFetch \/ UDeployAdd \/ UDeployAdded \/ UDeployVisit \/ UDeployEnds
          PROVE  Keeps
        BY <2>1 DEF UDeployBegins, Begins, UDeployDrop, UDeployDropped, UDeployCleaned,
                    UDeployFetch, UDeployAdd, UDeployAdded, UDeployVisit, UDeployEnds, Ended
    <2> QED BY <1>1, <1>4, <1>6, <2>1 DEF UDeployStep
<1> QED BY <1>1, <1>2, <1>3, <1>5, <1>6 DEF Run

\* The other steps take no data away.
LEMMA OthersKeep ==
    ASSUME TInv, World \/ (\E r \in Requests : Request(r) \/ RequestStep(r)) \/ UNCHANGED vars
    PROVE  Keeps
<1> USE DEF Keeps, toolVars, localVars, histVars, storeVars
<1>1. ASSUME World \/ UNCHANGED vars PROVE Keeps
    BY <1>1 DEF World, Produce, Age, Appear, Disappear, vars
<1>2. ASSUME NEW r \in Requests, Request(r) \/ RequestStep(r), ~PushInsert(r) PROVE Keeps
    BY <1>2 DEF Request, RequestStep, Alone, RequestDied, PushLook, PushUpdate
<1>3. ASSUME NEW r \in Requests, PushInsert(r) PROVE Keeps
    <2>1. req[r].id \in Ids /\ req[r].result \in Results
        BY <1>3, InsertRecord DEF PushInsert
    <2>2. \A j \in Ids, m \in Results : stored[j][m] > 0 => stored'[j][m] > 0
        BY <1>3, <2>1, AddKeeps DEF PushInsert
    <2> QED BY <1>3, <2>2 DEF PushInsert
<1> QED BY <1>1, <1>2, <1>3

\* The replacing of data, and the death of a run, keep it.
LEMMA ReplaceKept ==
    ASSUME TInv, KeptInv,
           UDeployAsk \/ UDeployAskFails \/ UDeployReplace \/ UDeployInsert \/ Dies
    PROVE  KeptInv'
<1> USE DEF KeptInv, DeployDataKept
<1>1. CASE UDeployAsk \/ UDeployAskFails
    BY <1>1 DEF UDeployAsk, UDeployAskFails, Replaces, histVars
<1>2. CASE UDeployReplace
    BY <1>2 DEF UDeployReplace, histVars, TInv, TypeOK
<1>3. CASE UDeployInsert
    <2>1. PICK n \in Results : n \in batch
        BY <1>3 DEF UDeployInsert, TInv, TypeOK
    <2>2. /\ cur \in Ids /\ deployed' = deployed \cup {cur} /\ torn' = torn \ {cur}
          /\ at = "insert" /\ at' = "visit"
          /\ stored' = [stored EXCEPT ![cur] = [m \in Results |-> IF m \in batch THEN 1 ELSE 0]]
        BY <1>3 DEF UDeployInsert, TInv, TypeOK
    <2>3. ASSUME NEW i \in deployed' \ torn' PROVE \E m \in Results : stored'[i][m] > 0
        <3>1. CASE i = cur
            <4>1. stored'[i][n] = 1
                BY <2>1, <2>2, <3>1 DEF TInv, TypeOK
            <4> QED BY <4>1
        <3>2. CASE i # cur
            <4>1. i \in Ids /\ stored'[i] = stored[i]
                BY <2>2, <2>3, <3>2 DEF TInv, TypeOK
            <4>2. i \in deployed \ torn
                BY <2>2, <2>3, <3>2
            <4> QED BY <2>2, <3>2, <4>1, <4>2
        <3> QED BY <3>1, <3>2
    <2> QED BY <2>2, <2>3
<1>4. CASE Dies
    BY <1>4 DEF Dies, Ended
<1> QED BY <1>1, <1>2, <1>3, <1>4

\* DeployDataKept: deployment data that were stored are there, but while the run
\* replaces them and after a run that died doing so.
THEOREM DataKept == Spec => []DeployDataKept
<1>1. Init => KeptInv
    BY DEF Init, KeptInv, DeployDataKept
<1>2. TInv /\ KeptInv /\ [Next]_vars => KeptInv'
    BY RunKeeps, OthersKeep, KeepsKept, ReplaceKept DEF Next
<1>3. KeptInv => DeployDataKept
    BY DEF KeptInv
<1> QED BY InitTyped, NextTyped, <1>1, <1>2, <1>3, PTL DEF Spec

----------------------------------------------------------------------------
(* Items that are deleted *)

\* Every copy of an item that is about stands for the tool f tells, and its id has
\* been given out.
Agree(docs, f, ids) == \A i \in Ids : docs[i] # Null => i \in ids /\ docs[i].tool = f[i]

RequestAgrees(q, f, ids) ==
    /\ q.at \in {"associate", "save"} => Agree(q.copies, f, ids)
    /\ q.at = "save" => \A w \in q.todo : w[1] \in ids /\ w[2].tool = f[w[1]]
    /\ q.at = "register" => q.id = Null \/ (q.id \in ids /\ q.doc.tool = f[q.id])

SameTool(f) ==
    /\ Agree(items, f, used)
    /\ Agree(existing, f, used)
    /\ Agree(listed, f, used)
    /\ \A c \in Components : Agree(comps[c], f, used)
    /\ \A r \in Requests : RequestAgrees(req[r], f, used)
    /\ at = "drop" => \A i \in todo : i \in used /\ f[i] \notin Configured

\* Why a job may be deleted.
Gone(t) == t \in (Tools \ Configured) \cup missing \/ garbled

\* What a run of the Jenkins collector knows of its server.
GoneInv ==
    /\ at # "idle" => Configured \ present \subseteq missing
    /\ at = "saving" => todo \subseteq Held(existing)
    /\ kind = "Hudson" =>
          /\ at \in {"idle", "components", "saving", "fetch"} => ~ok
          /\ at \in {"name", "list", "visit", "look", "write"} =>
                \A t \in Configured : answer[t] = Null => t \in missing \/ garbled
          /\ at = "delete" =>
                \A i \in todo : existing[i] # Null /\ ~existing[i].pushed /\ Gone(existing[i].tool)

DeleteInv == GoneInv /\ \E f : SameTool(f)

\* What Unwanted chooses is gone.
LEMMA UnwantedGone ==
    ASSUME TInv, ~ok \/ \A t \in Configured : answer[t] = Null => t \in missing \/ garbled,
           NEW i \in Unwanted
    PROVE  existing[i] # Null /\ ~existing[i].pushed /\ Gone(existing[i].tool)
<1>1. i \in Held(existing) /\ existing[i] # Null /\ existing[i] \in Docs
    BY DEF Unwanted, Held, TInv, TypeOK, Copies
<1>2. existing[i].tool \in Tools
    BY <1>1 DEF Docs
<1> QED BY <1>1, <1>2 DEF Unwanted, Gone, Listed

\* Enabled or not, the copies are of the same items, and stand for what they stood for.
LEMMA EnableKeeps ==
    ASSUME NEW docs \in Copies, NEW ids
    PROVE  /\ Held(Enable(docs, ids)) = Held(docs)
           /\ \A i \in Held(docs) : /\ Enable(docs, ids)[i].tool = docs[i].tool
                                   /\ Enable(docs, ids)[i].pushed = docs[i].pushed
<1>1. ASSUME NEW i \in Ids, docs[i] # Null
      PROVE  /\ Enable(docs, ids)[i].tool = docs[i].tool /\ Enable(docs, ids)[i] # Null
             /\ Enable(docs, ids)[i].pushed = docs[i].pushed
    <2>1. docs[i] \in Docs /\ Enable(docs, ids)[i] = [docs[i] EXCEPT !.enabled = i \in ids]
        BY <1>1 DEF Copies, Enable
    <2>2. (i \in ids) \in BOOLEAN
        OBVIOUS
    <2>3. [docs[i] EXCEPT !.enabled = i \in ids] \in Docs
        BY <2>1, <2>2, DocWith
    <2> QED BY <2>1, <2>3, NullIsNothing DEF Docs
<1>2. \A i \in Ids : docs[i] = Null => Enable(docs, ids)[i] = Null
    BY DEF Enable
<1> QED BY <1>1, <1>2 DEF Held

\* The steps that keep what the run knows of its server.
LEMMA GoneKept == TInv /\ GoneInv /\ [Next]_vars => GoneInv'
<1> SUFFICES ASSUME TInv, GoneInv, [Next]_vars PROVE GoneInv'
    OBVIOUS
<1> USE DEF GoneInv, Gone, storeVars, toolVars, localVars, histVars
<1>1. ASSUME NEW r \in Requests, Request(r) \/ RequestStep(r) PROVE GoneInv'
    BY <1>1 DEF Request, RequestStep, Alone, RequestDied, PushLook, PushInsert, PushUpdate, Held
<1>2. CASE World \/ UNCHANGED vars
    BY <1>2 DEF World, Produce, Age, Appear, Disappear, vars, Held, TInv, TypeOK
<1>3. CASE Dies
    BY <1>3 DEF Dies, Ended
<1>4. ASSUME SaveCleaned \/ List \/ Look \/ Write \/ Collected PROVE GoneInv'
    BY <1>4 DEF SaveCleaned, List, Look, Write, Collected, Held
<1>5. ASSUME kind = "Hudson", HudsonStep PROVE GoneInv'
    <2>1. CASE HudsonBegins \/ HudsonCleaned
        BY <2>1 DEF HudsonBegins, Begins, HudsonCleaned
    <2>2. CASE HudsonClean
        <3>1. \A i \in Held(existing) : existing'[i] # Null
            <4>1. Held(Enable(existing, Referenced)) = Held(existing)
                BY EnableKeeps DEF TInv, TypeOK
            <4> QED BY <2>2, <4>1 DEF HudsonClean, Held
        <3> QED BY <2>2, <3>1 DEF HudsonClean, Held
    <2>3. CASE HudsonFetch \/ HudsonFetchGarbled
        BY <2>3, ConfiguredTools, NullIsNothing DEF HudsonFetch, HudsonFetchGarbled, Offers, TInv, TypeOK
    <2>4. CASE HudsonFetchFails
        <3>1. \A i \in Unwanted : existing[i] # Null /\ ~existing[i].pushed /\ Gone(existing[i].tool)
            BY <1>5, <2>4, UnwantedGone DEF HudsonFetchFails
        <3> QED BY <2>4, <3>1 DEF HudsonFetchFails
    <2>5. CASE HudsonName \/ HudsonAdd \/ HudsonVisit \/ HudsonNoDetails
        BY <2>5 DEF HudsonName, HudsonAdd, HudsonVisit, HudsonNoDetails
    <2>6. CASE HudsonVisited
        <3>1. \A i \in Unwanted : existing[i] # Null /\ ~existing[i].pushed /\ Gone(existing[i].tool)
            BY <1>5, <2>6, UnwantedGone DEF HudsonVisited
        <3> QED BY <2>6, <3>1 DEF HudsonVisited
    <2>7. CASE HudsonDelete \/ HudsonEnds
        BY <2>7 DEF HudsonDelete, HudsonEnds, Ended
    <2> QED BY <1>4, <1>5, <2>1, <2>2, <2>3, <2>4, <2>5, <2>6, <2>7 DEF HudsonStep, HudsonFetches
<1>6. ASSUME kind \in {"GitHub", "uDeploy"}, ReadComponents \/ ReadItems PROVE GoneInv'
    <2>1. CASE ReadComponents
        BY <1>6, <2>1 DEF ReadComponents
    <2>2. CASE ReadItems
        <3>1. Held(Enable(items, todo)) = Held(items)
            BY EnableKeeps DEF TInv, TypeOK
        <3> QED BY <1>6, <2>2, <3>1 DEF ReadItems, Held
    <2> QED BY <1>6, <2>1, <2>2
<1>7. ASSUME kind = "GitHub", GitHubStep PROVE GoneInv'
    <2>1. ASSUME GitHubBegins \/ GitHubCleaned \/ GitHubVisit \/ GitHubAsk \/ GitHubAskFails
                 \/ GitHubEnds
          PROVE  GoneInv'
        BY <1>7, <2>1 DEF GitHubBegins, Begins, GitHubCleaned, GitHubVisit, GitHubAsk,
                    GitHubAskFails, GitHubEnds, Ended
    <2> QED BY <1>4, <1>6, <1>7, <2>1 DEF GitHubStep
<1>8. ASSUME kind = "uDeploy", UDeployStep PROVE GoneInv'
    <2>1. ASSUME UDeployBegins \/ UDeployDrop \/ UDeployDropped \/ UDeployCleaned
                 \/ UDeployFetch \/ UDeployAdd \/ UDeployAdded \/ UDeployVisit \/ UDeployEnds
          PROVE  GoneInv'
        BY <1>8, <2>1 DEF UDeployBegins, Begins, UDeployDrop, UDeployDropped, UDeployCleaned,
                    UDeployFetch, UDeployAdd, UDeployAdded, UDeployVisit, UDeployEnds, Ended
    <2>2. ASSUME UDeployAsk \/ UDeployAskFails \/ UDeployReplace \/ UDeployInsert PROVE GoneInv'
        BY <1>8, <2>2 DEF UDeployAsk, UDeployAskFails, Replaces, UDeployReplace, UDeployInsert
    <2> QED BY <1>4, <1>6, <1>8, <2>1, <2>2 DEF UDeployStep
<1> QED BY <1>1, <1>2, <1>3, <1>5, <1>7, <1>8 DEF Next, Run

\* A step that only copies documents of items, or inserts documents with fresh ids,
\* keeps the agreement.
LEMMA AgreeFrame ==
    ASSUME NEW f, SameTool(f), NEW g,
           \A i \in used : i \in Ids /\ g[i] = f[i],
           used \subseteq used',
           Agree(items', g, used'),
           existing' = existing \/ Agree(existing', g, used'),
           listed' = listed \/ Agree(listed', g, used'),
           \A c \in Components : comps'[c] = comps[c] \/ Agree(comps'[c], g, used'),
           \A r \in Requests : req'[r] = req[r] \/ RequestAgrees(req'[r], g, used'),
           at' = "drop" => \/ at = "drop" /\ todo' \subseteq todo
                          \/ \A i \in todo' : i \in used /\ g[i] \notin Configured
    PROVE  SameTool(g)'
<1>1. ASSUME NEW docs, Agree(docs, f, used) PROVE Agree(docs, g, used')
    BY <1>1 DEF Agree
<1>2. ASSUME NEW q, RequestAgrees(q, f, used) PROVE RequestAgrees(q, g, used')
    BY <1>1, <1>2 DEF RequestAgrees
<1>3. Agree(existing', g, used') /\ Agree(listed', g, used')
    BY <1>1 DEF SameTool
<1>4. \A c \in Components : Agree(comps'[c], g, used')
    BY <1>1 DEF SameTool
<1>5. \A r \in Requests : RequestAgrees(req'[r], g, used')
    BY <1>2 DEF SameTool
<1>6. at' = "drop" => \A i \in todo' : i \in used' /\ g[i] \notin Configured
    BY DEF SameTool
<1> QED BY <1>3, <1>4, <1>5, <1>6 DEF SameTool

\* The same, when no id is given out.
LEMMA SameFrame ==
    ASSUME TInv, NEW f, SameTool(f),
           used' = used,
           items' = items \/ Agree(items', f, used),
           existing' = existing \/ Agree(existing', f, used),
           listed' = listed \/ Agree(listed', f, used),
           \A c \in Components : comps'[c] = comps[c] \/ Agree(comps'[c], f, used),
           \A r \in Requests : req'[r] = req[r] \/ RequestAgrees(req'[r], f, used),
           at' = "drop" => \/ at = "drop" /\ todo' \subseteq todo
                          \/ \A i \in todo' : i \in used /\ f[i] \notin Configured
    PROVE  SameTool(f)'
<1>1. Agree(items', f, used')
    BY DEF SameTool
<1>2. \A i \in used : i \in Ids
    BY DEF TInv, TypeOK
<1> QED BY <1>1, <1>2, AgreeFrame

\* Parts of agreeing copies agree, and so do agreeing copies with one more.
LEMMA PartAgrees ==
    ASSUME NEW f, NEW u, NEW docs, Agree(docs, f, u)
    PROVE  /\ Agree(NoItems, f, u)
           /\ \A i, d : (d = Null \/ (i \in u /\ d.tool = f[i])) /\ docs \in [Ids -> Docs \cup {Null}]
                     => Agree([docs EXCEPT ![i] = d], f, u)
BY DEF Agree, NoItems

\* An insert of one document with a fresh id.
LEMMA InsertAgrees ==
    ASSUME TInv, NEW f, SameTool(f), NEW i \in Fresh, NEW d \in Docs,
           items' = [items EXCEPT ![i] = d], used' = used \cup {i},
           UNCHANGED <<existing, listed, comps>>,
           \A r \in Requests : req'[r] = req[r] \/ req'[r].at \in {"idle", "build"},
           at' # "drop" \/ UNCHANGED <<at, todo>>
    PROVE  \E g : SameTool(g)'
<1> DEFINE g == [j \in Ids |-> IF j = i THEN d.tool ELSE f[j]]
<1>1. /\ g[i] = d.tool /\ i \in Ids
      /\ \A j \in used : j \in Ids /\ g[j] = f[j]
      /\ \A j \in Ids : j # i => g[j] = f[j]
    BY DEF SameTool, Fresh, Docs, TInv, TypeOK
<1> HIDE DEF g
<1>2. \A j \in Ids : j # i => items'[j] = items[j]
    BY DEF TInv, TypeOK, Copies
<1>3. items'[i] = d
    BY <1>1 DEF TInv, TypeOK, Copies
<1>4. Agree(items', g, used')
    BY <1>1, <1>2, <1>3 DEF Agree, SameTool
<1>5. \A r \in Requests : req'[r] = req[r] \/ RequestAgrees(req'[r], g, used')
    BY DEF RequestAgrees
<1>6. SameTool(g)'
    BY <1>1, <1>4, <1>5, AgreeFrame
<1> QED BY <1>6

\* Requests keep the agreement.
LEMMA RequestsAgree ==
    ASSUME TInv, NEW f, SameTool(f), NEW r \in Requests, Request(r) \/ RequestStep(r)
    PROVE  \E g : SameTool(g)'
<1> USE DEF storeVars, toolVars, localVars, histVars
<1>1. /\ \A c \in Components : Agree(comps[c], f, used)
      /\ Agree(items, f, used) /\ RequestAgrees(req[r], f, used)
      /\ items \in Copies /\ comps \in [Components -> Copies]
      /\ req[r] \in Requested
    BY DEF SameTool, TInv, TypeOK
<1>2. ASSUME NEW q, req' = [req EXCEPT ![r] = q], RequestAgrees(q, f, used),
             items' = items \/ Agree(items', f, used),
             \A c \in Components : comps'[c] = comps[c] \/ Agree(comps'[c], f, used),
             UNCHANGED <<used, existing, listed, at, todo>>
      PROVE  \E g : SameTool(g)'
    <2>1. \A s \in Requests : req'[s] = req[s] \/ RequestAgrees(req'[s], f, used)
        BY <1>2 DEF TInv, TypeOK
    <2>2. SameTool(f)'
        BY <1>2, <2>1, SameFrame
    <2> QED BY <2>2
<1>3. RequestAgrees(Idle, f, used)
    BY DEF RequestAgrees, Idle
<1>4. ASSUME NEW c \in Components, NEW ids \in SUBSET Ids, AssociateBegin(r, c, ids), Alone
      PROVE  \E g : SameTool(g)'
    <2> DEFINE q == [at |-> "associate", comp |-> c, ids |-> ids, copies |-> comps[c]]
    <2>1. RequestAgrees(q, f, used)
        BY <1>1 DEF RequestAgrees
    <2>2. req' = [req EXCEPT ![r] = q] /\ UNCHANGED <<items, comps, used, existing, listed, at, todo>>
        BY <1>4 DEF AssociateBegin, Alone
    <2> HIDE DEF q
    <2> QED BY <1>2, <2>1, <2>2
<1>5. ASSUME NEW c \in Components, DeleteComponent(r, c), Alone
      PROVE  \E g : SameTool(g)'
    <2>1. \A e \in Components : comps'[e] = comps[e] \/ Agree(comps'[e], f, used)
        BY <1>1, <1>5, PartAgrees DEF DeleteComponent
    <2>2. UNCHANGED <<items, req, used, existing, listed, at, todo>>
        BY <1>5 DEF DeleteComponent, Alone
    <2>3. SameTool(f)'
        BY <2>1, <2>2, SameFrame
    <2> QED BY <2>3
<1>6. ASSUME NEW d, NEW n, RegisterFind(r, d, n), Alone PROVE \E g : SameTool(g)'
    <2>1. PICK i \in Found(d.tool) :
              req' = [req EXCEPT ![r] = [at |-> "register", doc |-> d, id |-> i, result |-> n]]
        BY <1>6 DEF RegisterFind
    <2>2. i = Null \/ (i \in used /\ d.tool = f[i])
        BY <1>1 DEF Found, Held, Agree
    <2>3. RequestAgrees([at |-> "register", doc |-> d, id |-> i, result |-> n], f, used)
        BY <2>2 DEF RequestAgrees
    <2>4. UNCHANGED <<items, comps, used, existing, listed, at, todo>>
        BY <1>6 DEF RegisterFind, Alone
    <2> QED BY <1>2, <2>1, <2>3, <2>4
<1>7. CASE RequestDied(r)
    BY <1>2, <1>3, <1>7 DEF RequestDied, RequestDies
<1>8. CASE AssociateItems(r) /\ Alone
    <2> DEFINE q == req[r]
               w == [at |-> "save", comp |-> q.comp, copies |-> q.copies, todo |-> {}]
               v == [at |-> "save", comp |-> q.comp, copies |-> NewCopies(q.ids),
                     todo |-> DisabledCopies(q.copies) \cup EnabledItems(q.ids)]
    <2>1. /\ q.ids \subseteq Held(items) /\ q.at = "associate"
          /\ req' = [req EXCEPT ![r] = IF q.ids = {} THEN w ELSE v]
          /\ UNCHANGED <<items, comps, used, existing, listed, at, todo>>
        BY <1>8 DEF AssociateItems, Alone
    <2>2. q.copies \in Copies /\ Agree(q.copies, f, used)
        BY <1>1, <2>1, AtPlace DEF Associating, RequestAgrees
    <2>3. \A i \in q.ids : /\ i \in Ids /\ items[i] \in Docs /\ i \in used /\ items[i].tool = f[i]
                           /\ [items[i] EXCEPT !.enabled = TRUE].tool = f[i]
        <3>1. \A i \in q.ids : i \in Ids /\ items[i] # Null /\ items[i] \in Docs
            BY <1>1, <2>1 DEF Held, Copies
        <3> QED BY <1>1, <3>1 DEF Agree, Docs
    <2>4. \A i \in Held(q.copies) : i \in used /\ [q.copies[i] EXCEPT !.enabled = FALSE].tool = f[i]
        <3>1. \A i \in Held(q.copies) : i \in Ids /\ q.copies[i] # Null /\ q.copies[i] \in Docs
            BY <2>2 DEF Held, Copies
        <3> QED BY <2>2, <3>1 DEF Agree, Docs
    <2> HIDE DEF q
    <2>5. Agree(NewCopies(q.ids), f, used)
        BY <2>3 DEF NewCopies, Agree
    <2>6. \A x \in DisabledCopies(q.copies) : x[1] \in used /\ x[2].tool = f[x[1]]
        <3>1. ASSUME NEW x \in DisabledCopies(q.copies)
              PROVE  x[1] \in used /\ x[2].tool = f[x[1]]
            <4>1. PICK i \in Held(q.copies) : x = <<i, [q.copies[i] EXCEPT !.enabled = FALSE]>>
                BY <3>1 DEF DisabledCopies
            <4>2. x[1] = i /\ x[2] = [q.copies[i] EXCEPT !.enabled = FALSE]
                BY <4>1
            <4> QED BY <2>4, <4>2
        <3> QED BY <3>1
    <2>7. \A x \in EnabledItems(q.ids) : x[1] \in used /\ x[2].tool = f[x[1]]
        <3>1. ASSUME NEW x \in EnabledItems(q.ids)
              PROVE  x[1] \in used /\ x[2].tool = f[x[1]]
            <4>1. PICK i \in q.ids : x = <<i, [items[i] EXCEPT !.enabled = TRUE]>>
                BY <3>1 DEF EnabledItems
            <4>2. x[1] = i /\ x[2] = [items[i] EXCEPT !.enabled = TRUE]
                BY <4>1
            <4> QED BY <2>3, <4>2
        <3> QED BY <3>1
    <2>8. RequestAgrees(w, f, used) /\ RequestAgrees(v, f, used)
        BY <2>2, <2>5, <2>6, <2>7 DEF RequestAgrees
    <2> HIDE DEF w, v
    <2>9. RequestAgrees(IF q.ids = {} THEN w ELSE v, f, used)
        BY <2>8
    <2> QED BY <1>2, <2>1, <2>9
<1>9. CASE AssociateFails(r) /\ Alone
    BY <1>2, <1>3, <1>9 DEF AssociateFails, Alone
<1>10. CASE AssociateSaveItem(r) /\ Alone
    <2>1. PICK w \in req[r].todo :
              /\ items' = [items EXCEPT ![w[1]] = w[2]]
              /\ req' = [req EXCEPT ![r] = [@ EXCEPT !.todo = req[r].todo \ {w}]]
        BY <1>10 DEF AssociateSaveItem
    <2>2. req[r] \in Saving /\ req[r].at = "save"
        BY <1>1, <1>10, AtPlace DEF AssociateSaveItem
    <2>3. w[1] \in used /\ w[2].tool = f[w[1]]
        BY <1>1, <2>1, <2>2 DEF RequestAgrees
    <2>4. Agree(items', f, used)
        BY <1>1, <2>1, <2>3, PartAgrees DEF Copies
    <2> DEFINE q == [req[r] EXCEPT !.todo = req[r].todo \ {w}]
    <2>5. q.at = "save" /\ q.copies = req[r].copies /\ q.todo \subseteq req[r].todo
        BY <2>2 DEF Saving
    <2>6. req' = [req EXCEPT ![r] = q]
        BY <2>1
    <2> HIDE DEF q
    <2>7. RequestAgrees(q, f, used)
        BY <1>1, <2>2, <2>5 DEF RequestAgrees
    <2> QED BY <1>2, <1>10, <2>4, <2>6, <2>7 DEF AssociateSaveItem, Alone
<1>11. CASE AssociateSaveComponent(r) /\ Alone
    <2>1. \A c \in Components : comps'[c] = comps[c] \/ Agree(comps'[c], f, used)
        BY <1>1, <1>11 DEF AssociateSaveComponent, RequestAgrees
    <2> QED BY <1>2, <1>3, <1>11, <2>1 DEF AssociateSaveComponent, Alone
<1>12. CASE RegisterSave(r) /\ Alone
    <2>1. req[r].at = "register" /\ req[r] \in Registering
        BY <1>1, <1>12, AtPlace DEF RegisterSave
    <2>2. req[r].doc \in Docs
        BY <2>1 DEF Registering
    <2>3. PICK i \in IF req[r].id = Null THEN Fresh ELSE {req[r].id} :
              /\ items' = [items EXCEPT ![i] = req[r].doc]
              /\ used' = used \cup {i}
              /\ req' = [req EXCEPT ![r] =
                            IF req[r].result = Null THEN Idle
                            ELSE [at |-> "build", id |-> i, result |-> req[r].result]]
        BY <1>12 DEF RegisterSave
    <2>4. req'[r].at \in {"idle", "build"} /\ \A s \in Requests : s # r => req'[s] = req[s]
        BY <2>3 DEF Idle, TInv, TypeOK
    <2>5. UNCHANGED <<existing, listed, comps, at, todo>>
        BY <1>12 DEF RegisterSave, Alone
    <2>6. CASE req[r].id = Null
        BY <2>2, <2>3, <2>4, <2>5, <2>6, InsertAgrees
    <2>7. CASE req[r].id # Null
        <3>1. i \in used /\ req[r].doc.tool = f[i] /\ used' = used
            BY <1>1, <2>1, <2>3, <2>7 DEF RequestAgrees
        <3>2. Agree(items', f, used)
            BY <1>1, <2>3, <3>1, PartAgrees DEF Copies
        <3>3. RequestAgrees(req'[r], f, used)
            BY <2>4 DEF RequestAgrees
        <3>4. SameTool(f)'
            BY <2>4, <2>5, <3>1, <3>2, <3>3, SameFrame
        <3> QED BY <3>4
    <2> QED BY <2>6, <2>7
<1>13. CASE PushLook(r) \/ PushInsert(r) \/ PushUpdate(r)
    <2> DEFINE q == req'[r]
    <2>1. req' = [req EXCEPT ![r] = q] /\ q.at \in {"insert", "update", "idle"}
        <3>1. CASE PushLook(r)
            BY <3>1 DEF PushLook, TInv, TypeOK
        <3>2. CASE PushInsert(r) \/ PushUpdate(r)
            BY <3>2 DEF PushInsert, PushUpdate, Idle, TInv, TypeOK
        <3> QED BY <1>13, <3>1, <3>2
    <2> HIDE DEF q
    <2>2. RequestAgrees(q, f, used)
        BY <2>1 DEF RequestAgrees
    <2> QED BY <1>2, <1>13, <2>1, <2>2 DEF PushLook, PushInsert, PushUpdate
<1> QED BY <1>4, <1>5, <1>6, <1>7, <1>8, <1>9, <1>10, <1>11, <1>12, <1>13
        DEF Request, RequestStep, Push, Register

\* Enabled or not, copies agree.
LEMMA EnableAgrees ==
    ASSUME NEW docs \in Copies, NEW ids, NEW f, NEW u, Agree(docs, f, u)
    PROVE  Agree(Enable(docs, ids), f, u)
BY EnableKeeps DEF Agree, Held

\* A copy that clean() saves agrees.
LEMMA SavedAgrees ==
    ASSUME TInv, NEW f, SameTool(f), SaveCleaned
    PROVE  /\ Agree(items', f, used) /\ at' # "drop"
           /\ UNCHANGED <<used, comps, req, existing, listed>>
<1>1. PICK i \in todo : items' = [items EXCEPT ![i] = existing[i]]
    BY DEF SaveCleaned
<1>2. existing[i] = Null \/ (i \in used /\ existing[i].tool = f[i])
    BY DEF SameTool, Agree, TInv, TypeOK
<1>3. Agree(items', f, used)
    BY <1>1, <1>2, PartAgrees DEF SameTool, TInv, TypeOK, Copies
<1> QED BY <1>3 DEF SaveCleaned

\* The copies of the enabled items agree.
LEMMA ListedAgrees ==
    ASSUME TInv, NEW f, SameTool(f), List
    PROVE  /\ Agree(listed', f, used) /\ at' # "drop"
           /\ UNCHANGED <<used, comps, req, existing, items>>
<1>1. \A i \in Ids : listed'[i] # Null => items[i] # Null /\ listed'[i] = items[i]
    BY DEF List, Exists
<1> QED BY <1>1 DEF List, SameTool, Agree, storeVars

\* New jobs are inserted, each with an id of its own.
LEMMA JobsAdded ==
    ASSUME HudsonAdd
    PROVE  \E jobs \in SUBSET Tools : \E id \in [jobs -> Fresh] :
              /\ \A t, u \in jobs : t # u => id[t] # id[u]
              /\ items' = [i \in Ids |->
                             IF \E t \in jobs : id[t] = i
                               THEN JobDoc(CHOOSE t \in jobs : id[t] = i) ELSE items[i]]
              /\ used' = used \cup {id[t] : t \in jobs}
<1> DEFINE jobs == {t \in Tools : Listed(t) /\ ~Knows(t)}
<1>1. PICK id \in [jobs -> Fresh] :
          /\ \A t, u \in DOMAIN id : t # u => id[t] # id[u]
          /\ items' = [i \in Ids |->
                         IF \E t \in DOMAIN id : id[t] = i
                           THEN JobDoc(CHOOSE t \in DOMAIN id : id[t] = i) ELSE items[i]]
          /\ used' = used \cup {id[t] : t \in DOMAIN id}
    BY Zenon DEF HudsonAdd
<1>2. DOMAIN id = jobs /\ jobs \in SUBSET Tools
    BY <1>1
<1> HIDE DEF jobs
<1> QED BY <1>1, <1>2

\* The insert of the new jobs keeps the agreement.
LEMMA AddedAgree ==
    ASSUME TInv, NEW f, SameTool(f), HudsonAdd
    PROVE  \E g : SameTool(g)'
<1>1. PICK jobs \in SUBSET Tools : \E id \in [jobs -> Fresh] :
          /\ \A t, u \in jobs : t # u => id[t] # id[u]
          /\ items' = [i \in Ids |->
                         IF \E t \in jobs : id[t] = i
                           THEN JobDoc(CHOOSE t \in jobs : id[t] = i) ELSE items[i]]
          /\ used' = used \cup {id[t] : t \in jobs}
    BY JobsAdded
<1>2. PICK id \in [jobs -> Fresh] :
          /\ \A t, u \in jobs : t # u => id[t] # id[u]
          /\ items' = [i \in Ids |->
                         IF \E t \in jobs : id[t] = i
                           THEN JobDoc(CHOOSE t \in jobs : id[t] = i) ELSE items[i]]
          /\ used' = used \cup {id[t] : t \in jobs}
    BY <1>1
<1> DEFINE the(i) == CHOOSE t \in jobs : id[t] = i
           g == [i \in Ids |-> IF \E t \in jobs : id[t] = i THEN the(i) ELSE f[i]]
<1> HIDE DEF the
<1>4. \A i \in used : i \in Ids /\ g[i] = f[i]
    BY DEF Fresh, TInv, TypeOK
<1>5. Agree(items', g, used')
    <2>1. ASSUME NEW i \in Ids, items'[i] # Null PROVE i \in used' /\ items'[i].tool = g[i]
        <3>1. CASE \E t \in jobs : id[t] = i
            BY <1>2, <3>1 DEF JobDoc, the
        <3>2. CASE ~\E t \in jobs : id[t] = i
            BY <1>2, <2>1, <3>2 DEF SameTool, Agree
        <3> QED BY <3>1, <3>2
    <2> QED BY <2>1 DEF Agree
<1> HIDE DEF g
<1>6. used \subseteq used' /\ at' # "drop" /\ UNCHANGED <<comps, req, existing, listed>>
    BY <1>2 DEF HudsonAdd
<1>7. SameTool(g)'
    BY <1>4, <1>5, <1>6, AgreeFrame
<1> QED BY <1>7

\* Runs of the Jenkins collector keep the agreement.
LEMMA HudsonAgrees ==
    ASSUME TInv, GoneInv, NEW f, SameTool(f), kind = "Hudson", HudsonStep
    PROVE  \E g : SameTool(g)'
<1> USE DEF storeVars, toolVars, localVars, histVars
<1>1. /\ Agree(items, f, used) /\ Agree(existing, f, used) /\ Agree(listed, f, used)
      /\ Agree(NoItems, f, used)
      /\ items \in Copies /\ existing \in Copies /\ listed \in Copies
    BY PartAgrees DEF SameTool, TInv, TypeOK
<1>2. ASSUME UNCHANGED <<used, comps, req>>, at' # "drop",
             items' = items \/ Agree(items', f, used),
             existing' = existing \/ Agree(existing', f, used),
             listed' = listed \/ Agree(listed', f, used)
      PROVE  \E g : SameTool(g)'
    <2>1. SameTool(f)'
        BY <1>2, SameFrame
    <2> QED BY <2>1
<1>3. CASE HudsonBegins
    BY <1>1, <1>2, <1>3 DEF HudsonBegins, Begins
<1>4. CASE HudsonClean
    <2>1. Agree(existing', f, used)
        BY <1>1, <1>4, EnableAgrees DEF HudsonClean
    <2> QED BY <1>2, <1>4, <2>1 DEF HudsonClean
<1>5. CASE SaveCleaned
    BY <1>2, <1>5, SavedAgrees
<1>6. CASE HudsonCleaned \/ HudsonFetches \/ HudsonVisit \/ Look \/ Write \/ HudsonNoDetails
           \/ Collected
    BY <1>2, <1>6 DEF HudsonCleaned, HudsonFetches, HudsonFetch, HudsonFetchFails,
                      HudsonFetchGarbled, HudsonVisit, Look, Write, HudsonNoDetails, Collected
<1>7. CASE HudsonName
    <2>1. PICK i \in todo :
              /\ existing' = [existing EXCEPT ![i] = [existing[i] EXCEPT !.named = TRUE]]
              /\ items' = [items EXCEPT ![i] = existing'[i]]
        BY <1>7 DEF HudsonName
    <2>2. i \in Ids /\ existing[i] # Null /\ existing[i] \in Docs
        BY <1>7, <2>1, HeldDoc DEF TInv, TypeOK, Loops, HudsonName, Held
    <2>3. /\ existing'[i] = [existing[i] EXCEPT !.named = TRUE]
          /\ i \in used /\ existing'[i].tool = f[i]
        BY <1>1, <2>1, <2>2 DEF Agree, Docs, Copies
    <2>4. Agree(existing', f, used) /\ Agree(items', f, used)
        BY <1>1, <2>1, <2>3, PartAgrees DEF Copies
    <2> QED BY <1>2, <1>7, <2>4 DEF HudsonName
<1>8. CASE HudsonAdd
    BY <1>8, AddedAgree
<1>9. CASE List
    BY <1>2, <1>9, ListedAgrees
<1>10. CASE HudsonVisited
    BY <1>1, <1>2, <1>10 DEF HudsonVisited
<1>11. CASE HudsonDelete
    <2>1. PICK i : items' = [items EXCEPT ![i] = Null]
        BY <1>11 DEF HudsonDelete
    <2>2. Agree(items', f, used)
        BY <1>1, <2>1, PartAgrees DEF Copies
    <2> QED BY <1>2, <1>11, <2>2 DEF HudsonDelete
<1>12. CASE HudsonEnds
    BY <1>1, <1>2, <1>12 DEF HudsonEnds, Ended
<1> QED BY <1>3, <1>4, <1>5, <1>6, <1>7, <1>8, <1>9, <1>10, <1>11, <1>12 DEF HudsonStep

\* Runs of the GitHub and the uDeploy collector keep the agreement.
LEMMA OtherRunsAgree ==
    ASSUME TInv, GoneInv, NEW f, SameTool(f), GitHubStep \/ UDeployStep
    PROVE  \E g : SameTool(g)'
<1> USE DEF storeVars, toolVars, localVars, histVars
<1>1. /\ Agree(items, f, used) /\ Agree(existing, f, used) /\ Agree(listed, f, used)
      /\ Agree(NoItems, f, used)
      /\ items \in Copies /\ existing \in Copies /\ listed \in Copies
    BY PartAgrees DEF SameTool, TInv, TypeOK
<1>2. ASSUME UNCHANGED <<used, comps, req>>,
             items' = items \/ Agree(items', f, used),
             existing' = existing \/ Agree(existing', f, used),
             listed' = listed \/ Agree(listed', f, used),
             at' = "drop" => \/ at = "drop" /\ todo' \subseteq todo
                            \/ \A i \in todo' : i \in used /\ f[i] \notin Configured
      PROVE  \E g : SameTool(g)'
    <2>1. SameTool(f)'
        BY <1>2, SameFrame
    <2> QED BY <2>1
<1>3. CASE GitHubBegins \/ ReadComponents \/ GitHubAsk \/ GitHubAskFails \/ Look \/ Write
           \/ Collected
    BY <1>2, <1>3 DEF GitHubBegins, Begins, ReadComponents, GitHubAsk, GitHubAskFails, Look,
                      Write, Collected
<1>4. CASE ReadItems
    <2>1. Agree(existing', f, used)
        BY <1>1, <1>4, EnableAgrees DEF ReadItems
    <2> QED BY <1>2, <1>4, <2>1 DEF ReadItems
<1>5. CASE SaveCleaned
    BY <1>2, <1>5, SavedAgrees
<1>6. CASE GitHubCleaned \/ UDeployCleaned
    BY <1>1, <1>2, <1>6 DEF GitHubCleaned, UDeployCleaned
<1>7. CASE List
    BY <1>2, <1>7, ListedAgrees
<1>8. CASE GitHubVisit
    <2>1. PICK i \in todo : items' = [items EXCEPT ![i] = [listed[i] EXCEPT !.dated = TRUE]]
        BY <1>8 DEF GitHubVisit
    <2>2. i \in Ids /\ listed[i] # Null /\ listed[i] \in Docs
        BY <1>8, <2>1, HeldDoc DEF TInv, TypeOK, Loops, GitHubVisit, Held
    <2>3. i \in used /\ [listed[i] EXCEPT !.dated = TRUE].tool = f[i]
        BY <1>1, <2>2 DEF Agree, Docs
    <2>4. Agree(items', f, used)
        BY <1>1, <2>1, <2>3, PartAgrees DEF Copies
    <2> QED BY <1>2, <1>8, <2>4 DEF GitHubVisit
<1>9. CASE GitHubEnds \/ UDeployEnds
    BY <1>1, <1>2, <1>9 DEF GitHubEnds, UDeployEnds, Ended
<1>10. CASE UDeployBegins
    <2>1. \A i \in todo' : i \in used /\ f[i] \notin Configured
        BY <1>1, <1>10 DEF UDeployBegins, Held, Agree
    <2> QED BY <1>2, <1>10, <2>1 DEF UDeployBegins, Begins
<1>11. CASE UDeployDrop
    <2>1. PICK i : items' = [items EXCEPT ![i] = Null]
        BY <1>11 DEF UDeployDrop
    <2>2. Agree(items', f, used)
        BY <1>1, <2>1, PartAgrees DEF Copies
    <2> QED BY <1>2, <1>11, <2>2 DEF UDeployDrop
<1>12. CASE UDeployDropped \/ UDeployFetch \/ UDeployAdded \/ UDeployVisit \/ UDeployReplace
            \/ UDeployInsert
    BY <1>2, <1>12 DEF UDeployDropped, UDeployFetch, UDeployAdded, UDeployVisit, UDeployReplace,
                       UDeployInsert
<1>13. CASE UDeployAsk \/ UDeployAskFails
    BY <1>2, <1>13 DEF UDeployAsk, UDeployAskFails, Replaces
<1>14. CASE UDeployAdd
    <2>1. PICK t \in Tools :
              IF Found(t) = {Null}
                THEN \E i \in Fresh : /\ items' = [items EXCEPT ![i] = AppDoc(t)]
                                      /\ used' = used \cup {i}
                ELSE UNCHANGED <<items, used>>
        BY <1>14 DEF UDeployAdd
    <2>2. CASE Found(t) = {Null}
        <3>1. PICK i \in Fresh : items' = [items EXCEPT ![i] = AppDoc(t)] /\ used' = used \cup {i}
            BY <2>1, <2>2
        <3>2. AppDoc(t) \in Docs
            BY DEF AppDoc, Docs
        <3> QED BY <1>14, <3>1, <3>2, InsertAgrees DEF UDeployAdd
    <2>3. CASE Found(t) # {Null}
        BY <1>2, <1>14, <2>1, <2>3 DEF UDeployAdd
    <2> QED BY <2>2, <2>3
<1> QED BY <1>3, <1>4, <1>5, <1>6, <1>7, <1>8, <1>9, <1>10, <1>11, <1>12, <1>13, <1>14
        DEF GitHubStep, UDeployStep

\* Every step keeps it.
LEMMA NextDelete == TInv /\ DeleteInv /\ [Next]_vars => DeleteInv'
<1> SUFFICES ASSUME TInv, DeleteInv, [Next]_vars PROVE DeleteInv'
    OBVIOUS
<1>1. GoneInv'
    BY GoneKept DEF DeleteInv
<1>2. PICK f : SameTool(f)
    BY DEF DeleteInv
<1>3. CASE World \/ UNCHANGED vars
    <2>1. /\ UNCHANGED <<used, items, existing, listed, comps, req, at, todo>>
        BY <1>3 DEF World, Produce, Age, Appear, Disappear, vars, storeVars, localVars
    <2>2. SameTool(f)'
        BY <1>2, <2>1, SameFrame
    <2> QED BY <1>1, <2>2 DEF DeleteInv
<1>4. CASE Dies
    <2>1. /\ UNCHANGED <<used, items, comps, req>> /\ existing' = NoItems /\ listed' = NoItems
          /\ at' = "idle"
        BY <1>4 DEF Dies, Ended, storeVars
    <2>2. Agree(NoItems, f, used)
        BY <1>2, PartAgrees DEF SameTool
    <2>3. SameTool(f)'
        BY <1>2, <2>1, <2>2, SameFrame
    <2> QED BY <1>1, <2>3 DEF DeleteInv
<1>5. ASSUME NEW r \in Requests, Request(r) \/ RequestStep(r) PROVE \E g : SameTool(g)'
    BY <1>2, <1>5, RequestsAgree
<1>6. CASE Run
    <2>1. GoneInv
        BY DEF DeleteInv
    <2>2. CASE kind = "Hudson" /\ HudsonStep
        <3>1. \E g : SameTool(g)'
            BY <1>2, <2>1, <2>2, HudsonAgrees
        <3> QED BY <1>1, <3>1 DEF DeleteInv
    <2>3. CASE GitHubStep \/ UDeployStep
        <3>1. \E g : SameTool(g)'
            BY <1>2, <2>1, <2>3, OtherRunsAgree
        <3> QED BY <1>1, <3>1 DEF DeleteInv
    <2> QED BY <1>6, <2>2, <2>3 DEF Run
<1> QED BY <1>1, <1>3, <1>4, <1>5, <1>6 DEF Next, DeleteInv

\* Initially the copies are of the one item there may be.
LEMMA InitDelete == Init => DeleteInv
<1> SUFFICES ASSUME Init PROVE DeleteInv
    OBVIOUS
<1>1. items \in Copies
    BY InitTyped DEF TInv, TypeOK
<1>2. GoneInv
    BY DEF Init, GoneInv
<1>3. used = Held(items)
    BY DEF Init
<1> DEFINE f == [i \in Ids |-> items[i].tool]
<1>4. Agree(items, f, used) /\ Agree(NoItems, f, used)
    BY <1>3 DEF Agree, Held, NoItems
<1>5. \A c \in Components : Agree(comps[c], f, used)
    BY <1>3 DEF Init, Agree, Held, Exists
<1>6. \A r \in Requests : RequestAgrees(req[r], f, used)
    BY DEF Init, RequestAgrees, Idle
<1> HIDE DEF f
<1>7. SameTool(f)
    BY <1>4, <1>5, <1>6 DEF SameTool, Init
<1> QED BY <1>2, <1>7 DEF DeleteInv

\* No other step deletes an item.
LEMMA NothingElse ==
    ASSUME TInv, GoneInv, [Next]_vars, NEW i \in Ids, Exists(i),
           ~(kind = "Hudson" /\ HudsonDelete), ~(kind = "uDeploy" /\ UDeployDrop)
    PROVE  items'[i] # Null
<1> USE DEF Exists, storeVars, histVars
<1>1. \A d \in Docs : d # Null
    BY NullIsNothing
<1>2. items \in Copies
    BY DEF TInv, TypeOK
<1>3. ASSUME NEW j, NEW d \in Docs, items' = [items EXCEPT ![j] = d] PROVE items'[i] # Null
    BY <1>1, <1>2, <1>3 DEF Copies
<1>4. CASE World \/ Dies \/ UNCHANGED vars
    BY <1>4 DEF World, Produce, Age, Appear, Disappear, Dies, vars
<1>5. ASSUME NEW r \in Requests, Request(r) \/ RequestStep(r) PROVE items'[i] # Null
    <2>1. CASE AssociateSaveItem(r)
        <3>1. PICK w \in req[r].todo : items' = [items EXCEPT ![w[1]] = w[2]]
            BY <2>1 DEF AssociateSaveItem
        <3>2. req[r] \in Saving
            BY <2>1, AtPlace DEF AssociateSaveItem, TInv, TypeOK
        <3>3. w[2] \in Docs
            BY <3>1, <3>2 DEF Saving
        <3> QED BY <1>3, <3>1, <3>3
    <2>2. CASE RegisterSave(r)
        <3>1. PICK j : items' = [items EXCEPT ![j] = req[r].doc]
            BY <2>2 DEF RegisterSave
        <3>2. req[r] \in Registering
            BY <2>2, AtPlace DEF RegisterSave, TInv, TypeOK
        <3>3. req[r].doc \in Docs
            BY <3>2 DEF Registering
        <3> QED BY <1>3, <3>1, <3>3
    <2>3. CASE ~AssociateSaveItem(r) /\ ~RegisterSave(r)
        <3>1. items' = items
            BY <1>5, <2>3 DEF Request, RequestStep, Alone, AssociateBegin, DeleteComponent, Push,
                  Register, RegisterFind, RequestDied, RequestDies, AssociateItems,
                  AssociateFails, AssociateSaveComponent, PushLook, PushInsert, PushUpdate
        <3> QED BY <3>1
    <2> QED BY <2>1, <2>2, <2>3
<1>6. CASE SaveCleaned
    <2>1. PICK j \in todo : items' = [items EXCEPT ![j] = existing[j]]
        BY <1>6 DEF SaveCleaned
    <2>2. j \in Held(existing)
        BY <1>6, <2>1 DEF GoneInv, SaveCleaned
    <2>3. existing[j] \in Docs
        BY <2>2, HeldDoc DEF TInv, TypeOK
    <2> QED BY <1>3, <2>1, <2>3
<1>7. CASE List \/ Look \/ Write \/ Collected
    BY <1>7 DEF List, Look, Write, Collected
<1>8. CASE HudsonStep /\ ~HudsonDelete
    <2>1. CASE HudsonName
        <3>1. PICK j \in todo :
                  /\ existing' = [existing EXCEPT ![j] = [existing[j] EXCEPT !.named = TRUE]]
                  /\ items' = [items EXCEPT ![j] = existing'[j]]
            BY <2>1 DEF HudsonName
        <3>2. j \in Ids /\ existing[j] \in Docs
            BY <2>1, <3>1, HeldDoc DEF TInv, TypeOK, Loops, HudsonName
        <3>3. existing'[j] \in Docs
            BY <3>1, <3>2, DocWith DEF TInv, TypeOK, Copies
        <3> QED BY <1>3, <3>1, <3>3
    <2>2. CASE HudsonAdd
        <3>1. \A t \in Tools : JobDoc(t) # Null
            BY <1>1, NiceNameIsBool DEF JobDoc, Docs
        <3>2. PICK jobs \in SUBSET Tools : \E id \in [jobs -> Fresh] :
                  items' = [j \in Ids |-> IF \E t \in jobs : id[t] = j
                                           THEN JobDoc(CHOOSE t \in jobs : id[t] = j)
                                           ELSE items[j]]
            BY <2>2, JobsAdded
        <3>3. PICK id \in [jobs -> Fresh] :
                  items' = [j \in Ids |-> IF \E t \in jobs : id[t] = j
                                           THEN JobDoc(CHOOSE t \in jobs : id[t] = j)
                                           ELSE items[j]]
            BY <3>2
        <3> QED BY <3>1, <3>3
    <2>3. CASE ~HudsonName /\ ~HudsonAdd
        BY <1>6, <1>7, <1>8, <2>3 DEF HudsonStep, HudsonBegins, Begins, HudsonClean,
            HudsonCleaned, HudsonFetches, HudsonFetch, HudsonFetchFails, HudsonFetchGarbled,
            HudsonVisit, HudsonNoDetails, HudsonVisited, HudsonEnds
    <2> QED BY <2>1, <2>2, <2>3
<1>9. CASE ReadComponents \/ ReadItems
    BY <1>9 DEF ReadComponents, ReadItems
<1>10. CASE GitHubStep
    <2>1. CASE GitHubVisit
        <3>1. PICK j \in todo : items' = [items EXCEPT ![j] = [listed[j] EXCEPT !.dated = TRUE]]
            BY <2>1 DEF GitHubVisit
        <3>2. listed[j] \in Docs
            BY <2>1, <3>1, HeldDoc DEF TInv, TypeOK, Loops, GitHubVisit
        <3> QED BY <1>3, <3>1, <3>2, DocWith
    <2>2. CASE ~GitHubVisit
        BY <1>6, <1>7, <1>9, <1>10, <2>2 DEF GitHubStep, GitHubBegins, Begins, GitHubCleaned,
            GitHubAsk, GitHubAskFails, GitHubEnds
    <2> QED BY <2>1, <2>2
<1>11. CASE UDeployStep /\ ~UDeployDrop
    <2>1. CASE UDeployAdd
        <3>1. ASSUME NEW t \in Tools PROVE AppDoc(t) \in Docs
            BY DEF AppDoc, Docs
        <3>2. \/ items' = items
              \/ \E t \in Tools, j \in Fresh : items' = [items EXCEPT ![j] = AppDoc(t)]
            BY <2>1 DEF UDeployAdd
        <3> QED BY <1>3, <3>1, <3>2
    <2>2. CASE ~UDeployAdd
        BY <1>6, <1>7, <1>9, <1>11, <2>2 DEF UDeployStep, UDeployBegins, Begins, UDeployDropped,
            UDeployCleaned, UDeployFetch, UDeployAdded, UDeployVisit, UDeployAsk,
            UDeployAskFails, UDeployReplace, UDeployInsert, UDeployEnds
    <2> QED BY <2>1, <2>2
<1> QED BY <1>4, <1>5, <1>8, <1>10, <1>11 DEF Next, Run

\* A step that deletes an item deletes one whose tool is gone.
LEMMA DeletesGone ==
    ASSUME TInv, TInv', DeleteInv, [Next]_vars, NEW i \in Ids, Exists(i), items'[i] = Null
    PROVE  \/ kind = "uDeploy" /\ items[i].tool \notin Configured
           \/ /\ kind = "Hudson"
              /\ ~existing[i].pushed
              /\ \/ items[i].tool \in (Tools \ Configured) \cup missing
                 \/ garbled
<1>1. PICK f : SameTool(f)
    BY DEF DeleteInv
<1>2. GoneInv /\ items \in Copies /\ existing \in Copies /\ items[i].tool = f[i]
    BY <1>1 DEF DeleteInv, SameTool, Agree, Exists, TInv, TypeOK
<1>3. CASE kind = "Hudson" /\ HudsonDelete
    <2>1. PICK j \in todo : at = "delete" /\ items' = [items EXCEPT ![j] = Null]
        BY <1>3 DEF HudsonDelete
    <2>2. j = i
        BY <1>2, <2>1 DEF Exists, Copies
    <2>3. existing[i] # Null /\ ~existing[i].pushed /\ Gone(existing[i].tool)
        BY <1>2, <1>3, <2>1, <2>2 DEF GoneInv
    <2>4. existing[i].tool = items[i].tool
        BY <1>1, <1>2, <2>3 DEF SameTool, Agree
    <2> QED BY <1>3, <2>3, <2>4 DEF Gone
<1>4. CASE kind = "uDeploy" /\ UDeployDrop
    <2>1. PICK j \in todo : at = "drop" /\ items' = [items EXCEPT ![j] = Null]
        BY <1>4 DEF UDeployDrop
    <2>2. j = i
        BY <1>2, <2>1 DEF Exists, Copies
    <2> QED BY <1>1, <1>2, <1>4, <2>1, <2>2 DEF SameTool
<1>5. CASE ~(kind = "Hudson" /\ HudsonDelete) /\ ~(kind = "uDeploy" /\ UDeployDrop)
    <2>1. items'[i] # Null
        BY <1>2, <1>5, NothingElse
    <2> QED BY <2>1
<1> QED BY <1>3, <1>4, <1>5

\* DeletesOnlyGone: a run deletes only the item of a job that nobody pushed before it
\* began and that its server did not have, or whose server's answer could not be read.
THEOREM DeletedGone == Spec => DeletesOnlyGone
<1>1. TInv /\ TInv' /\ DeleteInv /\ [Next]_vars =>
          [\A i \in Ids :
              Exists(i) /\ items'[i] = Null =>
                  \/ kind = "uDeploy" /\ items[i].tool \notin Configured
                  \/ /\ kind = "Hudson"
                     /\ ~existing[i].pushed
                     /\ \/ items[i].tool \in (Tools \ Configured) \cup missing
                        \/ garbled]_vars
    BY DeletesGone
<1> QED BY InitTyped, NextTyped, InitDelete, NextDelete, <1>1, PTL DEF Spec, DeletesOnlyGone

===============================================================================
