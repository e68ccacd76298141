------------------------------ MODULE Collectors ------------------------------
(***************************************************************************)
(* The collectors and the API requests together, and what they promise.    *)
(***************************************************************************)
EXTENDS HudsonCollector, UDeployCollector

\* A request leaves the run alone.
Alone == UNCHANGED <<kind, toolVars, stored, localVars, histVars>>

Request(r) ==
    \/ /\ \/ \E c \in Components, ids \in SUBSET Ids : AssociateBegin(r, c, ids)
          \/ \E c \in Components : DeleteComponent(r, c)
          \/ kind = "Hudson" /\ \E t \in Tools, n \in Results : Push(r, t, n)
          \/ kind = "GitHub" /\ \E t \in Tools : Register(r, t)
       /\ Alone
    \/ RequestDied(r)

RequestStep(r) ==
    \/ /\ \/ AssociateItems(r)
          \/ AssociateFails(r)
          \/ AssociateSaveItem(r)
          \/ AssociateSaveComponent(r)
          \/ RegisterSave(r)
       /\ Alone
    \/ PushLook(r)
    \/ PushInsert(r)
    \/ PushUpdate(r)

Run ==
    \/ kind = "Hudson" /\ HudsonStep
    \/ kind = "GitHub" /\ GitHubStep
    \/ kind = "uDeploy" /\ UDeployStep

World ==
    \/ \E t \in Tools, n \in Results : Produce(t, n) \/ Age(t, n)
    \/ \E t \in Tools : Appear(t) \/ Disappear(t)

Next ==
    \/ World
    \/ \E r \in Requests : Request(r) \/ RequestStep(r)
    \/ Run
    \/ Dies

Spec == Init /\ [][Next]_vars

\* The cron trigger starts run after run, each goes on to its end, and so does a
\* request that has begun.  A call of the tool does not fail for ever, and the
\* process does not die for ever (the last step of a run looks like a death).
Answered ==
    \/ kind = "Hudson" /\ HudsonFetch
    \/ kind = "GitHub" /\ GitHubAsk
    \/ kind = "uDeploy" /\ UDeployAsk

Fairness ==
    /\ WF_vars(Run)
    /\ \A r \in Requests : WF_vars(RequestStep(r))
    /\ SF_vars(Answered)
    /\ SF_vars(kind # "uDeploy" /\ Write)
    /\ <>[][Dies => Run]_vars

FairSpec == Spec /\ Fairness

----------------------------------------------------------------------------

\* Every variable has its type, and a run has an item in hand, and a result to store,
\* just where the loops over them have one.
TypeOK ==
    /\ items \in Copies
    /\ used \in SUBSET Ids
    /\ spare \in Nat
    /\ comps \in [Components -> Copies]
    /\ req \in [Requests -> Requested]
    /\ edits \in Nat
    /\ kind \in Kinds
    /\ present \in SUBSET Tools
    /\ remote \in [Tools -> [Results -> {"none", "fresh", "old"}]]
    /\ stored \in [Ids -> [Results -> 0..2]]
    /\ at \in Places
    /\ existing \in Copies
    /\ listed \in Copies
    /\ todo \in SUBSET Ids
    /\ ok \in BOOLEAN
    /\ answer \in [Tools -> (SUBSET Results) \cup {Null}]
    /\ cur \in IF at \in {"ask", "look", "write", "replace", "insert"} THEN Ids ELSE {Null}
    /\ new \in IF at = "write" THEN Results ELSE {Null}
    /\ batch \in SUBSET Results
    /\ missing \in SUBSET Tools
    /\ garbled \in BOOLEAN
    /\ clashed \in SUBSET (Ids \X Results)
    /\ deployed \in SUBSET Ids
    /\ torn \in SUBSET Ids

\* A commit is stored once for its item, whatever dies and is run again, and so is a
\* build, unless the collector and the plugin, or two posts, both looked for it before
\* either of them stored it.
CollectedOnce ==
    \A i \in Ids, n \in Results :
        stored[i][n] = 2 => kind = "Hudson" /\ <<i, n>> \in clashed

\* Deployment data that were stored are there, but while the run replaces them and
\* after a run that died doing so.
DeployDataKept ==
    \A i \in deployed \ torn :
        \/ \E n \in Results : stored[i][n] > 0
        \/ at = "insert" /\ cur = i

\* A run deletes only the item of a job that the plugin did not push before the run
\* began, and whose server is not configured, or did not have the job at some time
\* of the run, or gave an answer that could not be read.
DeletesOnlyGone ==
    [][\A i \in Ids :
          Exists(i) /\ items'[i] = Null =>
              \/ kind = "uDeploy" /\ items[i].tool \notin Configured
              \/ /\ kind = "Hudson"
                 /\ ~existing[i].pushed
                 /\ \/ items[i].tool \in (Tools \ Configured) \cup missing
                    \/ garbled]_vars

\* When the users leave the dashboards alone, the items of the dashboards are enabled
\* and the others are disabled, whatever came in between before.
EnabledFollowsDashboards ==
    <>[](\A i \in Held(items) : items[i].enabled = (i \in Referenced))

\* What the item of a dashboard has to offer is stored, if it stays on the dashboard
\* and its server keeps the job; a commit, if it is asked for within ten minutes.
Wanted(i, n) ==
    /\ i \in Referenced
    /\ Exists(i)
    /\ items[i].tool \in present
    /\ remote[items[i].tool][n] = "fresh"
    /\ kind = "GitHub" \/ items[i].tool \in Configured
    /\ ~(kind = "Hudson" /\ items[i].pushed)

DataArrives ==
    \A i \in Ids, n \in Results : []<>(Wanted(i, n) => stored[i][n] > 0)

==============================================================================
