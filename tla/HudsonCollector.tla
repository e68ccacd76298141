--------------------------- MODULE HudsonCollector ---------------------------
(***************************************************************************)
(* A run of HudsonCollectorTask, and the posts of the Jenkins plugin       *)
(* (BuildServiceImpl.create) that store builds of the same jobs.           *)
(*                                                                         *)
(* The run reads its jobs once and works on these copies to its end:       *)
(* clean() saves them, addNewJobs saves them and looks up in them what is  *)
(* new, deleteUnwantedJobs deletes by them.                                *)
(***************************************************************************)
EXTENDS CollectorRun

HudsonBegins ==
    /\ Begins
    /\ existing' = items
    /\ todo' = {}
    /\ at' = "components"

\* Mutant of HudsonClean: jobs are only ever disabled.
HudsonCleanDisables ==
    /\ at = "components"
    /\ existing' = [i \in Ids |-> IF i \in Referenced THEN existing[i]
                                  ELSE Enable(existing, {})[i]]
    /\ todo' = {i \in Held(existing) : existing[i].enabled /\ i \notin Referenced}
    /\ at' = "saving"
    /\ UNCHANGED <<storeVars, kind, toolVars, stored, listed, ok, answer, cur, new, batch,
                   histVars>>

\* clean(): the jobs whose copies do not agree with the components as they are now.
HudsonClean ==
    /\ at = "components"
    /\ existing' = Enable(existing, Referenced)
    /\ todo' = {i \in Held(existing) : existing[i].enabled # (i \in Referenced)}
    /\ at' = "saving"
    /\ UNCHANGED <<storeVars, kind, toolVars, stored, listed, ok, answer, cur, new, batch,
                   histVars>>

HudsonCleaned ==
    /\ at = "saving"
    /\ todo = {}
    /\ at' = "fetch"
    /\ UNCHANGED <<storeVars, kind, toolVars, stored, existing, listed, todo, ok, answer, cur,
                   new, batch, histVars>>

\* List.indexOf: one of the run's copies of the job.
CopyOf(t) == CHOOSE i \in Held(existing) : existing[i].tool = t
Knows(t) == \E i \in Held(existing) : existing[i].tool = t

\* The jobs to be given the nice name of their server.
Nameless(said) ==
    {CopyOf(t) : t \in {u \in said : Knows(u) /\ NiceName /\ ~existing[CopyOf(u)].named}}

HudsonFetch ==
    /\ at = "fetch"
    /\ ok' = TRUE
    /\ LET said == present \cap Configured
       IN  /\ answer' = [t \in Tools |-> IF t \in said THEN Offers(t) ELSE Null]
           /\ todo' = Nameless(said)
    /\ at' = "name"
    /\ UNCHANGED <<storeVars, kind, toolVars, stored, existing, listed, cur, new, batch,
                   histVars>>

\* An answer that cannot be parsed, or a malformed URL, is an empty list of jobs.
HudsonFetchGarbled ==
    /\ at = "fetch"
    /\ spare >= Cardinality(Configured)
    /\ spare' = spare - Cardinality(Configured)
    /\ ok' = TRUE
    /\ garbled' = TRUE
    /\ at' = "name"
    /\ UNCHANGED <<items, used, comps, req, edits, kind, toolVars, stored, existing, listed,
                   todo, answer, cur, new, batch, missing, clashed, deployed, torn>>

Listed(t) == answer[t] # Null

\* Mutant of Unwanted: a server that failed is taken for one without jobs.
UnwantedOnFailure ==
    {i \in Held(existing) :
        /\ ~existing[i].pushed
        /\ existing[i].tool \notin Configured \/ answer[existing[i].tool] = Null}

\* What deleteUnwantedJobs deletes, by the copies: nobody pushes the job, and its
\* server is not configured or has answered without it.
Unwanted ==
    {i \in Held(existing) :
        /\ ~existing[i].pushed
        /\ \/ existing[i].tool \notin Configured
           \/ ok /\ ~Listed(existing[i].tool)}

\* A RestClientException: the jobs of that server are not deleted.
HudsonFetchFails ==
    /\ at = "fetch"
    /\ at' = "delete"
    /\ todo' = Unwanted
    /\ UNCHANGED <<storeVars, kind, toolVars, stored, existing, listed, ok, answer, cur, new,
                   batch, histVars>>

\* The copy is saved whole with its nice name.
HudsonName ==
    /\ at = "name"
    /\ \E i \in todo :
          /\ existing' = [existing EXCEPT ![i] = [existing[i] EXCEPT !.named = TRUE]]
          /\ items' = [items EXCEPT ![i] = existing'[i]]
          /\ todo' = todo \ {i}
    /\ UNCHANGED <<used, spare, comps, req, edits, kind, toolVars, stored, at, listed, ok,
                   answer, cur, new, batch, histVars>>

JobDoc(t) == [tool |-> t, enabled |-> FALSE, pushed |-> FALSE, named |-> NiceName,
              dated |-> FALSE]

\* save(newJobs): those that the copies do not have, in one insert.
HudsonAdd ==
    /\ at = "name"
    /\ todo = {}
    /\ \E id \in [{t \in Tools : Listed(t) /\ ~Knows(t)} -> Fresh] :
          LET jobs == DOMAIN id
          IN  /\ \A t, u \in jobs : t # u => id[t] # id[u]
              /\ items' = [i \in Ids |->
                             IF \E t \in jobs : id[t] = i
                               THEN JobDoc(CHOOSE t \in jobs : id[t] = i) ELSE items[i]]
              /\ used' = used \cup {id[t] : t \in jobs}
    /\ at' = "list"
    /\ UNCHANGED <<spare, comps, req, edits, kind, toolVars, stored, existing, listed, todo,
                   ok, answer, cur, new, batch, histVars>>

\* addNewBuilds: the next enabled job that nobody pushes.
HudsonVisit ==
    /\ at = "visit"
    /\ \E i \in todo :
          /\ todo' = todo \ {i}
          /\ cur' = i
          /\ batch' = IF Listed(listed[i].tool) THEN answer[listed[i].tool] ELSE {}
    /\ at' = "look"
    /\ UNCHANGED <<storeVars, kind, toolVars, stored, existing, listed, ok, answer, new,
                   histVars>>

\* getBuildDetails gives null: the build still runs, or the call failed.
HudsonNoDetails ==
    /\ at = "write"
    /\ new' = Null
    /\ at' = "look"
    /\ UNCHANGED <<storeVars, kind, toolVars, stored, existing, listed, todo, ok, answer, cur,
                   batch, histVars>>

HudsonVisited ==
    /\ at = "visit"
    /\ todo = {}
    /\ todo' = Unwanted
    /\ listed' = NoItems
    /\ ok' = FALSE
    /\ answer' = NoAnswer
    /\ at' = "delete"
    /\ UNCHANGED <<storeVars, kind, toolVars, stored, existing, cur, new, batch, histVars>>

HudsonDelete ==
    /\ at = "delete"
    /\ \E i \in todo :
          /\ items' = [items EXCEPT ![i] = Null]
          /\ todo' = todo \ {i}
    /\ UNCHANGED <<used, spare, comps, req, edits, kind, toolVars, stored, at, existing,
                   listed, ok, answer, cur, new, batch, histVars>>

HudsonEnds ==
    /\ at = "delete"
    /\ todo = {}
    /\ Ended
    /\ UNCHANGED <<storeVars, kind, toolVars, stored, clashed, deployed, torn>>

----------------------------------------------------------------------------
(* The plugin's post *)

Push(r, t, n) ==
    /\ n \in Offers(t)
    /\ RegisterFind(r, PushedDoc(t), n)

PushLook(r) ==
    /\ req[r].at = "build"
    /\ LET i == req[r].id
           n == req[r].result
       IN  /\ req' = [req EXCEPT ![r] =
                        [at |-> IF stored[i][n] = 0 THEN "insert" ELSE "update",
                         id |-> i, result |-> n]]
           /\ clashed' = IF stored[i][n] = 0 /\ BeingStored(i, n)
                           THEN clashed \cup {<<i, n>>} ELSE clashed
    /\ UNCHANGED <<items, used, spare, comps, edits, kind, toolVars, stored, localVars, missing, garbled, deployed, torn>>

PushInsert(r) ==
    /\ req[r].at = "insert"
    /\ Add(req[r].id, req[r].result)
    /\ req' = [req EXCEPT ![r] = Idle]
    /\ UNCHANGED <<items, used, spare, comps, edits, kind, toolVars, localVars, histVars>>

\* The document that was found is saved again: their number stays.
PushUpdate(r) ==
    /\ req[r].at = "update"
    /\ req' = [req EXCEPT ![r] = Idle]
    /\ UNCHANGED <<items, used, spare, comps, edits, kind, toolVars, stored, localVars, histVars>>

HudsonFetches == HudsonFetch \/ HudsonFetchFails \/ HudsonFetchGarbled

HudsonStep ==
    \/ HudsonBegins \/ HudsonClean \/ SaveCleaned \/ HudsonCleaned \/ HudsonFetches
    \/ HudsonName \/ HudsonAdd \/ List \/ HudsonVisit \/ Look \/ Write \/ HudsonNoDetails
    \/ Collected \/ HudsonVisited \/ HudsonDelete \/ HudsonEnds

==============================================================================
