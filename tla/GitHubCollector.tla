--------------------------- MODULE GitHubCollector ---------------------------
(***************************************************************************)
(* A run of GitHubCollectorTask.  The moment of the last update is saved   *)
(* before the commits are asked for, and DefaultGitHubClient.getCommits    *)
(* counts its ten minutes back from that moment, which is now: a commit    *)
(* that is older is only seen on the first run of its repository.          *)
(***************************************************************************)
EXTENDS CollectorRun

\* dbComponentRepository.findAll(), and then the items: both are read anew.
ReadComponents ==
    /\ at = "components"
    /\ todo' = Referenced
    /\ at' = "items"
    /\ UNCHANGED <<storeVars, kind, toolVars, stored, existing, listed, ok, answer, cur, new,
                   batch, histVars>>

ReadItems ==
    /\ at = "items"
    /\ existing' = Enable(items, todo)
    /\ todo' = Held(items)
    /\ at' = "saving"
    /\ UNCHANGED <<storeVars, kind, toolVars, stored, listed, ok, answer, cur, new, batch,
                   histVars>>

GitHubBegins ==
    /\ Begins
    /\ todo' = {}
    /\ at' = "components"
    /\ UNCHANGED existing

GitHubCleaned ==
    /\ at = "saving"
    /\ todo = {}
    /\ existing' = NoItems
    /\ at' = "list"
    /\ UNCHANGED <<storeVars, kind, toolVars, stored, listed, todo, ok, answer, cur, new,
                   batch, histVars>>

\* The repository is saved as the list had it, with the time of this update.
GitHubVisit ==
    /\ at = "visit"
    /\ \E i \in todo :
          /\ items' = [items EXCEPT ![i] = [listed[i] EXCEPT !.dated = TRUE]]
          /\ todo' = todo \ {i}
          /\ cur' = i
    /\ at' = "ask"
    /\ UNCHANGED <<used, spare, comps, req, edits, kind, toolVars, stored, existing, listed, ok,
                   answer, new, batch, histVars>>

\* Mutant of Since: the commits since this moment.
SinceNow == IF listed[cur].dated THEN {} ELSE Offers(listed[cur].tool)

\* The commits since ten minutes ago, or of the last fourteen days on a first run.
Since ==
    {n \in Offers(listed[cur].tool) :
        listed[cur].dated => remote[listed[cur].tool][n] = "fresh"}

GitHubAsk ==
    /\ at = "ask"
    /\ listed[cur].tool \in present
    /\ batch' = Since
    /\ at' = "look"
    /\ UNCHANGED <<storeVars, kind, toolVars, stored, existing, listed, todo, ok, answer, cur,
                   new, histVars>>

\* A page cannot be had: what came with the pages before it is stored.
GitHubAskFails ==
    /\ at = "ask"
    /\ \E some \in SUBSET Since : batch' = some
    /\ at' = "look"
    /\ UNCHANGED <<storeVars, kind, toolVars, stored, existing, listed, todo, ok, answer, cur,
                   new, histVars>>

GitHubEnds ==
    /\ at = "visit"
    /\ todo = {}
    /\ Ended
    /\ UNCHANGED <<storeVars, kind, toolVars, stored, clashed, deployed, torn>>

\* The form of the repository widget registers the repository.
Register(r, t) ==
    /\ RegisterFind(r, FormDoc(t), Null)

GitHubStep ==
    \/ GitHubBegins \/ ReadComponents \/ ReadItems \/ SaveCleaned \/ GitHubCleaned \/ List
    \/ GitHubVisit \/ GitHubAsk \/ GitHubAskFails \/ Look \/ Write \/ Collected \/ GitHubEnds

==============================================================================
