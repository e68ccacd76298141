--------------------------- MODULE UDeployCollector ---------------------------
(***************************************************************************)
(* A run of UDeployCollectorTask.  The deployment data of an application   *)
(* (environment components; the environment statuses go the same way) are  *)
(* replaced: what there is is deleted, then the new list is inserted.      *)
(* DefaultUDeployClient turns every failed call into an empty answer, so a *)
(* list may lack the environments whose calls failed.                      *)
(***************************************************************************)
EXTENDS GitHubCollector

UDeployBegins ==
    /\ Begins
    /\ todo' = {i \in Held(items) : items[i].tool \notin Configured}
    /\ at' = "drop"
    /\ UNCHANGED existing

\* deleteUnwantedJobs: the applications of servers that are not configured.
UDeployDrop ==
    /\ at = "drop"
    /\ \E i \in todo :
          /\ items' = [items EXCEPT ![i] = Null]
          /\ todo' = todo \ {i}
    /\ UNCHANGED <<used, spare, comps, req, edits, kind, toolVars, stored, at, existing,
                   listed, ok, answer, cur, new, batch, histVars>>

UDeployDropped ==
    /\ at = "drop"
    /\ todo = {}
    /\ at' = "components"
    /\ UNCHANGED <<storeVars, kind, toolVars, stored, existing, listed, todo, ok, answer, cur,
                   new, batch, histVars>>

UDeployCleaned ==
    /\ at = "saving"
    /\ todo = {}
    /\ existing' = NoItems
    /\ at' = "fetch"
    /\ UNCHANGED <<storeVars, kind, toolVars, stored, listed, todo, ok, answer, cur, new,
                   batch, histVars>>

UDeployFetch ==
    /\ at = "fetch"
    /\ \E said \in {present \cap Configured, {}} :
          answer' = [t \in Tools |-> IF t \in said THEN {} ELSE Null]
    /\ at' = "add"
    /\ UNCHANGED <<storeVars, kind, toolVars, stored, existing, listed, todo, ok, cur, new,
                   batch, histVars>>

AppDoc(t) == [tool |-> t, enabled |-> FALSE, pushed |-> FALSE, named |-> FALSE,
              dated |-> FALSE]

\* addNewApplications: nobody else inserts applications between the find and the save.
UDeployAdd ==
    /\ at = "add"
    /\ \E t \in Tools :
          /\ answer[t] # Null
          /\ answer' = [answer EXCEPT ![t] = Null]
          /\ IF Found(t) = {Null}
               THEN \E i \in Fresh : /\ items' = [items EXCEPT ![i] = AppDoc(t)]
                                     /\ used' = used \cup {i}
               ELSE UNCHANGED <<items, used>>
    /\ UNCHANGED <<spare, comps, req, edits, kind, toolVars, stored, at, existing, listed,
                   todo, ok, cur, new, batch, histVars>>

UDeployAdded ==
    /\ at = "add"
    /\ answer = NoAnswer
    /\ at' = "list"
    /\ UNCHANGED <<storeVars, kind, toolVars, stored, existing, listed, todo, ok, answer, cur,
                   new, batch, histVars>>

UDeployVisit ==
    /\ at = "visit"
    /\ \E i \in todo :
          /\ todo' = todo \ {i}
          /\ cur' = i
    /\ at' = "ask"
    /\ UNCHANGED <<storeVars, kind, toolVars, stored, existing, listed, ok, answer, new, batch,
                   histVars>>

\* Mutant of Replaces: an empty list replaces the data as well.
ReplacesAny(data) ==
    /\ batch' = data
    /\ at' = "replace"
    /\ UNCHANGED cur

\* Mutant of Replaces: the item stays in hand.
ReplacesHolds(data) ==
    /\ batch' = data
    /\ at' = IF data = {} THEN "visit" ELSE "replace"
    /\ UNCHANGED cur

\* Data that were had replace those that are stored; an empty list changes nothing.
Replaces(data) ==
    /\ batch' = data
    /\ IF data = {} THEN cur' = Null /\ at' = "visit"
                    ELSE at' = "replace" /\ UNCHANGED cur

\* The components deployed in each environment.
UDeployAsk ==
    /\ at = "ask"
    /\ listed[cur].tool \in present
    /\ Replaces(Offers(listed[cur].tool))
    /\ UNCHANGED <<storeVars, kind, toolVars, stored, existing, listed, todo, ok, answer, new,
                   histVars>>

\* The call for the environments fails, or some of those for their data.
UDeployAskFails ==
    /\ at = "ask"
    /\ \E data \in SUBSET Offers(listed[cur].tool) : Replaces(data)
    /\ UNCHANGED <<storeVars, kind, toolVars, stored, existing, listed, todo, ok, answer, new,
                   histVars>>

UDeployReplace ==
    /\ at = "replace"
    /\ stored' = [stored EXCEPT ![cur] = [n \in Results |-> 0]]
    /\ at' = "insert"
    /\ UNCHANGED <<storeVars, kind, toolVars, existing, listed, todo, ok, answer, cur, new,
                   batch, histVars>>

UDeployInsert ==
    /\ at = "insert"
    /\ stored' = [stored EXCEPT ![cur] = [n \in Results |-> IF n \in batch THEN 1 ELSE 0]]
    /\ deployed' = deployed \cup {cur}
    /\ torn' = torn \ {cur}
    /\ batch' = {}
    /\ cur' = Null
    /\ at' = "visit"
    /\ UNCHANGED <<storeVars, kind, toolVars, existing, listed, todo, ok, answer, new, missing, garbled, clashed>>

UDeployEnds ==
    /\ at = "visit"
    /\ todo = {}
    /\ Ended
    /\ UNCHANGED <<storeVars, kind, toolVars, stored, clashed, deployed, torn>>

UDeployStep ==
    \/ UDeployBegins \/ UDeployDrop \/ UDeployDropped \/ ReadComponents \/ ReadItems
    \/ SaveCleaned \/ UDeployCleaned \/ UDeployFetch \/ UDeployAdd \/ UDeployAdded \/ List
    \/ UDeployVisit \/ UDeployAsk \/ UDeployAskFails \/ UDeployReplace \/ UDeployInsert
    \/ UDeployEnds

==============================================================================
