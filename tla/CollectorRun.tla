----------------------------- MODULE CollectorRun -----------------------------
(***************************************************************************)
(* What the collection runs share: the tool's side, the state of a run     *)
(* between two database operations, and the clean-up that follows the      *)
(* dashboards.  A run is one thread: the cron trigger of CollectorTask     *)
(* never starts a second one beside it.  Its steps are single operations   *)
(* on the database or calls of the tool, it may die between any two of     *)
(* them, and the API's requests (ItemStore) come in between.               *)
(*                                                                         *)
(* kind, chosen once, is the collector the behaviour is about.             *)
(***************************************************************************)
EXTENDS ItemStore

CONSTANTS
    Kinds,        \* the collectors checked
    Configured,   \* tools on the server that the collector's properties name; for
                  \* GitHub, repositories of a host that is not down all the time
    NiceName,     \* whether getNiceName finds a nice name for that server
    MaxEdits      \* bound for each collector: API requests

ASSUME FiniteInstance == IsFiniteSet(Ids) /\ IsFiniteSet(Tools)
ASSUME KnownCollectors == Kinds \subseteq {"Hudson", "GitHub", "uDeploy"}
ASSUME ConfiguredTools == Configured \subseteq Tools
ASSUME NiceNameIsBool == NiceName \in BOOLEAN
ASSUME MaxEditsIsNat == MaxEdits \in [Kinds -> Nat]

VARIABLES
    kind,       \* which collector runs
    present,    \* tools that the server lists now
    remote,     \* what a tool has to offer: a result is none, fresh or old
    stored,     \* documents there are for each item and result: 0, 1, or 2 for more
    at,         \* where the run is
    existing,   \* the run's copies of the items
    listed,     \* the run's copies of the enabled items
    todo,       \* items the run has still to save, delete or visit; tools to add
    ok,         \* whether the server answered
    answer,     \* the results it listed for each tool, Null for a tool it did not list
    cur, new,   \* the item the run is at, and the result it has found to be new
    batch,      \* the results of the item it has still to look up
    missing,    \* history: tools their server did not list at some time of this run
    garbled,    \* history: this run took an unreadable answer for an empty list
    clashed,    \* history: results two writers looked up before either stored it
    deployed,   \* history: items whose deployment data has been stored
    torn        \* history: items whose data a dead run deleted and did not store

localVars == <<at, existing, listed, todo, ok, answer, cur, new, batch>>
toolVars == <<present, remote>>
histVars == <<missing, garbled, clashed, deployed, torn>>
vars == <<storeVars, kind, toolVars, stored, localVars, histVars>>

Places == {"idle", "drop", "components", "items", "saving", "fetch", "name", "add",
           "list", "visit", "ask", "look", "write", "replace", "insert", "delete"}
NoAnswer == [t \in Tools |-> Null]

\* An item from before, on the dashboards or on none of them; all ids are alike.
LeftOver(t, on) ==
    [NoItems EXCEPT ![CHOOSE i \in Ids : TRUE] =
        [tool |-> t, enabled |-> on, pushed |-> FALSE, named |-> FALSE, dated |-> on]]

\* A new installation, or one with one item.
Before == {NoItems} \cup {LeftOver(t, on) : t \in Tools, on \in BOOLEAN}

Init ==
    /\ kind \in Kinds
    /\ present \in SUBSET Configured
    /\ items \in Before
    /\ comps = [c \in Components |->
                  [i \in Ids |-> IF Exists(i) /\ items[i].enabled THEN items[i] ELSE Null]]
    /\ used = Held(items)
    /\ spare = Cardinality(Ids) - Cardinality(used)
                 - Cardinality({t \in present : \A i \in used : items[i].tool # t})
    /\ spare >= 0
    /\ req = [r \in Requests |-> Idle]
    /\ edits = MaxEdits[kind]
    /\ remote = [t \in Tools |-> [n \in Results |-> "none"]]
    /\ stored = [i \in Ids |-> [n \in Results |-> 0]]
    /\ at = "idle"
    /\ existing = NoItems
    /\ listed = NoItems
    /\ todo = {}
    /\ ok = FALSE
    /\ answer = NoAnswer
    /\ cur = Null
    /\ new = Null
    /\ batch = {}
    /\ missing = {}
    /\ garbled = FALSE
    /\ clashed = {}
    /\ deployed = {}
    /\ torn = {}

----------------------------------------------------------------------------
(* The tool *)

\* A build ends, a commit is pushed (perhaps days after it was made), a component
\* is deployed.
Produce(t, n) ==
    /\ remote[t][n] = "none"
    /\ kind # "Hudson" => t \in Configured
    /\ \E age \in IF kind = "GitHub" THEN {"fresh", "old"} ELSE {"fresh"} :
          remote' = [remote EXCEPT ![t] = [remote[t] EXCEPT ![n] = age]]
    /\ UNCHANGED <<storeVars, kind, present, stored, localVars, histVars>>

\* Ten minutes pass after the date of a commit.
Age(t, n) ==
    /\ kind = "GitHub"
    /\ remote[t][n] = "fresh"
    /\ remote' = [remote EXCEPT ![t] = [remote[t] EXCEPT ![n] = "old"]]
    /\ UNCHANGED <<storeVars, kind, present, stored, localVars, histVars>>

Appear(t) ==
    /\ t \in Configured \ present
    /\ spare > 0
    /\ spare' = spare - 1
    /\ present' = present \cup {t}
    /\ UNCHANGED <<items, used, comps, req, edits, kind, remote, stored, localVars,
                   histVars>>

Disappear(t) ==
    /\ t \in present
    /\ present' = present \ {t}
    /\ missing' = IF at = "idle" THEN {} ELSE missing \cup {t}
    /\ UNCHANGED <<storeVars, kind, remote, stored, localVars, garbled, clashed,
                   deployed, torn>>

Offers(t) == {n \in Results : remote[t][n] # "none"}

----------------------------------------------------------------------------
(* A run *)

Begins ==
    /\ at = "idle"
    /\ missing' = Configured \ present
    /\ UNCHANGED <<storeVars, kind, toolVars, stored, listed, ok, answer, cur, new, batch,
                   garbled, clashed, deployed, torn>>

\* The locals of a run end with it.
Ended ==
    /\ at' = "idle"
    /\ existing' = NoItems
    /\ listed' = NoItems
    /\ todo' = {}
    /\ ok' = FALSE
    /\ answer' = NoAnswer
    /\ cur' = Null
    /\ new' = Null
    /\ batch' = {}
    /\ missing' = {}
    /\ garbled' = FALSE

\* The collector dies, and is started again by its owner.
Dies ==
    /\ at # "idle"
    /\ Ended
    /\ torn' = IF at = "insert" THEN torn \cup {cur} ELSE torn
    /\ UNCHANGED <<storeVars, kind, toolVars, stored, clashed, deployed>>

RequestDied(r) ==
    /\ RequestDies(r)
    /\ UNCHANGED <<kind, toolVars, stored, localVars, histVars>>

\* Copies of documents, enabled when they are in ids and disabled when not.
Enable(docs, ids) ==
    [i \in Ids |-> IF docs[i] = Null THEN Null ELSE [docs[i] EXCEPT !.enabled = i \in ids]]

\* save() of a list of documents with ids: one after the other, each of them whole.
SaveCleaned ==
    /\ at = "saving"
    /\ \E i \in todo :
          /\ items' = [items EXCEPT ![i] = existing[i]]
          /\ todo' = todo \ {i}
    /\ UNCHANGED <<used, spare, comps, req, edits, kind, toolVars, stored, at, existing,
                   listed, ok, answer, cur, new, batch, histVars>>

\* The enabled items of the configured server.
List ==
    /\ at = "list"
    /\ listed' = [i \in Ids |->
                    IF Exists(i) /\ items[i].enabled
                       /\ (kind = "GitHub" \/ items[i].tool \in Configured)
                      THEN items[i] ELSE Null]
    /\ todo' = {i \in Held(items) : /\ items[i].enabled
                                    /\ kind = "GitHub" \/ items[i].tool \in Configured
                                    /\ ~(kind = "Hudson" /\ items[i].pushed)}
    /\ at' = "visit"
    /\ UNCHANGED <<storeVars, kind, toolVars, stored, existing, ok, answer, cur, new, batch,
                   histVars>>

\* The results that somebody found to be new and has not stored yet.
BeingStored(i, n) ==
    \/ at = "write" /\ cur = i /\ new = n
    \/ \E r \in Requests : req[r] = [at |-> "insert", id |-> i, result |-> n]

\* Mutant of Look: every result is new.
LookBlind ==
    /\ at = "look"
    /\ \E n \in batch :
          /\ batch' = batch \ {n}
          /\ new' = n
          /\ at' = "write"
          /\ UNCHANGED clashed
    /\ UNCHANGED <<storeVars, kind, toolVars, stored, existing, listed, todo, ok, answer, cur,
                   missing, garbled, deployed, torn>>

\* isNewBuild, isNewCommit.
Look ==
    /\ at = "look"
    /\ \E n \in batch :
          /\ batch' = batch \ {n}
          /\ IF stored[cur][n] = 0
               THEN /\ new' = n
                    /\ at' = "write"
                    /\ clashed' = IF BeingStored(cur, n) THEN clashed \cup {<<cur, n>>}
                                                         ELSE clashed
               ELSE UNCHANGED <<new, at, clashed>>
    /\ UNCHANGED <<storeVars, kind, toolVars, stored, existing, listed, todo, ok, answer, cur,
                   missing, garbled, deployed, torn>>

One(n) == IF n = 0 THEN 1 ELSE 2
Add(i, n) == stored' = [stored EXCEPT ![i] = [stored[i] EXCEPT ![n] = One(stored[i][n])]]

\* The insert of a document of its own for the result.
Write ==
    /\ at = "write"
    /\ Add(cur, new)
    /\ new' = Null
    /\ at' = "look"
    /\ UNCHANGED <<storeVars, kind, toolVars, existing, listed, todo, ok, answer, cur, batch,
                   histVars>>

\* The item has been collected.
Collected ==
    /\ at = "look"
    /\ batch = {}
    /\ cur' = Null
    /\ at' = "visit"
    /\ UNCHANGED <<storeVars, kind, toolVars, stored, existing, listed, todo, ok, answer, new,
                   batch, histVars>>

==============================================================================
