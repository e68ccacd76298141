------------------------------ MODULE ItemStore ------------------------------
(***************************************************************************)
(* Collector items and the dashboard components that refer to them, and    *)
(* the API requests that edit both: the saving of a widget                 *)
(* (DashboardServiceImpl.associateCollectorToComponent), the registration  *)
(* of an item (CollectorServiceImpl.createCollectorItem) and the deletion  *)
(* of a dashboard's component.  A request is a thread of the API server;   *)
(* each step is one database operation with the computation that follows.  *)
(*                                                                         *)
(* An item stands for a thing of an external tool: a Jenkins job, a GitHub *)
(* repository, a uDeploy application.  A component embeds COPIES of the    *)
(* items it refers to: Component.collectorItems is no database reference.  *)
(***************************************************************************)
EXTENDS Integers, FiniteSets

CONSTANTS
    Ids,          \* ids of collector item documents
    Tools,        \* what items stand for: jobs, repositories, applications
    Components,   \* dashboard components
    Requests,     \* threads of the API server
    Results,      \* builds of a job, commits of a repository, components deployed
    Null

VARIABLES
    items,   \* collection collector_items: a document or Null for each id
    used,    \* ids given out so far (ObjectIds are never used twice)
    spare,   \* bound: documents that may still be inserted
    comps,   \* for each component, the copy it embeds of each item, or Null
    req,     \* what each API thread has in hand
    edits    \* bound: API requests that may still begin

storeVars == <<items, used, spare, comps, req, edits>>

\* pushed: sent by a plugin; named: has a nice name; dated: lastUpdated is not 0.
Docs == [tool : Tools, enabled : BOOLEAN, pushed : BOOLEAN, named : BOOLEAN,
         dated : BOOLEAN]
Copies == [Ids -> Docs \cup {Null}]

ASSUME NullIsNothing ==
    Null \notin Ids \cup Results \cup Docs /\ \A some \in SUBSET Results : some # Null

NoItems == [i \in Ids |-> Null]

Held(docs) == {i \in Ids : docs[i] # Null}
Exists(i) == items[i] # Null

\* The items some component refers to.
Referenced == {i \in Ids : \E c \in Components : comps[c][i] # Null}

\* The request threads: idle, or at a place in one of the handlers.
Idle == [at |-> "idle"]
Associating ==
    [at : {"associate"}, comp : Components, ids : SUBSET Ids, copies : Copies]
Saving == [at : {"save"}, comp : Components, copies : Copies, todo : SUBSET (Ids \X Docs)]
Registering ==
    [at : {"register"}, doc : Docs, id : Ids \cup {Null}, result : Results \cup {Null}]
Building == [at : {"build", "insert", "update"}, id : Ids, result : Results]
Requested == {Idle} \cup Associating \cup Saving \cup Registering \cup Building

Fresh == Ids \ used

Begin(r) ==
    /\ req[r] = Idle
    /\ edits > 0
    /\ edits' = edits - 1

(***************************************************************************)
(* A widget is saved: its items replace the items of their type on the     *)
(* component.  ids = {} is a widget of another collector type, which       *)
(* leaves these items alone but writes the whole component back.           *)
(***************************************************************************)
AssociateBegin(r, c, ids) ==
    /\ Begin(r)
    /\ ids \subseteq Held(items)
    /\ req' = [req EXCEPT ![r] =
                 [at |-> "associate", comp |-> c, ids |-> ids, copies |-> comps[c]]]
    /\ UNCHANGED <<items, used, spare, comps>>

\* What the request saves: every copy the component embeds, disabled, and every
\* incoming item that the database says is disabled, enabled.  They are different
\* objects even when they are the same item: both are saved, in the order of a
\* HashSet, and the copy of an item that is enabled already has no enabled twin.
DisabledCopies(copies) ==
    {<<i, [copies[i] EXCEPT !.enabled = FALSE]>> : i \in Held(copies)}

EnabledItems(ids) ==
    {<<i, [items[i] EXCEPT !.enabled = TRUE]>> : i \in {j \in ids : ~items[j].enabled}}

NewCopies(ids) ==
    [i \in Ids |-> IF i \in ids THEN [items[i] EXCEPT !.enabled = TRUE] ELSE Null]

AssociateItems(r) ==
    /\ req[r].at = "associate"
    /\ req[r].ids \subseteq Held(items)
    /\ LET q == req[r]
       IN  req' = [req EXCEPT ![r] =
                     IF q.ids = {}
                       THEN [at |-> "save", comp |-> q.comp, copies |-> q.copies, todo |-> {}]
                       ELSE [at |-> "save", comp |-> q.comp, copies |-> NewCopies(q.ids),
                             todo |-> DisabledCopies(q.copies) \cup EnabledItems(q.ids)]]
    /\ UNCHANGED <<items, used, spare, comps, edits>>

\* A collector has deleted the item since: findOne gives null, the request dies.
AssociateFails(r) ==
    /\ req[r].at = "associate"
    /\ ~(req[r].ids \subseteq Held(items))
    /\ req' = [req EXCEPT ![r] = Idle]
    /\ UNCHANGED <<items, used, spare, comps, edits>>

\* save() of a document with an id inserts it again when it has been deleted.
AssociateSaveItem(r) ==
    /\ req[r].at = "save"
    /\ \E w \in req[r].todo :
          /\ items' = [items EXCEPT ![w[1]] = w[2]]
          /\ req' = [req EXCEPT ![r] = [@ EXCEPT !.todo = req[r].todo \ {w}]]
    /\ UNCHANGED <<used, spare, comps, edits>>

AssociateSaveComponent(r) ==
    /\ req[r].at = "save"
    /\ req[r].todo = {}
    /\ comps' = [comps EXCEPT ![req[r].comp] = req[r].copies]
    /\ req' = [req EXCEPT ![r] = Idle]
    /\ UNCHANGED <<items, used, spare, edits>>

\* A dashboard is deleted, and its component with it.
DeleteComponent(r, c) ==
    /\ Begin(r)
    /\ comps' = [comps EXCEPT ![c] = NoItems]
    /\ UNCHANGED <<items, used, spare, req>>

(***************************************************************************)
(* Find or create: createCollectorItem looks for an item with the same     *)
(* options and saves the new document over it, or inserts it.              *)
(***************************************************************************)
Found(t) ==
    LET ofTool == {i \in Held(items) : items[i].tool = t}
    IN  IF ofTool = {} THEN {Null} ELSE ofTool

\* The UI's form: CollectorItemRequest.toCollectorItem.
FormDoc(t) == [tool |-> t, enabled |-> TRUE, pushed |-> FALSE, named |-> FALSE,
               dated |-> FALSE]

\* The plugin's post: BuildServiceImpl.createCollectorItem.
PushedDoc(t) == [tool |-> t, enabled |-> FALSE, pushed |-> TRUE, named |-> FALSE,
                 dated |-> TRUE]

\* result: the build that is posted with the item, Null for the form.
RegisterFind(r, doc, n) ==
    /\ Begin(r)
    /\ spare > 0
    /\ spare' = spare - 1
    /\ \E i \in Found(doc.tool) :
          req' = [req EXCEPT ![r] =
                    [at |-> "register", doc |-> doc, id |-> i, result |-> n]]
    /\ UNCHANGED <<items, used, comps>>

RegisterSave(r) ==
    /\ req[r].at = "register"
    /\ \E i \in IF req[r].id = Null THEN Fresh ELSE {req[r].id} :
          /\ items' = [items EXCEPT ![i] = req[r].doc]
          /\ used' = used \cup {i}
          /\ req' = [req EXCEPT ![r] =
                       IF req[r].result = Null THEN Idle
                       ELSE [at |-> "build", id |-> i, result |-> req[r].result]]
    /\ UNCHANGED <<spare, comps, edits>>

\* The API server dies, or the database refuses: the request is not finished.
RequestDies(r) ==
    /\ req[r] # Idle
    /\ req' = [req EXCEPT ![r] = Idle]
    /\ UNCHANGED <<items, used, spare, comps, edits>>

==============================================================================
