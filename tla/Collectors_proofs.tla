--------------------------- MODULE Collectors_proofs ---------------------------
(***************************************************************************)
(* The types of the collectors and of the requests beside them, for every  *)
(* set of items, tools, components and requests.                           *)
(***************************************************************************)
EXTENDS Collectors, FiniteSetTheorems, TLAPS

----------------------------------------------------------------------------
(* Documents and copies *)

\* A document that has one of its flags set is a document.
LEMMA DocWith ==
    ASSUME NEW d \in Docs, NEW b \in BOOLEAN
    PROVE  /\ [d EXCEPT !.enabled = b] \in Docs
           /\ [d EXCEPT !.named = b] \in Docs
           /\ [d EXCEPT !.dated = b] \in Docs
BY DEF Docs

\* What has a document is no Null.
LEMMA HeldDoc ==
    ASSUME NEW docs \in Copies, NEW i \in Held(docs)
    PROVE  i \in Ids /\ docs[i] \in Docs
BY DEF Copies, Held

\* Enabling copies gives copies.
LEMMA EnableCopies ==
    ASSUME NEW docs \in Copies, NEW ids
    PROVE  Enable(docs, ids) \in Copies
<1>1. ASSUME NEW i \in Ids, docs[i] # Null
      PROVE  [docs[i] EXCEPT !.enabled = i \in ids] \in Docs
    <2>1. docs[i] \in Docs
        BY <1>1 DEF Copies
    <2>2. (i \in ids) \in BOOLEAN
        OBVIOUS
    <2> QED BY <2>1, <2>2, DocWith
<1> QED BY <1>1 DEF Enable, Copies

\* The parts of a saved widget have their types.
LEMMA WidgetTyped ==
    ASSUME items \in Copies, NEW copies \in Copies, NEW ids \in SUBSET Held(items)
    PROVE  /\ NewCopies(ids) \in Copies
           /\ DisabledCopies(copies) \in SUBSET (Ids \X Docs)
           /\ EnabledItems(ids) \in SUBSET (Ids \X Docs)
<1> DEFINE on(i)  == [items[i] EXCEPT !.enabled = TRUE]
           off(i) == [copies[i] EXCEPT !.enabled = FALSE]
<1>1. \A i \in ids : i \in Ids /\ on(i) \in Docs
    BY DocWith, HeldDoc
<1>2. \A i \in Held(copies) : i \in Ids /\ off(i) \in Docs
    BY DocWith, HeldDoc
<1>3. \A i \in Held(copies) : <<i, off(i)>> \in Ids \X Docs
    BY <1>2
<1>4. \A i \in ids : <<i, on(i)>> \in Ids \X Docs
    BY <1>1
<1>5. NewCopies(ids) \in Copies
    BY <1>1 DEF NewCopies, Copies
<1>6. DisabledCopies(copies) \in SUBSET (Ids \X Docs)
    BY <1>3 DEF DisabledCopies
<1>7. EnabledItems(ids) \in SUBSET (Ids \X Docs)
    BY <1>4 DEF EnabledItems
<1> QED BY <1>5, <1>6, <1>7

\* A request's place tells what it has in hand.
LEMMA AtPlace ==
    ASSUME NEW q \in Requested
    PROVE  /\ q.at = "associate" => q \in Associating
           /\ q.at = "save" => q \in Saving
           /\ q.at = "register" => q \in Registering
           /\ q.at \in {"build", "insert", "update"} => q \in Building
BY DEF Requested, Idle, Associating, Saving, Registering, Building

----------------------------------------------------------------------------
(* Types *)

\* What the loops of a run visit and save are in the lists they were computed from.
Loops ==
    /\ at \in {"visit", "ask", "look", "write", "replace", "insert"} =>
          todo \subseteq Held(listed)
    /\ at = "fetch" => todo = {}
    /\ at = "name" => todo \subseteq Held(existing)

TInv == TypeOK /\ Loops

\* What the steps compute has its type.
LEMMA ValuesTyped ==
    ASSUME TInv
    PROVE  /\ NoItems \in Copies
           /\ NoAnswer \in [Tools -> (SUBSET Results) \cup {Null}]
           /\ \A docs : Held(docs) \in SUBSET Ids
           /\ Referenced \in SUBSET Ids
           /\ Fresh \in SUBSET Ids
           /\ Unwanted \in SUBSET Ids
           /\ \A t : Offers(t) \in SUBSET Results
           /\ Since \in SUBSET Results
           /\ {} \in SUBSET Ids /\ {} \in SUBSET Results
           /\ Configured \ present \in SUBSET Tools
           /\ Cardinality(Configured) \in Nat
<1>1. Configured \in SUBSET Tools
    BY ConfiguredTools
<1>2. Cardinality(Configured) \in Nat
    BY <1>1, FiniteInstance, FS_Subset, FS_CardinalityType
<1> QED BY <1>1, <1>2
        DEF NoItems, Copies, NoAnswer, Held, Referenced, Fresh, Unwanted, Offers, Since

\* Changing one document of the copies gives copies.
LEMMA OneChanged ==
    ASSUME NEW docs \in Copies, NEW i \in Ids, NEW d \in Docs \cup {Null}
    PROVE  [docs EXCEPT ![i] = d] \in Copies
BY DEF Copies

\* The jobs to be named are among the run's copies.
LEMMA NamelessHeld == ASSUME NEW said PROVE Nameless(said) \subseteq Held(existing)
<1>1. ASSUME NEW t, Knows(t) PROVE CopyOf(t) \in Held(existing)
    BY <1>1 DEF Knows, CopyOf
<1> QED BY <1>1 DEF Nameless

\* The types hold initially.
LEMMA InitTyped == Init => TInv
<1> SUFFICES ASSUME Init PROVE TInv
    OBVIOUS
<1> USE DEF Init
<1>1. items \in Copies /\ NoItems \in Copies
    <2> DEFINE x == CHOOSE i \in Ids : TRUE
    <2>1. NoItems \in Copies
        BY DEF NoItems, Copies
    <2>2. ASSUME NEW t \in Tools, NEW on \in BOOLEAN PROVE LeftOver(t, on) \in Copies
        <3> DEFINE d == [tool |-> t, enabled |-> on, pushed |-> FALSE, named |-> FALSE,
                         dated |-> on]
        <3>1. d \in Docs
            BY DEF Docs
        <3>2. LeftOver(t, on) = [NoItems EXCEPT ![x] = d]
            BY DEF LeftOver
        <3> HIDE DEF d, x
        <3>3. CASE x \in Ids
            <4>1. d \in Docs \cup {Null}
                BY <3>1
            <4>2. [NoItems EXCEPT ![x] = d] \in Copies
                BY <2>1, <4>1, <3>3, OneChanged
            <4> QED BY <3>2, <4>2
        <3>4. CASE x \notin Ids
            BY <2>1, <3>2, <3>4 DEF NoItems
        <3> QED BY <3>3, <3>4
    <2> QED BY <2>1, <2>2 DEF Before
<1>2. comps \in [Components -> Copies]
    BY <1>1 DEF Copies, Exists
<1>3. spare \in Nat
    <2> DEFINE open == {t \in present : \A i \in used : items[i].tool # t}
    <2>1. used \in SUBSET Ids /\ open \in SUBSET Tools
        BY ConfiguredTools DEF Held
    <2>2. IsFiniteSet(Ids) /\ IsFiniteSet(used) /\ IsFiniteSet(open)
        BY <2>1, FS_Subset, FiniteInstance
    <2>3. Cardinality(Ids) \in Nat /\ Cardinality(used) \in Nat /\ Cardinality(open) \in Nat
        BY <2>2, FS_CardinalityType
    <2> QED BY <2>3
<1>4. used \in SUBSET Ids
    BY DEF Held
<1>5. edits \in Nat
    BY MaxEditsIsNat
<1>6. req \in [Requests -> Requested]
    BY DEF Requested
<1>7. /\ stored \in [Ids -> [Results -> 0..2]]
      /\ remote \in [Tools -> [Results -> {"none", "fresh", "old"}]]
      /\ answer \in [Tools -> (SUBSET Results) \cup {Null}]
    BY DEF NoAnswer
<1>8. /\ present \in SUBSET Tools
      /\ existing \in Copies
      /\ listed \in Copies
    BY <1>1, ConfiguredTools
<1>9. TypeOK
    BY <1>1, <1>2, <1>3, <1>4, <1>5, <1>6, <1>7, <1>8 DEF TypeOK, Places
<1>10. Loops
    BY DEF Loops
<1> QED BY <1>9, <1>10 DEF TInv

\* Every step of a Jenkins run keeps the types.
LEMMA HudsonTyped == TInv /\ HudsonStep => TInv'
<1> SUFFICES ASSUME TInv, HudsonStep PROVE TInv'
    OBVIOUS
<1>1. CASE HudsonBegins
    BY <1>1, ValuesTyped DEF TInv, TypeOK, Loops, Places, storeVars, toolVars, histVars, localVars, HudsonBegins, Begins
<1>2. CASE HudsonClean
    BY <1>2, ValuesTyped, EnableCopies DEF TInv, TypeOK, Loops, Places, storeVars, toolVars, histVars, localVars, HudsonClean
<1>3. CASE SaveCleaned
    <2>1. PICK i \in todo : /\ items' = [items EXCEPT ![i] = existing[i]]
                            /\ todo' = todo \ {i}
        BY <1>3 DEF SaveCleaned
    <2>2. items' \in Copies /\ todo' \in SUBSET Ids
        BY <2>1, OneChanged DEF TInv, TypeOK, Copies
    <2> QED BY <1>3, <2>2 DEF TInv, TypeOK, Loops, Places, storeVars, toolVars, histVars, localVars, SaveCleaned
<1>4. CASE HudsonCleaned
    BY <1>4, ValuesTyped DEF TInv, TypeOK, Loops, Places, storeVars, toolVars, histVars, localVars, HudsonCleaned
<1>5. CASE HudsonFetch
    <2> DEFINE said == present \cap Configured
    <2>1. /\ todo' \in SUBSET Ids
          /\ todo' \subseteq Held(existing)
        BY <1>5, NamelessHeld, ValuesTyped DEF HudsonFetch
    <2>2. answer' \in [Tools -> (SUBSET Results) \cup {Null}]
        BY <1>5, ValuesTyped DEF HudsonFetch
    <2> QED BY <1>5, <2>1, <2>2 DEF TInv, TypeOK, Loops, Places, storeVars, toolVars, histVars, localVars, HudsonFetch
<1>6. CASE HudsonFetchFails
    BY <1>6, ValuesTyped DEF TInv, TypeOK, Loops, Places, storeVars, toolVars, histVars, localVars, HudsonFetchFails
<1>7. CASE HudsonFetchGarbled
    BY <1>7, ValuesTyped DEF TInv, TypeOK, Loops, Places, storeVars, toolVars, histVars, localVars, HudsonFetchGarbled
<1>8. CASE HudsonName
    <2>1. PICK i \in todo :
             /\ existing' = [existing EXCEPT ![i] = [existing[i] EXCEPT !.named = TRUE]]
             /\ items' = [items EXCEPT ![i] = existing'[i]]
             /\ todo' = todo \ {i}
        BY <1>8 DEF HudsonName
    <2>2. i \in Held(existing)
        BY <1>8 DEF TInv, Loops, HudsonName
    <2>3. i \in Ids /\ existing[i] \in Docs
        BY <2>2, HeldDoc DEF TInv, TypeOK
    <2>4. [existing[i] EXCEPT !.named = TRUE] \in Docs
        BY <2>3, DocWith
    <2>5. existing' \in Copies /\ existing'[i] \in Docs \cup {Null}
        BY <2>1, <2>3, <2>4, OneChanged DEF TInv, TypeOK, Copies
    <2>6. items' \in Copies
        BY <2>1, <2>3, <2>5, OneChanged DEF TInv, TypeOK
    <2>7. \A j \in Held(existing) : j \in Held(existing')
        BY <2>1, <2>3, <2>4, NullIsNothing DEF Held, TInv, TypeOK, Copies
    <2> QED BY <1>8, <2>1, <2>5, <2>6, <2>7 DEF TInv, TypeOK, Loops, Places, storeVars, toolVars, histVars, localVars, HudsonName
<1>9. CASE HudsonAdd
    <2>1. PICK id \in [{t \in Tools : Listed(t) /\ ~Knows(t)} -> Fresh] :
             /\ items' = [i \in Ids |->
                            IF \E t \in DOMAIN id : id[t] = i
                              THEN JobDoc(CHOOSE t \in DOMAIN id : id[t] = i) ELSE items[i]]
             /\ used' = used \cup {id[t] : t \in DOMAIN id}
        BY <1>9 DEF HudsonAdd
    <2>2. \A i : (\E t \in DOMAIN id : id[t] = i) =>
                    (CHOOSE t \in DOMAIN id : id[t] = i) \in Tools
        OBVIOUS
    <2>3. \A t \in Tools : JobDoc(t) \in Docs
        BY NiceNameIsBool DEF JobDoc, Docs
    <2>4. items' \in Copies
        BY <2>1, <2>2, <2>3 DEF TInv, TypeOK, Copies
    <2>5. used' \in SUBSET Ids
        BY <2>1, ValuesTyped DEF TInv, TypeOK
    <2> QED BY <1>9, <2>4, <2>5, ValuesTyped DEF TInv, TypeOK, Loops, Places, storeVars, toolVars, histVars, localVars, HudsonAdd
<1>10. CASE List
    <2>1. listed' \in Copies
        BY <1>10 DEF TInv, TypeOK, List, Copies
    <2>2. todo' \in SUBSET Ids /\ todo' \subseteq Held(listed')
        BY <1>10 DEF List, Held, Exists
    <2> QED BY <1>10, <2>1, <2>2 DEF TInv, TypeOK, Loops, Places, storeVars, toolVars, histVars, localVars, List
<1>11. CASE HudsonVisit
    <2>1. PICK i \in todo :
             /\ todo' = todo \ {i}
             /\ cur' = i
             /\ batch' = IF Listed(listed[i].tool) THEN answer[listed[i].tool] ELSE {}
        BY <1>11 DEF HudsonVisit
    <2>2. i \in Held(listed)
        BY <1>11 DEF HudsonVisit, TInv, Loops
    <2>3. i \in Ids /\ listed[i].tool \in Tools
        BY <2>2, HeldDoc DEF TInv, TypeOK, Docs
    <2>4. batch' \in SUBSET Results
        BY <2>1, <2>3 DEF TInv, TypeOK, Listed
    <2> QED BY <1>11, <2>1, <2>3, <2>4 DEF TInv, TypeOK, Loops, Places, storeVars, toolVars, histVars, localVars, HudsonVisit
<1>12. CASE Look
    BY <1>12, ValuesTyped DEF TInv, TypeOK, Loops, Places, storeVars, toolVars, histVars, localVars, Look
<1>13. CASE Write
    BY <1>13, ValuesTyped DEF TInv, TypeOK, Loops, Places, storeVars, toolVars, histVars, localVars, Write, Add, One
<1>14. CASE HudsonNoDetails
    BY <1>14, ValuesTyped DEF TInv, TypeOK, Loops, Places, storeVars, toolVars, histVars, localVars, HudsonNoDetails
<1>15. CASE Collected
    BY <1>15, ValuesTyped DEF TInv, TypeOK, Loops, Places, storeVars, toolVars, histVars, localVars, Collected
<1>16. CASE HudsonVisited
    BY <1>16, ValuesTyped DEF TInv, TypeOK, Loops, Places, storeVars, toolVars, histVars, localVars, HudsonVisited
<1>17. CASE HudsonDelete
    <2>1. PICK i \in todo : items' = [items EXCEPT ![i] = Null] /\ todo' = todo \ {i}
        BY <1>17 DEF HudsonDelete
    <2>2. items' \in Copies /\ todo' \in SUBSET Ids
        BY <2>1, OneChanged DEF TInv, TypeOK
    <2> QED BY <1>17, <2>2 DEF TInv, TypeOK, Loops, Places, storeVars, toolVars, histVars, localVars, HudsonDelete
<1>18. CASE HudsonEnds
    BY <1>18, ValuesTyped DEF TInv, TypeOK, Loops, Places, storeVars, toolVars, histVars, localVars, HudsonEnds, Ended
<1> QED BY <1>1, <1>2, <1>3, <1>4, <1>5, <1>6, <1>7, <1>8, <1>9, <1>10, <1>11, <1>12, <1>13, <1>14, <1>15, <1>16, <1>17, <1>18
        DEF HudsonStep, HudsonFetches

\* Every step of a GitHub run keeps the types.
LEMMA GitHubTyped == TInv /\ GitHubStep => TInv'
<1> SUFFICES ASSUME TInv, GitHubStep PROVE TInv'
    OBVIOUS
<1>1. CASE GitHubBegins
    BY <1>1, ValuesTyped DEF TInv, TypeOK, Loops, Places, storeVars, toolVars, histVars, localVars, GitHubBegins, Begins
<1>2. CASE ReadComponents
    BY <1>2, ValuesTyped DEF TInv, TypeOK, Loops, Places, storeVars, toolVars, histVars, localVars, ReadComponents
<1>3. CASE ReadItems
    BY <1>3, ValuesTyped, EnableCopies DEF TInv, TypeOK, Loops, Places, storeVars, toolVars, histVars, localVars, ReadItems
<1>4. CASE SaveCleaned
    <2>1. PICK i \in todo : /\ items' = [items EXCEPT ![i] = existing[i]]
                            /\ todo' = todo \ {i}
        BY <1>4 DEF SaveCleaned
    <2>2. items' \in Copies /\ todo' \in SUBSET Ids
        BY <2>1, OneChanged DEF TInv, TypeOK, Copies
    <2> QED BY <1>4, <2>2 DEF TInv, TypeOK, Loops, Places, storeVars, toolVars, histVars, localVars, SaveCleaned
<1>5. CASE GitHubCleaned
    BY <1>5, ValuesTyped DEF TInv, TypeOK, Loops, Places, storeVars, toolVars, histVars, localVars, GitHubCleaned
<1>6. CASE List
    <2>1. listed' \in Copies
        BY <1>6 DEF TInv, TypeOK, List, Copies
    <2>2. todo' \in SUBSET Ids /\ todo' \subseteq Held(listed')
        BY <1>6 DEF List, Held, Exists
    <2> QED BY <1>6, <2>1, <2>2 DEF TInv, TypeOK, Loops, Places, storeVars, toolVars, histVars, localVars, List
<1>7. CASE GitHubVisit
    <2>1. PICK i \in todo :
             /\ items' = [items EXCEPT ![i] = [listed[i] EXCEPT !.dated = TRUE]]
             /\ todo' = todo \ {i}
             /\ cur' = i
        BY <1>7 DEF GitHubVisit
    <2>2. i \in Held(listed)
        BY <1>7 DEF GitHubVisit, TInv, Loops
    <2>3. i \in Ids /\ listed[i] \in Docs
        BY <2>2, HeldDoc DEF TInv, TypeOK
    <2>4. [listed[i] EXCEPT !.dated = TRUE] \in Docs
        BY <2>3, DocWith
    <2>5. items' \in Copies
        BY <2>1, <2>3, <2>4, OneChanged DEF TInv, TypeOK
    <2> QED BY <1>7, <2>1, <2>3, <2>5 DEF TInv, TypeOK, Loops, Places, storeVars, toolVars, histVars, localVars, GitHubVisit
<1>8. CASE GitHubAsk
    BY <1>8, ValuesTyped DEF TInv, TypeOK, Loops, Places, storeVars, toolVars, histVars, localVars, GitHubAsk
<1>9. CASE GitHubAskFails
    BY <1>9, ValuesTyped DEF TInv, TypeOK, Loops, Places, storeVars, toolVars, histVars, localVars, GitHubAskFails
<1>10. CASE Look
    BY <1>10, ValuesTyped DEF TInv, TypeOK, Loops, Places, storeVars, toolVars, histVars, localVars, Look
<1>11. CASE Write
    BY <1>11, ValuesTyped DEF TInv, TypeOK, Loops, Places, storeVars, toolVars, histVars, localVars, Write, Add, One
<1>12. CASE Collected
    BY <1>12, ValuesTyped DEF TInv, TypeOK, Loops, Places, storeVars, toolVars, histVars, localVars, Collected
<1>13. CASE GitHubEnds
    BY <1>13, ValuesTyped DEF TInv, TypeOK, Loops, Places, storeVars, toolVars, histVars, localVars, GitHubEnds, Ended
<1> QED BY <1>1, <1>2, <1>3, <1>4, <1>5, <1>6, <1>7, <1>8, <1>9, <1>10, <1>11, <1>12, <1>13
        DEF GitHubStep

\* Every step of a uDeploy run keeps the types.
LEMMA UDeployTyped == TInv /\ UDeployStep => TInv'
<1> SUFFICES ASSUME TInv, UDeployStep PROVE TInv'
    OBVIOUS
<1>1. CASE UDeployBegins
    BY <1>1, ValuesTyped DEF TInv, TypeOK, Loops, Places, storeVars, toolVars, histVars, localVars, UDeployBegins, Begins
<1>2. CASE UDeployDrop
    <2>1. PICK i \in todo : items' = [items EXCEPT ![i] = Null] /\ todo' = todo \ {i}
        BY <1>2 DEF UDeployDrop
    <2>2. items' \in Copies /\ todo' \in SUBSET Ids
        BY <2>1, OneChanged DEF TInv, TypeOK
    <2> QED BY <1>2, <2>2 DEF TInv, TypeOK, Loops, Places, storeVars, toolVars, histVars, localVars, UDeployDrop
<1>3. CASE UDeployDropped
    BY <1>3, ValuesTyped DEF TInv, TypeOK, Loops, Places, storeVars, toolVars, histVars, localVars, UDeployDropped
<1>4. CASE ReadComponents
    BY <1>4, ValuesTyped DEF TInv, TypeOK, Loops, Places, storeVars, toolVars, histVars, localVars, ReadComponents
<1>5. CASE ReadItems
    BY <1>5, ValuesTyped, EnableCopies DEF TInv, TypeOK, Loops, Places, storeVars, toolVars, histVars, localVars, ReadItems
<1>6. CASE SaveCleaned
    <2>1. PICK i \in todo : /\ items' = [items EXCEPT ![i] = existing[i]]
                            /\ todo' = todo \ {i}
        BY <1>6 DEF SaveCleaned
    <2>2. items' \in Copies /\ todo' \in SUBSET Ids
        BY <2>1, OneChanged DEF TInv, TypeOK, Copies
    <2> QED BY <1>6, <2>2 DEF TInv, TypeOK, Loops, Places, storeVars, toolVars, histVars, localVars, SaveCleaned
<1>7. CASE UDeployCleaned
    BY <1>7, ValuesTyped DEF TInv, TypeOK, Loops, Places, storeVars, toolVars, histVars, localVars, UDeployCleaned
<1>8. CASE UDeployFetch
    BY <1>8, ValuesTyped DEF TInv, TypeOK, Loops, Places, storeVars, toolVars, histVars, localVars, UDeployFetch
<1>9. CASE UDeployAdd
    <2>1. PICK t \in Tools :
             /\ answer' = [answer EXCEPT ![t] = Null]
             /\ IF Found(t) = {Null}
                  THEN \E i \in Fresh : /\ items' = [items EXCEPT ![i] = AppDoc(t)]
                                        /\ used' = used \cup {i}
                  ELSE UNCHANGED <<items, used>>
        BY <1>9 DEF UDeployAdd
    <2>2. AppDoc(t) \in Docs
        BY DEF AppDoc, Docs
    <2>3. items' \in Copies /\ used' \in SUBSET Ids
        <3>1. CASE UNCHANGED <<items, used>>
            BY <3>1 DEF TInv, TypeOK
        <3>2. ASSUME NEW i \in Fresh, items' = [items EXCEPT ![i] = AppDoc(t)],
                     used' = used \cup {i}
              PROVE  items' \in Copies /\ used' \in SUBSET Ids
            BY <3>2, <2>2, ValuesTyped, OneChanged DEF TInv, TypeOK
        <3> QED BY <2>1, <3>1, <3>2
    <2>4. answer' \in [Tools -> (SUBSET Results) \cup {Null}]
        BY <2>1 DEF TInv, TypeOK
    <2> QED BY <1>9, <2>3, <2>4 DEF TInv, TypeOK, Loops, Places, storeVars, toolVars, histVars, localVars, UDeployAdd
<1>10. CASE UDeployAdded
    BY <1>10, ValuesTyped DEF TInv, TypeOK, Loops, Places, storeVars, toolVars, histVars, localVars, UDeployAdded
<1>11. CASE List
    <2>1. listed' \in Copies
        BY <1>11 DEF TInv, TypeOK, List, Copies
    <2>2. todo' \in SUBSET Ids /\ todo' \subseteq Held(listed')
        BY <1>11 DEF List, Held, Exists
    <2> QED BY <1>11, <2>1, <2>2 DEF TInv, TypeOK, Loops, Places, storeVars, toolVars, histVars, localVars, List
<1>12. CASE UDeployVisit
    BY <1>12, ValuesTyped DEF TInv, TypeOK, Loops, Places, storeVars, toolVars, histVars, localVars, UDeployVisit
<1>13. CASE UDeployAsk
    BY <1>13, ValuesTyped DEF TInv, TypeOK, Loops, Places, storeVars, toolVars, histVars, localVars, UDeployAsk, Replaces
<1>14. CASE UDeployAskFails
    BY <1>14, ValuesTyped DEF TInv, TypeOK, Loops, Places, storeVars, toolVars, histVars, localVars, UDeployAskFails, Replaces
<1>15. CASE UDeployReplace
    BY <1>15, ValuesTyped DEF TInv, TypeOK, Loops, Places, storeVars, toolVars, histVars, localVars, UDeployReplace
<1>16. CASE UDeployInsert
    BY <1>16, ValuesTyped DEF TInv, TypeOK, Loops, Places, storeVars, toolVars, histVars, localVars, UDeployInsert
<1>17. CASE UDeployEnds
    BY <1>17, ValuesTyped DEF TInv, TypeOK, Loops, Places, storeVars, toolVars, histVars, localVars, UDeployEnds, Ended
<1> QED BY <1>1, <1>2, <1>3, <1>4, <1>5, <1>6, <1>7, <1>8, <1>9, <1>10, <1>11, <1>12, <1>13, <1>14, <1>15, <1>16, <1>17
        DEF UDeployStep

\* What a request changes has its type, whatever it does.
LEMMA RequestChange ==
    ASSUME TInv, NEW r \in Requests, NEW q \in Requested
    PROVE  [req EXCEPT ![r] = q] \in [Requests -> Requested]
BY DEF TInv, TypeOK

\* Every step of a request keeps the types.
LEMMA RequestTyped ==
    ASSUME TInv, NEW r \in Requests, Request(r) \/ RequestStep(r)
    PROVE  TInv'
<1> USE DEF Alone
<1>0. req[r] \in Requested /\ Idle \in Requested
    BY DEF TInv, TypeOK, Requested
<1>1. ASSUME NEW c \in Components, NEW ids \in SUBSET Ids, AssociateBegin(r, c, ids), Alone
      PROVE  TInv'
    <2>1. [at |-> "associate", comp |-> c, ids |-> ids, copies |-> comps[c]] \in Requested
        BY DEF TInv, TypeOK, Requested, Associating
    <2>2. req' \in [Requests -> Requested] /\ edits' \in Nat
        BY <1>1, <2>1, RequestChange DEF AssociateBegin, Begin, TInv, TypeOK
    <2> QED BY <1>1, <2>2 DEF TInv, TypeOK, Loops, Places, storeVars, toolVars, histVars, localVars, AssociateBegin
<1>2. ASSUME NEW c \in Components, DeleteComponent(r, c), Alone
      PROVE  TInv'
    BY <1>2, ValuesTyped DEF TInv, TypeOK, Loops, Places, storeVars, toolVars, histVars, localVars, DeleteComponent, Begin
<1>3. ASSUME NEW doc \in Docs, NEW n \in Results \cup {Null}, RegisterFind(r, doc, n), Alone
      PROVE  TInv'
    <2>1. PICK i \in Found(doc.tool) :
             req' = [req EXCEPT ![r] = [at |-> "register", doc |-> doc, id |-> i, result |-> n]]
        BY <1>3 DEF RegisterFind
    <2>2. i \in Ids \cup {Null}
        BY ValuesTyped DEF Found
    <2>3. [at |-> "register", doc |-> doc, id |-> i, result |-> n] \in Requested
        BY <2>2 DEF Requested, Registering
    <2>4. req' \in [Requests -> Requested]
        BY <2>1, <2>3, RequestChange
    <2>5. edits' \in Nat /\ spare' \in Nat
        BY <1>3 DEF RegisterFind, Begin, TInv, TypeOK
    <2> QED BY <1>3, <2>4, <2>5 DEF TInv, TypeOK, Loops, Places, storeVars, toolVars, histVars, localVars, RegisterFind
<1>4. CASE RequestDied(r)
    <2>1. req' \in [Requests -> Requested]
        BY <1>4, <1>0, RequestChange DEF RequestDied, RequestDies
    <2> QED BY <1>4, <2>1 DEF TInv, TypeOK, Loops, Places, storeVars, toolVars, histVars, localVars, RequestDied, RequestDies
<1>5. CASE AssociateItems(r) /\ Alone
    <2> DEFINE q == req[r]
               plain == [at |-> "save", comp |-> q.comp, copies |-> q.copies, todo |-> {}]
               full == [at |-> "save", comp |-> q.comp, copies |-> NewCopies(q.ids),
                        todo |-> DisabledCopies(q.copies) \cup EnabledItems(q.ids)]
    <2>1. /\ q.comp \in Components
          /\ q.copies \in Copies
          /\ q.ids \in SUBSET Held(items)
        BY <1>5, <1>0, AtPlace DEF AssociateItems, Associating
    <2>2. plain \in Requested
        BY <2>1 DEF Requested, Saving
    <2>3. full \in Requested
        <3>1. /\ NewCopies(q.ids) \in Copies
              /\ DisabledCopies(q.copies) \in SUBSET (Ids \X Docs)
              /\ EnabledItems(q.ids) \in SUBSET (Ids \X Docs)
            BY <2>1, WidgetTyped DEF TInv, TypeOK
        <3>2. full \in Saving
            BY <2>1, <3>1 DEF Saving
        <3> QED BY <3>2 DEF Requested
    <2>4. req' = [req EXCEPT ![r] = IF q.ids = {} THEN plain ELSE full]
        BY <1>5 DEF AssociateItems
    <2>5. req' \in [Requests -> Requested]
        BY <2>2, <2>3, <2>4, RequestChange
    <2> QED BY <1>5, <2>5 DEF TInv, TypeOK, Loops, Places, storeVars, toolVars, histVars, localVars, AssociateItems
<1>6. CASE AssociateFails(r) /\ Alone
    <2>1. req' \in [Requests -> Requested]
        BY <1>6, <1>0, RequestChange DEF AssociateFails
    <2> QED BY <1>6, <2>1 DEF TInv, TypeOK, Loops, Places, storeVars, toolVars, histVars, localVars, AssociateFails
<1>7. CASE AssociateSaveItem(r) /\ Alone
    <2>1. PICK w \in req[r].todo :
             /\ items' = [items EXCEPT ![w[1]] = w[2]]
             /\ req' = [req EXCEPT ![r] = [req[r] EXCEPT !.todo = req[r].todo \ {w}]]
        BY <1>7 DEF AssociateSaveItem
    <2>2. req[r] \in Saving
        BY <1>7, <1>0, AtPlace DEF AssociateSaveItem
    <2>3. w[1] \in Ids /\ w[2] \in Docs
        BY <2>2 DEF Saving
    <2>4. items' \in Copies
        BY <2>1, <2>3, OneChanged DEF TInv, TypeOK
    <2>5. [req[r] EXCEPT !.todo = req[r].todo \ {w}] \in Saving
        BY <2>2 DEF Saving
    <2>6. req' \in [Requests -> Requested]
        BY <2>1, <2>5, RequestChange DEF Requested
    <2> QED BY <1>7, <2>4, <2>6 DEF TInv, TypeOK, Loops, Places, storeVars, toolVars, histVars, localVars, AssociateSaveItem
<1>8. CASE AssociateSaveComponent(r) /\ Alone
    <2>1. req[r] \in Saving
        BY <1>8, <1>0, AtPlace DEF AssociateSaveComponent
    <2>2. req[r].copies \in Copies
        BY <2>1 DEF Saving
    <2>3. comps' \in [Components -> Copies]
        BY <1>8, <2>2 DEF AssociateSaveComponent, TInv, TypeOK
    <2>4. req' \in [Requests -> Requested]
        BY <1>8, <1>0, RequestChange DEF AssociateSaveComponent
    <2> QED BY <1>8, <2>3, <2>4 DEF TInv, TypeOK, Loops, Places, storeVars, toolVars, histVars, localVars, AssociateSaveComponent
<1>9. CASE RegisterSave(r) /\ Alone
    <2> DEFINE q == req[r]
    <2>1. PICK i \in IF q.id = Null THEN Fresh ELSE {q.id} :
             /\ items' = [items EXCEPT ![i] = q.doc]
             /\ used' = used \cup {i}
             /\ req' = [req EXCEPT ![r] =
                          IF q.result = Null THEN Idle
                          ELSE [at |-> "build", id |-> i, result |-> q.result]]
        BY <1>9 DEF RegisterSave
    <2>2. q \in Registering
        BY <1>9, <1>0, AtPlace DEF RegisterSave
    <2>3. q.doc \in Docs /\ q.id \in Ids \cup {Null} /\ q.result \in Results \cup {Null}
        BY <2>2 DEF Registering
    <2>4. i \in Ids
        BY <2>1, <2>3, ValuesTyped
    <2>5. items' \in Copies /\ used' \in SUBSET Ids
        BY <2>1, <2>3, <2>4, OneChanged DEF TInv, TypeOK
    <2>6. q.result # Null => [at |-> "build", id |-> i, result |-> q.result] \in Requested
        BY <2>3, <2>4 DEF Requested, Building
    <2>7. req' \in [Requests -> Requested]
        BY <2>1, <2>6, <1>0, RequestChange
    <2> QED BY <1>9, <2>5, <2>7 DEF TInv, TypeOK, Loops, Places, storeVars, toolVars, histVars, localVars, RegisterSave
<1>10. CASE PushLook(r)
    <2>1. req[r] \in Building
        BY <1>10, <1>0, AtPlace DEF PushLook
    <2>2. req[r].id \in Ids /\ req[r].result \in Results
        BY <2>1 DEF Building
    <2>3. [at |-> IF stored[req[r].id][req[r].result] = 0 THEN "insert" ELSE "update",
           id |-> req[r].id, result |-> req[r].result] \in Requested
        BY <2>2 DEF Requested, Building
    <2>4. req' \in [Requests -> Requested]
        BY <1>10, <2>3, RequestChange DEF PushLook
    <2>5. clashed' \in SUBSET (Ids \X Results)
        BY <1>10, <2>2 DEF PushLook, TInv, TypeOK
    <2> QED BY <1>10, <2>4, <2>5 DEF TInv, TypeOK, Loops, Places, storeVars, toolVars, histVars, localVars, PushLook
<1>11. CASE PushInsert(r)
    <2>1. req[r] \in Building
        BY <1>11, <1>0, AtPlace DEF PushInsert
    <2>2. req[r].id \in Ids /\ req[r].result \in Results
        BY <2>1 DEF Building
    <2>3. stored' \in [Ids -> [Results -> 0..2]]
        BY <1>11, <2>2 DEF PushInsert, Add, One, TInv, TypeOK
    <2>4. req' \in [Requests -> Requested]
        BY <1>11, <1>0, RequestChange DEF PushInsert
    <2> QED BY <1>11, <2>3, <2>4 DEF TInv, TypeOK, Loops, Places, storeVars, toolVars, histVars, localVars, PushInsert
<1>12. CASE PushUpdate(r)
    <2>1. req' \in [Requests -> Requested]
        BY <1>12, <1>0, RequestChange DEF PushUpdate
    <2> QED BY <1>12, <2>1 DEF TInv, TypeOK, Loops, Places, storeVars, toolVars, histVars, localVars, PushUpdate
<1>13. ASSUME NEW t \in Tools, NEW n \in Results, Push(r, t, n), Alone
       PROVE  TInv'
    <2>1. PushedDoc(t) \in Docs
        BY DEF PushedDoc, Docs
    <2> QED BY <1>13, <2>1, <1>3 DEF Push
<1>14. ASSUME NEW t \in Tools, Register(r, t), Alone
       PROVE  TInv'
    <2>1. FormDoc(t) \in Docs
        BY DEF FormDoc, Docs
    <2> QED BY <1>14, <2>1, <1>3 DEF Register
<1> QED BY <1>1, <1>2, <1>4, <1>5, <1>6, <1>7, <1>8, <1>9, <1>10, <1>11, <1>12, <1>13, <1>14
        DEF Request, RequestStep

\* What happens on the tools' side, and the death of a run, keep the types.
LEMMA WorldTyped == TInv /\ (World \/ Dies) => TInv'
<1> SUFFICES ASSUME TInv, World \/ Dies PROVE TInv'
    OBVIOUS
<1>1. ASSUME NEW t \in Tools, NEW n \in Results, Produce(t, n) PROVE TInv'
    BY <1>1 DEF TInv, TypeOK, Loops, Places, storeVars, toolVars, histVars, localVars, Produce
<1>2. ASSUME NEW t \in Tools, NEW n \in Results, Age(t, n) PROVE TInv'
    BY <1>2 DEF TInv, TypeOK, Loops, Places, storeVars, toolVars, histVars, localVars, Age
<1>3. ASSUME NEW t \in Tools, Appear(t) PROVE TInv'
    BY <1>3 DEF TInv, TypeOK, Loops, Places, storeVars, toolVars, histVars, localVars, Appear
<1>4. ASSUME NEW t \in Tools, Disappear(t) PROVE TInv'
    BY <1>4 DEF TInv, TypeOK, Loops, Places, storeVars, toolVars, histVars, localVars, Disappear
<1>5. CASE Dies
    BY <1>5, ValuesTyped DEF TInv, TypeOK, Loops, Places, storeVars, toolVars, histVars, localVars, Dies, Ended
<1> QED BY <1>1, <1>2, <1>3, <1>4, <1>5 DEF World

\* Every step keeps the types.
LEMMA NextTyped == TInv /\ [Next]_vars => TInv'
<1>1. ASSUME TInv, UNCHANGED vars PROVE TInv'
    BY <1>1 DEF TInv, TypeOK, Loops, Places, storeVars, toolVars, histVars, localVars, vars
<1> QED BY <1>1, HudsonTyped, GitHubTyped, UDeployTyped, RequestTyped, WorldTyped
        DEF Next, Run

\* TypeOK: the types of the collections, of the requests and of a run's locals, for
\* every set of items, tools, components and requests.
THEOREM TypeCorrect == Spec => []TypeOK
<1>1. TInv => TypeOK
    BY DEF TInv
<1> QED BY InitTyped, NextTyped, <1>1, PTL DEF Spec

==============================================================================
