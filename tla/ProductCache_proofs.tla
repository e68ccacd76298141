------------------------ MODULE ProductCache_proofs ------------------------
(***************************************************************************)
(* Proofs about ProductCache, for any number of rows and loads: type       *)
(* correctness, and that the cache forgets nothing and shows all it should *)
(* show.  Shape says how the fields of a load hang together at each place; *)
(* Kept is the heart: every moment that a load or lastRequest remembers is *)
(* one before which all rows are held.                                     *)
(***************************************************************************)
EXTENDS ProductCache, TLAPS

USE WindowIsNat, MaxNowIsNat, MaxPagesIsNat, NoneIsNoTime DEF Time, Marks

\* A load keeps its type when one of its fields gets a value of the field's type.
LEMMA FieldsTyped ==
    ASSUME NEW q \in LoadStates
    PROVE  /\ \A x \in Places : [q EXCEPT !.at = x] \in LoadStates
           /\ \A x \in SUBSET {"mark", "rows"} : [q EXCEPT !.clear = x] \in LoadStates
           /\ \A x \in Time : [q EXCEPT !.asked = x] \in LoadStates
           /\ \A x \in Time : [q EXCEPT !.ends = x] \in LoadStates
           /\ \A x \in Int : [q EXCEPT !.begins = x] \in LoadStates
           /\ \A x \in Marks : [q EXCEPT !.known = x] \in LoadStates
           /\ \A x \in SUBSET Rows : [q EXCEPT !.resp = x] \in LoadStates
           /\ \A x \in SUBSET Rows : [q EXCEPT !.had = x] \in LoadStates
           /\ \A x \in {"no", "put", "add"} : [q EXCEPT !.moves = x] \in LoadStates
           /\ \A x \in SUBSET Rows : [q EXCEPT !.adds = x] \in LoadStates
  BY DEF LoadStates

\* A load replaced by one of the right type leaves the loads well typed.
LEMMA LoadTyped ==
    ASSUME load \in [Loads -> LoadStates], NEW l \in Loads, NEW rec \in LoadStates,
           load' = [load EXCEPT ![l] = rec]
    PROVE  load' \in [Loads -> LoadStates]
  OBVIOUS

\* Every variable stays in its domain: ProductCache's steps write no other value.
LEMMA TypeStep == TypeOK /\ [Next]_vars => TypeOK'
<1> SUFFICES ASSUME TypeOK, [Next]_vars PROVE TypeOK'
  OBVIOUS
<1>0. Idle \in LoadStates
  BY DEF Idle, LoadStates, Places
<1>0a. /\ kind \in Kinds /\ now \in Time /\ ts \in [Rows -> Marks] /\ mark \in Marks
       /\ copies \in [Rows -> 0..2] /\ load \in [Loads -> LoadStates]
       /\ pages \in 0..MaxPages /\ late \in SUBSET Rows /\ dropped \in SUBSET Rows
       /\ skipped \in SUBSET Rows /\ raced \in BOOLEAN /\ overlapped \in BOOLEAN
  BY DEF TypeOK
<1>1. CASE Tick
  BY <1>0a, <1>1 DEF Tick, excuses, TypeOK
<1>2. ASSUME NEW r \in Rows, NEW t \in Time, Store(r, t) PROVE TypeOK'
  BY <1>0a, <1>2 DEF Store, TypeOK
<1>3. ASSUME NEW l \in Loads, Load(l) PROVE TypeOK'
  <2>1. [Idle EXCEPT !.at = "process", !.asked = Until] \in LoadStates
    <3>1. "process" \in Places /\ Until \in Time
      BY <1>0a DEF Places, LoadStates, Until
    <3>2. load[l] \in LoadStates
      BY <1>0a
    <3>3. [[Idle EXCEPT !.at = "process"] EXCEPT !.asked = Until]
             \in LoadStates
      <4> HIDE DEF Time, Marks
      <4> QED BY <1>0, <3>1, <3>2, FieldsTyped
    <3> QED BY <3>3
  <2>2. load' \in [Loads -> LoadStates]
    BY <1>0a, <1>3, <2>1, LoadTyped DEF Load
  <2>3. overlapped' \in BOOLEAN
    BY <1>0a, <1>3 DEF Load
  <2> QED BY <1>0a, <1>3, <2>2, <2>3 DEF Load, TypeOK
<1>4. ASSUME NEW l \in Loads, LoadWithReset(l) PROVE TypeOK'
  <2> DEFINE clear == IF kind = "security" THEN {"mark"} ELSE {"mark", "rows"}
  <2>1. [Idle EXCEPT !.at = "process", !.asked = Until, !.clear = clear] \in LoadStates
    <3>1. "process" \in Places /\ Until \in Time /\ clear \in SUBSET {"mark", "rows"}
      BY <1>0a DEF Places, LoadStates, Until
    <3>2. load[l] \in LoadStates
      BY <1>0a
    <3>3. [[[Idle EXCEPT !.at = "process"] EXCEPT !.asked = Until] EXCEPT !.clear = clear]
             \in LoadStates
      <4> HIDE DEF clear, Time, Marks
      <4> QED BY <1>0, <3>1, <3>2, FieldsTyped
    <3> QED BY <3>3
  <2>2. load' \in [Loads -> LoadStates]
    BY <1>0a, <1>4, <2>1, LoadTyped DEF LoadWithReset
  <2>3. overlapped' \in BOOLEAN
    BY <1>0a, <1>4 DEF LoadWithReset
  <2> QED BY <1>0a, <1>4, <2>2, <2>3 DEF LoadWithReset, TypeOK
<1>5. ASSUME NEW l \in Loads, ClearMark(l) PROVE TypeOK'
  <2>1. load' \in [Loads -> LoadStates]
    BY <1>0a, <1>5 DEF ClearMark, LoadStates
  <2>2. raced' \in BOOLEAN
    BY <1>0a, <1>5 DEF ClearMark
  <2> QED BY <1>0a, <1>5, <2>1, <2>2 DEF ClearMark, TypeOK
<1>6. ASSUME NEW l \in Loads, ClearRows(l) PROVE TypeOK'
  <2>1. load' \in [Loads -> LoadStates]
    BY <1>0a, <1>6 DEF ClearRows, LoadStates
  <2>2. raced' \in BOOLEAN
    BY <1>0a, <1>6 DEF ClearRows
  <2> QED BY <1>0a, <1>6, <2>1, <2>2 DEF ClearRows, TypeOK
<1>7. ASSUME NEW l \in Loads, Process(l) PROVE TypeOK'
  <2> DEFINE asked == IF kind = "commits" THEN load[l].asked ELSE now
  <2>1. [load[l] EXCEPT !.at = "look", !.ends = now, !.asked = asked] \in LoadStates
    <3>1. "look" \in Places /\ now \in Time /\ asked \in Time
      BY <1>0a DEF Places, LoadStates, Until
    <3>2. load[l] \in LoadStates
      BY <1>0a
    <3>3. [[[load[l] EXCEPT !.at = "look"] EXCEPT !.ends = now] EXCEPT !.asked = asked]
             \in LoadStates
      <4> HIDE DEF asked, Time, Marks
      <4> QED BY <1>0, <3>1, <3>2, FieldsTyped
    <3> QED BY <3>3
  <2>2. load' \in [Loads -> LoadStates]
    BY <1>0a, <1>7, <2>1, LoadTyped DEF Process
  <2> QED BY <1>0a, <1>7, <2>2 DEF Process, TypeOK, excuses
<1>8. ASSUME NEW l \in Loads, Look(l) PROVE TypeOK'
  <2> DEFINE ends == IF kind = "tests" THEN now ELSE load[l].ends
             asked == IF kind = "tests" THEN now ELSE load[l].asked
             begins == IF mark = None THEN ends - Window ELSE mark
             rec == [load[l] EXCEPT !.at = "ask", !.known = mark, !.ends = ends,
                                    !.asked = asked, !.begins = begins]
  <2>1. rec \in LoadStates
    <3>1. load[l] \in LoadStates /\ ends \in Time /\ asked \in Time
      BY <1>0a DEF LoadStates
    <3>2. begins \in Int /\ mark \in Marks /\ "ask" \in Places
      BY <1>0a, <3>1 DEF Places
    <3>3. [[[[[load[l] EXCEPT !.at = "ask"] EXCEPT !.known = mark] EXCEPT !.ends = ends]
             EXCEPT !.asked = asked] EXCEPT !.begins = begins] \in LoadStates
      <4> HIDE DEF ends, asked, begins, Time, Marks
      <4> QED BY <3>1, <3>2, FieldsTyped
    <3> QED BY <3>3
  <2>2. load' = [load EXCEPT ![l] = rec]
    BY <1>8 DEF Look
  <2>3. load' \in [Loads -> LoadStates]
    <3> HIDE DEF rec
    <3> QED BY <1>0a, <2>1, <2>2, LoadTyped
  <2> QED BY <1>0a, <1>8, <2>3 DEF Look, TypeOK, excuses
<1>9. ASSUME NEW l \in Loads, Answer(l) PROVE TypeOK'
  <2>1. Between(l) \in SUBSET Rows /\ Server \in SUBSET Rows
    BY DEF Between, Server
  <2>2. [load[l] EXCEPT !.at = "answer", !.resp = Between(l), !.had = Server] \in LoadStates
    <3>1. "answer" \in Places /\ load[l] \in LoadStates
      BY <1>0a DEF Places
    <3>2. [[[load[l] EXCEPT !.at = "answer"] EXCEPT !.resp = Between(l)] EXCEPT !.had = Server]
              \in LoadStates
      BY <2>1, <3>1, FieldsTyped
    <3> QED BY <3>2
  <2>3. load' \in [Loads -> LoadStates]
    BY <1>0a, <1>9, <2>2, LoadTyped DEF Answer
  <2> QED BY <1>0a, <1>9, <2>3 DEF Answer, TypeOK, excuses
<1>10. ASSUME NEW l \in Loads, Fail(l) PROVE TypeOK'
  <2>1. [load[l] EXCEPT !.at = "cleanse", !.known = None, !.begins = 0, !.asked = 0]
            \in LoadStates
    <3>1. "cleanse" \in Places /\ None \in Marks /\ 0 \in Time /\ 0 \in Int
      BY <1>0a DEF Places, LoadStates, Until
    <3>2. load[l] \in LoadStates
      BY <1>0a
    <3>3. [[[[load[l] EXCEPT !.at = "cleanse"] EXCEPT !.known = None] EXCEPT !.begins = 0]
             EXCEPT !.asked = 0] \in LoadStates
      <4> HIDE DEF Time, Marks
      <4> QED BY <1>0, <3>1, <3>2, FieldsTyped
    <3> QED BY <3>3
  <2>2. load' \in [Loads -> LoadStates]
    BY <1>0a, <1>10, <2>1, LoadTyped DEF Fail
  <2> QED BY <1>0a, <1>10, <2>2 DEF Fail, TypeOK, excuses
<1>11. ASSUME NEW l \in Loads, Receive(l) PROVE TypeOK'
  <2> DEFINE moves == IF load[l].known = None THEN "add" ELSE "put"
  <2>1. [load[l] EXCEPT !.at = "read", !.moves = moves, !.adds = load[l].resp,
                        !.known = None, !.begins = 0, !.asked = 0, !.resp = {}] \in LoadStates
    <3>1. /\ "read" \in Places /\ None \in Marks /\ 0 \in Time /\ 0 \in Int
          /\ moves \in {"no", "put", "add"} /\ load[l].resp \in SUBSET Rows
          /\ {} \in SUBSET Rows
      BY <1>0a DEF Places, LoadStates, Until
    <3>2. load[l] \in LoadStates
      BY <1>0a
    <3>3. [[[[[[[load[l] EXCEPT !.at = "read"] EXCEPT !.moves = moves]
                EXCEPT !.adds = load[l].resp] EXCEPT !.known = None]
              EXCEPT !.begins = 0] EXCEPT !.asked = 0] EXCEPT !.resp = {}]
             \in LoadStates
      <4> HIDE DEF moves, Time, Marks
      <4> QED BY <1>0, <3>1, <3>2, FieldsTyped
    <3> QED BY <3>3
  <2>2. load' \in [Loads -> LoadStates]
    BY <1>0a, <1>11, <2>1, LoadTyped DEF Receive
  <2>3. skipped' \in SUBSET Rows
    BY <1>0a, <1>11 DEF Receive, Server
  <2> QED BY <1>0a, <1>11, <2>2, <2>3 DEF Receive, TypeOK
<1>12. ASSUME NEW l \in Loads, ReceiveNothing(l) PROVE TypeOK'
  <2> PICK isReload \in BOOLEAN :
          load' = [load EXCEPT ![l] =
                     [@ EXCEPT !.at = IF isReload /\ kind \in {"security", "tests"}
                                        THEN "cleanse" ELSE "read",
                               !.known = None, !.begins = 0, !.asked = 0]]
    BY <1>12 DEF ReceiveNothing
  <2> DEFINE at == IF isReload /\ kind \in {"security", "tests"} THEN "cleanse" ELSE "read"
  <2>1. [load[l] EXCEPT !.at = at, !.known = None, !.begins = 0, !.asked = 0] \in LoadStates
    <3>1. at \in Places /\ None \in Marks /\ 0 \in Time /\ 0 \in Int
      BY <1>0a DEF Places, LoadStates, Until
    <3>2. load[l] \in LoadStates
      BY <1>0a
    <3>3. [[[[load[l] EXCEPT !.at = at] EXCEPT !.known = None] EXCEPT !.begins = 0]
             EXCEPT !.asked = 0] \in LoadStates
      <4> HIDE DEF at, Time, Marks
      <4> QED BY <1>0, <3>1, <3>2, FieldsTyped
    <3> QED BY <3>3
  <2>2. load' \in [Loads -> LoadStates]
    BY <1>0a, <2>1, LoadTyped
  <2> QED BY <1>0a, <1>12, <2>2 DEF ReceiveNothing, TypeOK, excuses
<1>13. ASSUME NEW l \in Loads, WriteMark(l) PROVE TypeOK'
  <2>1. load' \in [Loads -> LoadStates]
    BY <1>0a, <1>13 DEF WriteMark, LoadStates
  <2>2. mark' \in Marks
    BY <1>0a, <1>13 DEF WriteMark, LoadStates
  <2> QED BY <1>0a, <1>13, <2>1, <2>2 DEF WriteMark, TypeOK, excuses
<1>14. ASSUME NEW l \in Loads, WriteRow(l) PROVE TypeOK'
  <2>1. load' \in [Loads -> LoadStates]
    <3>1. PICK r : load' = [load EXCEPT ![l] = [load[l] EXCEPT !.adds = load[l].adds \ {r}]]
      BY <1>14 DEF WriteRow
    <3>2. load[l] \in LoadStates /\ load[l].adds \ {r} \in SUBSET Rows
      BY <1>0a DEF LoadStates
    <3>3. [load[l] EXCEPT !.adds = load[l].adds \ {r}] \in LoadStates
      <4> HIDE DEF Time, Marks
      <4> QED BY <3>2, FieldsTyped
    <3> QED BY <1>0a, <3>1, <3>3, LoadTyped
  <2>2. copies' \in [Rows -> 0..2]
    BY <1>0a, <1>14 DEF WriteRow, LoadStates
  <2> QED BY <1>0a, <1>14, <2>1, <2>2 DEF WriteRow, TypeOK, excuses
<1>15. ASSUME NEW l \in Loads, Read(l) PROVE TypeOK'
  <2>1. [load[l] EXCEPT !.at = "cleanse", !.had = {}] \in LoadStates
    BY <1>0a DEF LoadStates, Places
  <2>2. load' \in [Loads -> LoadStates]
    BY <1>0a, <1>15, <2>1, LoadTyped DEF Read
  <2> QED BY <1>0a, <1>15, <2>2 DEF Read, TypeOK, excuses
<1>16. ASSUME NEW l \in Loads, Cleanse(l) PROVE TypeOK'
  <2>1. load' \in [Loads -> LoadStates]
    BY <1>0, <1>0a, <1>16, LoadTyped DEF Cleanse
  <2>2. copies' \in [Rows -> 0..2]
    BY <1>0a, <1>16 DEF Cleanse
  <2> QED BY <1>0a, <1>16, <2>1, <2>2 DEF Cleanse, TypeOK, excuses
<1>17. ASSUME NEW l \in Loads, Close(l) PROVE TypeOK'
  <2>1. load' \in [Loads -> LoadStates]
    BY <1>0, <1>0a, <1>17, LoadTyped DEF Close
  <2>2. load[l].adds \in SUBSET Rows
    BY <1>0a DEF LoadStates
  <2>3. raced' \in BOOLEAN
    BY <1>0a, <1>17 DEF Close
  <2> QED BY <1>0a, <1>17, <2>1, <2>2, <2>3 DEF Close, TypeOK
<1>18. CASE UNCHANGED vars
  BY <1>0a, <1>18 DEF vars, excuses, TypeOK
<1> QED
  BY <1>1, <1>2, <1>3, <1>4, <1>5, <1>6, <1>7, <1>8, <1>9, <1>10, <1>11, <1>12, <1>13,
     <1>14, <1>15, <1>16, <1>17, <1>18 DEF Next, LoadStep

\* The initial state is well typed.
LEMMA InitTyped == Init => TypeOK
<1>1. Idle \in LoadStates
  BY DEF Idle, LoadStates, Places
<1> SUFFICES ASSUME Init PROVE TypeOK
  OBVIOUS
<1>2. load \in [Loads -> LoadStates]
  BY <1>1 DEF Init
<1>3. /\ now \in Time /\ ts \in [Rows -> Marks] /\ mark \in Marks
      /\ copies \in [Rows -> 0..2] /\ pages \in 0..MaxPages
  BY DEF Init
<1> QED BY <1>2, <1>3 DEF Init, TypeOK

\* ProductCache's variables keep their types, whatever rows, loads and bounds.
THEOREM TypeCorrect == Spec => []TypeOK
  BY InitTyped, TypeStep, PTL DEF Spec

----------------------------------------------------------------------------

\* How the fields of a load hang together at each of its places.
LoadShape(l) ==
    /\ load[l].ends <= now
    /\ load[l].asked <= now
    /\ load[l].known # None => load[l].at \in {"ask", "answer"} /\ load[l].known <= now
    /\ load[l].at \notin {"read", "cleanse"} => load[l].moves = "no" /\ load[l].adds = {}
    /\ load[l].at = "cleanse" => load[l].adds = {}
    /\ load[l].had \subseteq Server
    /\ load[l].resp \subseteq Server
    /\ load[l].adds \subseteq Server
    /\ "mark" \in load[l].clear => load[l].at \in {"process", "look"}
    /\ load[l].at = "idle" => load[l] = Idle
    /\ load[l].at \in {"look", "ask", "answer"}
           => /\ load[l].asked <= load[l].ends
              /\ kind # "commits" => load[l].asked = load[l].ends
    /\ load[l].at \in {"ask", "answer"}
           => load[l].begins = IF load[l].known = None THEN load[l].ends - Window
                                                       ELSE load[l].known

Shape ==
    /\ \A r \in Server : ts[r] <= now
    /\ mark # None => mark <= now
    /\ \A r \in Rows : copies[r] > 0 => r \in Server
    /\ \A l \in Loads : LoadShape(l)

\* An answer has all that the server had between its two ends; what the server stores
\* behind an answer worth remembering is late.
Answered(l) ==
    load[l].at = "answer" =>
        /\ \A r \in load[l].resp : load[l].begins <= ts[r] /\ ts[r] <= load[l].asked
        /\ \A r \in load[l].had :
               load[l].begins <= ts[r] /\ ts[r] <= load[l].asked => r \in load[l].resp
        /\ Remembers(l) =>
              \A r \in Server : ts[r] < load[l].ends => r \in load[l].had \cup late

\* Row r need not be held, or is.
Kept(r) == Held(r) \/ ts[r] < now - Window \/ r \in Excused

\* Nothing that happened before t need be asked for again.
KeptBefore(t) == \A r \in Server : ts[r] < t => Kept(r)

\* No reset has still to clear lastRequest, and none was overtaken.
MarkCounts == ~raced /\ \A l \in Loads : "mark" \notin load[l].clear

LoadKeeps(l) ==
    /\ load[l].known # None => KeptBefore(load[l].known)
    /\ load[l].moves # "no" => KeptBefore(load[l].ends)
    /\ load[l].at = "read" => \A r \in load[l].had : ts[r] < load[l].ends => Kept(r)

\* Of the load that has still to clear the rows: its answer, not yet written, is kept
\* by itself.
OwnKeeps(l, r) == r \in load[l].adds \/ ts[r] < now - Window \/ r \in Excused

Refills(l) ==
    "rows" \in load[l].clear /\ mark = None =>
        /\ load[l].known = None
        /\ load[l].moves # "no" => \A r \in Server : ts[r] < load[l].ends => OwnKeeps(l, r)
        /\ load[l].at = "read" =>
              \A r \in load[l].had : ts[r] < load[l].ends => OwnKeeps(l, r)

Keeps ==
    MarkCounts =>
        /\ mark # None => KeptBefore(mark)
        /\ \A l \in Loads : LoadKeeps(l) /\ Refills(l)

IInv == TypeOK /\ Shape /\ (\A l \in Loads : Answered(l)) /\ Keeps

\* Every step keeps the shape of the loads.
LEMMA ShapeStep == TypeOK /\ Shape /\ [Next]_vars => Shape'
<1> SUFFICES ASSUME TypeOK, Shape, [Next]_vars PROVE Shape'
  OBVIOUS
<1> USE DEF TypeOK, LoadStates, Shape, LoadShape, Server
<1>1. CASE Tick
  BY <1>1 DEF Tick
<1>2. ASSUME NEW r \in Rows, NEW t \in Time, Store(r, t) PROVE Shape'
  BY <1>2 DEF Store
<1>3. ASSUME NEW l \in Loads, Load(l) PROVE Shape'
  BY <1>3 DEF Load, Idle, Until
<1>4. ASSUME NEW l \in Loads, LoadWithReset(l) PROVE Shape'
  BY <1>4 DEF LoadWithReset, Idle, Until
<1>5. ASSUME NEW l \in Loads, ClearMark(l) PROVE Shape'
  BY <1>5 DEF ClearMark
<1>6. ASSUME NEW l \in Loads, ClearRows(l) PROVE Shape'
  <2>1. load[l].at # "idle"
    BY <1>6 DEF ClearRows, Idle
  <2>2. \A k \in Loads : k # l => load'[k] = load[k]
    BY <1>6 DEF ClearRows
  <2>3. load'[l] = [load[l] EXCEPT !.clear = @ \ {"rows"}]
    BY <1>6 DEF ClearRows
  <2>4. ASSUME NEW k \in Loads, k # l PROVE LoadShape(k)'
    BY <1>6, <2>2, <2>4 DEF ClearRows
  <2>5. LoadShape(l)'
    BY <1>6, <2>1, <2>3 DEF ClearRows
  <2> QED BY <1>6, <2>4, <2>5 DEF ClearRows
<1>7. ASSUME NEW l \in Loads, Process(l) PROVE Shape'
  BY <1>7 DEF Process
<1>8. ASSUME NEW l \in Loads, Look(l) PROVE Shape'
  BY <1>8 DEF Look
<1>9. ASSUME NEW l \in Loads, Answer(l) PROVE Shape'
  BY <1>9 DEF Answer, Between
<1>10. ASSUME NEW l \in Loads, Fail(l) PROVE Shape'
  BY <1>10 DEF Fail
<1>11. ASSUME NEW l \in Loads, Receive(l) PROVE Shape'
  BY <1>11 DEF Receive
<1>12. ASSUME NEW l \in Loads, ReceiveNothing(l) PROVE Shape'
  BY <1>12 DEF ReceiveNothing
<1>13. ASSUME NEW l \in Loads, WriteMark(l) PROVE Shape'
  BY <1>13 DEF WriteMark
<1>14. ASSUME NEW l \in Loads, WriteRow(l) PROVE Shape'
  BY <1>14 DEF WriteRow
<1>15. ASSUME NEW l \in Loads, Read(l) PROVE Shape'
  BY <1>15 DEF Read, ReadsNow, RowsPending
<1>16. ASSUME NEW l \in Loads, Cleanse(l) PROVE Shape'
  BY <1>16 DEF Cleanse, Idle, Ninety
<1>17. ASSUME NEW l \in Loads, Close(l) PROVE Shape'
  BY <1>17 DEF Close, Idle
<1>18. CASE UNCHANGED vars
  BY <1>18 DEF vars
<1> QED
  BY <1>1, <1>2, <1>3, <1>4, <1>5, <1>6, <1>7, <1>8, <1>9, <1>10, <1>11, <1>12, <1>13,
     <1>14, <1>15, <1>16, <1>17, <1>18 DEF Next, LoadStep

\* Every step keeps what an answer promises.
LEMMA AnsweredStep ==
    TypeOK /\ Shape /\ (\A l \in Loads : Answered(l)) /\ [Next]_vars
        => (\A l \in Loads : Answered(l))'
<1> SUFFICES ASSUME TypeOK, Shape, \A l \in Loads : Answered(l), [Next]_vars,
                    NEW k \in Loads
             PROVE  Answered(k)'
  OBVIOUS
<1> USE DEF TypeOK, LoadStates, Answered, Remembers, Server
<1>1. CASE Tick
  BY <1>1 DEF Tick, excuses
<1>2. ASSUME NEW r \in Rows, NEW t \in Time, Store(r, t) PROVE Answered(k)'
  BY <1>2 DEF Store, Passed, Shape, LoadShape
<1>3. ASSUME NEW l \in Loads, Load(l) PROVE Answered(k)'
  BY <1>3 DEF Load, Idle, Until
<1>4. ASSUME NEW l \in Loads, LoadWithReset(l) PROVE Answered(k)'
  BY <1>4 DEF LoadWithReset, Idle, Until
<1>5. ASSUME NEW l \in Loads, ClearMark(l) PROVE Answered(k)'
  BY <1>5 DEF ClearMark
<1>6. ASSUME NEW l \in Loads, ClearRows(l) PROVE Answered(k)'
  BY <1>6 DEF ClearRows
<1>7. ASSUME NEW l \in Loads, Process(l) PROVE Answered(k)'
  BY <1>7 DEF Process, excuses
<1>8. ASSUME NEW l \in Loads, Look(l) PROVE Answered(k)'
  BY <1>8 DEF Look, excuses
<1>9. ASSUME NEW l \in Loads, Answer(l) PROVE Answered(k)'
  BY <1>9 DEF Answer, Between, excuses
<1>10. ASSUME NEW l \in Loads, Fail(l) PROVE Answered(k)'
  BY <1>10 DEF Fail, excuses
<1>11. ASSUME NEW l \in Loads, Receive(l) PROVE Answered(k)'
  BY <1>11 DEF Receive
<1>12. ASSUME NEW l \in Loads, ReceiveNothing(l) PROVE Answered(k)'
  BY <1>12 DEF ReceiveNothing, excuses
<1>13. ASSUME NEW l \in Loads, WriteMark(l) PROVE Answered(k)'
  BY <1>13 DEF WriteMark, excuses
<1>14. ASSUME NEW l \in Loads, WriteRow(l) PROVE Answered(k)'
  BY <1>14 DEF WriteRow, excuses
<1>15. ASSUME NEW l \in Loads, Read(l) PROVE Answered(k)'
  BY <1>15 DEF Read, ReadsNow, excuses
<1>16. ASSUME NEW l \in Loads, Cleanse(l) PROVE Answered(k)'
  BY <1>16 DEF Cleanse, Idle, Ninety, excuses
<1>17. ASSUME NEW l \in Loads, Close(l) PROVE Answered(k)'
  BY <1>17 DEF Close, Idle
<1>18. CASE UNCHANGED vars
  BY <1>18 DEF vars, excuses
<1> QED
  BY <1>1, <1>2, <1>3, <1>4, <1>5, <1>6, <1>7, <1>8, <1>9, <1>10, <1>11, <1>12, <1>13,
     <1>14, <1>15, <1>16, <1>17, <1>18 DEF Next, LoadStep

\* Every step keeps all that is remembered.
LEMMA KeepsStep ==
    TypeOK /\ Shape /\ (\A l \in Loads : Answered(l)) /\ Keeps /\ [Next]_vars => Keeps'
<1> SUFFICES ASSUME TypeOK, Shape, \A l \in Loads : Answered(l), Keeps, [Next]_vars
             PROVE  Keeps'
  OBVIOUS
<1> USE DEF TypeOK, LoadStates, Shape, LoadShape, Keeps, MarkCounts, LoadKeeps, KeptBefore,
            Kept, Held, Excused, Forgone, Server, Refills, OwnKeeps
<1>1. CASE Tick
  BY <1>1 DEF Tick, excuses
<1>2. ASSUME NEW r \in Rows, NEW t \in Time, Store(r, t) PROVE Keeps'
  BY <1>2 DEF Store, Passed
<1>3. ASSUME NEW l \in Loads, Load(l) PROVE Keeps'
  BY <1>3 DEF Load, Idle, Until
<1>4. ASSUME NEW l \in Loads, LoadWithReset(l) PROVE Keeps'
  BY <1>4 DEF LoadWithReset, Idle, Until
<1>5. ASSUME NEW l \in Loads, ClearMark(l) PROVE Keeps'
  <2> SUFFICES ASSUME MarkCounts' PROVE Keeps'
    BY DEF Keeps
  <2>1. \A k \in Loads \ {l} : load'[k] = Idle
    BY <1>5 DEF ClearMark, Busy, MarkCounts
  <2>2. load[l].at \in {"process", "look"}
    BY <1>5 DEF ClearMark
  <2>3. /\ load'[l].known = None /\ load'[l].moves = "no"
        /\ load'[l].at \in {"process", "look"}
    BY <1>5, <2>2 DEF ClearMark
  <2>4. \A k \in Loads : LoadKeeps(k)' /\ Refills(k)'
    BY <2>1, <2>3 DEF Idle
  <2>5. mark' = None
    BY <1>5 DEF ClearMark
  <2> QED BY <2>4, <2>5
<1>6. ASSUME NEW l \in Loads, ClearRows(l) PROVE Keeps'
  <2> SUFFICES ASSUME MarkCounts' PROVE Keeps'
    BY DEF Keeps
  <2>1. \A k \in Loads \ {l} : load'[k] = Idle
    BY <1>6 DEF ClearRows, Busy
  <2>2. /\ load'[l].clear = load[l].clear \ {"rows"} /\ load'[l].known = load[l].known
        /\ load'[l].moves = load[l].moves /\ load'[l].at = load[l].at
        /\ load'[l].had = load[l].had /\ load'[l].ends = load[l].ends
        /\ load'[l].adds = load[l].adds
        /\ \A k \in Loads : k # l => load'[k] = load[k]
    BY <1>6 DEF ClearRows
  <2>3. MarkCounts
    BY <1>6, <2>2 DEF ClearRows
  <2>4. /\ mark = None /\ mark' = None /\ UNCHANGED <<kind, now, ts, late, dropped, skipped>>
        /\ Refills(l) /\ "rows" \in load[l].clear
    BY <1>6, <2>3 DEF ClearRows
  <2>5. ASSUME NEW r \in Rows, OwnKeeps(l, r) PROVE Kept(r)'
    BY <2>2, <2>4, <2>5
  <2>6. LoadKeeps(l)'
    BY <2>2, <2>3, <2>4, <2>5
  <2>7. \A k \in Loads : LoadKeeps(k)' /\ Refills(k)'
    BY <2>1, <2>4, <2>6 DEF Idle
  <2> QED BY <2>4, <2>7
<1>7. ASSUME NEW l \in Loads, Process(l) PROVE Keeps'
  BY <1>7 DEF Process, excuses
<1>8. ASSUME NEW l \in Loads, Look(l) PROVE Keeps'
  BY <1>8 DEF Look, excuses
<1>9. ASSUME NEW l \in Loads, Answer(l) PROVE Keeps'
  BY <1>9 DEF Answer, Between, excuses
<1>10. ASSUME NEW l \in Loads, Fail(l) PROVE Keeps'
  BY <1>10 DEF Fail, excuses
<1>11. ASSUME NEW l \in Loads, Receive(l) PROVE Keeps'
  <2> SUFFICES ASSUME MarkCounts' PROVE Keeps'
    BY DEF Keeps
  <2>1. /\ load[l].at = "answer" /\ load'[l].at = "read" /\ load'[l].known = None
        /\ load'[l].adds = load[l].resp /\ load'[l].had = load[l].had
        /\ load'[l].ends = load[l].ends /\ load'[l].clear = load[l].clear
        /\ UNCHANGED <<kind, mark, copies, now, ts, late, dropped, raced>>
        /\ \A k \in Loads : k # l => load'[k] = load[k]
        /\ skipped \subseteq skipped'
        /\ \A r \in Server : load[l].asked < ts[r] /\ ts[r] < load[l].ends
                             => kind = "commits" /\ r \in skipped'
    BY <1>11 DEF Receive
  <2>2. MarkCounts
    BY <2>1
  <2>3. ASSUME NEW r \in Server, load[l].begins <= ts[r], ts[r] < load[l].ends, r \in load[l].had
        PROVE  OwnKeeps(l, r)'
    BY <2>1, <2>3 DEF Answered
  <2>4. ASSUME NEW r \in Server, ts[r] < load[l].begins, load[l].known = None
        PROVE  ts[r] < now - Window
    BY <2>1, <2>4
  <2>5. \A r \in Server : ts[r] < load[l].ends => r \in load[l].had \cup late
    BY <1>11 DEF Receive, Answered
  <2>6. Refills(l)'
    BY <2>1, <2>2, <2>3, <2>4, <2>5
  <2>7. \A r \in Server : Kept(r) => Kept(r)'
    BY <2>1
  <2>8. \A r \in Server : OwnKeeps(l, r)' => Kept(r)'
    BY <2>1
  <2>9. ASSUME NEW r \in Server, ts[r] < load[l].ends, r \in load[l].had
        PROVE  Kept(r)'
    <3>1. CASE load[l].begins <= ts[r]
      BY <2>3, <2>8, <2>9, <3>1
    <3>2. CASE ts[r] < load[l].begins
      BY <2>1, <2>2, <2>4, <2>7, <3>2
    <3> QED BY <3>1, <3>2
  <2>10. LoadKeeps(l)'
    BY <2>1, <2>5, <2>9
  <2>11. ASSUME NEW k \in Loads, k # l PROVE LoadKeeps(k)' /\ Refills(k)'
    <3>1. LoadKeeps(k) /\ Refills(k) /\ load'[k] = load[k]
      BY <2>1, <2>2, <2>11
    <3>2. Refills(k)'
      <4>1. \A r \in Rows : OwnKeeps(k, r) => OwnKeeps(k, r)'
        BY <2>1, <3>1
      <4> HIDE DEF OwnKeeps
      <4> QED BY <2>1, <3>1, <4>1
    <3>3. LoadKeeps(k)'
      <4> HIDE DEF Kept
      <4> QED BY <2>1, <2>7, <3>1
    <3> QED BY <3>2, <3>3
  <2>12. mark' # None => KeptBefore(mark)'
    BY <2>1, <2>2, <2>7
  <2> HIDE DEF LoadKeeps, Refills, KeptBefore
  <2> QED BY <2>6, <2>10, <2>11, <2>12
<1>12. ASSUME NEW l \in Loads, ReceiveNothing(l) PROVE Keeps'
  <2> SUFFICES ASSUME MarkCounts' PROVE Keeps'
    BY DEF Keeps
  <2>1. /\ load[l].at = "answer" /\ load'[l].at \in {"read", "cleanse"}
        /\ load'[l].known = None /\ load'[l].moves = "no" /\ load'[l].adds = load[l].adds
        /\ load'[l].had = load[l].had /\ load'[l].ends = load[l].ends
        /\ load'[l].clear = load[l].clear
        /\ \A k \in Loads : k # l => load'[k] = load[k]
        /\ UNCHANGED <<kind, mark, copies, now, ts, late, dropped, skipped, raced>>
        /\ kind # "commits" /\ load[l].resp = {}
    BY <1>12 DEF ReceiveNothing, Remembers, excuses
  <2>2. MarkCounts
    BY <2>1
  <2>3. \A r \in Rows : (Kept(r) => Kept(r)') /\ \A k \in Loads : OwnKeeps(k, r) => OwnKeeps(k, r)'
    BY <2>1
  <2>4. ASSUME NEW r \in load[l].had, ts[r] < load[l].ends
        PROVE  ts[r] < load[l].begins
    BY <2>1, <2>4 DEF Answered
  <2>5. ASSUME NEW r \in Server, ts[r] < load[l].begins
        PROVE  Kept(r) /\ (load[l].known = None => ts[r] < now - Window)
    BY <2>1, <2>2, <2>5
  <2>6. LoadKeeps(l)' /\ Refills(l)'
    BY <2>1, <2>2, <2>3, <2>4, <2>5
  <2>7. ASSUME NEW k \in Loads, k # l PROVE LoadKeeps(k)' /\ Refills(k)'
    BY <2>1, <2>2, <2>3, <2>7
  <2>8. mark' # None => KeptBefore(mark)'
    BY <2>1, <2>2, <2>3
  <2> HIDE DEF LoadKeeps, Refills, KeptBefore
  <2> QED BY <2>6, <2>7, <2>8
<1>13. ASSUME NEW l \in Loads, WriteMark(l) PROVE Keeps'
  BY <1>13 DEF WriteMark, excuses
<1>14. ASSUME NEW l \in Loads, WriteRow(l) PROVE Keeps'
  BY <1>14 DEF WriteRow, excuses
<1>15. ASSUME NEW l \in Loads, Read(l) PROVE Keeps'
  BY <1>15 DEF Read, ReadsNow, excuses
<1>16. ASSUME NEW l \in Loads, Cleanse(l) PROVE Keeps'
  BY <1>16 DEF Cleanse, Idle, Ninety, excuses
<1>17. ASSUME NEW l \in Loads, Close(l) PROVE Keeps'
  <2> SUFFICES ASSUME MarkCounts' PROVE Keeps'
    BY DEF Keeps
  <2>1. load[l].clear = {} /\ MarkCounts
    BY <1>17 DEF Close, MarkCounts
  <2>2. ASSUME NEW r \in Server, Kept(r) PROVE Kept(r)'
    BY <1>17, <2>2 DEF Close, Idle
  <2>3. \A t \in Time : KeptBefore(t) => KeptBefore(t)'
    BY <1>17, <2>2 DEF Close
  <2>4. mark # None => KeptBefore(mark)'
    BY <1>17, <2>1, <2>3 DEF Close
  <2>5. ASSUME NEW k \in Loads PROVE LoadKeeps(k)' /\ Refills(k)'
    BY <1>17, <2>1, <2>2, <2>3 DEF Close, Idle
  <2> QED BY <1>17, <2>4, <2>5 DEF Close
<1>18. CASE UNCHANGED vars
  BY <1>18 DEF vars, excuses
<1> QED
  BY <1>1, <1>2, <1>3, <1>4, <1>5, <1>6, <1>7, <1>8, <1>9, <1>10, <1>11, <1>12, <1>13,
     <1>14, <1>15, <1>16, <1>17, <1>18 DEF Next, LoadStep

----------------------------------------------------------------------------

\* The invariant, from the initial state on.
LEMMA Invariant == Spec => []IInv
<1>1. Init => IInv
  <2> SUFFICES ASSUME Init PROVE IInv
    OBVIOUS
  <2>1. Shape /\ \A l \in Loads : Answered(l)
    BY DEF Init, Shape, LoadShape, Answered, Server, Idle
  <2>2. Keeps
    BY DEF Init, Keeps, LoadKeeps, Refills, Idle
  <2> QED BY <2>1, <2>2, InitTyped DEF IInv
<1>2. IInv /\ [Next]_vars => IInv'
  BY TypeStep, ShapeStep, AnsweredStep, KeepsStep DEF IInv
<1> QED BY <1>1, <1>2, PTL DEF Spec

\* What lastRequest says has been asked is there (the five process functions,
\* build-data.js:33-82 and its likes), for any number of rows, loads and pages.
THEOREM NeverForgets == Spec => []NothingForgotten
<1>1. IInv => NothingForgotten
  <2> SUFFICES ASSUME IInv, NoReset, NEW r \in Server \ Excused,
                      mark # None, ts[r] < mark, now - Window <= ts[r]
               PROVE  Held(r)
    BY DEF NothingForgotten
  <2>1. MarkCounts
    BY DEF NoReset, MarkCounts
  <2>2. KeptBefore(mark)
    BY <2>1 DEF IInv, Keeps
  <2>3. Kept(r)
    BY <2>2 DEF KeptBefore
  <2>4. ts[r] \in Int /\ now - Window \in Int
    BY DEF IInv, TypeOK, Server
  <2> QED BY <2>3, <2>4 DEF Kept
<1> QED BY <1>1, Invariant, PTL

\* A load shows every row that the server had when it answered, for any number of
\* rows, loads and pages.
THEOREM ShowsAll == Spec => []AllShown
<1>1. IInv => AllShown
  <2> SUFFICES ASSUME IInv, NoReset, NEW l \in Loads, ReadsNow(l),
                      NEW r \in load[l].had \ Excused,
                      ts[r] < load[l].ends, now - Window <= ts[r]
               PROVE  r \in Shows(l)
    BY DEF AllShown
  <2>1. r \in Server /\ load[l].ends <= now
    BY DEF IInv, Shape, LoadShape
  <2>2. MarkCounts
    BY DEF NoReset, MarkCounts
  <2>3. Kept(r)
    BY <2>2 DEF IInv, Keeps, LoadKeeps, ReadsNow
  <2>4. ts[r] \in Int /\ now \in Int /\ load[l].ends \in Int
    BY <2>1 DEF IInv, TypeOK, Server, LoadStates
  <2>5. copies[r] > 0
    BY <2>3, <2>4 DEF Kept, Held, ReadsNow, RowsPending
  <2> QED BY <2>1, <2>4, <2>5 DEF Shows, Ninety, Server
<1> QED BY <1>1, Invariant, PTL

----------------------------------------------------------------------------
\* While loads do not overlap and pages are neither reset nor closed: one load at a
\* time, which knows lastRequest, and nothing held is later than what is remembered.
Remembered(r) ==
    \/ mark # None /\ ts[r] <= mark
    \/ \E l \in Loads : load[l].moves # "no" /\ ts[r] <= load[l].ends

Single ==
    ~overlapped /\ pages = 0 =>
        /\ \A k, l \in Loads : load[k].at # "idle" /\ load[l].at # "idle" => k = l
        /\ \A l \in Loads :
              /\ load[l].clear = {}
              /\ load[l].at \in {"ask", "answer"} => load[l].known = mark
              /\ load[l].at = "look" /\ mark # None => mark <= load[l].ends
              /\ load[l].at \in {"ask", "answer"} /\ mark # None => mark <= load[l].ends
              /\ load[l].moves # "no" /\ mark # None
                     => load[l].moves = "put" /\ mark <= load[l].ends
        /\ \A r \in Rows : Held(r) => Remembered(r)

\* Every step keeps that.
LEMMA SingleStep == IInv /\ Single /\ [Next]_vars => Single'
<1> SUFFICES ASSUME IInv, Single, [Next]_vars PROVE Single'
  OBVIOUS
<1>0. TypeOK /\ Shape /\ \A l \in Loads : Answered(l)
  BY DEF IInv
<1> USE <1>0 DEF TypeOK, LoadStates, Shape, LoadShape, Single, Held, Remembered, Server
<1>1. CASE Tick
  BY <1>1 DEF Tick, excuses
<1>2. ASSUME NEW r \in Rows, NEW t \in Time, Store(r, t) PROVE Single'
  BY <1>2 DEF Store
<1>3. ASSUME NEW l \in Loads, Load(l) PROVE Single'
  <2> SUFFICES ASSUME ~overlapped', pages = 0 PROVE Single'
    BY <1>3 DEF Load
  <2>1. \A k \in Loads : k # l => load[k] = Idle /\ load'[k] = Idle
    <3>1. ~Busy(l)
      BY <1>3 DEF Load
    <3>2. \A k \in Loads : k # l => load'[k] = load[k]
      BY <1>3 DEF Load
    <3> QED BY <3>1, <3>2 DEF Busy
  <2>2. /\ load[l] = Idle /\ load'[l].at = "process" /\ load'[l].clear = {}
        /\ load'[l].moves = "no" /\ load'[l].adds = {} /\ ~overlapped
    BY <1>3 DEF Load, Idle
  <2>3. \A r \in Rows : Held(r)' => Remembered(r)'
    BY <1>3, <2>1, <2>2 DEF Load, Idle
  <2> QED BY <2>1, <2>2, <2>3 DEF Idle
<1>4. ASSUME NEW l \in Loads, LoadWithReset(l) PROVE Single'
  BY <1>4 DEF LoadWithReset, Idle, Until
<1>5. ASSUME NEW l \in Loads, ClearMark(l) PROVE Single'
  BY <1>5 DEF ClearMark, Idle
<1>6. ASSUME NEW l \in Loads, ClearRows(l) PROVE Single'
  BY <1>6 DEF ClearRows, Idle
<1>7. ASSUME NEW l \in Loads, Process(l) PROVE Single'
  BY <1>7 DEF Process, excuses, Idle
<1>8. ASSUME NEW l \in Loads, Look(l) PROVE Single'
  BY <1>8 DEF Look, excuses, Idle
<1>9. ASSUME NEW l \in Loads, Answer(l) PROVE Single'
  BY <1>9 DEF Answer, Between, excuses, Idle
<1>10. ASSUME NEW l \in Loads, Fail(l) PROVE Single'
  BY <1>10 DEF Fail, excuses, Idle
<1>11. ASSUME NEW l \in Loads, Receive(l) PROVE Single'
  <2> SUFFICES ASSUME ~overlapped, pages = 0 PROVE Single'
    BY <1>11 DEF Receive
  <2>1. \A k \in Loads : k # l => load'[k] = load[k] /\ load[k].at = "idle"
    BY <1>11 DEF Receive
  <2>2. /\ load'[l].at = "read" /\ load'[l].clear = {} /\ load'[l].ends = load[l].ends
        /\ load'[l].adds = load[l].resp /\ load'[l].moves # "no"
        /\ mark # None => load'[l].moves = "put" /\ mark <= load[l].ends
    BY <1>11 DEF Receive
  <2>3. \A r \in load[l].resp : ts[r] <= load[l].ends
    BY <1>11 DEF Receive, Answered
  <2>4. \A r \in Rows : Held(r)' => Remembered(r)'
    BY <1>11, <2>1, <2>2, <2>3 DEF Receive, Idle
  <2> QED BY <1>11, <2>1, <2>2, <2>4 DEF Receive, Idle
<1>12. ASSUME NEW l \in Loads, ReceiveNothing(l) PROVE Single'
  BY <1>12 DEF ReceiveNothing, excuses, Idle
<1>13. ASSUME NEW l \in Loads, WriteMark(l) PROVE Single'
  BY <1>13 DEF WriteMark, excuses, Idle
<1>14. ASSUME NEW l \in Loads, WriteRow(l) PROVE Single'
  BY <1>14 DEF WriteRow, excuses, Idle
<1>15. ASSUME NEW l \in Loads, Read(l) PROVE Single'
  BY <1>15 DEF Read, ReadsNow, excuses, Idle
<1>16. ASSUME NEW l \in Loads, Cleanse(l) PROVE Single'
  BY <1>16 DEF Cleanse, Idle, Ninety, excuses
<1>17. ASSUME NEW l \in Loads, Close(l) PROVE Single'
  BY <1>17 DEF Close, Idle
<1>18. CASE UNCHANGED vars
  BY <1>18 DEF vars, excuses
<1> QED
  BY <1>1, <1>2, <1>3, <1>4, <1>5, <1>6, <1>7, <1>8, <1>9, <1>10, <1>11, <1>12, <1>13,
     <1>14, <1>15, <1>16, <1>17, <1>18 DEF Next, LoadStep

\* Loads that do not overlap ask for a row once, but for one of the very moment the
\* last request ended ("if we already have made a request, just get the delta",
\* build-data.js:34).
THEOREM AsksOnce == Spec => AskedOnce
<1>1. Init => Single
  BY DEF Init, Single, Idle, Held
<1>2. Spec => []Single
  BY <1>1, SingleStep, Invariant, PTL DEF Spec
<1>3. IInv /\ Single /\ [Next]_vars => [\A l \in Loads :
          Receive(l) /\ ~overlapped /\ pages = 0 =>
              \A r \in load[l].resp : Held(r) => ts[r] = load[l].begins]_vars
  <2> SUFFICES ASSUME IInv, Single, NEW l \in Loads, Receive(l), ~overlapped, pages = 0,
                      NEW r \in load[l].resp, Held(r)
               PROVE  ts[r] = load[l].begins
    OBVIOUS
  <2>1. /\ load[l].at = "answer" /\ load[l].moves = "no"
        /\ load[l].begins <= ts[r] /\ r \in Server
    BY DEF Receive, IInv, Shape, LoadShape, Answered
  <2>2. \A k \in Loads : k # l => load[k].at = "idle" /\ load[k].moves = "no"
    BY <2>1 DEF Single, IInv, Shape, LoadShape
  <2>3. Remembered(r)
    BY DEF Single, IInv, TypeOK, LoadStates
  <2>4. mark # None /\ ts[r] <= mark
    BY <2>1, <2>2, <2>3 DEF Remembered
  <2>5. load[l].begins = mark
    BY <2>1, <2>4 DEF Single, IInv, Shape, LoadShape
  <2> QED BY <2>1, <2>4, <2>5 DEF IInv, TypeOK, Server
<1> QED BY <1>2, <1>3, Invariant, PTL DEF Spec, AskedOnce

----------------------------------------------------------------------------
\* A step that stores rows only at the moment they happen.
AtOnce == \A r \in Rows : ts[r] = None /\ ts'[r] # None => ts'[r] = now

NoneIsLate == late = {}

\* No row is late then: nobody remembers a moment that is still to come.
LEMMA NoneLate == TypeOK /\ Shape /\ late = {} /\ AtOnce /\ [Next]_vars => late' = {}
<1> SUFFICES ASSUME TypeOK, Shape, late = {}, AtOnce, [Next]_vars PROVE late' = {}
  OBVIOUS
<1>1. ASSUME NEW r \in Rows, NEW t \in Time, Store(r, t) PROVE late' = {}
  <2>1. t = now
    <3>1. ts' = [ts EXCEPT ![r] = t] /\ ts[r] = None /\ ts \in [Rows -> Marks] /\ t # None
      BY <1>1 DEF Store, TypeOK
    <3> QED BY <3>1 DEF AtOnce
  <2>2. now \in Time /\ mark \in Marks /\ load \in [Loads -> LoadStates]
    BY DEF TypeOK
  <2>3. mark # None => ~(now < mark)
    BY <2>2 DEF Shape
  <2>4. ASSUME NEW l \in Loads
        PROVE  /\ ~(now < load[l].ends)
               /\ load[l].known # None => ~(now < load[l].known)
    BY <2>2 DEF Shape, LoadShape, LoadStates
  <2>5. ~Passed(t)
    BY <2>1, <2>3, <2>4 DEF Passed
  <2> QED BY <1>1, <2>5 DEF Store
<1>2. ASSUME ~(\E r \in Rows, t \in Time : Store(r, t)) PROVE late' = late
  BY <1>2 DEF Next, LoadStep, Tick, Load, LoadWithReset, ClearMark, ClearRows, Process, Look,
              Answer, Fail, Receive, ReceiveNothing, WriteMark, WriteRow, Read, Cleanse,
              Close, vars, excuses
<1> QED BY <1>1, <1>2

\* AllShownWhenever, which run late_commits refutes, is true where nothing is stored after
\* it happened: the delay of the collectors is all it takes to hide a row, and no other
\* order of the steps of the loads does.
THEOREM ShowsAllAtOnce == Spec /\ StoredAtOnce => []AllShownWhenever
<1>1. Init => NoneIsLate
  BY DEF Init, NoneIsLate
<1>2. IInv /\ NoneIsLate /\ AtOnce /\ [Next]_vars => NoneIsLate'
  BY NoneLate DEF IInv, NoneIsLate
<1>3. UNCHANGED vars /\ NoneIsLate => NoneIsLate'
  BY DEF vars, excuses, NoneIsLate
<1>4. AllShown /\ NoneIsLate => AllShownWhenever
  BY DEF AllShown, AllShownWhenever, Excused, NoneIsLate
<1> QED BY <1>1, <1>2, <1>3, <1>4, Invariant, ShowsAll, PTL DEF Spec, StoredAtOnce, AtOnce

==============================================================================
