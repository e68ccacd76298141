---------------------------- MODULE ProductCache ----------------------------
(***************************************************************************)
(* The product widget's cache in the browser's IndexedDB: the loads of the *)
(* widget (productViewController.load and the process functions of its     *)
(* five data services), which ask the API only for what is newer than      *)
(* lastRequest, keep the answers in a local table and show ninety days of  *)
(* that table.                                                             *)
(*                                                                         *)
(* kind, chosen once, is the service; the row of lastRequest and the rows  *)
(* of the table that the behaviour is about are those of one component     *)
(* (one team, for commits).  A load is one call of process: a page makes   *)
(* one when it opens and one per refresh, without waiting for the last     *)
(* one, and several pages share the database.                              *)
(*                                                                         *)
(* IndexedDB runs transactions on one table in the order they were made,   *)
(* and those on different tables in any order.  So a transaction on a      *)
(* table waits for the writes pending on it, and the write of lastRequest  *)
(* and the writes of the rows are steps of their own.                      *)
(***************************************************************************)
EXTENDS Integers, FiniteSets

CONSTANTS
    Rows,      \* builds, analyses, test results, commits that reached Prod
    Loads,     \* loads that may be under way at one time
    Kinds,     \* the services checked
    Window,    \* ninety days
    MaxNow,    \* bound: the last moment
    MaxPages,  \* bound: pages that are opened with ?reset, and pages closed
    None

ASSUME WindowIsNat == Window \in Nat
ASSUME MaxNowIsNat == MaxNow \in Nat
ASSUME MaxPagesIsNat == MaxPages \in Nat
ASSUME NoneIsNoTime == None \notin Int
ASSUME KnownKinds == Kinds \subseteq {"build", "static", "security", "tests", "commits"}

VARIABLES
    kind,      \* which of the services
    now,       \* the clock of server and browser
    ts,        \* for each row the API can answer with, when the thing happened (endTime,
               \* timestamp, processedTimestamps.Prod); None for the others
    mark,      \* the timestamp of the lastRequest row, None when there is none
    copies,    \* documents in the local table for each row: 0, 1, or 2 for more
    load,      \* what each load has in hand
    pages,     \* pages closed under a load, or opened with ?reset
    late,      \* history: rows stored by the server behind some lastRequest
    dropped,   \* history: rows whose write a closed page took with it
    skipped,   \* history: commits between the moment asked and the one remembered
    raced,     \* history: another load came between the clears of a reset, the moment of
               \* the page's own request was stored between them, or the page was closed
               \* before they were done
    overlapped \* history: a load began before the last one had ended

excuses == <<late, dropped, skipped, raced, overlapped>>
vars == <<kind, now, ts, mark, copies, load, pages, excuses>>

Time == 0..MaxNow
Marks == Time \cup {None}

Idle == [at |-> "idle", clear |-> {}, asked |-> 0, ends |-> 0,
         begins |-> 0, known |-> None, resp |-> {}, had |-> {}, moves |-> "no", adds |-> {}]

Places == {"idle", "process", "look", "ask", "answer", "read", "cleanse"}

LoadStates ==
    [at : Places, clear : SUBSET {"mark", "rows"}, asked : Time,
     ends : Time, begins : Int, known : Marks, resp : SUBSET Rows, had : SUBSET Rows,
     moves : {"no", "put", "add"}, adds : SUBSET Rows]

Init ==
    /\ kind \in Kinds
    /\ now = 0
    /\ ts = [r \in Rows |-> None]
    /\ mark = None
    /\ copies = [r \in Rows |-> 0]
    /\ load = [l \in Loads |-> Idle]
    /\ pages = 0
    /\ late = {}
    /\ dropped = {}
    /\ skipped = {}
    /\ raced = FALSE
    /\ overlapped = FALSE

----------------------------------------------------------------------------
(* The server *)

Tick ==
    /\ now < MaxNow
    /\ now' = now + 1
    /\ UNCHANGED <<kind, ts, mark, copies, load, pages, excuses>>

\* The answer has something to remember: rows, or for the commits any pipeline
\* document, whether one of its commits is new in Prod or not.
Remembers(l) == kind = "commits" \/ load[l].resp # {}

\* A load that has its answer, or a page that has written lastRequest, will not ask
\* for what happened at t: the moment it remembers is later than t.
Passed(t) ==
    \/ mark # None /\ t < mark
    \/ \E l \in Loads : \/ load[l].at = "answer" /\ Remembers(l) /\ t < load[l].ends
                        \/ load[l].moves # "no" /\ t < load[l].ends
                        \/ load[l].known # None /\ t < load[l].known

\* A collector stores, now or minutes later, a build that ended, an analysis, a commit
\* that was deployed to production at t.
Store(r, t) ==
    /\ ts[r] = None
    /\ t <= now
    /\ ts' = [ts EXCEPT ![r] = t]
    /\ late' = IF Passed(t) THEN late \cup {r} ELSE late
    /\ UNCHANGED <<kind, now, mark, copies, load, pages, dropped, skipped, raced,
                   overlapped>>

----------------------------------------------------------------------------
(* A load *)

\* Writes made but not yet done.
MarkPending == \E l \in Loads : load[l].moves # "no"
RowsPending == \E l \in Loads : load[l].adds # {}

Busy(l) == \E k \in Loads \ {l} : load[k] # Idle

\* collectTeamStageData takes the moment that the commits are asked up to.
Until == IF kind = "commits" THEN now ELSE 0

\* load(): the widget's refresh.
Load(l) ==
    /\ load[l] = Idle
    /\ load' = [load EXCEPT ![l] = [Idle EXCEPT !.at = "process", !.asked = Until]]
    /\ overlapped' = (overlapped \/ Busy(l))
    /\ UNCHANGED <<kind, now, ts, mark, copies, pages, late, dropped, skipped,
                   raced>>

\* The widget on a page opened with ?reset: the tables are cleared, all but
\* securityAnalysis, before the page loads.
LoadWithReset(l) ==
    /\ load[l] = Idle
    /\ pages < MaxPages
    /\ pages' = pages + 1
    /\ load' = [load EXCEPT ![l] =
                  [Idle EXCEPT !.at = "process", !.asked = Until,
                               !.clear = IF kind = "security" THEN {"mark"}
                                                              ELSE {"mark", "rows"}]]
    /\ overlapped' = (overlapped \/ Busy(l))
    /\ UNCHANGED <<kind, now, ts, mark, copies, late, dropped, skipped, raced>>

\* The clears come before the writes of the page's own load, and before or after
\* those that other loads have pending.
ClearMark(l) ==
    /\ "mark" \in load[l].clear
    /\ mark' = None
    /\ load' = [load EXCEPT ![l].clear = @ \ {"mark"}]
    /\ raced' = (raced \/ Busy(l))
    /\ UNCHANGED <<kind, now, ts, copies, pages, late, dropped, skipped,
                   overlapped>>

ClearRows(l) ==
    /\ "rows" \in load[l].clear
    /\ copies' = [r \in Rows |-> 0]
    /\ load' = [load EXCEPT ![l].clear = @ \ {"rows"}]
    /\ raced' = (raced \/ Busy(l) \/ (mark # None /\ "mark" \notin load[l].clear))
    /\ UNCHANGED <<kind, now, ts, mark, pages, late, dropped, skipped,
                   overlapped>>

\* process(): the moment remembered as the end of this request.
Process(l) ==
    /\ load[l].at = "process"
    /\ load' = [load EXCEPT ![l] =
                   [@ EXCEPT !.at = "look", !.ends = now,
                             !.asked = IF kind = "commits" THEN load[l].asked ELSE now]]
    /\ UNCHANGED <<kind, now, ts, mark, copies, pages, excuses>>

\* Mutant of Look: the ninety days of a first request are forgotten.
LookForgets(l) ==
    /\ load[l].at = "look"
    /\ "mark" \notin load[l].clear
    /\ ~MarkPending
    /\ load' = [load EXCEPT ![l] = [@ EXCEPT !.at = "ask", !.known = mark, !.begins = mark]]
    /\ UNCHANGED <<kind, now, ts, mark, copies, pages, excuses>>

\* The row of lastRequest is read, after the page's own clear of that table.  The
\* test results take their moments only now.
Look(l) ==
    /\ load[l].at = "look"
    /\ "mark" \notin load[l].clear
    /\ ~MarkPending
    /\ LET ends  == IF kind = "tests" THEN now ELSE load[l].ends
           asked == IF kind = "tests" THEN now ELSE load[l].asked
           begins == IF mark = None THEN ends - Window ELSE mark
       IN  load' = [load EXCEPT ![l] =
                       [@ EXCEPT !.at = "ask", !.known = mark, !.ends = ends,
                                 !.asked = asked, !.begins = begins]]
    /\ UNCHANGED <<kind, now, ts, mark, copies, pages, excuses>>

\* The API's answer: both ends of the period belong to it.
Server == {r \in Rows : ts[r] # None}

\* Mutant of Between: a half-open period.
BetweenHalfOpen(l) ==
    {r \in {q \in Rows : ts[q] # None} : load[l].begins < ts[r] /\ ts[r] <= load[l].asked}

Between(l) == {r \in Server : load[l].begins <= ts[r] /\ ts[r] <= load[l].asked}

Answer(l) ==
    /\ load[l].at = "ask"
    /\ load' = [load EXCEPT ![l] =
                   [@ EXCEPT !.at = "answer", !.resp = Between(l), !.had = Server]]
    /\ UNCHANGED <<kind, now, ts, mark, copies, pages, excuses>>

\* The call fails: only the finally part runs.
Fail(l) ==
    /\ load[l].at = "ask"
    /\ load' = [load EXCEPT ![l] =
                   [@ EXCEPT !.at = "cleanse", !.known = None, !.begins = 0,
                             !.asked = 0]]
    /\ UNCHANGED <<kind, now, ts, mark, copies, pages, excuses>>

Receive(l) ==
    /\ load[l].at = "answer"
    /\ Remembers(l)
    /\ load' = [load EXCEPT ![l] =
                   [@ EXCEPT !.at = "read",
                             !.moves = IF load[l].known = None THEN "add" ELSE "put",
                             !.adds = load[l].resp, !.known = None, !.begins = 0,
                             !.asked = 0, !.resp = {}]]
    /\ skipped' = skipped \cup
                     {r \in Server : load[l].asked < ts[r] /\ ts[r] < load[l].ends}
    /\ UNCHANGED <<kind, now, ts, mark, copies, pages, late, dropped, raced,
                   overlapped>>

\* 'No new data' ends a reload (any load of a page but its first) of the test results
\* and of the security analysis; the rejection of the builds and of the static
\* analysis is returned to nobody.
ReceiveNothing(l) ==
    /\ load[l].at = "answer"
    /\ ~Remembers(l)
    /\ \E isReload \in BOOLEAN :
          load' = [load EXCEPT ![l] =
                      [@ EXCEPT !.at = IF isReload /\ kind \in {"security", "tests"}
                                         THEN "cleanse" ELSE "read",
                                !.known = None, !.begins = 0, !.asked = 0]]
    /\ UNCHANGED <<kind, now, ts, mark, copies, pages, excuses>>

\* Mutant of WriteMark: the save of a changed lastRequest is forgotten.
WriteMarkOnce(l) ==
    /\ load[l].moves # "no"
    /\ mark' = IF mark = None THEN load[l].ends ELSE mark
    /\ load' = [load EXCEPT ![l].moves = "no"]
    /\ UNCHANGED <<kind, now, ts, copies, pages, excuses>>

\* lastRequest.save(), or the add of a row that must not be there.
WriteMark(l) ==
    /\ load[l].moves # "no"
    /\ mark' = IF load[l].moves = "put" \/ mark = None THEN load[l].ends ELSE mark
    /\ load' = [load EXCEPT ![l].moves = "no"]
    /\ UNCHANGED <<kind, now, ts, copies, pages, excuses>>

\* The add of a row gives it a new key: nothing tells that it is there already.
WriteRow(l) ==
    /\ "rows" \notin load[l].clear
    /\ \E r \in load[l].adds :
          /\ copies' = [copies EXCEPT ![r] = IF @ = 0 THEN 1 ELSE 2]
          /\ load' = [load EXCEPT ![l].adds = @ \ {r}]
    /\ UNCHANGED <<kind, now, ts, mark, pages, excuses>>

\* Dexie's between: the lower end belongs to it, the upper does not.
Ninety(l) == load[l].ends - Window
Shows(l) == {r \in Rows : /\ copies[r] > 0
                          /\ Ninety(l) <= ts[r] /\ ts[r] < load[l].ends}

\* Mutant of ReadsNow: the table is read before the answer is added to it.
ReadsEarly(l) ==
    /\ load[l].at = "read"
    /\ "rows" \notin load[l].clear

ReadsNow(l) ==
    /\ load[l].at = "read"
    /\ "rows" \notin load[l].clear
    /\ ~RowsPending

\* The widget shows what is read: setTeamData(Shows(l)).
Read(l) ==
    /\ ReadsNow(l)
    /\ load' = [load EXCEPT ![l] =
                   [@ EXCEPT !.at = "cleanse", !.had = {}]]
    /\ UNCHANGED <<kind, now, ts, mark, copies, pages, excuses>>

\* cleanseData, the last thing a load does; the write of lastRequest may still be
\* pending, and so may the page's clear when the call failed.
Cleanse(l) ==
    /\ load[l].at = "cleanse"
    /\ load[l].clear = {}
    /\ load[l].moves = "no"
    /\ copies' = [r \in Rows |->
                     IF copies[r] > 0 /\ ts[r] < Ninety(l) THEN 0 ELSE copies[r]]
    /\ load' = [load EXCEPT ![l] = Idle]
    /\ UNCHANGED <<kind, now, ts, mark, pages, excuses>>

\* The page is closed or reloaded: what its load has not written is not written.
Close(l) ==
    /\ load[l] # Idle
    /\ pages < MaxPages
    /\ pages' = pages + 1
    /\ load' = [load EXCEPT ![l] = Idle]
    /\ dropped' = dropped \cup load[l].adds
    /\ raced' = (raced \/ load[l].clear # {})
    /\ UNCHANGED <<kind, now, ts, mark, copies, late, skipped,
                   overlapped>>

LoadStep(l) ==
    \/ ClearMark(l) \/ ClearRows(l) \/ Process(l) \/ Look(l) \/ Answer(l) \/ Receive(l)
    \/ ReceiveNothing(l) \/ WriteMark(l) \/ WriteRow(l) \/ Read(l) \/ Cleanse(l)

Next ==
    \/ Tick
    \/ \E r \in Rows, t \in Time : Store(r, t)
    \/ \E l \in Loads : \/ Load(l)
                        \/ LoadWithReset(l)
                        \/ LoadStep(l)
                        \/ Fail(l)
                        \/ Close(l)

Spec == Init /\ [][Next]_vars

----------------------------------------------------------------------------

\* Every variable has its type: a load asks from a moment and remembers one, and the
\* writes it has pending are of rows of its own.
TypeOK ==
    /\ kind \in Kinds
    /\ now \in Time
    /\ ts \in [Rows -> Marks]
    /\ mark \in Marks
    /\ copies \in [Rows -> 0..2]
    /\ load \in [Loads -> LoadStates]
    /\ pages \in 0..MaxPages
    /\ late \in SUBSET Rows
    /\ dropped \in SUBSET Rows
    /\ skipped \in SUBSET Rows
    /\ raced \in BOOLEAN
    /\ overlapped \in BOOLEAN

Held(r) == copies[r] > 0 \/ \E l \in Loads : r \in load[l].adds

NoReset == ~raced /\ \A l \in Loads : load[l].clear = {}

\* Only commits are asked for up to an earlier moment than the one remembered.
Forgone == dropped \cup {r \in skipped : kind = "commits"}

Excused == late \cup Forgone

\* What lastRequest says has been asked is there: the widget never asks again for a
\* row of the last ninety days that it does not hold.
NothingForgotten ==
    NoReset => \A r \in Server \ Excused :
                  mark # None /\ ts[r] < mark /\ now - Window <= ts[r] => Held(r)

\* A load shows every row of the ninety days that the server had when it answered.
AllShown ==
    \A l \in Loads :
        ReadsNow(l) /\ NoReset =>
            \A r \in load[l].had \ Excused :
                ts[r] < load[l].ends /\ now - Window <= ts[r] => r \in Shows(l)

\* The same of the rows that the server stored late.
AllShownWhenever ==
    \A l \in Loads :
        ReadsNow(l) /\ NoReset =>
            \A r \in load[l].had \ Forgone :
                ts[r] < load[l].ends /\ now - Window <= ts[r] => r \in Shows(l)

\* Loads that do not overlap ask for a row once, but for one of the very moment the
\* last request ended.
AskedOnce ==
    [][\A l \in Loads :
          Receive(l) /\ ~overlapped /\ pages = 0 =>
              \A r \in load[l].resp : Held(r) => ts[r] = load[l].begins]_vars

\* A condition that no server ensures: what is stored has happened at that moment.
StoredAtOnce ==
    [][\A r \in Rows : ts[r] = None /\ ts'[r] # None => ts'[r] = now]_vars

==============================================================================
