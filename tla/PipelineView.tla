---------------------------- MODULE PipelineView ----------------------------
(***************************************************************************)
(* The pipeline as the API shows it (api/PipelineServiceImpl.java): a      *)
(* column per stage type, a commit in the column of the last stage it has  *)
(* reached.  Environment stages are the environments a dashboard's         *)
(* pipeline widget maps to the stage types after Build.                    *)
(*                                                                         *)
(* A stage holds entries of a revision and the time it came in.  A         *)
(* revision that came in more than once has several entries, of which the  *)
(* API shows the one that the loaded set happens to list last.             *)
(***************************************************************************)
EXTENDS Naturals, Sequences

CONSTANTS
    Revs,       \* SCM revision numbers
    Envs,       \* environment names
    Times,      \* timestamps
    StageTypes, \* the values of PipelineStageType in the order of the enum
    Unmapped,   \* a stage type without an environment
    NoResponse

ASSUME ViewAssumption == /\ StageTypes \in Seq(STRING)
                         /\ Len(StageTypes) > 2
                         /\ StageTypes[1] = "Commit" /\ StageTypes[2] = "Build"
                         /\ Times \subseteq Nat \ {0}
                         /\ Unmapped \notin Envs \cup {"Commit", "Build"}
                         /\ {"Commit", "Build"} \cap Envs = {}

VARIABLES
    entries,   \* the entries of each stage of the pipeline document
    mappings,  \* the pipeline widget's mappings
    response   \* the answer to the last search, while nothing has changed

vars == <<entries, mappings, response>>

\* Commit and Build come first, Prod is the last.
Ordinals == 1..Len(StageTypes)
Prod == Len(StageTypes)
EnvironmentTypes == 3..Len(StageTypes)

StageNames == {"Commit", "Build"} \cup Envs

Init ==
    /\ entries = [s \in StageNames |-> [r \in Revs |-> {}]]
    /\ mappings = [t \in EnvironmentTypes |-> Unmapped]
    /\ response = NoResponse
-----------------------------------------------------------------------------
\* The stage that a column shows.
MappedName(m, t) == IF t \in EnvironmentTypes THEN m[t] ELSE StageTypes[t]

\* getCommitsByStage: the time shown for a revision of a stage, 0 when it is not
\* there.
CommitMaps ==
    {c \in [StageNames -> [Revs -> Times \cup {0}]] :
        \A s \in StageNames, r \in Revs :
            IF entries[s][r] = {} THEN c[s][r] = 0 ELSE c[s][r] \in entries[s][r]}

\* findCommitsForPipelineStageType: the time a revision came into a column.
StageTime(c, m, t, r) ==
    IF MappedName(m, t) = Unmapped THEN 0 ELSE c[MappedName(m, t)][r]

InStage(c, m, t, r) == StageTime(c, m, t, r) # 0

\* Mutant: only the next column is looked at.
InNextStage(c, m, t, r) == t + 1 \in Ordinals /\ InStage(c, m, t + 1, r)

InLaterStage(c, m, t, r) == \E u \in Ordinals : u > t /\ InStage(c, m, u, r)

\* findNotPropagatedCommits
NotPropagated(c, m, t) ==
    {r \in Revs : InStage(c, m, t, r) /\ ~InLaterStage(c, m, t, r)}

\* applyStageTimestamps
ProcessedTimestamps(c, m, r) == [t \in Ordinals |-> StageTime(c, m, t, r)]

\* Mutant: the dates filter every column.
DatedColumn(c, m, t, begin, end) ==
    {r \in NotPropagated(c, m, t) :
        ProcessedTimestamps(c, m, r)[t] \in begin..end}

\* The dates filter the Prod column only.
Column(c, m, t, begin, end) ==
    {r \in NotPropagated(c, m, t) :
        t = Prod => ProcessedTimestamps(c, m, r)[t] \in begin..end}

BuildPipelineResponse(c, m, begin, end) ==
    [stages   |-> [t \in Ordinals |->
                      [r \in Column(c, m, t, begin, end) |->
                          ProcessedTimestamps(c, m, r)]],
     unmapped |-> {t \in EnvironmentTypes : m[t] = Unmapped},
     dates    |-> begin..end]
-----------------------------------------------------------------------------
\* A listener adds a commit to a stage.
AddCommit(s, r, time) ==
    /\ entries' = [entries EXCEPT ![s][r] = @ \cup {time}]
    /\ response' = NoResponse
    /\ UNCHANGED mappings

\* The user maps a stage type to an environment, or to none.
MapEnvironment(t, env) ==
    /\ mappings' = [mappings EXCEPT ![t] = env]
    /\ response' = NoResponse
    /\ UNCHANGED entries

Search(begin, end) ==
    /\ \E c \in CommitMaps :
          response' = BuildPipelineResponse(c, mappings, begin, end)
    /\ UNCHANGED <<entries, mappings>>

Next ==
    \/ \E s \in StageNames, r \in Revs, time \in Times : AddCommit(s, r, time)
    \/ \E t \in EnvironmentTypes, env \in Envs \cup {Unmapped} :
           MapEnvironment(t, env)
    \/ \E begin, end \in Times : Search(begin, end)

Spec == Init /\ [][Next]_vars
-----------------------------------------------------------------------------
\* What the stored pipeline says of the columns a revision has reached.
Reached(r) ==
    {t \in Ordinals : /\ MappedName(mappings, t) # Unmapped
                      /\ entries[MappedName(mappings, t)][r] # {}}

Shown(t) == DOMAIN response.stages[t]

\* The last column that a revision has reached.
Stands(r, t) == t \in Reached(r) /\ \A u \in Reached(r) : u <= t

\* A search shows a commit in the last column that it has reached and in no
\* other, with the time of one of its entries, and in Prod only within the dates
\* (PipelineServiceImpl.java:70-89, 198-211).
ShownWhereItStands ==
    response # NoResponse =>
        \A t \in Ordinals : \A r \in Shown(t) :
            LET time == response.stages[t][r][t]
            IN  /\ Stands(r, t)
                /\ time \in entries[MappedName(mappings, t)][r]
                /\ t = Prod => time \in response.dates

\* No commit that has reached a column is left out, but for one that came to
\* Prod at a time outside the dates of the search
\* (PipelineServiceImpl.java:78-88).
NoCommitLeftOut ==
    response # NoResponse =>
        \A r \in Revs, t \in Ordinals :
            Stands(r, t) =>
                \/ r \in Shown(t)
                \/ /\ t = Prod
                   /\ ~(entries[MappedName(mappings, t)][r]
                            \subseteq response.dates)
=============================================================================
