------------------------ MODULE PipelineView_proofs ------------------------
(***************************************************************************)
(* Theorems about PipelineView for any stages, commits and times.          *)
(***************************************************************************)
EXTENDS PipelineView, TLAPS

TypeOK ==
    /\ entries \in [StageNames -> [Revs -> SUBSET Times]]
    /\ mappings \in [EnvironmentTypes -> Envs \cup {Unmapped}]

\* A response that still stands was built from the pipeline as it is stored.
ResponseCurrent ==
    response # NoResponse =>
        \E c \in CommitMaps, begin, end \in Times :
            response = BuildPipelineResponse(c, mappings, begin, end)

ViewInv == TypeOK /\ ResponseCurrent

\* The invariant of the view holds initially.
LEMMA ViewInit == Init => ViewInv
    BY DEF Init, ViewInv, TypeOK, ResponseCurrent

\* A response stands for the present pipeline, or there is none.
LEMMA ViewStep == ViewInv /\ [Next]_vars => ViewInv'
<1> SUFFICES ASSUME ViewInv, [Next]_vars PROVE ViewInv'
    OBVIOUS
<1>1. ASSUME NEW s \in StageNames, NEW r \in Revs, NEW time \in Times,
             AddCommit(s, r, time)
      PROVE  ViewInv'
    BY <1>1 DEF AddCommit, ViewInv, TypeOK, ResponseCurrent
<1>2. ASSUME NEW t \in EnvironmentTypes, NEW env \in Envs \cup {Unmapped},
             MapEnvironment(t, env)
      PROVE  ViewInv'
    BY <1>2 DEF MapEnvironment, ViewInv, TypeOK, ResponseCurrent
<1>3. ASSUME NEW begin \in Times, NEW end \in Times, Search(begin, end)
      PROVE  ViewInv'
    <2>1. PICK c \in CommitMaps :
             response' = BuildPipelineResponse(c, mappings, begin, end)
        BY <1>3 DEF Search
    <2>2. entries' = entries /\ mappings' = mappings
        BY <1>3 DEF Search
    <2>3. CommitMaps' = CommitMaps
        BY <2>2 DEF CommitMaps
    <2>4. BuildPipelineResponse(c, mappings, begin, end)' =
              BuildPipelineResponse(c, mappings, begin, end)
        BY <2>2
    <2>5. QED
        BY <2>1, <2>2, <2>3, <2>4 DEF ViewInv, TypeOK, ResponseCurrent
<1>4. CASE UNCHANGED vars
    BY <1>4 DEF vars, ViewInv, TypeOK, ResponseCurrent, CommitMaps
<1>5. QED
    BY <1>1, <1>2, <1>3, <1>4 DEF Next

\* Whatever entry of each revision the API happens to show, a revision is in a
\* column of the response's commit map exactly when it has reached the column.
LEMMA InStageReached ==
    ASSUME TypeOK, NEW c \in CommitMaps, NEW t \in Ordinals, NEW r \in Revs
    PROVE  /\ InStage(c, mappings, t, r) <=> t \in Reached(r)
           /\ InStage(c, mappings, t, r) =>
                  StageTime(c, mappings, t, r)
                      \in entries[MappedName(mappings, t)][r]
<1> DEFINE name == MappedName(mappings, t)
<1>1. t \in EnvironmentTypes \/ t = 1 \/ t = 2
    BY ViewAssumption DEF Ordinals, EnvironmentTypes
<1>2. name \in StageNames \cup {Unmapped} /\ Unmapped \notin StageNames
    <2>1. CASE t \in EnvironmentTypes
        BY <2>1, ViewAssumption DEF TypeOK, MappedName, StageNames
    <2>2. CASE t = 1 \/ t = 2
        BY <2>2, ViewAssumption DEF MappedName, StageNames, EnvironmentTypes
    <2>3. QED
        BY <1>1, <2>1, <2>2
<1>3. CASE name = Unmapped
    BY <1>3 DEF InStage, StageTime, Reached
<1>4. CASE name # Unmapped
    <2>1. StageTime(c, mappings, t, r) = c[name][r]
        BY <1>4 DEF StageTime
    <2>2. name \in StageNames
        BY <1>2, <1>4
    <2>3. entries[name][r] \subseteq Times /\ 0 \notin Times
        BY <2>2, ViewAssumption DEF TypeOK
    <2>4. IF entries[name][r] = {} THEN c[name][r] = 0
                                   ELSE c[name][r] \in entries[name][r]
        BY <2>2 DEF CommitMaps
    <2>5. t \in Reached(r) <=> entries[name][r] # {}
        BY <1>4 DEF Reached
    <2>6. QED
        BY <2>1, <2>3, <2>4, <2>5 DEF InStage
<1>5. QED
    BY <1>3, <1>4

\* The revisions of a column are those that stand there.
LEMMA NotPropagatedStands ==
    ASSUME TypeOK, NEW c \in CommitMaps, NEW t \in Ordinals, NEW r \in Revs
    PROVE  r \in NotPropagated(c, mappings, t) <=> Stands(r, t)
<1>1. \A u \in Ordinals : u \in Nat
    BY DEF Ordinals
<1>2. \A u \in Ordinals : InStage(c, mappings, u, r) <=> u \in Reached(r)
    BY InStageReached
<1>3. InLaterStage(c, mappings, t, r) <=> \E u \in Reached(r) : u > t
    BY <1>2 DEF InLaterStage, Reached
<1>4. \A u \in Reached(r) : u <= t <=> ~(u > t)
    BY <1>1 DEF Reached
<1>5. Stands(r, t) <=> t \in Reached(r) /\ ~InLaterStage(c, mappings, t, r)
    BY <1>3, <1>4 DEF Stands
<1>6. QED
    BY <1>2, <1>5 DEF NotPropagated

\* What a response that still stands shows.
LEMMA ResponseShows ==
    ASSUME TypeOK, NEW c \in CommitMaps, NEW begin \in Times, NEW end \in Times,
           response = BuildPipelineResponse(c, mappings, begin, end)
    PROVE  /\ response.dates = begin..end
           /\ \A t \in Ordinals :
                 /\ Shown(t) = Column(c, mappings, t, begin, end)
                 /\ \A r \in Shown(t) :
                       response.stages[t][r][t] = StageTime(c, mappings, t, r)
<1> DEFINE column(t) == [r \in Column(c, mappings, t, begin, end) |->
                            ProcessedTimestamps(c, mappings, r)]
<1>1. response.dates = begin..end /\ response.stages = [t \in Ordinals |-> column(t)]
    BY DEF BuildPipelineResponse
<1>2. ASSUME NEW t \in Ordinals
      PROVE  /\ Shown(t) = Column(c, mappings, t, begin, end)
             /\ \A r \in Shown(t) :
                   response.stages[t][r][t] = StageTime(c, mappings, t, r)
    <2>1. response.stages[t] = column(t)
        BY <1>1
    <2>2. QED
        BY <2>1 DEF Shown, ProcessedTimestamps
<1>3. QED
    BY <1>1, <1>2

\* A search shows a commit in the last column it has reached and in no other.
THEOREM ShownCorrect == Spec => []ShownWhereItStands
<1>1. ASSUME ViewInv, response # NoResponse,
             NEW t \in Ordinals, NEW r \in Shown(t)
      PROVE  /\ Stands(r, t)
             /\ response.stages[t][r][t] \in entries[MappedName(mappings, t)][r]
             /\ t = Prod => response.stages[t][r][t] \in response.dates
    <2>1. PICK c \in CommitMaps, begin \in Times, end \in Times :
             response = BuildPipelineResponse(c, mappings, begin, end)
        BY <1>1 DEF ViewInv, ResponseCurrent
    <2>2. TypeOK
        BY <1>1 DEF ViewInv
    <2>3. /\ response.dates = begin..end
          /\ r \in Column(c, mappings, t, begin, end)
          /\ response.stages[t][r][t] = StageTime(c, mappings, t, r)
        BY <1>1, <2>1, <2>2, ResponseShows
    <2>4. /\ r \in Revs
          /\ r \in NotPropagated(c, mappings, t)
          /\ t = Prod => StageTime(c, mappings, t, r) \in begin..end
        BY <1>1, <2>3 DEF Column, NotPropagated, ProcessedTimestamps
    <2>5. Stands(r, t) /\ InStage(c, mappings, t, r)
        BY <1>1, <2>2, <2>4, NotPropagatedStands DEF NotPropagated
    <2>6. QED
        BY <1>1, <2>2, <2>3, <2>4, <2>5, InStageReached
<1>2. ViewInv => ShownWhereItStands
    BY <1>1 DEF ShownWhereItStands
<1>3. QED
    BY <1>2, ViewInit, ViewStep, PTL DEF Spec

\* A search leaves out only what came to Prod outside its dates.
THEOREM NothingLeftOut == Spec => []NoCommitLeftOut
<1>1. ASSUME ViewInv, response # NoResponse, NEW r \in Revs, NEW t \in Ordinals,
             Stands(r, t), r \notin Shown(t)
      PROVE  /\ t = Prod
             /\ ~(entries[MappedName(mappings, t)][r] \subseteq response.dates)
    <2>1. PICK c \in CommitMaps, begin \in Times, end \in Times :
             response = BuildPipelineResponse(c, mappings, begin, end)
        BY <1>1 DEF ViewInv, ResponseCurrent
    <2>2. TypeOK
        BY <1>1 DEF ViewInv
    <2>3. /\ response.dates = begin..end
          /\ r \notin Column(c, mappings, t, begin, end)
        BY <1>1, <2>1, <2>2, ResponseShows
    <2>4. r \in NotPropagated(c, mappings, t)
        BY <1>1, <2>2, NotPropagatedStands
    <2>5. t = Prod /\ StageTime(c, mappings, t, r) \notin begin..end
        BY <1>1, <2>3, <2>4 DEF Column, ProcessedTimestamps
    <2>6. StageTime(c, mappings, t, r) \in entries[MappedName(mappings, t)][r]
        BY <1>1, <2>2, InStageReached DEF Stands
    <2>7. QED
        BY <2>3, <2>5, <2>6
<1>2. ViewInv => NoCommitLeftOut
    BY <1>1 DEF NoCommitLeftOut
<1>3. QED
    BY <1>2, ViewInit, ViewStep, PTL DEF Spec
=============================================================================
