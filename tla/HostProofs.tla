----------------------------- MODULE HostProofs -----------------------------
(***************************************************************************)
(* Proofs about the host, for any number of components and any finite set  *)
(* of requests, and that it implements HostLifecycle: the inductive        *)
(* invariant says which state of the lifecycle each state of the host is.  *)
(***************************************************************************)
EXTENDS HostRefinement, FiniteSetTheorems, TLAPS

\* The component loop is bounded by a natural number.
LEMMA NType == N \in Nat
  BY HostAssumption DEF HostAssumption

\* The types of the cells that Run owns, of the cells of the drain, of the
\* server, and of the requests: a step touches few of the four.
MainOK ==
  /\ pc \in MainSteps
  /\ cur \in 1 .. N + 1
  /\ comp \in [Components -> {"new", "up", "failed", "down"}]
  /\ faults \subseteq FaultTags
  /\ failed \subseteq FaultTags
DrainOK == inFlight \in Nat
FlagsOK ==
  /\ ran \in BOOLEAN
  /\ open \in BOOLEAN
  /\ draining \in BOOLEAN
  /\ idle \in BOOLEAN
  /\ done \in BOOLEAN
  /\ warned \in BOOLEAN
NetOK ==
  /\ serving \in {"empty", "closed", "fault"}
  /\ listener \in {"unbound", "open", "closed"}
  /\ grace \in {"off", "ticking", "expired"}
ReqOK ==
  /\ at \in [Requests -> Stages]
  /\ conn \in [Requests -> {"none", "open", "cut", "closed"}]
  /\ code \in [Requests -> {0, 200, 503}]
  /\ late \subseteq Requests

\* The four parts are the type invariant.
LEMMA TypeParts == TypeOK <=> MainOK /\ DrainOK /\ FlagsOK /\ NetOK /\ ReqOK
  BY Zenon DEF TypeOK, MainOK, DrainOK, FlagsOK, NetOK, ReqOK

\* The flags stay Boolean.
LEMMA FlagsStep == FlagsOK /\ [Next]_vars => FlagsOK'
<1> SUFFICES ASSUME FlagsOK, [Next]_vars PROVE FlagsOK'
  OBVIOUS
<1> USE Zenon DEF FlagsOK, mainVars, drainVars, netVars, reqVars
<1>1. CASE Run
  BY <1>1 DEF Run, Validate, Go, Fail
<1>2. CASE RunChecks
  BY <1>2 DEF RunChecks, Go, Fail
<1>3. CASE Migrate
  BY <1>3 DEF Migrate, Go, Fail
<1>4. CASE Bind
  BY <1>4 DEF Bind, Go, Fail
<1>5. CASE StartComponent
  BY <1>5 DEF StartComponent, Go, Fail
<1>6. CASE OpenGate
  BY <1>6 DEF OpenGate, Go
<1>7. CASE CloseGate
  BY <1>7 DEF CloseGate, Go
<1>8. CASE DrainStore
  BY <1>8 DEF DrainStore, Go
<1>9. CASE DrainLoad
  BY <1>9 DEF DrainLoad, Go
<1>10. CASE DrainIdle
  BY <1>10 DEF DrainIdle, Go
<1>11. CASE DrainExpired
  BY <1>11 DEF DrainExpired, Close, Go
<1>12. CASE NetShutdown
  BY <1>12 DEF NetShutdown, Go
<1>13. CASE NetShutdownExpired
  BY <1>13 DEF NetShutdownExpired, Close, Go
<1>14. CASE StopComponent
  BY <1>14 DEF StopComponent, Go, Fail
<1>15. CASE Return
  BY <1>15 DEF Return, Go
<1>16. CASE Signal
  BY <1>16 DEF Signal
<1>17. CASE ServeFails
  BY <1>17 DEF ServeFails
<1>18. CASE GraceExpires
  BY <1>18 DEF GraceExpires
<1>19. ASSUME NEW r \in Requests, Accept(r) PROVE FlagsOK'
  BY <1>19 DEF Accept
<1>20. ASSUME NEW r \in Requests, Enter(r) PROVE FlagsOK'
  BY <1>20 DEF Enter
<1>21. ASSUME NEW r \in Requests, Handle(r) PROVE FlagsOK'
  BY <1>21 DEF Handle
<1>22. ASSUME NEW r \in Requests, ReadyzGate(r) PROVE FlagsOK'
  BY <1>22 DEF ReadyzGate
<1>23. ASSUME NEW r \in Requests, ReadyzComponents(r) PROVE FlagsOK'
  BY <1>23 DEF ReadyzComponents
<1>24. ASSUME NEW r \in Requests, Leave(r) PROVE FlagsOK'
  BY <1>24 DEF Leave
<1>25. ASSUME NEW r \in Requests, MarkIdle(r) PROVE FlagsOK'
  BY <1>25 DEF MarkIdle
<1>26. ASSUME NEW r \in Requests, Finish(r) PROVE FlagsOK'
  BY <1>26 DEF Finish
<1>27. CASE UNCHANGED vars
  BY <1>27 DEF vars
<1> QED
  BY <1>1, <1>2, <1>3, <1>4, <1>5, <1>6, <1>7, <1>8, <1>9, <1>10, <1>11,
     <1>12, <1>13, <1>14, <1>15, <1>16, <1>17, <1>18, <1>19, <1>20, <1>21,
     <1>22, <1>23, <1>24, <1>25, <1>26, <1>27 DEF Next, Main, Serve, Rest

\* The cells of Run keep their types.
LEMMA MainStep == MainOK /\ [Next]_vars => MainOK'
<1> SUFFICES ASSUME MainOK, [Next]_vars PROVE MainOK'
  OBVIOUS
<1> USE NType DEF MainOK, MainSteps, Components, FaultTags, mainVars, drainVars, netVars, reqVars
<1>1. CASE Run
  BY <1>1 DEF Run, Validate, Go, Fail
<1>2. CASE RunChecks
  BY <1>2 DEF RunChecks, Go, Fail
<1>3. CASE Migrate
  BY <1>3 DEF Migrate, Go, Fail
<1>4. CASE Bind
  BY <1>4 DEF Bind, Go, Fail
<1>5. CASE StartComponent
  BY <1>5 DEF StartComponent, Go, Fail
<1>6. CASE OpenGate
  BY <1>6 DEF OpenGate, Go
<1>7. CASE CloseGate
  BY <1>7 DEF CloseGate, Go
<1>8. CASE DrainStore
  BY <1>8 DEF DrainStore, Go
<1>9. CASE DrainLoad
  BY <1>9 DEF DrainLoad, Go
<1>10. CASE DrainIdle
  BY <1>10 DEF DrainIdle, Go
<1>11. CASE DrainExpired
  BY <1>11 DEF DrainExpired, Close, Go
<1>12. CASE NetShutdown
  BY <1>12 DEF NetShutdown, Go
<1>13. CASE NetShutdownExpired
  BY <1>13 DEF NetShutdownExpired, Close, Go
<1>14. CASE StopComponent
  BY <1>14 DEF StopComponent, Go, Fail
<1>15. CASE Return
  BY <1>15 DEF Return, Go
<1>16. CASE Signal
  BY <1>16 DEF Signal
<1>17. CASE ServeFails
  BY <1>17 DEF ServeFails
<1>18. CASE GraceExpires
  BY <1>18 DEF GraceExpires
<1>19. ASSUME NEW r \in Requests, Accept(r) PROVE MainOK'
  BY <1>19 DEF Accept
<1>20. ASSUME NEW r \in Requests, Enter(r) PROVE MainOK'
  BY <1>20 DEF Enter
<1>21. ASSUME NEW r \in Requests, Handle(r) PROVE MainOK'
  BY <1>21 DEF Handle
<1>22. ASSUME NEW r \in Requests, ReadyzGate(r) PROVE MainOK'
  BY <1>22 DEF ReadyzGate
<1>23. ASSUME NEW r \in Requests, ReadyzComponents(r) PROVE MainOK'
  BY <1>23 DEF ReadyzComponents
<1>24. ASSUME NEW r \in Requests, Leave(r) PROVE MainOK'
  BY <1>24 DEF Leave
<1>25. ASSUME NEW r \in Requests, MarkIdle(r) PROVE MainOK'
  BY <1>25 DEF MarkIdle
<1>26. ASSUME NEW r \in Requests, Finish(r) PROVE MainOK'
  BY <1>26 DEF Finish
<1>27. CASE UNCHANGED vars
  BY <1>27 DEF vars
<1> QED
  BY <1>1, <1>2, <1>3, <1>4, <1>5, <1>6, <1>7, <1>8, <1>9, <1>10, <1>11,
     <1>12, <1>13, <1>14, <1>15, <1>16, <1>17, <1>18, <1>19, <1>20, <1>21,
     <1>22, <1>23, <1>24, <1>25, <1>26, <1>27 DEF Next, Main, Serve, Rest

\* The cells of the server keep their types.
LEMMA NetStep == NetOK /\ [Next]_vars => NetOK'
<1> SUFFICES ASSUME NetOK, [Next]_vars PROVE NetOK'
  OBVIOUS
<1> USE DEF NetOK, mainVars, drainVars, netVars, reqVars
<1>1. CASE Run
  BY <1>1 DEF Run, Validate, Go, Fail
<1>2. CASE RunChecks
  BY <1>2 DEF RunChecks, Go, Fail
<1>3. CASE Migrate
  BY <1>3 DEF Migrate, Go, Fail
<1>4. CASE Bind
  BY <1>4 DEF Bind, Go, Fail
<1>5. CASE StartComponent
  BY <1>5 DEF StartComponent, Go, Fail
<1>6. CASE OpenGate
  BY <1>6 DEF OpenGate, Go
<1>7. CASE CloseGate
  BY <1>7 DEF CloseGate, Go
<1>8. CASE DrainStore
  BY <1>8 DEF DrainStore, Go
<1>9. CASE DrainLoad
  BY <1>9 DEF DrainLoad, Go
<1>10. CASE DrainIdle
  BY <1>10 DEF DrainIdle, Go
<1>11. CASE DrainExpired
  BY <1>11 DEF DrainExpired, Close, Go
<1>12. CASE NetShutdown
  BY <1>12 DEF NetShutdown, Go
<1>13. CASE NetShutdownExpired
  BY <1>13 DEF NetShutdownExpired, Close, Go
<1>14. CASE StopComponent
  BY <1>14 DEF StopComponent, Go, Fail
<1>15. CASE Return
  BY <1>15 DEF Return, Go
<1>16. CASE Signal
  BY <1>16 DEF Signal
<1>17. CASE ServeFails
  BY <1>17 DEF ServeFails
<1>18. CASE GraceExpires
  BY <1>18 DEF GraceExpires
<1>19. ASSUME NEW r \in Requests, Accept(r) PROVE NetOK'
  BY <1>19 DEF Accept
<1>20. ASSUME NEW r \in Requests, Enter(r) PROVE NetOK'
  BY <1>20 DEF Enter
<1>21. ASSUME NEW r \in Requests, Handle(r) PROVE NetOK'
  BY <1>21 DEF Handle
<1>22. ASSUME NEW r \in Requests, ReadyzGate(r) PROVE NetOK'
  BY <1>22 DEF ReadyzGate
<1>23. ASSUME NEW r \in Requests, ReadyzComponents(r) PROVE NetOK'
  BY <1>23 DEF ReadyzComponents
<1>24. ASSUME NEW r \in Requests, Leave(r) PROVE NetOK'
  BY <1>24 DEF Leave
<1>25. ASSUME NEW r \in Requests, MarkIdle(r) PROVE NetOK'
  BY <1>25 DEF MarkIdle
<1>26. ASSUME NEW r \in Requests, Finish(r) PROVE NetOK'
  BY <1>26 DEF Finish
<1>27. CASE UNCHANGED vars
  BY <1>27 DEF vars
<1> QED
  BY <1>1, <1>2, <1>3, <1>4, <1>5, <1>6, <1>7, <1>8, <1>9, <1>10, <1>11,
     <1>12, <1>13, <1>14, <1>15, <1>16, <1>17, <1>18, <1>19, <1>20, <1>21,
     <1>22, <1>23, <1>24, <1>25, <1>26, <1>27 DEF Next, Main, Serve, Rest

\* The requests keep their types.
LEMMA ReqStep == ReqOK /\ [Next]_vars => ReqOK'
<1> SUFFICES ASSUME ReqOK, [Next]_vars PROVE ReqOK'
  OBVIOUS
<1> USE DEF ReqOK, Stages, Counted, mainVars, drainVars, netVars, reqVars
<1>1. CASE Run
  BY <1>1 DEF Run, Validate, Go, Fail
<1>2. CASE RunChecks
  BY <1>2 DEF RunChecks, Go, Fail
<1>3. CASE Migrate
  BY <1>3 DEF Migrate, Go, Fail
<1>4. CASE Bind
  BY <1>4 DEF Bind, Go, Fail
<1>5. CASE StartComponent
  BY <1>5 DEF StartComponent, Go, Fail
<1>6. CASE OpenGate
  BY <1>6 DEF OpenGate, Go
<1>7. CASE CloseGate
  BY <1>7 DEF CloseGate, Go
<1>8. CASE DrainStore
  BY <1>8 DEF DrainStore, Go
<1>9. CASE DrainLoad
  BY <1>9 DEF DrainLoad, Go
<1>10. CASE DrainIdle
  BY <1>10 DEF DrainIdle, Go
<1>11. CASE DrainExpired
  BY <1>11 DEF DrainExpired, Close, Go
<1>12. CASE NetShutdown
  BY <1>12 DEF NetShutdown, Go
<1>13. CASE NetShutdownExpired
  BY <1>13 DEF NetShutdownExpired, Close, Go
<1>14. CASE StopComponent
  BY <1>14 DEF StopComponent, Go, Fail
<1>15. CASE Return
  BY <1>15 DEF Return, Go
<1>16. CASE Signal
  BY <1>16 DEF Signal
<1>17. CASE ServeFails
  BY <1>17 DEF ServeFails
<1>18. CASE GraceExpires
  BY <1>18 DEF GraceExpires
<1>19. ASSUME NEW r \in Requests, Accept(r) PROVE ReqOK'
  BY <1>19 DEF Accept
<1>20. ASSUME NEW r \in Requests, Enter(r) PROVE ReqOK'
  BY <1>20 DEF Enter
<1>21. ASSUME NEW r \in Requests, Handle(r) PROVE ReqOK'
  BY <1>21 DEF Handle
<1>22. ASSUME NEW r \in Requests, ReadyzGate(r) PROVE ReqOK'
  BY <1>22 DEF ReadyzGate
<1>23. ASSUME NEW r \in Requests, ReadyzComponents(r) PROVE ReqOK'
  BY <1>23 DEF ReadyzComponents
<1>24. ASSUME NEW r \in Requests, Leave(r) PROVE ReqOK'
  BY <1>24 DEF Leave
<1>25. ASSUME NEW r \in Requests, MarkIdle(r) PROVE ReqOK'
  BY <1>25 DEF MarkIdle
<1>26. ASSUME NEW r \in Requests, Finish(r) PROVE ReqOK'
  BY <1>26 DEF Finish
<1>27. CASE UNCHANGED vars
  BY <1>27 DEF vars
<1> QED
  BY <1>1, <1>2, <1>3, <1>4, <1>5, <1>6, <1>7, <1>8, <1>9, <1>10, <1>11,
     <1>12, <1>13, <1>14, <1>15, <1>16, <1>17, <1>18, <1>19, <1>20, <1>21,
     <1>22, <1>23, <1>24, <1>25, <1>26, <1>27 DEF Next, Main, Serve, Rest

\* Only the requests and track move the count: Run and its environment leave
\* both alone.
LEMMA CountFrame ==
  ASSUME Main \/ Signal \/ ServeFails \/ GraceExpires \/ UNCHANGED vars
  PROVE  UNCHANGED <<at, inFlight, code, late>>
<1> USE DEF mainVars, drainVars, netVars, reqVars
<1>1. ASSUME Main PROVE UNCHANGED <<at, inFlight, code, late>>
  BY <1>1 DEF Main, Run, RunChecks, Migrate, Bind, StartComponent, OpenGate, CloseGate,
     DrainStore, DrainLoad, DrainIdle, DrainExpired, NetShutdown, NetShutdownExpired,
     StopComponent, Return
<1>2. ASSUME Signal \/ ServeFails \/ GraceExpires \/ UNCHANGED vars
      PROVE  UNCHANGED <<at, inFlight, code, late>>
  BY <1>2 DEF Signal, ServeFails, GraceExpires, vars
<1> QED
  BY <1>1, <1>2

\* The requests inside a handler can be counted.
LEMMA InsideFinite == IsFiniteSet(Inside) /\ Cardinality(Inside) \in Nat
<1>1. Inside \subseteq Requests /\ IsFiniteSet(Requests)
  BY HostAssumption DEF HostAssumption, Inside
<1> QED
  BY <1>1, FS_Subset, FS_CardinalityType

\* A request that stays on its side of track leaves the count alone.
LEMMA SameSide ==
  ASSUME NEW r \in Requests, NEW s, ReqOK,
         at' = [at EXCEPT ![r] = s],
         at[r] \in Counted <=> s \in Counted
  PROVE  Inside' = Inside
  BY DEF ReqOK, Inside

\* inFlight counts the requests inside.
LEMMA CountStep ==
  ReqOK /\ DrainOK /\ InFlightCounts /\ [Next]_vars => (DrainOK /\ InFlightCounts)'
<1> SUFFICES ASSUME ReqOK, DrainOK, InFlightCounts, [Next]_vars
             PROVE  DrainOK' /\ InFlightCounts'
  OBVIOUS
<1> USE DEF DrainOK, InFlightCounts
<1>1. ASSUME Main \/ Signal \/ ServeFails \/ GraceExpires \/ UNCHANGED vars
      PROVE  DrainOK' /\ InFlightCounts'
  BY <1>1, CountFrame DEF Inside
<1>2. ASSUME NEW r \in Requests,
             Accept(r) \/ Handle(r) \/ ReadyzGate(r) \/ ReadyzComponents(r)
               \/ MarkIdle(r) \/ Finish(r)
      PROVE  DrainOK' /\ InFlightCounts'
  <2>1. inFlight' = inFlight
    BY <1>2 DEF Accept, Handle, ReadyzGate, ReadyzComponents, MarkIdle, Finish, drainVars
  <2>2. PICK s \in Stages : /\ at' = [at EXCEPT ![r] = s]
                            /\ at[r] \in Counted <=> s \in Counted
    BY <1>2 DEF Accept, Handle, ReadyzGate, ReadyzComponents, MarkIdle, Finish, Stages, Counted
  <2>3. Inside' = Inside
    BY <2>2, SameSide
  <2> QED
    BY <2>1, <2>3
<1>3. ASSUME NEW r \in Requests, Enter(r) PROVE DrainOK' /\ InFlightCounts'
  <2>1. inFlight' = inFlight + 1
    BY <1>3 DEF Enter
  <2>2. r \notin Inside /\ Inside' = Inside \cup {r}
    BY <1>3 DEF Enter, Inside, Counted, ReqOK
  <2>3. Cardinality(Inside \cup {r}) = Cardinality(Inside) + 1
    BY <2>2, InsideFinite, FS_AddElement
  <2> QED
    BY <2>1, <2>2, <2>3
<1>4. ASSUME NEW r \in Requests, Leave(r) PROVE DrainOK' /\ InFlightCounts'
  <2>1. inFlight' = inFlight - 1
    BY <1>4 DEF Leave
  <2>2. r \in Inside /\ Inside' = Inside \ {r}
    BY <1>4 DEF Leave, Inside, Counted, ReqOK
  <2>3. Cardinality(Inside \ {r}) = Cardinality(Inside) - 1
    BY <2>2, InsideFinite, FS_RemoveElement
  <2>4. IsFiniteSet(Inside \ {r})
    BY InsideFinite, FS_Subset
  <2>5. Cardinality(Inside \ {r}) \in Nat
    BY <2>4, FS_CardinalityType
  <2> QED
    BY <2>1, <2>2, <2>3, <2>5
<1> QED
  BY <1>1, <1>2, <1>3, <1>4 DEF Next, Serve, Rest

\* A host that is new has every cell in its type and counts nobody.
LEMMA InitOK == Init => TypeOK /\ InFlightCounts
<1> SUFFICES ASSUME Init PROVE TypeOK /\ InFlightCounts
  OBVIOUS
<1>1. MainOK /\ DrainOK /\ NetOK /\ ReqOK
  BY NType DEF Init, MainOK, DrainOK, NetOK, ReqOK, MainSteps, Stages
<1>2. FlagsOK
  BY Zenon DEF Init, FlagsOK
<1>3. Inside = {}
  BY DEF Init, Inside, Counted
<1>4. InFlightCounts
  BY <1>3, FS_EmptySet DEF Init, InFlightCounts
<1> QED
  BY <1>1, <1>2, <1>4, TypeParts

\* Every variable of the host keeps its type, and inFlight counts the requests
\* inside a handler.  The two are one induction: the count cannot go below zero
\* because the request that leaves is one of those it counts.
LEMMA TypeAndCount == Spec => [](TypeOK /\ InFlightCounts)
<1>1. TypeOK /\ InFlightCounts /\ [Next]_vars => (TypeOK /\ InFlightCounts)'
  <2> SUFFICES ASSUME TypeOK, InFlightCounts, [Next]_vars
               PROVE  TypeOK' /\ InFlightCounts'
    OBVIOUS
  <2>1. MainOK' /\ FlagsOK' /\ NetOK' /\ ReqOK'
    BY TypeParts, MainStep, FlagsStep, NetStep, ReqStep
  <2>2. DrainOK' /\ InFlightCounts'
    BY TypeParts, CountStep
  <2> QED
    BY <2>1, <2>2, TypeParts, Zenon DEF TypeOK, MainOK, DrainOK, FlagsOK, NetOK, ReqOK
<1> QED
  BY InitOK, <1>1, PTL DEF Spec

\* Every variable of the host keeps its type, for any number of components and
\* any finite set of requests.
THEOREM HostTypeCorrect == Spec => []TypeOK
  BY TypeAndCount, PTL

\* The counter of track is exact: no panic, no probe and no order of the
\* requests makes inFlight drift.
THEOREM InFlightExact == Spec => []InFlightCounts
  BY TypeAndCount, PTL

-----------------------------------------------------------------------------
(* The safety of the shutdown. *)

\* Only Run moves its own cells, and only Start and Stop move a component.
LEMMA EnvFrame ==
  ASSUME [Next]_vars, ~Main
  PROVE  UNCHANGED <<pc, cur, comp, faults, ran, open>>
<1> USE DEF mainVars
<1>1. ASSUME NEW r \in Requests, Accept(r) PROVE UNCHANGED <<pc, cur, comp, faults, ran, open>>
  BY <1>1 DEF Accept
<1>2. ASSUME NEW r \in Requests, Serve(r) PROVE UNCHANGED <<pc, cur, comp, faults, ran, open>>
  BY <1>2 DEF Serve, Enter, Handle, ReadyzGate, ReadyzComponents, Leave, MarkIdle, Finish
<1>3. ASSUME Signal \/ ServeFails \/ GraceExpires
      PROVE  UNCHANGED <<pc, cur, comp, faults, ran, open>>
  BY <1>3 DEF Signal, ServeFails, GraceExpires
<1>4. CASE UNCHANGED vars
  BY <1>4 DEF vars
<1> QED
  BY <1>1, <1>2, <1>3, <1>4 DEF Next, Rest

\* The loops of start and shutdown walk the components one by one.
LEMMA UpStep == MainOK /\ UpIsBelowCur /\ [Next]_vars => UpIsBelowCur'
<1> SUFFICES ASSUME MainOK, UpIsBelowCur, [Next]_vars PROVE UpIsBelowCur'
  OBVIOUS
<1> USE NType DEF MainOK, UpIsBelowCur, Components
<1>1. CASE Run
  BY <1>1 DEF Run, Validate, Go, Fail
<1>2. CASE RunChecks
  BY <1>2 DEF RunChecks, Go, Fail
<1>3. CASE Migrate
  BY <1>3 DEF Migrate, Go, Fail
<1>4. CASE Bind
  BY <1>4 DEF Bind, Go, Fail
<1>5. CASE StartComponent
  BY <1>5 DEF StartComponent, Go, Fail
<1>6. CASE OpenGate
  BY <1>6 DEF OpenGate, Go
<1>7. CASE CloseGate
  BY <1>7 DEF CloseGate, Go
<1>8. CASE DrainStore
  BY <1>8 DEF DrainStore, Go
<1>9. CASE DrainLoad
  BY <1>9 DEF DrainLoad, Go
<1>10. CASE DrainIdle
  BY <1>10 DEF DrainIdle, Go
<1>11. CASE DrainExpired
  BY <1>11 DEF DrainExpired, Close, Go
<1>12. CASE NetShutdown
  BY <1>12 DEF NetShutdown, Go
<1>13. CASE NetShutdownExpired
  BY <1>13 DEF NetShutdownExpired, Close, Go
<1>14. CASE StopComponent
  BY <1>14 DEF StopComponent, Go, Fail
<1>15. CASE Return
  BY <1>15 DEF Return, Go
<1>16. CASE ~Main
  BY <1>16, EnvFrame
<1> QED
  BY <1>1, <1>2, <1>3, <1>4, <1>5, <1>6, <1>7, <1>8, <1>9, <1>10, <1>11, <1>12,
     <1>13, <1>14, <1>15, <1>16 DEF Main

\* Where Run is bounds the loop counter and the components that are down.
LEMMA RunStep == MainOK /\ UpIsBelowCur /\ RunShape /\ [Next]_vars => RunShape'
<1> SUFFICES ASSUME MainOK, UpIsBelowCur, RunShape, [Next]_vars PROVE RunShape'
  OBVIOUS
<1> USE NType DEF MainOK, UpIsBelowCur, RunShape, Components
<1>1. CASE Run
  BY <1>1 DEF Run, Validate, Go, Fail
<1>2. CASE RunChecks
  BY <1>2 DEF RunChecks, Go, Fail
<1>3. CASE Migrate
  BY <1>3 DEF Migrate, Go, Fail
<1>4. CASE Bind
  BY <1>4 DEF Bind, Go, Fail
<1>5. CASE StartComponent
  BY <1>5 DEF StartComponent, Go, Fail
<1>6. CASE OpenGate
  BY <1>6 DEF OpenGate, Go
<1>7. CASE CloseGate
  BY <1>7 DEF CloseGate, Go
<1>8. CASE DrainStore
  BY <1>8 DEF DrainStore, Go
<1>9. CASE DrainLoad
  BY <1>9 DEF DrainLoad, Go
<1>10. CASE DrainIdle
  BY <1>10 DEF DrainIdle, Go
<1>11. CASE DrainExpired
  BY <1>11 DEF DrainExpired, Close, Go
<1>12. CASE NetShutdown
  BY <1>12 DEF NetShutdown, Go
<1>13. CASE NetShutdownExpired
  BY <1>13 DEF NetShutdownExpired, Close, Go
<1>14. CASE StopComponent
  BY <1>14 DEF StopComponent, Go, Fail
<1>15. CASE Return
  BY <1>15 DEF Return, Go
<1>16. CASE ~Main
  BY <1>16, EnvFrame
<1> QED
  BY <1>1, <1>2, <1>3, <1>4, <1>5, <1>6, <1>7, <1>8, <1>9, <1>10, <1>11, <1>12,
     <1>13, <1>14, <1>15, <1>16 DEF Main

\* The drain begins where Run says so.
LEMMA DrainStep == MainOK /\ FlagsOK /\ NetOK /\ RunShape /\ DrainShape /\ [Next]_vars => DrainShape'
<1> SUFFICES ASSUME MainOK, FlagsOK, NetOK, RunShape, DrainShape, [Next]_vars PROVE DrainShape'
  OBVIOUS
<1> USE DEF MainOK, FlagsOK, NetOK, RunShape, DrainShape, mainVars, drainVars, netVars, reqVars
<1>1. CASE Run
  BY <1>1 DEF Run, Validate, Go, Fail
<1>2. CASE RunChecks
  BY <1>2 DEF RunChecks, Go, Fail
<1>3. CASE Migrate
  BY <1>3 DEF Migrate, Go, Fail
<1>4. CASE Bind
  BY <1>4 DEF Bind, Go, Fail
<1>5. CASE StartComponent
  BY <1>5 DEF StartComponent, Go, Fail
<1>6. CASE OpenGate
  BY <1>6 DEF OpenGate, Go
<1>7. CASE CloseGate
  BY <1>7 DEF CloseGate, Go
<1>8. CASE DrainStore
  BY <1>8 DEF DrainStore, Go
<1>9. CASE DrainLoad
  BY <1>9 DEF DrainLoad, Go
<1>10. CASE DrainIdle
  BY <1>10 DEF DrainIdle, Go
<1>11. CASE DrainExpired
  BY <1>11 DEF DrainExpired, Close, Go
<1>12. CASE NetShutdown
  BY <1>12 DEF NetShutdown, Go
<1>13. CASE NetShutdownExpired
  BY <1>13 DEF NetShutdownExpired, Close, Go
<1>14. CASE StopComponent
  BY <1>14 DEF StopComponent, Go, Fail
<1>15. CASE Return
  BY <1>15 DEF Return, Go
<1>16. CASE Signal
  BY <1>16 DEF Signal
<1>17. CASE ServeFails
  BY <1>17 DEF ServeFails
<1>18. CASE GraceExpires
  BY <1>18 DEF GraceExpires
<1>19. ASSUME NEW r \in Requests, Accept(r) PROVE DrainShape'
  BY <1>19 DEF Accept
<1>20. ASSUME NEW r \in Requests, Enter(r) PROVE DrainShape'
  BY <1>20 DEF Enter
<1>21. ASSUME NEW r \in Requests, Handle(r) PROVE DrainShape'
  BY <1>21 DEF Handle
<1>22. ASSUME NEW r \in Requests, ReadyzGate(r) PROVE DrainShape'
  BY <1>22 DEF ReadyzGate
<1>23. ASSUME NEW r \in Requests, ReadyzComponents(r) PROVE DrainShape'
  BY <1>23 DEF ReadyzComponents
<1>24. ASSUME NEW r \in Requests, Leave(r) PROVE DrainShape'
  BY <1>24 DEF Leave
<1>25. ASSUME NEW r \in Requests, MarkIdle(r) PROVE DrainShape'
  BY <1>25 DEF MarkIdle
<1>26. ASSUME NEW r \in Requests, Finish(r) PROVE DrainShape'
  BY <1>26 DEF Finish
<1>27. CASE UNCHANGED vars
  BY <1>27 DEF vars
<1> QED
  BY <1>1, <1>2, <1>3, <1>4, <1>5, <1>6, <1>7, <1>8, <1>9, <1>10, <1>11,
     <1>12, <1>13, <1>14, <1>15, <1>16, <1>17, <1>18, <1>19, <1>20, <1>21,
     <1>22, <1>23, <1>24, <1>25, <1>26, <1>27 DEF Next, Main, Serve, Rest

\* Nobody connects before the bind or after the drain.
LEMMA NetShapeStep ==
  MainOK /\ NetOK /\ ReqOK /\ RunShape /\ NetShape /\ [Next]_vars => NetShape'
<1> SUFFICES ASSUME MainOK, NetOK, ReqOK, RunShape, NetShape, [Next]_vars PROVE NetShape'
  OBVIOUS
<1> USE DEF MainOK, NetOK, ReqOK, RunShape, NetShape, Waiting, mainVars, drainVars, netVars, reqVars
<1>1. CASE Run
  BY <1>1 DEF Run, Validate, Go, Fail
<1>2. CASE RunChecks
  BY <1>2 DEF RunChecks, Go, Fail
<1>3. CASE Migrate
  BY <1>3 DEF Migrate, Go, Fail
<1>4. CASE Bind
  BY <1>4 DEF Bind, Go, Fail
<1>5. CASE StartComponent
  BY <1>5 DEF StartComponent, Go, Fail
<1>6. CASE OpenGate
  BY <1>6 DEF OpenGate, Go
<1>7. CASE CloseGate
  BY <1>7 DEF CloseGate, Go
<1>8. CASE DrainStore
  BY <1>8 DEF DrainStore, Go
<1>9. CASE DrainLoad
  BY <1>9 DEF DrainLoad, Go
<1>10. CASE DrainIdle
  BY <1>10 DEF DrainIdle, Go
<1>11. CASE DrainExpired
  BY <1>11 DEF DrainExpired, Close, Go
<1>12. CASE NetShutdown
  BY <1>12 DEF NetShutdown, Go
<1>13. CASE NetShutdownExpired
  BY <1>13 DEF NetShutdownExpired, Close, Go
<1>14. CASE StopComponent
  BY <1>14 DEF StopComponent, Go, Fail
<1>15. CASE Return
  BY <1>15 DEF Return, Go
<1>16. CASE Signal
  BY <1>16 DEF Signal
<1>17. CASE ServeFails
  BY <1>17 DEF ServeFails
<1>18. CASE GraceExpires
  BY <1>18 DEF GraceExpires
<1>19. ASSUME NEW r \in Requests, Accept(r) PROVE NetShape'
  BY <1>19 DEF Accept
<1>20. ASSUME NEW r \in Requests, Enter(r) PROVE NetShape'
  BY <1>20 DEF Enter
<1>21. ASSUME NEW r \in Requests, Handle(r) PROVE NetShape'
  BY <1>21 DEF Handle
<1>22. ASSUME NEW r \in Requests, ReadyzGate(r) PROVE NetShape'
  BY <1>22 DEF ReadyzGate
<1>23. ASSUME NEW r \in Requests, ReadyzComponents(r) PROVE NetShape'
  BY <1>23 DEF ReadyzComponents
<1>24. ASSUME NEW r \in Requests, Leave(r) PROVE NetShape'
  BY <1>24 DEF Leave
<1>25. ASSUME NEW r \in Requests, MarkIdle(r) PROVE NetShape'
  BY <1>25 DEF MarkIdle
<1>26. ASSUME NEW r \in Requests, Finish(r) PROVE NetShape'
  BY <1>26 DEF Finish
<1>27. CASE UNCHANGED vars
  BY <1>27 DEF vars
<1> QED
  BY <1>1, <1>2, <1>3, <1>4, <1>5, <1>6, <1>7, <1>8, <1>9, <1>10, <1>11,
     <1>12, <1>13, <1>14, <1>15, <1>16, <1>17, <1>18, <1>19, <1>20, <1>21,
     <1>22, <1>23, <1>24, <1>25, <1>26, <1>27 DEF Next, Main, Serve, Rest

\* A client is cut by Close, and Close is called when the grace has expired.
LEMMA CutStep ==
  NetOK /\ ReqOK /\ DrainShape /\ CutOnlyAfterGrace /\ [Next]_vars => CutOnlyAfterGrace'
<1> SUFFICES ASSUME NetOK, ReqOK, DrainShape, CutOnlyAfterGrace, [Next]_vars PROVE CutOnlyAfterGrace'
  OBVIOUS
<1> USE DEF NetOK, ReqOK, DrainShape, CutOnlyAfterGrace, mainVars, drainVars, netVars, reqVars
<1>1. CASE Run
  BY <1>1 DEF Run, Validate, Go, Fail
<1>2. CASE RunChecks
  BY <1>2 DEF RunChecks, Go, Fail
<1>3. CASE Migrate
  BY <1>3 DEF Migrate, Go, Fail
<1>4. CASE Bind
  BY <1>4 DEF Bind, Go, Fail
<1>5. CASE StartComponent
  BY <1>5 DEF StartComponent, Go, Fail
<1>6. CASE OpenGate
  BY <1>6 DEF OpenGate, Go
<1>7. CASE CloseGate
  BY <1>7 DEF CloseGate, Go
<1>8. CASE DrainStore
  BY <1>8 DEF DrainStore, Go
<1>9. CASE DrainLoad
  BY <1>9 DEF DrainLoad, Go
<1>10. CASE DrainIdle
  BY <1>10 DEF DrainIdle, Go
<1>11. CASE DrainExpired
  BY <1>11 DEF DrainExpired, Close, Go
<1>12. CASE NetShutdown
  BY <1>12 DEF NetShutdown, Go
<1>13. CASE NetShutdownExpired
  BY <1>13 DEF NetShutdownExpired, Close, Go
<1>14. CASE StopComponent
  BY <1>14 DEF StopComponent, Go, Fail
<1>15. CASE Return
  BY <1>15 DEF Return, Go
<1>16. CASE Signal
  BY <1>16 DEF Signal
<1>17. CASE ServeFails
  BY <1>17 DEF ServeFails
<1>18. CASE GraceExpires
  BY <1>18 DEF GraceExpires
<1>19. ASSUME NEW r \in Requests, Accept(r) PROVE CutOnlyAfterGrace'
  BY <1>19 DEF Accept
<1>20. ASSUME NEW r \in Requests, Enter(r) PROVE CutOnlyAfterGrace'
  BY <1>20 DEF Enter
<1>21. ASSUME NEW r \in Requests, Handle(r) PROVE CutOnlyAfterGrace'
  BY <1>21 DEF Handle
<1>22. ASSUME NEW r \in Requests, ReadyzGate(r) PROVE CutOnlyAfterGrace'
  BY <1>22 DEF ReadyzGate
<1>23. ASSUME NEW r \in Requests, ReadyzComponents(r) PROVE CutOnlyAfterGrace'
  BY <1>23 DEF ReadyzComponents
<1>24. ASSUME NEW r \in Requests, Leave(r) PROVE CutOnlyAfterGrace'
  BY <1>24 DEF Leave
<1>25. ASSUME NEW r \in Requests, MarkIdle(r) PROVE CutOnlyAfterGrace'
  BY <1>25 DEF MarkIdle
<1>26. ASSUME NEW r \in Requests, Finish(r) PROVE CutOnlyAfterGrace'
  BY <1>26 DEF Finish
<1>27. CASE UNCHANGED vars
  BY <1>27 DEF vars
<1> QED
  BY <1>1, <1>2, <1>3, <1>4, <1>5, <1>6, <1>7, <1>8, <1>9, <1>10, <1>11,
     <1>12, <1>13, <1>14, <1>15, <1>16, <1>17, <1>18, <1>19, <1>20, <1>21,
     <1>22, <1>23, <1>24, <1>25, <1>26, <1>27 DEF Next, Main, Serve, Rest

\* The drain stores draining before it loads inFlight, and a request counts
\* down before it loads draining: one of the two sees the other.
LEMMA WakeupStep ==
  /\ FlagsOK /\ DrainOK /\ DrainOK' /\ ReqOK /\ DrainShape
  /\ NoLostWakeup /\ [Next]_vars
  => NoLostWakeup'
<1> SUFFICES ASSUME FlagsOK, DrainOK, DrainOK', ReqOK, DrainShape, NoLostWakeup, [Next]_vars PROVE NoLostWakeup'
  OBVIOUS
<1> USE DEF FlagsOK, DrainOK, ReqOK, DrainShape, NoLostWakeup, mainVars, drainVars, netVars, reqVars
<1>1. CASE Run
  BY <1>1 DEF Run, Validate, Go, Fail
<1>2. CASE RunChecks
  BY <1>2 DEF RunChecks, Go, Fail
<1>3. CASE Migrate
  BY <1>3 DEF Migrate, Go, Fail
<1>4. CASE Bind
  BY <1>4 DEF Bind, Go, Fail
<1>5. CASE StartComponent
  BY <1>5 DEF StartComponent, Go, Fail
<1>6. CASE OpenGate
  BY <1>6 DEF OpenGate, Go
<1>7. CASE CloseGate
  BY <1>7 DEF CloseGate, Go
<1>8. CASE DrainStore
  BY <1>8 DEF DrainStore, Go
<1>9. CASE DrainLoad
  <2>1. inFlight = 0 => idle'
    BY <1>9, Zenon DEF DrainLoad
  <2>2. inFlight' = inFlight
    BY <1>9, Zenon DEF DrainLoad
  <2>3. inFlight = 0 \/ inFlight > 0
    BY Z3
  <2>4. idle' \/ inFlight' > 0
    BY <2>1, <2>2, <2>3, Zenon
  <2> QED
    BY <2>4, Zenon
<1>10. CASE DrainIdle
  BY <1>10 DEF DrainIdle, Go
<1>11. CASE DrainExpired
  BY <1>11 DEF DrainExpired, Close, Go
<1>12. CASE NetShutdown
  BY <1>12 DEF NetShutdown, Go
<1>13. CASE NetShutdownExpired
  BY <1>13 DEF NetShutdownExpired, Close, Go
<1>14. CASE StopComponent
  BY <1>14 DEF StopComponent, Go, Fail
<1>15. CASE Return
  BY <1>15 DEF Return, Go
<1>16. CASE Signal
  BY <1>16 DEF Signal
<1>17. CASE ServeFails
  BY <1>17 DEF ServeFails
<1>18. CASE GraceExpires
  BY <1>18 DEF GraceExpires
<1>19. ASSUME NEW r \in Requests, Accept(r) PROVE NoLostWakeup'
  BY <1>19 DEF Accept
<1>20. ASSUME NEW r \in Requests, Enter(r) PROVE NoLostWakeup'
  BY <1>20 DEF Enter
<1>21. ASSUME NEW r \in Requests, Handle(r) PROVE NoLostWakeup'
  BY <1>21 DEF Handle
<1>22. ASSUME NEW r \in Requests, ReadyzGate(r) PROVE NoLostWakeup'
  BY <1>22 DEF ReadyzGate
<1>23. ASSUME NEW r \in Requests, ReadyzComponents(r) PROVE NoLostWakeup'
  BY <1>23 DEF ReadyzComponents
<1>24. ASSUME NEW r \in Requests, Leave(r) PROVE NoLostWakeup'
  BY <1>24 DEF Leave
<1>25. ASSUME NEW r \in Requests, MarkIdle(r) PROVE NoLostWakeup'
  BY <1>25 DEF MarkIdle
<1>26. ASSUME NEW r \in Requests, Finish(r) PROVE NoLostWakeup'
  BY <1>26 DEF Finish
<1>27. CASE UNCHANGED vars
  BY <1>27 DEF vars
<1> QED
  BY <1>1, <1>2, <1>3, <1>4, <1>5, <1>6, <1>7, <1>8, <1>9, <1>10, <1>11,
     <1>12, <1>13, <1>14, <1>15, <1>16, <1>17, <1>18, <1>19, <1>20, <1>21,
     <1>22, <1>23, <1>24, <1>25, <1>26, <1>27 DEF Next, Main, Serve, Rest

\* The boot starts with nothing up, nothing bound and nobody waiting.
LEMMA InvInit == Init => HostInv
<1> SUFFICES ASSUME Init PROVE HostInv
  OBVIOUS
<1>1. UpIsBelowCur /\ RunShape
  BY NType DEF Init, UpIsBelowCur, RunShape, Components
<1>2. DrainShape
  BY DEF Init, DrainShape
<1>3. NetShape
  BY DEF Init, NetShape, Waiting
<1>4. NoLostWakeup /\ CutOnlyAfterGrace
  BY DEF Init, NoLostWakeup, CutOnlyAfterGrace
<1> QED
  BY <1>1, <1>2, <1>3, <1>4, Zenon DEF HostInv

\* The inductive invariant of the host, under its types and its exact count.
LEMMA HostInvariant == Spec => [](TypeOK /\ HostInv)
<1>1. TypeOK /\ TypeOK' /\ HostInv /\ [Next]_vars => HostInv'
  <2> SUFFICES ASSUME TypeOK, TypeOK', HostInv, [Next]_vars PROVE HostInv'
    OBVIOUS
  <2>1. MainOK /\ DrainOK /\ FlagsOK /\ NetOK /\ ReqOK
    BY TypeParts, Zenon
  <2>2. DrainOK'
    BY Zenon DEF TypeOK, DrainOK
  <2>3. /\ UpIsBelowCur /\ RunShape /\ DrainShape
        /\ NetShape /\ NoLostWakeup /\ CutOnlyAfterGrace
    BY Zenon DEF HostInv
  <2>4. UpIsBelowCur'
    BY <2>1, <2>3, UpStep, Zenon
  <2>5. RunShape'
    BY <2>1, <2>3, RunStep, Zenon
  <2>6. DrainShape'
    BY <2>1, <2>3, DrainStep, Zenon
  <2>7. NetShape'
    BY <2>1, <2>3, NetShapeStep, Zenon
  <2>8. NoLostWakeup'
    BY <2>1, <2>2, <2>3, WakeupStep, Zenon
  <2>9. CutOnlyAfterGrace'
    BY <2>1, <2>3, CutStep, Zenon
  <2> QED
    BY <2>4, <2>5, <2>6, <2>7, <2>8, <2>9, Zenon DEF HostInv
<1> QED
  BY InvInit, <1>1, HostTypeCorrect, PTL DEF Spec

\* The drain never sleeps through the last request: whatever order the loads
\* and stores of draining and inFlight take, idle is closed or will be.
THEOREM DrainAlwaysWakes == Spec => []NoLostWakeup
<1>1. HostInv => NoLostWakeup
  BY DEF HostInv
<1> QED
  BY <1>1, HostInvariant, PTL

\* A client loses its connection only once SHUTDOWN_GRACE has run out.
THEOREM GraceIsHonoured == Spec => []CutOnlyAfterGrace
<1>1. HostInv => CutOnlyAfterGrace
  BY DEF HostInv
<1> QED
  BY <1>1, HostInvariant, PTL

\* No component goes down while a client still waits for its answer: a down
\* component means that Run is past the drain, and nobody waits there.
THEOREM ClientsGoFirst == Spec => []ComponentsOutliveClients
<1>1. HostInv => ComponentsOutliveClients
  BY DEF HostInv, RunShape, NetShape, ComponentsOutliveClients
<1> QED
  BY <1>1, HostInvariant, PTL

\* Components stop in the reverse of the order they started in.
THEOREM ReverseStop == Spec => []StackOrder
<1>1. TypeOK /\ HostInv => StackOrder
  BY NType DEF TypeOK, HostInv, UpIsBelowCur, StackOrder, Components
<1> QED
  BY <1>1, HostInvariant, PTL

\* Run never returns over a running component.
THEOREM EveryoneStops == Spec => []NoneLeftUp
<1>1. TypeOK /\ HostInv => NoneLeftUp
  BY NType DEF TypeOK, HostInv, UpIsBelowCur, RunShape, NoneLeftUp, Components
<1> QED
  BY <1>1, HostInvariant, PTL

\* The readiness gate is open only while every component is up and no shutdown
\* has begun.
THEOREM ReadyMeansUp == Spec => []GateHonest
<1>1. TypeOK /\ HostInv => GateHonest
  <2> SUFFICES ASSUME TypeOK, HostInv, open
               PROVE  grace = "off" /\ \A i \in Components : comp[i] = "up"
    BY DEF GateHonest
  <2>1. pc = "running" /\ grace = "off"
    BY Zenon DEF HostInv, DrainShape
  <2>2. cur = N + 1
    BY <2>1 DEF HostInv, RunShape
  <2> QED
    BY <2>1, <2>2, NType DEF HostInv, UpIsBelowCur, Components
<1> QED
  BY <1>1, HostInvariant, PTL

-----------------------------------------------------------------------------
(* The faults. *)

\* What failed is in the error of Run, the fault of the listener aside.
FaultsKept == failed \ {<<"serve">>} \subseteq faults

\* Fail is the one way to a fault, and no step drops one.
LEMMA FaultsStep == FaultsKept /\ [Next]_vars => FaultsKept'
<1> SUFFICES ASSUME FaultsKept, [Next]_vars PROVE FaultsKept'
  OBVIOUS
<1> USE DEF FaultsKept, mainVars
<1>1. CASE Run
  BY <1>1 DEF Run, Validate, Go, Fail
<1>2. CASE RunChecks
  BY <1>2 DEF RunChecks, Go, Fail
<1>3. CASE Migrate
  BY <1>3 DEF Migrate, Go, Fail
<1>4. CASE Bind
  BY <1>4 DEF Bind, Go, Fail
<1>5. CASE StartComponent
  BY <1>5 DEF StartComponent, Go, Fail
<1>6. CASE OpenGate
  BY <1>6 DEF OpenGate, Go
<1>7. CASE CloseGate
  BY <1>7 DEF CloseGate, Go
<1>8. CASE DrainStore
  BY <1>8 DEF DrainStore, Go
<1>9. CASE DrainLoad
  BY <1>9 DEF DrainLoad, Go
<1>10. CASE DrainIdle
  BY <1>10 DEF DrainIdle, Go
<1>11. CASE DrainExpired
  BY <1>11 DEF DrainExpired, Close, Go
<1>12. CASE NetShutdown
  BY <1>12 DEF NetShutdown, Go
<1>13. CASE NetShutdownExpired
  BY <1>13 DEF NetShutdownExpired, Close, Go
<1>14. CASE StopComponent
  BY <1>14 DEF StopComponent, Go, Fail
<1>15. CASE Return
  BY <1>15 DEF Return, Go
<1>16. CASE Signal \/ GraceExpires
  BY <1>16 DEF Signal, GraceExpires
<1>17. CASE ServeFails
  BY <1>17 DEF ServeFails
<1>18. ASSUME NEW r \in Requests, Accept(r) PROVE FaultsKept'
  BY <1>18 DEF Accept
<1>19. ASSUME NEW r \in Requests, Serve(r) PROVE FaultsKept'
  BY <1>19 DEF Serve, Enter, Handle, ReadyzGate, ReadyzComponents, Leave, MarkIdle, Finish
<1>20. CASE UNCHANGED vars
  BY <1>20 DEF vars
<1> QED
  BY <1>1, <1>2, <1>3, <1>4, <1>5, <1>6, <1>7, <1>8, <1>9, <1>10, <1>11, <1>12,
     <1>13, <1>14, <1>15, <1>16, <1>17, <1>18, <1>19, <1>20 DEF Next, Main, Rest

\* The error of Run carries every fault of the boot, of a Start and of a Stop.
THEOREM EveryFaultReported == Spec => []NothingLost
<1>1. Init => FaultsKept
  BY DEF Init, FaultsKept
<1>2. FaultsKept => NothingLost
  BY DEF FaultsKept, NothingLost
<1> QED
  BY <1>1, <1>2, FaultsStep, PTL DEF Spec

\* The three accounts of Run hold together: the requests, the components, the
\* faults.
THEOREM EverythingAccounted == Spec => []Accounted
<1>1. InFlightCounts /\ NoneLeftUp /\ NothingLost => Accounted
  BY DEF Accounted
<1> QED
  BY <1>1, InFlightExact, EveryoneStops, EveryFaultReported, PTL

-----------------------------------------------------------------------------
(* The door opens last and closes first. *)

\* The faults that end a boot.
BootTags == ({"check"} \X Checks) \cup {<<"setup">>, <<"migrate">>, <<"bind">>}

\* Before the bind nothing happened, and a boot fault ends Run there.
BootShape ==
  /\ pc \in {"init", "checks", "migrate", "bind"} => faults \cap BootTags = {}
  /\ faults \cap BootTags # {} => pc = "returned"
  /\ pc \in {"init", "checks", "migrate", "bind"} \/ faults \cap BootTags # {} =>
       /\ \A i \in Components : comp[i] = "new"
       /\ \A r \in Requests : at[r] = "absent"

\* A late request comes after the gate closed for good, so its probe stops there.
LateShape ==
  /\ late # {} => Closing \/ pc = "returned"
  /\ \A r \in Requests : at[r] = "absent" => code[r] # 200
  /\ \A r \in late \cap Probes : at[r] # "probing" /\ code[r] # 200

\* From the bind to the end of the drain only a fault closes the listener.
ListenerShape ==
  pc \in {"start", "running", "shutdown", "drainLoad", "drainSelect"} =>
    listener = "open" \/ serving = "fault"

\* What fails once the server listens is no boot fault.
LEMMA ServedTags ==
  /\ \A i : <<"start", i>> \notin BootTags /\ <<"stop", i>> \notin BootTags
  /\ <<"serve">> \notin BootTags
  BY DEF BootTags

\* A request goroutine belongs to a request that has arrived.
LEMMA ServeArrived ==
  ASSUME NEW r \in Requests, Serve(r)
  PROVE  at[r] # "absent"
  BY DEF Serve, Enter, Handle, ReadyzGate, ReadyzComponents, Leave, MarkIdle, Finish, Counted

\* A step of Run or of its environment leaves the requests where they are.
LEMMA BootShapeStep ==
  MainOK /\ RunShape /\ NetShape /\ BootShape /\ [Next]_vars => BootShape'
<1> SUFFICES ASSUME MainOK, RunShape, NetShape, BootShape, [Next]_vars PROVE BootShape'
  OBVIOUS
<1> USE DEF MainOK, MainSteps, RunShape, NetShape, BootShape
<1>1. CASE Run \/ RunChecks \/ Migrate \/ Bind
  <2>1. UNCHANGED <<comp, at>> /\ pc \in {"init", "checks", "migrate", "bind"}
    BY <1>1 DEF Run, RunChecks, Migrate, Bind, reqVars
  <2>2. \/ faults' = faults /\ pc' \in {"checks", "migrate", "bind", "start"}
        \/ pc' = "returned"
    BY <1>1 DEF Run, Validate, RunChecks, Migrate, Bind, Go, Fail
  <2> QED
    BY <2>1, <2>2
<1>2. CASE StartComponent \/ OpenGate \/ CloseGate \/ DrainStore \/ DrainLoad \/ DrainIdle
           \/ DrainExpired \/ NetShutdown \/ NetShutdownExpired \/ StopComponent \/ Return
  <2>1. pc \in {"start", "running", "shutdown", "drainLoad", "drainSelect", "netShutdown", "stop"}
    BY <1>2 DEF StartComponent, OpenGate, CloseGate, DrainStore, DrainLoad, DrainIdle, DrainExpired,
                NetShutdown, NetShutdownExpired, StopComponent, Return
  <2>2. pc' \notin {"init", "checks", "migrate", "bind"}
    BY <1>2 DEF StartComponent, OpenGate, CloseGate, DrainStore, DrainLoad, DrainIdle, DrainExpired,
                NetShutdown, NetShutdownExpired, StopComponent, Return, Go, Fail
  <2>3. faults' = faults \/ \E t : faults' = faults \cup {t} /\ t \notin BootTags
    <3>1. CASE StartComponent
      BY <3>1, ServedTags DEF StartComponent, Go, Fail
    <3>2. CASE StopComponent
      BY <3>2, ServedTags DEF StopComponent, Go, Fail
    <3>3. CASE CloseGate
      BY <3>3, ServedTags DEF CloseGate, Go
    <3>4. CASE OpenGate \/ DrainStore \/ DrainLoad \/ DrainIdle \/ DrainExpired \/ NetShutdown
               \/ NetShutdownExpired \/ Return
      BY <3>4 DEF OpenGate, DrainStore, DrainLoad, DrainIdle, DrainExpired, NetShutdown,
                  NetShutdownExpired, Return, Go
    <3> QED
      BY <1>2, <3>1, <3>2, <3>3, <3>4
  <2>4. faults' \cap BootTags = {}
    BY <2>1, <2>3
  <2> QED
    BY <2>2, <2>4
<1>3. ASSUME NEW r \in Requests, pc # "crashed", Accept(r) PROVE BootShape'
  <2>1. pc \notin {"init", "checks", "migrate", "bind", "returned"}
    BY <1>3 DEF Accept
  <2> QED
    BY <1>3, <2>1 DEF Accept, mainVars
<1>4. ASSUME NEW r \in Requests, Serve(r) PROVE BootShape'
  <2>1. UNCHANGED <<pc, faults>>
    BY <1>4 DEF Serve, Enter, Handle, ReadyzGate, ReadyzComponents, Leave, MarkIdle, Finish, mainVars
  <2> QED
    BY <1>4, <2>1, ServeArrived
<1>5. CASE Signal \/ ServeFails \/ GraceExpires \/ UNCHANGED vars
  BY <1>5 DEF Signal, ServeFails, GraceExpires, vars, mainVars, reqVars
<1> QED
  BY <1>1, <1>2, <1>3, <1>4, <1>5 DEF Next, Main, Rest

\* Once Run has closed the gate it stays closed, so a late probe answers there.
LEMMA LateShapeStep ==
  MainOK /\ ReqOK /\ RunShape /\ DrainShape /\ LateShape /\ [Next]_vars => LateShape'
<1> SUFFICES ASSUME MainOK, ReqOK, RunShape, DrainShape, LateShape, [Next]_vars PROVE LateShape'
  OBVIOUS
<1> USE DEF LateShape, Closing
<1>1. CASE Main
  <2>1. UNCHANGED <<at, code, late>>
    BY <1>1, CountFrame
  <2>2. Closing \/ pc = "returned" => (Closing \/ pc = "returned")'
    BY <1>1 DEF RunShape, Main, Run, RunChecks, Migrate, Bind, StartComponent, OpenGate, CloseGate,
                DrainStore, DrainLoad, DrainIdle, DrainExpired, NetShutdown, NetShutdownExpired,
                StopComponent, Return, Go, Fail
  <2> QED
    BY <2>1, <2>2
<1>2. CASE Signal \/ ServeFails \/ GraceExpires \/ UNCHANGED vars
  BY <1>2 DEF Signal, ServeFails, GraceExpires, vars, mainVars, reqVars
<1>3. ASSUME NEW r \in Requests, Accept(r) PROVE LateShape'
  BY <1>3 DEF Accept, ReqOK, mainVars
<1>4. ASSUME NEW r \in Requests, Serve(r) PROVE LateShape'
  <2>1. UNCHANGED <<pc, late>>
    BY <1>4 DEF Serve, Enter, Handle, ReadyzGate, ReadyzComponents, Leave, MarkIdle, Finish, mainVars
  <2>2. CASE ReadyzGate(r)
    <3>1. late # {} => ~open
      BY DEF DrainShape
    <3> QED
      BY <2>1, <2>2, <3>1 DEF ReadyzGate, ReqOK
  <2>3. CASE ReadyzComponents(r)
    BY <2>1, <2>3 DEF ReadyzComponents, ReqOK
  <2>4. CASE Enter(r) \/ Handle(r) \/ Leave(r) \/ MarkIdle(r) \/ Finish(r)
    <3>1. code' = code
      BY <2>4 DEF Enter, Handle, Leave, MarkIdle, Finish
    <3>2. PICK s \in Stages \ {"absent", "probing"} : at' = [at EXCEPT ![r] = s]
      BY <2>4 DEF Enter, Handle, Leave, MarkIdle, Finish, Stages, Counted
    <3> QED
      BY <2>1, <3>1, <3>2 DEF ReqOK
  <2> QED
    BY <1>4, <2>2, <2>3, <2>4 DEF Serve
<1> QED
  BY <1>1, <1>2, <1>3, <1>4 DEF Next, Rest

\* The steps between the bind and the drain leave the listener to its faults.
LEMMA ListenerShapeStep ==
  MainOK /\ RunShape /\ ListenerShape /\ [Next]_vars => ListenerShape'
<1> SUFFICES ASSUME MainOK, RunShape, ListenerShape, [Next]_vars PROVE ListenerShape'
  OBVIOUS
<1> USE DEF ListenerShape
<1>1. CASE Bind
  BY <1>1 DEF Bind, Go, Fail
<1>2. CASE StartComponent \/ OpenGate \/ CloseGate \/ DrainStore \/ DrainLoad
  <2>1. UNCHANGED <<listener, serving>>
    BY <1>2 DEF StartComponent, OpenGate, CloseGate, DrainStore, DrainLoad, netVars
  <2>2. pc \in {"start", "running", "shutdown", "drainLoad"}
    BY <1>2 DEF StartComponent, OpenGate, CloseGate, DrainStore, DrainLoad
  <2> QED
    BY <2>1, <2>2
<1>3. CASE Run \/ RunChecks \/ Migrate \/ DrainIdle \/ DrainExpired \/ NetShutdown
           \/ NetShutdownExpired \/ StopComponent \/ Return
  BY <1>3 DEF RunShape, Run, Validate, RunChecks, Migrate, DrainIdle, DrainExpired, NetShutdown,
              NetShutdownExpired, StopComponent, Return, Go, Fail
<1>4. CASE Signal \/ ServeFails \/ GraceExpires \/ UNCHANGED vars
  BY <1>4 DEF Signal, ServeFails, GraceExpires, vars, mainVars, netVars
<1>5. ASSUME NEW r \in Requests, Accept(r) PROVE ListenerShape'
  BY <1>5 DEF Accept, mainVars, netVars
<1>6. ASSUME NEW r \in Requests, Serve(r) PROVE ListenerShape'
  BY <1>6 DEF Serve, Enter, Handle, ReadyzGate, ReadyzComponents, Leave, MarkIdle, Finish, mainVars, netVars
<1> QED
  BY <1>1, <1>2, <1>3, <1>4, <1>5, <1>6 DEF Next, Main, Rest

\* The door opens last and closes first: for the clients of a boot that fails,
\* for a probe during a shutdown, and for the listener during the drain.
THEOREM DoorsKeepOrder == Spec => []DoorsInOrder
<1>1. Init => BootShape /\ LateShape /\ ListenerShape
  BY DEF Init, BootShape, LateShape, ListenerShape
<1>2. TypeOK /\ HostInv /\ BootShape /\ LateShape /\ ListenerShape /\ [Next]_vars =>
        (BootShape /\ LateShape /\ ListenerShape)'
  BY TypeParts, BootShapeStep, LateShapeStep, ListenerShapeStep DEF HostInv
<1>3. BootShape /\ LateShape /\ ListenerShape => DoorsInOrder
  <2> SUFFICES ASSUME BootShape, LateShape, ListenerShape PROVE DoorsInOrder
    OBVIOUS
  <2>1. BootFaultBeforeServe
    BY DEF BootShape, BootTags, BootFaultBeforeServe
  <2>2. LateProbeNotReady
    BY DEF LateShape, LateProbeNotReady
  <2>3. ListenerOutlastsDrain
    BY DEF ListenerShape, ListenerOutlastsDrain
  <2> QED
    BY <2>1, <2>2, <2>3 DEF DoorsInOrder
<1> QED
  BY <1>1, <1>2, <1>3, HostInvariant, PTL DEF Spec

-----------------------------------------------------------------------------

\* What a step that leaves the cells of the mapping alone leaves unchanged.
LEMMA SameUp == UNCHANGED comp => UNCHANGED Up
  BY DEF Up
LEMMA SameWaiting == UNCHANGED conn => UNCHANGED Waiting
  BY DEF Waiting

\* The components that run are those below cur.
LEMMA UpIsPrefix == MainOK /\ UpIsBelowCur => Up = 1 .. cur - 1
  BY NType DEF MainOK, UpIsBelowCur, Up, Components

\* A host that drops its connections leaves nobody waiting.
LEMMA CloseCutsAll == ReqOK /\ Close => Waiting' = {}
  BY DEF ReqOK, Close, Waiting

\* A step of Run before the components start begins the lifecycle, or ends it.
LEMMA BootRefines ==
  ASSUME MainOK, RunShape, Run \/ RunChecks \/ Migrate \/ Bind
  PROVE  [Lifecycle!Next]_Lifecycle!vars
<1>1. UNCHANGED Up /\ UNCHANGED Waiting /\ grace' = grace
  BY SameUp, SameWaiting DEF Run, RunChecks, Migrate, Bind, mainVars, netVars, reqVars
<1>2. pc \in {"init", "checks", "migrate", "bind"}
  BY DEF Run, RunChecks, Migrate, Bind, RunShape
<1>3. pc' \in {"checks", "migrate", "bind", "start", "returned"}
  BY DEF Run, RunChecks, Migrate, Bind, Validate, Go, Fail
<1>4. Phase = "boot" /\ Phase' \in {"boot", "starting", "over"}
  BY <1>2, <1>3 DEF Phase
<1> QED
  BY <1>1, <1>4 DEF Lifecycle!Next, Lifecycle!Begin, Lifecycle!vars

\* A step of the component loop starts one, gives up, or dies.
LEMMA StartRefines ==
  ASSUME MainOK, UpIsBelowCur, StartComponent
  PROVE  [Lifecycle!Next]_Lifecycle!vars
<1>1. UNCHANGED Waiting /\ grace' = grace
  BY SameWaiting DEF StartComponent, netVars, reqVars
<1>2. Phase = "starting"
  BY DEF StartComponent, Phase
<1>3. CASE pc' = "start" /\ comp' = [comp EXCEPT ![cur] = "up"] /\ cur <= N
  <2>1. cur \in 1 .. N
    BY <1>3, NType DEF MainOK
  <2>2. Up' = Up \cup {cur}
    BY <1>3, <2>1 DEF MainOK, Up, Components
  <2>3. Up = 1 .. cur - 1 /\ Up' = 1 .. cur
    BY <2>1, <2>2, UpIsPrefix, NType
  <2>4. Phase' = "starting"
    BY <1>3 DEF Phase
  <2> QED
    BY <1>1, <1>2, <2>1, <2>3, <2>4 DEF Lifecycle!Next, Lifecycle!ComponentUp
<1>4. CASE pc' = "shutdown" /\ comp' = [comp EXCEPT ![cur] = "failed"]
  <2>1. cur \in Components => comp[cur] # "up"
    BY NType DEF MainOK, UpIsBelowCur, Components
  <2>2. UNCHANGED Up
    BY <1>4, <2>1 DEF MainOK, Up
  <2>3. Phase' = "draining"
    BY <1>4 DEF Phase
  <2> QED
    BY <1>1, <1>2, <2>2, <2>3 DEF Lifecycle!Next, Lifecycle!Drain
<1>5. CASE pc' = "crashed" /\ comp' = comp
  <2>1. UNCHANGED Up
    BY <1>5, SameUp
  <2>2. Phase' = "over"
    BY <1>5 DEF Phase
  <2> QED
    BY <1>1, <1>2, <2>1, <2>2 DEF Lifecycle!Next, Lifecycle!End
<1> QED
  BY <1>3, <1>4, <1>5 DEF StartComponent, Go, Fail

\* The gate opens over every component.
LEMMA OpenRefines ==
  ASSUME MainOK, UpIsBelowCur, OpenGate
  PROVE  [Lifecycle!Next]_Lifecycle!vars
<1>1. UNCHANGED Up /\ UNCHANGED Waiting /\ grace' = grace
  BY SameUp, SameWaiting DEF OpenGate, netVars, reqVars
<1>2. Up = 1 .. N
  BY UpIsPrefix, NType DEF MainOK, OpenGate
<1>3. Phase = "starting" /\ Phase' = "ready"
  BY DEF OpenGate, Go, Phase
<1> QED
  BY <1>1, <1>2, <1>3 DEF Lifecycle!Next, Lifecycle!Ready

\* The select of step 7 begins the drain; the steps of drain that only read
\* and write its own cells stay in it.
LEMMA DrainRefines ==
  ASSUME DrainShape, CloseGate \/ DrainStore \/ DrainLoad \/ DrainIdle
  PROVE  [Lifecycle!Next]_Lifecycle!vars
<1>1. UNCHANGED Up /\ UNCHANGED Waiting
  BY SameUp, SameWaiting DEF CloseGate, DrainStore, DrainLoad, DrainIdle, netVars, reqVars
<1>2. (grace = "expired")' = (grace = "expired")
  BY DEF CloseGate, DrainStore, DrainLoad, DrainIdle, DrainShape, netVars
<1>3. CASE CloseGate
  <2>1. Phase = "ready" /\ Phase' = "draining"
    BY <1>3 DEF CloseGate, Go, Phase
  <2> QED
    BY <1>1, <1>2, <2>1 DEF Lifecycle!Next, Lifecycle!Drain
<1>4. CASE DrainStore \/ DrainLoad \/ DrainIdle
  <2>1. Phase' = Phase
    BY <1>4 DEF DrainStore, DrainLoad, DrainIdle, Go, Phase
  <2> QED
    BY <1>1, <1>2, <2>1 DEF Lifecycle!vars
<1> QED
  BY <1>3, <1>4

\* The drain is over once nobody waits, or once the deadline has cut them.
LEMMA StopRefines ==
  ASSUME ReqOK, DrainExpired \/ NetShutdown \/ NetShutdownExpired
  PROVE  [Lifecycle!Next]_Lifecycle!vars
<1>1. UNCHANGED Up /\ grace' = grace
  BY SameUp DEF DrainExpired, NetShutdown, NetShutdownExpired, netVars
<1>2. Waiting = {} \/ grace = "expired"
  BY DEF DrainExpired, NetShutdown, NetShutdownExpired
<1>3. Waiting' = {}
  BY CloseCutsAll, SameWaiting DEF DrainExpired, NetShutdown, NetShutdownExpired, reqVars
<1>4. Phase = "draining" /\ Phase' = "stopping"
  BY DEF DrainExpired, NetShutdown, NetShutdownExpired, Go, Phase
<1> QED
  BY <1>1, <1>2, <1>3, <1>4 DEF Lifecycle!Next, Lifecycle!StopBegins

\* The loop of shutdown takes the last component that runs, and ends when none
\* does.
LEMMA DownRefines ==
  ASSUME MainOK, UpIsBelowCur, StopComponent \/ Return
  PROVE  [Lifecycle!Next]_Lifecycle!vars
<1>1. UNCHANGED Waiting /\ grace' = grace
  BY SameWaiting DEF StopComponent, Return, netVars, reqVars
<1>2. Phase = "stopping"
  BY DEF StopComponent, Return, Phase
<1>3. CASE StopComponent
  <2> DEFINE k == cur - 1
  <2>1. k \in 1 .. N
    BY <1>3, NType DEF StopComponent, MainOK
  <2>2. Up' = Up \ {k}
    BY <1>3, <2>1 DEF StopComponent, MainOK, Up, Components
  <2>3. Up = 1 .. k
    BY UpIsPrefix
  <2>4. Up' = 1 .. k - 1
    BY <2>1, <2>2, <2>3, NType
  <2>5. Phase' = "stopping"
    BY <1>3 DEF StopComponent, Go, Fail, Phase
  <2> QED
    BY <1>1, <1>2, <2>1, <2>3, <2>4, <2>5 DEF Lifecycle!Next, Lifecycle!ComponentDown
<1>4. CASE Return
  <2>1. UNCHANGED Up
    BY <1>4, SameUp DEF Return
  <2>2. Up = {}
    BY <1>4, UpIsPrefix DEF Return
  <2>3. Phase' = "over"
    BY <1>4 DEF Return, Go, Phase
  <2> QED
    BY <1>1, <1>2, <2>1, <2>2, <2>3 DEF Lifecycle!Next, Lifecycle!End
<1> QED
  BY <1>3, <1>4

\* A request that the server accepts waits, while somebody serves.
LEMMA AcceptRefines ==
  ASSUME NetOK, ReqOK, MainOK, NetShape, NEW r \in Requests, pc # "crashed", Accept(r)
  PROVE  [Lifecycle!Next]_Lifecycle!vars
<1>1. UNCHANGED Up /\ grace' = grace /\ pc' = pc
  BY SameUp DEF Accept, mainVars, netVars
<1>2. Waiting' = Waiting \cup {r}
  BY DEF Accept, ReqOK, Waiting
<1>3. pc \in {"start", "running", "shutdown", "drainLoad", "drainSelect"}
  BY DEF Accept, NetShape, MainOK, MainSteps
<1>4. Phase' = Phase /\ Phase \in {"starting", "ready", "draining"}
  BY <1>1, <1>3 DEF Phase
<1> QED
  BY <1>1, <1>2, <1>4 DEF Lifecycle!Next, Lifecycle!Arrive, Lifecycle!Serving

\* A request goroutine answers its client, or does nothing that the lifecycle
\* tells apart.
LEMMA ServeRefines ==
  ASSUME ReqOK, NEW r \in Requests, Serve(r)
  PROVE  [Lifecycle!Next]_Lifecycle!vars
<1>1. UNCHANGED Up /\ grace' = grace /\ pc' = pc
  BY SameUp DEF Serve, Enter, Handle, ReadyzGate, ReadyzComponents, Leave, MarkIdle, Finish,
                mainVars, netVars
<1>2. Phase' = Phase
  BY <1>1 DEF Phase
<1>3. CASE Finish(r)
  <2>1. Waiting' = Waiting \ {r}
    BY <1>3 DEF Finish, ReqOK, Waiting
  <2> QED
    BY <1>1, <1>2, <2>1 DEF Lifecycle!Next, Lifecycle!Answer
<1>4. CASE ~Finish(r)
  <2>1. UNCHANGED Waiting
    BY <1>4, SameWaiting DEF Serve, Enter, Handle, ReadyzGate, ReadyzComponents, Leave, MarkIdle, reqVars
  <2> QED
    BY <1>1, <1>2, <2>1 DEF Lifecycle!vars
<1> QED
  BY <1>3, <1>4

\* The signal and the fault of the listener change nothing that the lifecycle
\* tells apart; the deadline expires during the drain or the stop.
LEMMA EnvRefines ==
  ASSUME Signal \/ ServeFails \/ GraceExpires
  PROVE  [Lifecycle!Next]_Lifecycle!vars
<1>1. UNCHANGED Up /\ UNCHANGED Waiting /\ pc' = pc
  BY SameUp, SameWaiting DEF Signal, ServeFails, GraceExpires, mainVars, reqVars
<1>2. Phase' = Phase
  BY <1>1 DEF Phase
<1>3. CASE GraceExpires
  <2>1. Phase \in {"draining", "stopping"}
    BY <1>3 DEF GraceExpires, Closing, Phase
  <2>2. (grace = "expired")' = TRUE
    BY <1>3 DEF GraceExpires
  <2> QED
    BY <1>1, <1>2, <2>1, <2>2 DEF Lifecycle!Next, Lifecycle!Expire
<1>4. CASE Signal \/ ServeFails
  <2>1. grace' = grace
    BY <1>4 DEF Signal, ServeFails, netVars
  <2> QED
    BY <1>1, <1>2, <2>1 DEF Lifecycle!vars
<1> QED
  BY <1>3, <1>4

\* Every step of the host is a step of the lifecycle, or none.
LEMMA StepRefines ==
  TypeOK /\ HostInv /\ [Next]_vars => [Lifecycle!Next]_Lifecycle!vars
<1> SUFFICES ASSUME TypeOK, HostInv, [Next]_vars PROVE [Lifecycle!Next]_Lifecycle!vars
  OBVIOUS
<1>1. MainOK /\ NetOK /\ ReqOK /\ UpIsBelowCur /\ RunShape /\ DrainShape /\ NetShape
  BY TypeParts DEF HostInv
<1>2. CASE Run \/ RunChecks \/ Migrate \/ Bind
  BY <1>1, <1>2, BootRefines
<1>3. CASE StartComponent
  BY <1>1, <1>3, StartRefines
<1>4. CASE OpenGate
  BY <1>1, <1>4, OpenRefines
<1>5. CASE CloseGate \/ DrainStore \/ DrainLoad \/ DrainIdle
  BY <1>1, <1>5, DrainRefines
<1>6. CASE DrainExpired \/ NetShutdown \/ NetShutdownExpired
  BY <1>1, <1>6, StopRefines
<1>7. CASE StopComponent \/ Return
  BY <1>1, <1>7, DownRefines
<1>8. ASSUME NEW r \in Requests, pc # "crashed", Accept(r) PROVE [Lifecycle!Next]_Lifecycle!vars
  BY <1>1, <1>8, AcceptRefines
<1>9. ASSUME NEW r \in Requests, Serve(r) PROVE [Lifecycle!Next]_Lifecycle!vars
  BY <1>1, <1>9, ServeRefines
<1>10. CASE Signal \/ ServeFails \/ GraceExpires
  BY <1>10, EnvRefines
<1>11. CASE UNCHANGED vars
  <2>1. UNCHANGED Up /\ UNCHANGED Waiting /\ pc' = pc /\ grace' = grace
    BY <1>11, SameUp, SameWaiting DEF vars, mainVars, netVars, reqVars
  <2> QED
    BY <2>1 DEF Lifecycle!vars, Phase
<1> QED
  BY <1>2, <1>3, <1>4, <1>5, <1>6, <1>7, <1>8, <1>9, <1>10, <1>11 DEF Next, Main, Rest

\* The host implements the lifecycle: what HostLifecycle says of components,
\* clients and the grace holds of Run and track, whatever the interleaving.
THEOREM HostImplementsLifecycle == Spec => RefinesLifecycle
<1>1. Init => Lifecycle!Init
  BY DEF Init, Lifecycle!Init, Phase, Up, Waiting
<1> QED
  BY <1>1, HostInvariant, StepRefines, PTL DEF Spec, RefinesLifecycle, Lifecycle!Spec
=============================================================================
