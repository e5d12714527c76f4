---------------------------- MODULE TripExecutionProof ----------------------------
(***************************************************************************)
(* Proofs about TripExecution for any sets of trips, users and keys.       *)
(*                                                                         *)
(* AcceptedOnce needs what the expected version gives: a request that has  *)
(* read "not accepted" and is still open is right about it.                *)
(***************************************************************************)
EXTENDS TripExecution, FiniteSetTheorems, TLAPS

\* What an open request has read about the acceptance of its trip is current.
AcceptanceIsCurrent ==
    \A u \in User : open[u] # Null =>
        /\ trip[open[u].trip] # "NONE"
        /\ ~open[u].accepted => Events(open[u].trip, "ACCEPT") = {}

IInv == /\ TypeOK
        /\ DeliveryIsAccountedFor
        /\ AcceptedOnce
        /\ AcceptanceIsCurrent

-----------------------------------------------------------------------------
\* What the tables of the three handlers lead to.
LEMMA Tables ==
    /\ TripState = {"PLANNED", "AT_ORIGIN", "LOADED", "IN_TRANSIT", "AT_DESTINATION",
                    "DELIVERED", "CANCELLED"}
    /\ PodState = {"AWAITING_POD", "RECEIVED", "UNDER_REVIEW", "ACCEPTED", "REJECTED",
                   "CORRECTION_REQUIRED", "SUBMITTED_TO_CLIENT", "CLOSED"}
    /\ EventType = {"AT_ORIGIN", "LOADED", "DEPARTED", "AT_DESTINATION", "DELIVERED",
                    "ACCEPT", "CHECKPOINT"}
    /\ \A s \in TripState : TripMoves[s] \subseteq TripState
    /\ \A type \in DOMAIN StateMap : StateMap[type] \in TripState
    /\ DOMAIN Action = {"ACCEPT", "START", "LOAD", "TRANSIT", "UNLOAD", "END"}
    /\ DOMAIN ReviewMoves = {"RECEIVE", "START_REVIEW", "REJECT", "REQUEST_CORRECTION", "SUBMIT"}
  BY DEF TripState, PodState, EventType, TripMoves, PodMoves, StateMap, Action, ReviewMoves

\* tripAction writes the state and the event that a device event would, or
\* accepts a planned trip and leaves its state.
LEMMA Actions ==
    \A a \in DOMAIN Action :
        /\ Action[a].event \in EventType /\ Action[a].to \in TripState
        /\ Action[a].from \in TripState
        /\ Action[a].event = "DELIVERED" <=> a = "END"
        /\ Action[a].event = "ACCEPT" <=> a = "ACCEPT"
        /\ \/ a = "ACCEPT" /\ Action[a].to = Action[a].from
           \/ Action[a].event \in DOMAIN StateMap /\ StateMap[Action[a].event] = Action[a].to
  BY Tables DEF Action, StateMap

\* Neither review takes a POD back once it is accepted.
LEMMA Reviews ==
    LET Past == {"ACCEPTED", "SUBMITTED_TO_CLIENT", "CLOSED"}
    IN  /\ \A s \in PodState : /\ PodMoves[s] \subseteq PodState
                               /\ s \in Past => PodMoves[s] \subseteq Past
        /\ \A r \in DOMAIN ReviewMoves :
              /\ ReviewMoves[r].to \in PodState
              /\ "NONE" \notin ReviewMoves[r].from
              /\ \A s \in Past : s \in ReviewMoves[r].from => ReviewMoves[r].to \in Past
  BY Tables DEF PodMoves, ReviewMoves

\* The rows of the event log can be counted.
LEMMA EventsAreFinite ==
    ASSUME TypeOK, NEW t \in Trip, NEW type
    PROVE  IsFiniteSet(Events(t, type)) /\ Cardinality(Events(t, type)) \in Nat
<1>1. Events(t, type) \subseteq log[t] /\ log[t] \subseteq [key : Key, type : EventType]
  BY DEF Events, TypeOK
<1>2. IsFiniteSet(EventType)
  <2> DEFINE e1 == {} \cup {"CHECKPOINT"}
             e2 == e1 \cup {"ACCEPT"}
             e3 == e2 \cup {"DELIVERED"}
             e4 == e3 \cup {"AT_DESTINATION"}
             e5 == e4 \cup {"DEPARTED"}
             e6 == e5 \cup {"LOADED"}
             e7 == e6 \cup {"AT_ORIGIN"}
  <2>1. IsFiniteSet(e1)
    BY FS_EmptySet, FS_AddElement
  <2>2. IsFiniteSet(e2)
    BY <2>1, FS_AddElement
  <2>3. IsFiniteSet(e3)
    BY <2>2, FS_AddElement
  <2>4. IsFiniteSet(e4)
    BY <2>3, FS_AddElement
  <2>5. IsFiniteSet(e5)
    BY <2>4, FS_AddElement
  <2>6. IsFiniteSet(e6)
    BY <2>5, FS_AddElement
  <2>7. IsFiniteSet(e7)
    BY <2>6, FS_AddElement
  <2>8. e7 = EventType
    BY Tables
  <2>9. QED
    BY <2>7, <2>8
<1>3. IsFiniteSet(Key \X EventType)
  BY <1>2, TripAssumption, FS_Product
<1> DEFINE f == [p \in Key \X EventType |-> [key |-> p[1], type |-> p[2]]]
           rows == {f[p] : p \in Key \X EventType}
<1>4. IsFiniteSet(rows)
  <2>1. f \in Surjection(Key \X EventType, rows)
    BY DEF Surjection
  <2>2. QED
    BY <1>3, <2>1, FS_Surjection
<1>5. [key : Key, type : EventType] \subseteq rows
  <2>1. \A r \in [key : Key, type : EventType] :
          <<r.key, r.type>> \in Key \X EventType /\ f[<<r.key, r.type>>] = r
    OBVIOUS
  <2> HIDE DEF f
  <2>2. QED
    BY <2>1
<1>6. QED
  BY <1>1, <1>4, <1>5, FS_Subset, FS_CardinalityType

-----------------------------------------------------------------------------
(* What a step does                                                        *)

\* An event is appended under a new key and the trip set to its state; an
\* event of no state (or the acceptance of a planned trip) leaves that.
Reported(t, k, type) ==
    /\ trip[t] # "NONE"
    /\ UnusedKey(t, k)
    /\ log' = Appended(t, k, type)
    /\ \/ /\ type \in DOMAIN StateMap
          /\ MoveTo(t, StateMap[type])
       \/ /\ type = "ACCEPT"
          /\ Events(t, "ACCEPT") = {}
          /\ MoveTo(t, trip[t])
       \/ type = "CHECKPOINT" /\ UNCHANGED <<trip, open>>
    /\ IF type = "DELIVERED" THEN OpenPod(t) ELSE UNCHANGED <<pod, announced>>

\* The state of the trip is written without an event.
Moved(t, to) ==
    /\ trip[t] = "NONE" \/ to \in TripMoves[trip[t]]
    /\ MoveTo(t, to)
    /\ UNCHANGED <<log, pod, announced>>

\* A review of the POD, by the rules of either service.
Reviewed(t, to) ==
    LET Past == {"ACCEPTED", "SUBMITTED_TO_CLIENT", "CLOSED"}
    IN  /\ pod[t] # "NONE"
        /\ pod[t] \in Past => to \in Past
        /\ SetPod(t, to)

\* A tripAction request reads the acceptance of its trip, or ends.
Read(u) ==
    /\ \E new : /\ open' = [open EXCEPT ![u] = new]
                /\ new # Null => /\ new \in [trip: Trip, action: DOMAIN Action, accepted: BOOLEAN]
                                 /\ trip[new.trip] # "NONE"
                                 /\ ~new.accepted => Events(new.trip, "ACCEPT") = {}
    /\ UNCHANGED <<trip, log, pod, announced>>

\* An action that finishes reports the event of its row of the table.
LEMMA FinishReports ==
    ASSUME TypeOK, AcceptanceIsCurrent, NEW u \in User, NEW k \in Key, FinishAction(u, k)
    PROVE  \E t \in Trip, type \in EventType : Reported(t, k, type)
<1> DEFINE t == open[u].trip
           a == open[u].action
<1>1. /\ open[u] # Null /\ t \in Trip /\ a \in DOMAIN Action /\ open[u].accepted \in BOOLEAN
      /\ UnusedKey(t, k) /\ trip[t] = Action[a].from
      /\ a = "ACCEPT" => ~open[u].accepted
      /\ MoveTo(t, Action[a].to)
      /\ log' = Appended(t, k, Action[a].event)
      /\ IF a = "END" THEN OpenPod(t) ELSE UNCHANGED <<pod, announced>>
  BY DEF FinishAction, TypeOK
<1>2. trip[t] # "NONE" /\ (a = "ACCEPT" => Events(t, "ACCEPT") = {})
  BY <1>1 DEF AcceptanceIsCurrent
<1> HIDE DEF t, a
<1>3. Reported(t, k, Action[a].event) /\ Action[a].event \in EventType
  BY <1>1, <1>2, Actions DEF Reported
<1>4. QED
  BY <1>1, <1>3

\* Every step is of one of four kinds or a stutter.
LEMMA StepKinds ==
    ASSUME TypeOK, AcceptanceIsCurrent, [Next]_vars
    PROVE  \/ \E t \in Trip, k \in Key, type \in EventType : Reported(t, k, type)
           \/ \E t \in Trip, to \in TripState : Moved(t, to)
           \/ \E t \in Trip, to \in PodState : Reviewed(t, to)
           \/ \E u \in User : Read(u)
           \/ UNCHANGED vars
<1>1. ASSUME NEW t \in Trip, CreateTrip(t) PROVE Moved(t, "PLANNED") /\ "PLANNED" \in TripState
  BY <1>1, Tables DEF CreateTrip, Moved
<1>2. ASSUME NEW t \in Trip, NEW to \in TripState, TransitionTrip(t, to) PROVE Moved(t, to)
  BY <1>2 DEF TransitionTrip, Moved
<1>3. ASSUME NEW t \in Trip, NEW to \in PodState, TransitionPod(t, to) PROVE Reviewed(t, to)
  BY <1>3, Reviews, Tables DEF TransitionPod, Reviewed
<1>4. ASSUME NEW t \in Trip, NEW r \in DOMAIN ReviewMoves, ReviewPod(t, r)
      PROVE  Reviewed(t, ReviewMoves[r].to) /\ ReviewMoves[r].to \in PodState
  BY <1>4, Reviews DEF ReviewPod, Reviewed
<1>5. ASSUME NEW t \in Trip, NEW k \in Key, NEW type \in EventType \ {"ACCEPT"},
             DeviceEvent(t, k, type)
      PROVE  Reported(t, k, type)
  BY <1>5, Tables DEF DeviceEvent, Reported, EventType
<1>6. ASSUME NEW u \in User, NEW t \in Trip, NEW a \in DOMAIN Action, BeginAction(u, t, a)
      PROVE  Read(u)
  <2> DEFINE accepted == Events(t, "ACCEPT") # {}
             new == [trip |-> t, action |-> a, accepted |-> accepted]
  <2>1. accepted \in BOOLEAN
    OBVIOUS
  <2>2. open' = [open EXCEPT ![u] = new] /\ trip[t] # "NONE"
    BY <1>6 DEF BeginAction
  <2>3. ~accepted => Events(t, "ACCEPT") = {}
    OBVIOUS
  <2> HIDE DEF accepted
  <2>4. /\ new \in [trip: Trip, action: DOMAIN Action, accepted: BOOLEAN]
        /\ new.trip = t /\ new.accepted = accepted
    BY <2>1
  <2> HIDE DEF new
  <2>5. UNCHANGED <<trip, log, pod, announced>>
    BY <1>6 DEF BeginAction
  <2>6. QED
    BY <2>2, <2>3, <2>4, <2>5 DEF Read
<1>7. ASSUME NEW u \in User, Rollback(u) PROVE Read(u)
  BY <1>7 DEF Rollback, Read
<1>8. QED
  BY <1>1, <1>2, <1>3, <1>4, <1>5, <1>6, <1>7, FinishReports DEF Next

\* A new key makes the event one more of its type and of no other.
LEMMA AppendCounts ==
    ASSUME TypeOK, NEW t \in Trip, NEW k \in Key, NEW type \in EventType,
           UnusedKey(t, k), log' = Appended(t, k, type)
    PROVE  /\ [key |-> k, type |-> type] \in log'[t] \ log[t]
           /\ Cardinality(Events(t, type)') = Cardinality(Events(t, type)) + 1
<1> DEFINE e == [key |-> k, type |-> type]
<1>1. /\ log'[t] = log[t] \cup {e} /\ \A s \in Trip \ {t} : log'[s] = log[s]
      /\ e \notin log[t] /\ e.type = type
  BY DEF Appended, UnusedKey, TypeOK
<1> HIDE DEF e
<1>2. Events(t, type)' = Events(t, type) \cup {e} /\ e \notin Events(t, type)
  BY <1>1 DEF Events
<1>3. Cardinality(Events(t, type)') = Cardinality(Events(t, type)) + 1
  BY <1>2, EventsAreFinite, FS_AddElement
<1>4. QED
  BY <1>1, <1>3 DEF e

\* The events of the other types and of the other trips are as they were.
LEMMA AppendLeaves ==
    ASSUME TypeOK, NEW t \in Trip, NEW k \in Key, NEW type \in EventType,
           log' = Appended(t, k, type), NEW s \in Trip, NEW ty, s # t \/ ty # type
    PROVE  Events(s, ty)' = Events(s, ty)
  BY DEF Events, Appended, TypeOK

-----------------------------------------------------------------------------
(* The invariants                                                          *)

\* Writing the state of a trip keeps the types of trips and requests.
LEMMA MoveKeepsType ==
    ASSUME TypeOK, NEW t \in Trip, NEW to \in TripState \cup {"NONE"}, MoveTo(t, to)
    PROVE  /\ trip' \in [Trip -> TripState \cup {"NONE"}]
           /\ open' \in [User -> {Null} \cup
                           [trip: Trip, action: DOMAIN Action, accepted: BOOLEAN]]
           /\ \A u \in User : open'[u] = Null \/ (open'[u] = open[u] /\ open[u].trip # t)
           /\ trip'[t] = to /\ \A s \in Trip \ {t} : trip'[s] = trip[s]
  BY DEF TypeOK, MoveTo, StillExpected

\* The type of every variable is kept by every step.
LEMMA TypeStep == TypeOK /\ AcceptanceIsCurrent /\ [Next]_vars => TypeOK'
<1> SUFFICES ASSUME TypeOK, AcceptanceIsCurrent, [Next]_vars PROVE TypeOK'
  OBVIOUS
<1>1. ASSUME NEW t \in Trip, NEW k \in Key, NEW type \in EventType, Reported(t, k, type)
      PROVE  TypeOK'
  <2>1. log' \in [Trip -> SUBSET [key: Key, type: EventType]]
    BY <1>1 DEF Reported, Appended, TypeOK
  <2>2. /\ pod' \in [Trip -> PodState \cup {"NONE"}]
        /\ announced' \in [Trip -> Nat]
    BY <1>1, Tables DEF Reported, OpenPod, TypeOK
  <2>3. /\ trip' \in [Trip -> TripState \cup {"NONE"}]
        /\ open' \in [User -> {Null} \cup
                        [trip: Trip, action: DOMAIN Action, accepted: BOOLEAN]]
    <3>1. CASE type \in DOMAIN StateMap /\ MoveTo(t, StateMap[type])
      BY <3>1, MoveKeepsType, Tables
    <3>2. CASE MoveTo(t, trip[t])
      <4>1. trip[t] \in TripState \cup {"NONE"}
        BY DEF TypeOK
      <4>2. QED
        BY <3>2, <4>1, MoveKeepsType
    <3>3. CASE UNCHANGED <<trip, open>>
      BY <3>3 DEF TypeOK
    <3>4. QED
      BY <1>1, <3>1, <3>2, <3>3 DEF Reported
  <2>4. QED
    BY <2>1, <2>2, <2>3 DEF TypeOK
<1>2. ASSUME NEW t \in Trip, NEW to \in TripState, Moved(t, to) PROVE TypeOK'
  BY <1>2, MoveKeepsType DEF Moved, TypeOK
<1>3. ASSUME NEW t \in Trip, NEW to \in PodState, Reviewed(t, to) PROVE TypeOK'
  BY <1>3 DEF Reviewed, SetPod, TypeOK
<1>4. ASSUME NEW u \in User, Read(u) PROVE TypeOK'
  BY <1>4 DEF Read, TypeOK
<1>5. CASE UNCHANGED vars
  BY <1>5 DEF vars, TypeOK
<1>6. QED
  BY <1>1, <1>2, <1>3, <1>4, <1>5, StepKinds

\* Every delivery that is announced adds its event, and the first its POD task.
LEMMA DeliveryStep ==
    ASSUME TypeOK, AcceptanceIsCurrent, DeliveryIsAccountedFor, [Next]_vars
    PROVE  DeliveryIsAccountedFor'
<1> USE DEF DeliveryIsAccountedFor
<1>1. ASSUME NEW t \in Trip, NEW k \in Key, NEW type \in EventType, Reported(t, k, type)
      PROVE  DeliveryIsAccountedFor'
  <2>1. UnusedKey(t, k) /\ log' = Appended(t, k, type)
    BY <1>1 DEF Reported
  <2>2. CASE type = "DELIVERED"
    <3>1. /\ announced'[t] = announced[t] + 1 /\ pod'[t] # "NONE"
          /\ \A s \in Trip \ {t} : announced'[s] = announced[s] /\ pod'[s] = pod[s]
      BY <1>1, <2>2 DEF Reported, OpenPod, TypeOK
    <3>2. announced[t] \in Nat
      BY DEF TypeOK
    <3>3. Cardinality(Events(t, "DELIVERED")') = Cardinality(Events(t, "DELIVERED")) + 1
      BY <2>1, <2>2, AppendCounts
    <3>4. ASSUME NEW s \in Trip \ {t} PROVE Events(s, "DELIVERED")' = Events(s, "DELIVERED")
      BY <2>1, AppendLeaves
    <3>5. QED
      BY <3>1, <3>2, <3>3, <3>4
  <2>3. CASE type # "DELIVERED"
    <3>1. UNCHANGED <<pod, announced>>
      BY <1>1, <2>3 DEF Reported
    <3>2. ASSUME NEW s \in Trip PROVE Events(s, "DELIVERED")' = Events(s, "DELIVERED")
      BY <2>1, <2>3, AppendLeaves
    <3>3. QED
      BY <3>1, <3>2
  <2>4. QED
    BY <2>2, <2>3
<1>2. CASE UNCHANGED <<log, pod, announced>>
  BY <1>2 DEF Events
<1>3. ASSUME NEW t \in Trip, NEW to \in PodState, Reviewed(t, to)
      PROVE  DeliveryIsAccountedFor'
  <2>1. \A s \in Trip : pod'[s] # "NONE" <=> pod[s] # "NONE"
    BY <1>3, Tables DEF Reviewed, SetPod, TypeOK
  <2>2. log' = log /\ announced' = announced
    BY <1>3 DEF Reviewed, SetPod
  <2>3. QED
    BY <2>1, <2>2 DEF Events
<1>4. QED
  BY <1>1, <1>2, <1>3, StepKinds DEF Moved, Read, vars

\* An acceptance is written by a request that is right about there being none.
LEMMA AcceptanceStep ==
    ASSUME TypeOK, AcceptanceIsCurrent, AcceptedOnce, [Next]_vars
    PROVE  AcceptedOnce' /\ AcceptanceIsCurrent'
<1> DEFINE Goal == AcceptedOnce' /\ AcceptanceIsCurrent'
<1>1. ASSUME NEW t \in Trip, NEW k \in Key, NEW type \in EventType, Reported(t, k, type)
      PROVE  Goal
  <2>1. UnusedKey(t, k) /\ log' = Appended(t, k, type) /\ trip[t] # "NONE"
    BY <1>1 DEF Reported
  <2>2. ASSUME NEW s \in Trip, s # t \/ type # "ACCEPT"
        PROVE  Events(s, "ACCEPT")' = Events(s, "ACCEPT")
    BY <2>1, <2>2, AppendLeaves
  <2>3. AcceptedOnce'
    <3>1. CASE type = "ACCEPT"
      <4>1. Cardinality(Events(t, "ACCEPT")) = 0
        <5>1. Events(t, "ACCEPT") = {}
          BY <1>1, <3>1, Tables DEF Reported, StateMap
        <5>2. QED
          BY <5>1, FS_EmptySet
      <4>2. Cardinality(Events(t, "ACCEPT")') = 0 + 1
        BY <2>1, <3>1, <4>1, AppendCounts
      <4>3. QED
        BY <2>2, <4>2 DEF AcceptedOnce
    <3>2. CASE type # "ACCEPT"
      BY <2>2, <3>2 DEF AcceptedOnce
    <3>3. QED
      BY <3>1, <3>2
  <2>4. \A u \in User : \/ open'[u] = Null
                        \/ /\ open'[u] = open[u]
                           /\ open[u].trip # t \/ type # "ACCEPT"
    <3>1. CASE type \in DOMAIN StateMap /\ MoveTo(t, StateMap[type])
      BY <3>1, MoveKeepsType, Tables
    <3>2. CASE MoveTo(t, trip[t])
      <4>1. trip[t] \in TripState \cup {"NONE"}
        BY DEF TypeOK
      <4>2. QED
        BY <3>2, <4>1, MoveKeepsType
    <3>3. CASE type = "CHECKPOINT" /\ UNCHANGED <<trip, open>>
      BY <3>3
    <3>4. QED
      BY <1>1, <3>1, <3>2, <3>3 DEF Reported
  <2>5. \A s \in Trip : trip[s] # "NONE" => trip'[s] # "NONE"
    BY <1>1, Tables DEF Reported, MoveTo, TypeOK
  <2>6. \A u \in User : open[u] # Null => open[u].trip \in Trip
    BY DEF TypeOK
  <2>7. AcceptanceIsCurrent'
    <3>1. ASSUME NEW u \in User, open'[u] # Null, ~open'[u].accepted
          PROVE  Events(open[u].trip, "ACCEPT")' = {}
      <4>1. /\ open'[u] = open[u] /\ open[u].trip \in Trip
            /\ open[u].trip # t \/ type # "ACCEPT"
        BY <2>4, <2>6, <3>1
      <4>2. Events(open[u].trip, "ACCEPT") = {}
        BY <3>1, <4>1 DEF AcceptanceIsCurrent
      <4>3. {e \in log'[open[u].trip] : e.type = "ACCEPT"} = {}
        BY <2>1, <4>1, <4>2 DEF Appended, Events, TypeOK
      <4>4. QED
        BY <4>1, <4>3 DEF Events
    <3>2. \A u \in User : open'[u] # Null => trip'[open'[u].trip] # "NONE"
      BY <2>4, <2>5, <2>6 DEF AcceptanceIsCurrent
    <3>3. QED
      BY <3>1, <3>2 DEF AcceptanceIsCurrent
  <2>8. QED
    BY <2>3, <2>7
<1>2. ASSUME NEW t \in Trip, NEW to \in TripState, Moved(t, to) PROVE Goal
  <2>1. /\ log' = log
        /\ \A u \in User : open'[u] = Null \/ open'[u] = open[u]
        /\ \A s \in Trip : trip[s] # "NONE" => trip'[s] # "NONE"
    BY <1>2, MoveKeepsType, Tables DEF Moved
  <2>2. \A u \in User : open[u] # Null => open[u].trip \in Trip
    BY DEF TypeOK
  <2>3. QED
    BY <2>1, <2>2 DEF AcceptanceIsCurrent, AcceptedOnce, Events
<1>3. ASSUME NEW t \in Trip, NEW to \in PodState, Reviewed(t, to) PROVE Goal
  BY <1>3 DEF Reviewed, SetPod, AcceptanceIsCurrent, AcceptedOnce, Events
<1>4. ASSUME NEW u \in User, Read(u) PROVE Goal
  BY <1>4 DEF Read, AcceptanceIsCurrent, AcceptedOnce, Events, TypeOK
<1>5. CASE UNCHANGED vars
  BY <1>5 DEF vars, AcceptanceIsCurrent, AcceptedOnce, Events
<1>6. QED
  BY <1>1, <1>2, <1>3, <1>4, <1>5, StepKinds

-----------------------------------------------------------------------------
(* The theorems                                                            *)

\* The empty tables satisfy the inductive invariant.
LEMMA InitIInv == Init => IInv
<1> SUFFICES ASSUME Init PROVE IInv
  OBVIOUS
<1>1. TypeOK
  BY DEF Init, TypeOK
<1>2. \A t \in Trip : \A type : Events(t, type) = {}
  BY DEF Init, Events
<1>3. DeliveryIsAccountedFor /\ AcceptedOnce
  BY <1>2, FS_EmptySet DEF Init, DeliveryIsAccountedFor, AcceptedOnce
<1>4. AcceptanceIsCurrent
  BY DEF Init, AcceptanceIsCurrent
<1>5. QED
  BY <1>1, <1>3, <1>4 DEF IInv

\* Every step keeps the inductive invariant.
LEMMA NextIInv == IInv /\ [Next]_vars => IInv'
  BY TypeStep, DeliveryStep, AcceptanceStep DEF IInv

\* IInv is an invariant of the specification.
LEMMA Invariance == Spec => []IInv
  BY InitIInv, NextIInv, PTL DEF Spec

\* Every row of trips, events and POD tasks and every request keeps its type.
THEOREM TypeCorrect == Spec => []TypeOK
<1>1. IInv => TypeOK
  BY DEF IInv
<1>2. QED
  BY <1>1, Invariance, PTL

\* One POD task exists from the first announced delivery on, and every
\* announcement has its event, however deliveries are reported.
THEOREM DeliveriesAreAccountedFor == Spec => []DeliveryIsAccountedFor
<1>1. IInv => DeliveryIsAccountedFor
  BY DEF IInv
<1>2. QED
  BY <1>1, Invariance, PTL

\* A trip is accepted once, however many dispatchers accept it at a time.
THEOREM TripsAreAcceptedOnce == Spec => []AcceptedOnce
<1>1. IInv => AcceptedOnce
  BY DEF IInv
<1>2. QED
  BY <1>1, Invariance, PTL

\* Only an event that is recorded takes a trip off its transition graph.
THEOREM OnlyEventsDepart == Spec => DeparturesAreLogged
<1> DEFINE Step == \A t \in Trip :
                      trip[t] \in TripState /\ trip'[t] # trip[t]
                          => \/ trip'[t] \in TripMoves[trip[t]]
                             \/ \E e \in log'[t] \ log[t] :
                                   e.type \in DOMAIN StateMap /\ StateMap[e.type] = trip'[t]
<1>1. ASSUME IInv, [Next]_vars PROVE [Step]_vars
  <2> USE DEF IInv
  <2>1. ASSUME NEW t \in Trip, NEW k \in Key, NEW type \in EventType, Reported(t, k, type)
        PROVE  Step
    <3>1. [key |-> k, type |-> type] \in log'[t] \ log[t]
      <4>1. UnusedKey(t, k) /\ log' = Appended(t, k, type)
        BY <2>1 DEF Reported
      <4>2. QED
        BY <1>1, <4>1, AppendCounts
    <3>2. \/ trip' = trip
          \/ /\ type \in DOMAIN StateMap /\ trip'[t] = StateMap[type]
             /\ \A s \in Trip \ {t} : trip'[s] = trip[s]
      <4>1. \/ type \in DOMAIN StateMap /\ MoveTo(t, StateMap[type])
            \/ MoveTo(t, trip[t])
            \/ trip' = trip
        BY <2>1 DEF Reported
      <4>2. QED
        BY <1>1, <4>1 DEF MoveTo, TypeOK
    <3>3. QED
      BY <3>1, <3>2
  <2>2. ASSUME NEW t \in Trip, NEW to \in TripState, Moved(t, to) PROVE Step
    BY <2>2, Tables DEF Moved, MoveTo, TypeOK
  <2>3. CASE UNCHANGED trip
    BY <2>3
  <2>4. QED
    BY <1>1, <2>1, <2>2, <2>3, StepKinds DEF Reviewed, SetPod, Read, vars
<1>2. Spec => [][Step]_vars
  BY <1>1, Invariance, PTL DEF Spec
<1>3. QED
  BY <1>2 DEF DeparturesAreLogged

\* An accepted POD stays accepted or goes on from there.
THEOREM AcceptedPodsStay == Spec => AcceptedPodStays
<1> DEFINE Step == \A t \in Trip : pod[t] \in {"ACCEPTED", "SUBMITTED_TO_CLIENT", "CLOSED"}
                      => pod'[t] \in {"ACCEPTED", "SUBMITTED_TO_CLIENT", "CLOSED"}
<1>1. ASSUME IInv, [Next]_vars PROVE [Step]_vars
  <2> USE DEF IInv
  <2>1. ASSUME NEW t \in Trip, NEW k \in Key, NEW type \in EventType, Reported(t, k, type)
        PROVE  Step
    <3>1. OpenPod(t) \/ pod' = pod
      BY <2>1 DEF Reported
    <3>2. QED
      BY <1>1, <3>1 DEF OpenPod, TypeOK
  <2>2. ASSUME NEW t \in Trip, NEW to \in PodState, Reviewed(t, to) PROVE Step
    BY <2>2 DEF Reviewed, SetPod, TypeOK
  <2>3. CASE UNCHANGED pod
    BY <2>3
  <2>4. QED
    BY <1>1, <2>1, <2>2, <2>3, StepKinds DEF Moved, Read, vars
<1>2. Spec => [][Step]_vars
  BY <1>1, Invariance, PTL DEF Spec
<1>3. QED
  BY <1>2 DEF AcceptedPodStays
=============================================================================
