----------------------------- MODULE TripExecution -----------------------------
(***************************************************************************)
(* The life of a trip and of the proof-of-delivery (POD) task it opens, as *)
(* four handlers of three services write them:                             *)
(*   tripAction      operations/operations-workbench.service.ts            *)
(*   appendTripEvent canonical/canonical.service.ts, events from devices   *)
(*   transition      canonical/canonical.service.ts, any listed state      *)
(*   reviewPod       canonical/advanced.service.ts                         *)
(*                                                                         *)
(* tripAction learns whether a trip is accepted in the snapshot of the     *)
(* statement that waits for the trip row, so it is split into Begin and    *)
(* Finish.  What makes that safe is the expectedVersion of the request: a  *)
(* write of the trip raises its version and so refuses every request that  *)
(* is waiting for it.  The other handlers read what they decide on under   *)
(* the row lock and are one step.                                          *)
(*                                                                         *)
(* A request is retried under its idempotency key and a device resends an  *)
(* event under its event key.  A key that has been used has no effect: the *)
(* idempotency record answers, or the upsert on trip_events meets the      *)
(* trigger that forbids updates and the transaction fails.  A step takes a *)
(* key that is new to the trip.                                            *)
(***************************************************************************)
EXTENDS Integers, FiniteSets

CONSTANTS Trip,
          User,        \* dispatchers with a tripAction request under way
          Key,         \* keys of requests and device events; bounds the events
          Null

ASSUME TripAssumption == IsFiniteSet(Key) /\ Null \notin User \cup Trip

VARIABLES trip,       \* app.trips: state
          log,        \* app.trip_events: the key and the type of every row
          pod,        \* app.pod_tasks: state, at most one row per trip
          announced,  \* rows 'trip.delivered.v1' of app.outbox_events
          open        \* tripAction transactions waiting for their trip

vars == <<trip, log, pod, announced, open>>

TripMoves == [
    PLANNED |-> {"AT_ORIGIN", "CANCELLED"},
    AT_ORIGIN |-> {"LOADED", "CANCELLED"},
    LOADED |-> {"IN_TRANSIT"},
    IN_TRANSIT |-> {"AT_DESTINATION"},
    AT_DESTINATION |-> {"DELIVERED"},
    DELIVERED |-> {}, CANCELLED |-> {}]

PodMoves == [
    AWAITING_POD |-> {"RECEIVED"},
    RECEIVED |-> {"UNDER_REVIEW"},
    UNDER_REVIEW |-> {"ACCEPTED", "REJECTED", "CORRECTION_REQUIRED"},
    REJECTED |-> {"CORRECTION_REQUIRED"},
    CORRECTION_REQUIRED |-> {"UNDER_REVIEW", "ACCEPTED"},
    ACCEPTED |-> {"SUBMITTED_TO_CLIENT"},
    SUBMITTED_TO_CLIENT |-> {"CLOSED"},
    CLOSED |-> {}]

\* tripAction: the state an action asks for, its event and its next state.
Action == [
    ACCEPT |-> [from |-> "PLANNED", event |-> "ACCEPT", to |-> "PLANNED"],
    START |-> [from |-> "PLANNED", event |-> "AT_ORIGIN", to |-> "AT_ORIGIN"],
    LOAD |-> [from |-> "AT_ORIGIN", event |-> "LOADED", to |-> "LOADED"],
    TRANSIT |-> [from |-> "LOADED", event |-> "DEPARTED", to |-> "IN_TRANSIT"],
    UNLOAD |-> [from |-> "IN_TRANSIT", event |-> "AT_DESTINATION",
                to |-> "AT_DESTINATION"],
    END |-> [from |-> "AT_DESTINATION", event |-> "DELIVERED", to |-> "DELIVERED"]]

\* appendTripEvent: the state a device event sets; GPS, SOS, EXCEPTION and
\* CHECKPOINT set none and are one type here.
StateMap == [AT_ORIGIN |-> "AT_ORIGIN", LOADED |-> "LOADED",
             DEPARTED |-> "IN_TRANSIT", AT_DESTINATION |-> "AT_DESTINATION",
             DELIVERED |-> "DELIVERED"]

TripState == DOMAIN TripMoves
PodState == DOMAIN PodMoves
EventType == DOMAIN StateMap \cup {"ACCEPT", "CHECKPOINT"}

TypeOK ==
    /\ trip \in [Trip -> TripState \cup {"NONE"}]
    /\ log \in [Trip -> SUBSET [key: Key, type: EventType]]
    /\ pod \in [Trip -> PodState \cup {"NONE"}]
    /\ announced \in [Trip -> Nat]
    /\ open \in [User -> {Null} \cup
                    [trip: Trip, action: DOMAIN Action, accepted: BOOLEAN]]

Init ==
    /\ trip = [t \in Trip |-> "NONE"]
    /\ log = [t \in Trip |-> {}]
    /\ pod = [t \in Trip |-> "NONE"]
    /\ announced = [t \in Trip |-> 0]
    /\ open = [u \in User |-> Null]

-----------------------------------------------------------------------------
Events(t, type) == {e \in log[t] : e.type = type}

UnusedKey(t, k) == \A e \in log[t] : e.key # k

Appended(t, k, type) == [log EXCEPT ![t] = @ \cup {[key |-> k, type |-> type]}]

\* Mutant: expectedVersion is not compared.
KeepWaiting(t) == open

\* The requests that still have the version they expect once t is written.
StillExpected(t) ==
    [u \in User |-> IF open[u] # Null /\ open[u].trip = t THEN Null ELSE open[u]]

\* A write of the trip's state raises its version.
MoveTo(t, state) ==
    /\ trip' = [trip EXCEPT ![t] = state]
    /\ open' = StillExpected(t)

\* ON CONFLICT(tenant_id,trip_id): a second delivery finds the POD task.
OpenPod(t) ==
    /\ pod' = [pod EXCEPT ![t] = IF @ = "NONE" THEN "AWAITING_POD" ELSE @]
    /\ announced' = [announced EXCEPT ![t] = @ + 1]

CreateTrip(t) ==
    /\ trip[t] = "NONE"
    /\ MoveTo(t, "PLANNED")
    /\ UNCHANGED <<log, pod, announced>>

-----------------------------------------------------------------------------
\* A request made on the version its user has just seen, up to the snapshot
\* of SELECT ... FOR UPDATE.
BeginAction(u, t, a) ==
    /\ open[u] = Null
    /\ trip[t] # "NONE"
    /\ open' = [open EXCEPT ![u] =
                   [trip |-> t, action |-> a,
                    accepted |-> Events(t, "ACCEPT") # {}]]
    /\ UNCHANGED <<trip, log, pod, announced>>

\* The trip row is locked and current, accepted is not.
FinishAction(u, k) ==
    LET r == open[u]
    IN  /\ r # Null
        /\ UnusedKey(r.trip, k)
        /\ trip[r.trip] = Action[r.action].from
        /\ r.action = "ACCEPT" => ~r.accepted
        /\ MoveTo(r.trip, Action[r.action].to)
        /\ log' = Appended(r.trip, k, Action[r.action].event)
        /\ IF r.action = "END" THEN OpenPod(r.trip) ELSE UNCHANGED <<pod, announced>>

\* A refused request, a timeout or a crash of the backend.
Rollback(u) ==
    /\ open[u] # Null
    /\ open' = [open EXCEPT ![u] = Null]
    /\ UNCHANGED <<trip, log, pod, announced>>

\* Mutant: a DELIVERED event is announced without opening the POD task.
DeviceEventNoPod(t, k, type) ==
    /\ trip[t] # "NONE"
    /\ UnusedKey(t, k)
    /\ log' = Appended(t, k, type)
    /\ IF type \in DOMAIN StateMap THEN MoveTo(t, StateMap[type])
                                    ELSE UNCHANGED <<trip, open>>
    /\ announced' = [announced EXCEPT ![t] = IF type = "DELIVERED" THEN @ + 1 ELSE @]
    /\ UNCHANGED pod

\* A device event sets its state whatever the state of the trip is.  Its type
\* is free text; the kinds told apart are those the handlers react to, and
\* Next leaves out one that is named like a dispatcher's acceptance.
DeviceEvent(t, k, type) ==
    /\ trip[t] # "NONE"
    /\ UnusedKey(t, k)
    /\ log' = Appended(t, k, type)
    /\ IF type \in DOMAIN StateMap THEN MoveTo(t, StateMap[type])
                                    ELSE UNCHANGED <<trip, open>>
    /\ IF type = "DELIVERED" THEN OpenPod(t) ELSE UNCHANGED <<pod, announced>>

\* The generic transition records no trip event and opens no POD task.
TransitionTrip(t, to) ==
    /\ trip[t] \in TripState
    /\ to \in TripMoves[trip[t]]
    /\ MoveTo(t, to)
    /\ UNCHANGED <<log, pod, announced>>

-----------------------------------------------------------------------------
\* reviewPod; its ACCEPT is missing because the query that looks for clean
\* evidence names a column governed_documents does not have, and fails.
ReviewMoves == [
    RECEIVE |-> [to |-> "RECEIVED", from |-> {"AWAITING_POD"}],
    START_REVIEW |-> [to |-> "UNDER_REVIEW",
                      from |-> {"RECEIVED", "CORRECTION_REQUIRED"}],
    REJECT |-> [to |-> "REJECTED", from |-> {"UNDER_REVIEW"}],
    REQUEST_CORRECTION |-> [to |-> "CORRECTION_REQUIRED",
                            from |-> {"UNDER_REVIEW", "REJECTED"}],
    SUBMIT |-> [to |-> "SUBMITTED_TO_CLIENT", from |-> {"ACCEPTED"}]]

SetPod(t, to) ==
    /\ pod' = [pod EXCEPT ![t] = to]
    /\ UNCHANGED <<trip, log, announced, open>>

\* Mutant: an accepted POD may be sent back for correction.
ReviewPodAgain(t, action) ==
    /\ \/ pod[t] \in ReviewMoves[action].from
       \/ action = "REQUEST_CORRECTION" /\ pod[t] = "ACCEPTED"
    /\ SetPod(t, ReviewMoves[action].to)

ReviewPod(t, action) ==
    /\ pod[t] \in ReviewMoves[action].from
    /\ SetPod(t, ReviewMoves[action].to)

TransitionPod(t, to) ==
    /\ pod[t] \in PodState
    /\ to \in PodMoves[pod[t]]
    /\ SetPod(t, to)

-----------------------------------------------------------------------------
Next ==
    \/ \E t \in Trip :
          \/ CreateTrip(t)
          \/ \E to \in TripState : TransitionTrip(t, to)
          \/ \E to \in PodState : TransitionPod(t, to)
          \/ \E action \in DOMAIN ReviewMoves : ReviewPod(t, action)
          \/ \E k \in Key, type \in EventType \ {"ACCEPT"} : DeviceEvent(t, k, type)
    \/ \E u \in User :
          \/ \E t \in Trip, a \in DOMAIN Action : BeginAction(u, t, a)
          \/ \E k \in Key : FinishAction(u, k)
          \/ Rollback(u)

Spec == Init /\ [][Next]_vars

-----------------------------------------------------------------------------
(* Properties                                                              *)

\* Exactly one POD task exists from the first delivery on, whichever handler
\* reported it and however often, and every outbox announcement of a delivery
\* is backed by one event row.
DeliveryIsAccountedFor ==
    \A t \in Trip :
        /\ announced[t] = Cardinality(Events(t, "DELIVERED"))
        /\ pod[t] # "NONE" <=> announced[t] > 0

\* Dispatchers who accept a trip at the same time record one acceptance:
\* the stale answer to "accepted?" is caught by the expected version.
AcceptedOnce == \A t \in Trip : Cardinality(Events(t, "ACCEPT")) <= 1

\* A trip departs from its transition graph only where an event row, written
\* in the same transaction, says so.
DeparturesAreLogged ==
    [][\A t \in Trip :
           trip[t] \in TripState /\ trip'[t] # trip[t]
               => \/ trip'[t] \in TripMoves[trip[t]]
                  \/ \E e \in log'[t] \ log[t] :
                        e.type \in DOMAIN StateMap /\ StateMap[e.type] = trip'[t]]_vars

\* Once a POD has been accepted no review step of either service, and no
\* later delivery of the trip, takes it back.
AcceptedPodStays ==
    [][\A t \in Trip :
           pod[t] \in {"ACCEPTED", "SUBMITTED_TO_CLIENT", "CLOSED"}
               => pod'[t] \in {"ACCEPTED", "SUBMITTED_TO_CLIENT", "CLOSED"}]_vars
=============================================================================
