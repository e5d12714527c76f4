----------------------------- MODULE Integrations -----------------------------
(***************************************************************************)
(* Calls to and from other systems.  An outgoing event is a delivery that  *)
(* the worker tries until its policy gives up and leaves a dead letter,    *)
(* which somebody may replay; no provider is configured, so every try      *)
(* fails.  An incoming event comes from a client whose credential may be   *)
(* rotated: the old one is still accepted for a window of time.            *)
(***************************************************************************)
EXTENDS Naturals, FiniteSets

CONSTANTS
  Events, Payloads,
  MaxAttempts,   \* retry_policy.maxAttempts
  Limit,         \* deliveries that one run of the worker takes
  MaxVersion,    \* bound: steps of a delivery
  Clients, Roots, EventKeys,   \* Roots: clients that createApiClient makes
  Window,        \* how long a rotated credential is accepted
  MaxTime,       \* bound: ticks of the clock
  None

VARIABLES
  delivery,  \* integration_deliveries
  letter,    \* integration_dead_letters of the deliveries
  tried,     \* integration_delivery_attempts: <<event, attempt_no>>
  due,       \* deliveries with available_at <= now
  client,    \* api_clients
  clock,
  webhooks,  \* webhook_events: <<client, event_key>> with the payload
  meant      \* history: the expiry that a root was created with

vars == <<delivery, letter, tried, due, client, clock, webhooks, meant>>

outgoing == <<delivery, letter, tried, due>>
incoming == <<client, clock, webhooks, meant>>

NoDelivery == [state |-> "ABSENT", attempts |-> 0, version |-> 0, payload |-> None]
NoLetter == [state |-> "ABSENT", replays |-> 0]
NoClient == [state |-> "ABSENT", expires |-> None, from |-> None]
Never == MaxTime + 1   \* expires_at null

Init ==
  /\ delivery = [e \in Events |-> NoDelivery]
  /\ letter = [e \in Events |-> NoLetter]
  /\ tried = {}
  /\ due = {}
  /\ client = [c \in Clients |-> NoClient]
  /\ clock = 0
  /\ webhooks = [k \in {} |-> None]
  /\ meant = [c \in Clients |-> None]

(***************************************************************************)
(* Outgoing.                                                               *)
(***************************************************************************)
Queued(p) == [state |-> "PENDING", attempts |-> 0, version |-> 1, payload |-> p]

\* An event that is there already is answered as it stands.
recordDelivery(e, p) ==
  /\ delivery[e] = NoDelivery
  /\ delivery' = [delivery EXCEPT ![e] = Queued(p)]
  /\ due' = due \cup {e}
  /\ UNCHANGED <<letter, tried, incoming>>

Bury(d) == [d EXCEPT !.state = "DEAD_LETTER", !.attempts = @ + 1, !.version = @ + 1]
\* Mutant: a letter that was resolved stays resolved.
OpenedOnce(l) == IF l.state = "ABSENT" THEN [l EXCEPT !.state = "OPEN"] ELSE l

Opened(l) == [l EXCEPT !.state = "OPEN"]

recordFailedDelivery(e, p) ==
  LET d == IF delivery[e] = NoDelivery THEN Queued(p) ELSE delivery[e] IN
  /\ d.payload = p
  /\ d.state \in {"PENDING", "FAILED"}
  /\ d.version < MaxVersion
  /\ delivery' = [delivery EXCEPT ![e] = Bury(d)]
  /\ letter' = [letter EXCEPT ![e] = Opened(@)]
  /\ due' = due \cup {e}
  /\ UNCHANGED <<tried, incoming>>

\* The attempts that were made are kept.
replay(e) ==
  /\ delivery[e].state = "DEAD_LETTER" /\ letter[e].state = "OPEN"
  /\ delivery[e].version < MaxVersion
  /\ delivery' = [delivery EXCEPT ![e].state = "PENDING", ![e].version = @ + 1]
  /\ letter' = [letter EXCEPT ![e] = [state |-> "RESOLVED", replays |-> @.replays + 1]]
  /\ due' = due \cup {e}
  /\ UNCHANGED <<tried, incoming>>

\* One run of the worker: each delivery it took was tried and failed.
integrationDeliveries(S) ==
  LET GivesUp(e) == delivery[e].attempts + 1 >= MaxAttempts IN
  /\ S # {} /\ Cardinality(S) <= Limit
  /\ \A e \in S : /\ e \in due /\ delivery[e].state \in {"PENDING", "FAILED"}
                  /\ delivery[e].version < MaxVersion
                  /\ <<e, delivery[e].attempts + 1>> \notin tried
  /\ tried' = tried \cup {<<e, delivery[e].attempts + 1>> : e \in S}
  /\ delivery' = [e \in Events |->
       IF e \notin S THEN delivery[e]
       ELSE IF GivesUp(e) THEN Bury(delivery[e])
       ELSE [Bury(delivery[e]) EXCEPT !.state = "FAILED"]]
  /\ letter' = [e \in Events |-> IF e \in S /\ GivesUp(e) THEN Opened(letter[e]) ELSE letter[e]]
  /\ due' = due \ {e \in S : ~GivesUp(e)}
  /\ UNCHANGED incoming

BackoffEnds(e) ==
  /\ delivery[e] # NoDelivery /\ e \notin due
  /\ due' = due \cup {e}
  /\ UNCHANGED <<delivery, letter, tried, incoming>>

(***************************************************************************)
(* Incoming.                                                               *)
(***************************************************************************)
createApiClient(c, expires) ==
  /\ c \in Roots /\ client[c] = NoClient
  /\ client' = [client EXCEPT ![c] = [state |-> "ACTIVE", expires |-> expires, from |-> None]]
  /\ meant' = [meant EXCEPT ![c] = expires]
  /\ UNCHANGED <<clock, webhooks, outgoing>>

Least(a, b) == IF a < b THEN a ELSE b

\* The new credential expires when the old one was to expire.
Successor(c) == [state |-> "ACTIVE", expires |-> client[c].expires, from |-> c]

rotateApiClient(c, d) ==
  /\ client[c] # NoClient
  /\ d \notin Roots /\ client[d] = NoClient
  /\ client' = [client EXCEPT ![d] = Successor(c),
                              ![c].state = "ROTATING",
                              ![c].expires = Least(@, clock + Window)]
  /\ UNCHANGED <<clock, webhooks, meant, outgoing>>

Accepted(c) == client[c] # NoClient /\ client[c].expires > clock

\* An event that was recorded before is answered as it was.
ingestWebhook(c, k, p) ==
  /\ Accepted(c)
  /\ <<c, k>> \notin DOMAIN webhooks
  /\ webhooks' = [x \in DOMAIN webhooks \cup {<<c, k>>} |-> IF x = <<c, k>> THEN p ELSE webhooks[x]]
  /\ UNCHANGED <<client, clock, meant, outgoing>>

Tick == clock < MaxTime /\ clock' = clock + 1 /\ UNCHANGED <<client, webhooks, meant, outgoing>>

Next ==
  \/ \E e \in Events, p \in Payloads : recordDelivery(e, p) \/ recordFailedDelivery(e, p)
  \/ \E e \in Events : replay(e) \/ BackoffEnds(e)
  \/ \E S \in SUBSET Events : integrationDeliveries(S)
  \/ \E c \in Clients, x \in 1..Never : createApiClient(c, x)
  \/ \E c, d \in Clients : rotateApiClient(c, d)
  \/ \E c \in Clients, k \in EventKeys, p \in Payloads : ingestWebhook(c, k, p)
  \/ Tick

Spec == Init /\ [][Next]_vars

(***************************************************************************)
(* Properties.                                                             *)
(***************************************************************************)
TypeOK ==
  /\ \A e \in Events :
       /\ delivery[e].state \in {"ABSENT", "PENDING", "FAILED", "DEAD_LETTER"}
       /\ delivery[e].attempts \in Nat /\ delivery[e].version \in 0..MaxVersion
       /\ letter[e].state \in {"ABSENT", "OPEN", "RESOLVED"} /\ letter[e].replays \in Nat
  /\ tried \subseteq Events \X (1..MaxVersion)
  /\ due \subseteq Events
  /\ \A c \in Clients : /\ client[c].state \in {"ABSENT", "ACTIVE", "ROTATING"}
                        /\ client[c].from \in Clients \cup {None}
  /\ DOMAIN webhooks \subseteq Clients \X EventKeys

\* What was given up has an open letter and nothing else has; each replay
\* buys one attempt at most beyond the policy; the number of the next attempt
\* is free, or no run of the worker could ever commit.
LettersMatch ==
  \A e \in Events :
    /\ (delivery[e].state = "DEAD_LETTER") = (letter[e].state = "OPEN")
    /\ delivery[e].attempts <= MaxAttempts + letter[e].replays
    /\ \A t \in tried : t[1] = e => t[2] <= delivery[e].attempts

\* The credentials that go back to r: r, and what was made from one of them.
GoesBack(c, r) ==
  \A S \in SUBSET Clients : r \in S /\ (\A d \in Clients : client[d].from \in S => d \in S) => c \in S

\* However often credentials are rotated, for as long as the first one was to
\* be valid there is one that is, and a rotated one is refused after the window.
RotationKeepsAccess ==
  /\ \A r \in Roots : client[r] # NoClient /\ meant[r] > clock =>
       \E c \in Clients : Accepted(c) /\ GoesBack(c, r) /\ client[c].expires = meant[r]
  /\ \A c \in Clients : client[c].state = "ROTATING" => client[c].expires <= clock + Window
================================================================================
