--------------------------- MODULE OwnerInvitation ---------------------------
(***************************************************************************)
(* The invitation of a tenant's first owner and the e-mail that carries    *)
(* its link.  Provisioning a tenant writes the invitation, one delivery    *)
(* attempt and an outbox event in one transaction.  The backend instances  *)
(* poll the attempts, lease one, and hand the mail to SES outside of any   *)
(* transaction.  Meanwhile a platform administrator may reissue the        *)
(* invitation, which puts a new token into the same attempt row, close the *)
(* tenant or open it again, and the owner may accept.                      *)
(*                                                                         *)
(* A lease has no token of its own: what an instance records applies to    *)
(* whatever lease the row has by then.  holder, which the table lacks,     *)
(* remembers whose lease it is, so that the properties can tell.           *)
(*                                                                         *)
(* Each tenant has one invitation, and the rows of two tenants never meet, *)
(* so one is enough.  Tokens are numbered in the order they are issued,    *)
(* and 0 stands for a sealed token that is not there.                      *)
(***************************************************************************)
EXTENDS Naturals, FiniteSets

CONSTANTS
  Workers,      \* backend instances, each with one poll at a time
  None,
  MaxIssues,    \* bound: tokens issued
  MaxAttempts,  \* INVITATION_DELIVERY_MAX_ATTEMPTS
  MaxFaults,    \* bound: stops, stalls past a lease, aborted records
  MaxClosings   \* bound: times the tenant is closed

ASSUME ConstantsAssumption ==
  /\ MaxIssues \in Nat \ {0}
  /\ MaxAttempts \in Nat \ {0}
  /\ MaxFaults \in Nat
  /\ MaxClosings \in Nat
  /\ IsFiniteSet(Workers)
  /\ None \notin Workers

VARIABLES
  issue,      \* the token whose hash the invitation has
  accepted,   \* the token it was accepted with, or 0
  expiry,     \* whether expires_at lies ahead or has passed
  delivery,   \* owner_invitations.delivery_state
  member,     \* status of the owner's membership
  attempt,    \* the row of invitation_delivery_attempts
  event,      \* the outbox event of each token
  tenant, closings,
  work,       \* what each instance holds in memory
  faults,
  mails,      \* mails SES took, per token
  overtaken   \* records made under somebody else's lease, per token then current

vars == <<issue, accepted, expiry, delivery, member, attempt, event, tenant,
          closings, work, faults, mails, overtaken>>
world == <<issue, accepted, expiry, member, tenant, closings>>

Tokens == 1 .. MaxIssues
Sealed == 0 .. MaxIssues
Open == {"PENDING", "LEASED"}
Outcome == {"DELIVERED", "RETRY", "FAILED"}

Attempt == [state : Open \cup {"DELIVERED", "FAILED"}, tries : Nat,
            envelope : Sealed, holder : Workers \cup {None}, age : {"fresh", "late"}]
Work == [step : {"idle", "leased", "sending", "recording"}, token : Sealed,
         tries : Nat, outcome : Outcome \cup {None}]
Idle == [step |-> "idle", token |-> 0, tries |-> 0, outcome |-> None]

Queued(token) ==
  [state |-> "PENDING", tries |-> 0, envelope |-> token, holder |-> None, age |-> "fresh"]

\* A tenant is provisioned, open or closed.  The rows of before the column
\* for the sealed token have none.
Init ==
  /\ issue = 1
  /\ accepted = 0
  /\ expiry = "ahead"
  /\ delivery = "PENDING_DELIVERY"
  /\ member = "INVITED"
  /\ \E envelope \in {0, 1} : attempt = Queued(envelope)
  /\ event = [t \in Tokens |-> IF t = 1 THEN "PENDING" ELSE "NONE"]
  /\ tenant \in {"ACTIVE", "INACTIVE"}
  /\ closings = 0
  /\ work = [w \in Workers |-> Idle]
  /\ faults = 0
  /\ mails = [t \in Tokens |-> 0]
  /\ overtaken = [t \in Tokens |-> 0]

(***************************************************************************)
(* The administrator and the owner.                                        *)
(***************************************************************************)
AfterReissue == "PENDING_DELIVERY"

\* A new token replaces the one before, in the invitation and in the queue,
\* whatever state its attempt is in.
Reissue ==
  /\ tenant = "ACTIVE"
  /\ accepted = 0
  /\ issue < MaxIssues
  /\ issue' = issue + 1
  /\ expiry' = "ahead"
  /\ delivery' = AfterReissue
  /\ attempt' = Queued(issue + 1)
  /\ event' = [event EXCEPT ![issue + 1] = "PENDING"]
  /\ UNCHANGED <<accepted, member, tenant, closings, work, faults, mails, overtaken>>

\* The tenant is closed or opened; the attempt waits meanwhile.
Lifecycle ==
  /\ \/ tenant = "ACTIVE" /\ closings < MaxClosings
        /\ tenant' = "INACTIVE" /\ closings' = closings + 1
     \/ tenant = "INACTIVE" /\ tenant' = "ACTIVE" /\ UNCHANGED closings
  /\ UNCHANGED <<issue, accepted, expiry, delivery, member, attempt, event, work,
                 faults, mails, overtaken>>

\* The link need not come from the mail: a reissue shows it once as well.
Accept(token) ==
  /\ token = issue
  /\ accepted = 0 /\ expiry = "ahead"
  /\ tenant = "ACTIVE"
  /\ accepted' = token
  /\ member' = "ACTIVE"
  /\ UNCHANGED <<issue, expiry, delivery, attempt, event, tenant, closings, work,
                 faults, mails, overtaken>>

TokenExpires ==
  /\ expiry = "ahead"
  /\ expiry' = "passed"
  /\ UNCHANGED <<issue, accepted, delivery, member, attempt, event, tenant, closings,
                 work, faults, mails, overtaken>>

(***************************************************************************)
(* A poll: one transaction that first gives up what cannot be sent, and    *)
(* then leases.  With one row it does one of four things.                  *)
(***************************************************************************)
Eligible == accepted = 0 /\ expiry = "ahead"
Deliverable == Eligible /\ tenant = "ACTIVE"

GivenUp == [attempt EXCEPT !.state = "FAILED", !.envelope = 0, !.holder = None, !.age = "fresh"]
DeliveryFailed == IF accepted = 0 THEN "FAILED" ELSE delivery

\* Mutant: the outbox events are forgotten.
EventsLeft(state) == event

EventsEnd(state) == [t \in Tokens |-> IF event[t] = "PENDING" THEN state ELSE event[t]]

\* A row without a sealed token has to be reissued.
RejectLegacy ==
  /\ attempt.state = "PENDING" /\ attempt.envelope = 0
  /\ attempt' = GivenUp
  /\ delivery' = DeliveryFailed
  /\ event' = EventsEnd("FAILED")
  /\ UNCHANGED <<world, work, faults, mails, overtaken>>

\* Mutant: a lease that has run out is left to its holder.
LeaseRunsOutNever == FALSE

LeaseRunsOut == attempt.state = "LEASED" /\ attempt.age = "late"

\* A send that may have crashed is not repeated: SES has no idempotency key.
ReapLease ==
  /\ LeaseRunsOut
  /\ attempt' = GivenUp
  /\ delivery' = DeliveryFailed
  /\ event' = EventsEnd("FAILED")
  /\ UNCHANGED <<world, work, faults, mails, overtaken>>

\* Accepted or expired before it was sent; the invitation is not touched.
DropIneligible ==
  /\ attempt.state = "PENDING" /\ attempt.envelope # 0
  /\ ~Eligible
  /\ attempt' = GivenUp
  /\ event' = EventsEnd("FAILED")
  /\ UNCHANGED <<world, delivery, work, faults, mails, overtaken>>

Lease(w) ==
  /\ work[w].step = "idle"
  /\ attempt.state = "PENDING" /\ attempt.envelope # 0
  /\ Deliverable
  /\ attempt' = [attempt EXCEPT !.state = "LEASED", !.tries = @ + 1, !.holder = w, !.age = "fresh"]
  /\ work' = [work EXCEPT ![w] = [step |-> "leased", token |-> attempt.envelope,
                                  tries |-> attempt.tries + 1, outcome |-> None]]
  /\ UNCHANGED <<world, delivery, event, faults, mails, overtaken>>

(***************************************************************************)
(* The instance that leased the row delivers it.                           *)
(***************************************************************************)
ToRecord(w, outcome) ==
  work' = [work EXCEPT ![w].step = "recording", ![w].outcome = outcome]

\* Any lease will do, and a moment later it may all be different.
CheckEligible(w) ==
  /\ work[w].step = "leased"
  /\ IF attempt.state = "LEASED" /\ Deliverable
       THEN work' = [work EXCEPT ![w].step = "sending"]
       ELSE ToRecord(w, "FAILED")
  /\ UNCHANGED <<world, delivery, attempt, event, faults, mails, overtaken>>

\* Mutant: a call that timed out is tried again.
AfterTimeoutRetry == "RETRY"

\* The outcome of a call that ended without an answer is not known.
AfterTimeout == "FAILED"

\* SES takes the mail, is too busy for it, refuses it, or does not answer.
Send(w) ==
  LET t == work[w].token IN
  /\ work[w].step = "sending"
  /\ \/ /\ mails' = [mails EXCEPT ![t] = @ + 1]
        /\ ToRecord(w, "DELIVERED")
     \/ /\ \E outcome \in {"RETRY", "FAILED"} : ToRecord(w, outcome)
        /\ UNCHANGED mails
     \/ /\ \E taken \in {0, 1} : mails' = [mails EXCEPT ![t] = @ + taken]
        /\ ToRecord(w, AfterTimeout)
  /\ UNCHANGED <<world, delivery, attempt, event, faults, overtaken>>

\* The instance is done with the row; did it still hold the lease?
Release(w) ==
  /\ work' = [work EXCEPT ![w] = Idle]
  /\ overtaken' = IF attempt.holder = w THEN overtaken
                                        ELSE [overtaken EXCEPT ![issue] = @ + 1]
  /\ UNCHANGED <<world, faults, mails>>

Acknowledged == attempt.state = "LEASED" /\ Deliverable

\* SES took the mail.  If the row is not leased any more, or the invitation
\* is no longer good, the invitation is marked as failed.
Complete(w) ==
  /\ work[w].step = "recording" /\ work[w].outcome = "DELIVERED"
  /\ IF Acknowledged
       THEN /\ attempt' = [GivenUp EXCEPT !.state = "DELIVERED"]
            /\ delivery' = "DELIVERED"
            /\ event' = EventsEnd("PROCESSED")
       ELSE /\ attempt' = IF attempt.state = "LEASED" THEN GivenUp ELSE attempt
            /\ delivery' = DeliveryFailed
            /\ event' = EventsEnd("FAILED")
  /\ Release(w)

\* SES did not take it, or may not have: back to the queue, or given up.
Fail(w) ==
  /\ work[w].step = "recording" /\ work[w].outcome \in {"RETRY", "FAILED"}
  /\ LET again == work[w].outcome = "RETRY" /\ work[w].tries < MaxAttempts IN
       IF attempt.state # "LEASED"
         THEN UNCHANGED <<attempt, delivery, event>>
         ELSE IF again
           THEN /\ attempt' = [attempt EXCEPT !.state = "PENDING", !.holder = None, !.age = "fresh"]
                /\ UNCHANGED <<delivery, event>>
           ELSE /\ attempt' = GivenUp
                /\ delivery' = DeliveryFailed
                /\ event' = EventsEnd("FAILED")
  /\ Release(w)

(***************************************************************************)
(* Faults.                                                                 *)
(***************************************************************************)
Fault == faults < MaxFaults /\ faults' = faults + 1

\* The transaction that records fails: a success then counts as a failure,
\* anything else is left to the lease's end.
RecordAborts(w) ==
  /\ work[w].step = "recording"
  /\ Fault
  /\ IF work[w].outcome = "DELIVERED" THEN ToRecord(w, "FAILED")
                                      ELSE work' = [work EXCEPT ![w] = Idle]
  /\ UNCHANGED <<world, delivery, attempt, event, mails, overtaken>>

\* An instance stops between any two steps and starts again.
Crash(w) ==
  /\ work[w].step # "idle"
  /\ Fault
  /\ work' = [work EXCEPT ![w] = Idle]
  /\ UNCHANGED <<world, delivery, attempt, event, mails, overtaken>>

Orphaned == \A w \in Workers : attempt.holder = w => work[w].step = "idle"

\* Fifteen minutes pass: over nobody's work, or over work that is stalled.
LeaseAges ==
  /\ attempt.state = "LEASED" /\ attempt.age = "fresh"
  /\ \/ Orphaned /\ UNCHANGED faults
     \/ ~Orphaned /\ Fault
  /\ attempt' = [attempt EXCEPT !.age = "late"]
  /\ UNCHANGED <<world, delivery, event, work, mails, overtaken>>

-----------------------------------------------------------------------------
Step(w) == CheckEligible(w) \/ Send(w) \/ Complete(w) \/ Fail(w)

Next ==
  \/ Reissue \/ Lifecycle \/ TokenExpires \/ LeaseAges
  \/ \E t \in Tokens : Accept(t)
  \/ RejectLegacy \/ ReapLease \/ DropIneligible
  \/ \E w \in Workers :
        \/ Lease(w)
        \/ CheckEligible(w) \/ Send(w) \/ Complete(w) \/ Fail(w)
        \/ RecordAborts(w) \/ Crash(w)

Spec == Init /\ [][Next]_vars

\* Every running instance polls; a call to SES ends; a token's time and a
\* lease's pass.  Nothing obliges anybody to accept, reissue or reopen.
Fairness ==
  /\ WF_vars(RejectLegacy) /\ WF_vars(ReapLease) /\ WF_vars(DropIneligible)
  /\ WF_vars(\E w \in Workers : Lease(w))
  /\ \A w \in Workers : WF_vars(Step(w))
  /\ WF_vars(Orphaned /\ LeaseAges)
  /\ WF_vars(TokenExpires)

FairSpec == Spec /\ Fairness

-----------------------------------------------------------------------------
(* Properties                                                              *)

TypeOK ==
  /\ issue \in Tokens
  /\ accepted \in Sealed
  /\ expiry \in {"ahead", "passed"}
  /\ delivery \in {"PENDING_DELIVERY", "DELIVERED", "FAILED"}
  /\ member \in {"INVITED", "ACTIVE"}
  /\ attempt \in Attempt
  /\ event \in [Tokens -> {"NONE", "PENDING", "PROCESSED", "FAILED"}]
  /\ tenant \in {"ACTIVE", "INACTIVE"}
  /\ closings \in 0 .. MaxClosings
  /\ work \in [Workers -> Work]
  /\ faults \in 0 .. MaxFaults
  /\ mails \in [Tokens -> Nat]
  /\ overtaken \in [Tokens -> Nat]

\* The owner gets the same link at most once, through retries, crashes and
\* answers that never came, except once more for each record an instance
\* made under a lease that was no longer its own.
MailsAreBounded == \A t \in Tokens : mails[t] <= 1 + overtaken[t]

\* Three tables that several handlers write tell the same story: while a
\* mail is due its event waits and the invitation says so, and an invitation
\* is delivered exactly when its mail is, with the event processed.  As long,
\* again, as nobody recorded under somebody else's lease.
QueueAgrees ==
  overtaken[issue] = 0 =>
    /\ attempt.state \in Open <=> event[issue] = "PENDING"
    /\ attempt.state \in Open => delivery = "PENDING_DELIVERY"
    /\ attempt.state = "DELIVERED" <=> delivery = "DELIVERED"
    /\ delivery = "DELIVERED" <=> event[issue] = "PROCESSED"

\* Whatever stops, stalls or is closed, no mail stays due for ever.
AttemptsSettle == (attempt.state \in Open) ~> (attempt.state \notin Open)
=============================================================================
