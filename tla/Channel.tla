------------------------------- MODULE Channel -------------------------------
(***************************************************************************)
(* The outbound WhatsApp channel: a queue of deliveries in one table,      *)
(* leased row by row by the backend instances that poll it, sent through a *)
(* provider that may fail or answer late, and recorded under the lease's   *)
(* token.  An alert's delivery mirrors its result to the notification that *)
(* asked for it; a reply answers an incoming message.                      *)
(*                                                                         *)
(* A transaction is one action.  The two that touch both a delivery and    *)
(* its notification (EnqueueAlert, Complete) lock them in opposite orders, *)
(* so one of two concurrent ones is aborted: RecordAborts is that, and any *)
(* other failure to record.  Times are abstracted: a delivery waiting for  *)
(* its back-off may be taken at any later moment.                          *)
(***************************************************************************)
EXTENDS Naturals, FiniteSets

CONSTANTS
  Alerts,       \* notifications of alerts to be sent by WhatsApp
  Replies,      \* replies to messages received
  Instances,    \* backend instances, each with one poll at a time
  None,
  MaxAttempts,  \* WHATSAPP_DELIVERY_MAX_ATTEMPTS
  MaxFaults,    \* bound: crashes, stalls past a lease, aborted records
  MaxNights     \* bound: spells of quiet hours

ASSUME ConstantsAssumption ==
  /\ MaxAttempts \in Nat \ {0}
  /\ MaxFaults \in Nat
  /\ MaxNights \in Nat
  /\ Alerts \cap Replies = {}
  /\ IsFiniteSet(Instances)
  /\ None \notin Instances \cup Alerts \cup Replies

VARIABLES
  row,       \* conversation_channel_deliveries
  late,      \* the deliveries whose lease has run out
  source,    \* the state of each notification_deliveries row
  work,      \* what each instance holds in memory
  bound, optedIn,  \* the member's binding and consent
  active,    \* the membership is ACTIVE
  current,   \* alerts the member may see and that are not resolved
  quiet,     \* quiet hours, now
  nights, faults,
  sends,     \* messages the provider took, per delivery
  lost       \* leases that ended by expiry, per delivery

vars == <<row, late, source, work, bound, optedIn, active, current, quiet, nights, faults, sends, lost>>
person == <<bound, optedIn, active, current, quiet, nights>>

Messages == Alerts \cup Replies
Open == {"PENDING", "RETRY", "LEASED"}
Outcome == {"DELIVERED", "RETRY", "DEAD_LETTER", "SUPPRESSED"}
Settled == Outcome \ {"RETRY"}
Told == {"DELIVERED", "SUPPRESSED"}

Row == [state : {"NONE"} \cup Open \cup Settled, attempts : 0 .. MaxAttempts,
        token : Instances \cup {None}]
Work == [step : {"idle", "leased", "consented", "sending", "recording"},
         message : Messages \cup {None}, tries : 0 .. MaxAttempts,
         outcome : Outcome \cup {None}]
Idle == [step |-> "idle", message |-> None, tries |-> 0, outcome |-> None]

Init ==
  /\ row = [d \in Messages |-> [state |-> "NONE", attempts |-> 0, token |-> None]]
  /\ late = {}
  /\ source = [a \in Alerts |-> "PENDING"]
  /\ work = [w \in Instances |-> Idle]
  /\ bound = TRUE
  /\ optedIn = TRUE
  /\ active = TRUE
  /\ current = Alerts
  /\ quiet = FALSE
  /\ nights = 0
  /\ faults = 0
  /\ sends = [d \in Messages |-> 0]
  /\ lost = [d \in Messages |-> 0]

(***************************************************************************)
(* Deliveries enter the queue.                                             *)
(***************************************************************************)
\* The state of a notification whose delivery is in state s.
SourceOf(s) ==
  CASE s = "DELIVERED" -> "DELIVERED"
    [] s \in {"DEAD_LETTER", "SUPPRESSED"} -> "SUPPRESSED"
    [] OTHER -> "LEASED"

\* A notification due for sending, the first time or after a failure.  That
\* of a member who is not active is not selected at all.
EnqueueAlert(a) ==
  /\ active
  /\ source[a] \in {"PENDING", "FAILED"}
  /\ IF a \notin current \/ ~optedIn
       THEN /\ source' = [source EXCEPT ![a] = "SUPPRESSED"]
            /\ UNCHANGED row
       ELSE /\ row' = [row EXCEPT ![a].state = IF @ = "NONE" THEN "PENDING" ELSE @]
            /\ source' = [source EXCEPT ![a] = SourceOf(row[a].state)]
  /\ UNCHANGED <<late, work, person, faults, sends, lost>>

\* A reply is queued once, however often its event is processed.
QueueReply(r) ==
  /\ bound
  /\ row[r].state = "NONE"
  /\ row' = [row EXCEPT ![r].state = "PENDING"]
  /\ UNCHANGED <<late, source, work, person, faults, sends, lost>>

(***************************************************************************)
(* One delivery is leased and handled by an instance.                      *)
(***************************************************************************)
\* Mutant: an expired lease is not taken back.
ReapedNever == row

Reaped ==
  [d \in Messages |->
     IF d \in late THEN [state |-> "RETRY", attempts |-> row[d].attempts, token |-> None]
                   ELSE row[d]]

\* Expired leases return to the queue, then one delivery is leased.
LeaseOne(w, d) ==
  /\ work[w].step = "idle"
  /\ Reaped[d].state \in {"PENDING", "RETRY"}
  /\ row' = [Reaped EXCEPT ![d] = [state |-> "LEASED", attempts |-> @.attempts, token |-> w]]
  /\ late' = {}
  /\ lost' = [e \in Messages |-> IF e \in late THEN lost[e] + 1 ELSE lost[e]]
  /\ work' = [work EXCEPT ![w] = [step |-> "leased", message |-> d,
                                  tries |-> row[d].attempts, outcome |-> None]]
  /\ UNCHANGED <<source, person, faults, sends>>

GoTo(w, step) == work' = [work EXCEPT ![w].step = step]

GoRecord(w, outcome) ==
  work' = [work EXCEPT ![w].step = "recording", ![w].outcome = outcome]

\* The destination and the consent are read.
CheckMember(w) ==
  /\ work[w].step = "leased"
  /\ LET d == work[w].message IN
       \/ /\ ~bound \/ (d \in Alerts /\ ~optedIn)
          /\ GoRecord(w, "SUPPRESSED")
       \/ /\ bound /\ d \in Alerts /\ optedIn
          /\ GoTo(w, "consented")
       \/ /\ bound /\ d \in Replies
          /\ GoTo(w, "sending")
  /\ UNCHANGED <<row, late, source, person, faults, sends, lost>>

\* The member is active, may see the alert, and it is not resolved.
Concerns(a) == active /\ a \in current

\* A later transaction reads whether the alert still concerns the member.
CheckAlert(w) ==
  /\ work[w].step = "consented"
  /\ \/ ~Concerns(work[w].message) /\ GoRecord(w, "SUPPRESSED")
     \/ Concerns(work[w].message) /\ ~quiet /\ GoTo(w, "sending")
  /\ UNCHANGED <<row, late, source, person, faults, sends, lost>>

HoldsLease(w) == row[work[w].message].token = w

\* In quiet hours the delivery is put back, without counting an attempt.
Defer(w) ==
  LET d == work[w].message IN
  /\ work[w].step = "consented"
  /\ Concerns(d) /\ quiet
  /\ IF HoldsLease(w)
       THEN /\ row' = [row EXCEPT ![d] = [state |-> "RETRY", attempts |-> @.attempts, token |-> None]]
            /\ late' = late \ {d}
       ELSE UNCHANGED <<row, late>>
  /\ work' = [work EXCEPT ![w] = Idle]
  /\ UNCHANGED <<source, person, faults, sends, lost>>

\* Mutant: one attempt too many.
AfterFailureLate(tries) == IF tries >= MaxAttempts THEN "DEAD_LETTER" ELSE "RETRY"

\* Every error the adapter raises is one to retry, a refusal included.
AfterFailure(tries) == IF tries + 1 >= MaxAttempts THEN "DEAD_LETTER" ELSE "RETRY"

\* The provider takes the message, or the call fails or times out, which
\* does not say whether it took it.
Send(w) ==
  LET d == work[w].message IN
  /\ work[w].step = "sending"
  /\ \/ /\ sends' = [sends EXCEPT ![d] = @ + 1]
        /\ GoRecord(w, "DELIVERED")
     \/ /\ \E taken \in {0, 1} : sends' = [sends EXCEPT ![d] = @ + taken]
        /\ GoRecord(w, AfterFailure(work[w].tries))
  /\ UNCHANGED <<row, late, source, person, faults, lost>>

\* Mutant: a dead letter is reported as a failure to try again.
ReportedRetry(o) == IF o \in Told THEN o ELSE "FAILED"

\* The state of a notification whose delivery ended in outcome o.
Reported(o) ==
  CASE o = "DELIVERED" -> "DELIVERED"
    [] o = "RETRY" -> "FAILED"
    [] OTHER -> "SUPPRESSED"

\* The outcome is recorded, unless the lease has passed to someone else.
Complete(w) ==
  LET d == work[w].message
      o == work[w].outcome
  IN
  /\ work[w].step = "recording"
  /\ work' = [work EXCEPT ![w] = Idle]
  /\ IF HoldsLease(w)
       THEN /\ row' = [row EXCEPT ![d] = [state |-> o, attempts |-> work[w].tries + 1, token |-> None]]
            /\ late' = late \ {d}
            /\ source' = IF d \in Alerts THEN [source EXCEPT ![d] = Reported(o)] ELSE source
       ELSE UNCHANGED <<row, late, source>>
  /\ UNCHANGED <<person, faults, sends, lost>>

(***************************************************************************)
(* Faults.                                                                 *)
(***************************************************************************)
Fault == faults < MaxFaults /\ faults' = faults + 1

\* Recording fails.  A success is inside the block whose errors count as a
\* failed send; any other outcome is dropped, and its lease left to expire.
RecordAborts(w) ==
  /\ work[w].step = "recording"
  /\ Fault
  /\ IF work[w].outcome = "DELIVERED"
       THEN GoRecord(w, AfterFailure(work[w].tries))
       ELSE work' = [work EXCEPT ![w] = Idle]
  /\ UNCHANGED <<row, late, source, person, sends, lost>>

\* An instance stops between any two steps and starts again.
Crash(w) ==
  /\ work[w].step # "idle"
  /\ Fault
  /\ work' = [work EXCEPT ![w] = Idle]
  /\ UNCHANGED <<row, late, source, person, sends, lost>>

Orphaned(d) == \A w \in Instances : row[d].token = w => work[w].message # d

\* A lease runs out: nobody works under it, or the one who does is late.
Expire(d) ==
  /\ row[d].state = "LEASED" /\ d \notin late
  /\ \/ Orphaned(d) /\ UNCHANGED faults
     \/ ~Orphaned(d) /\ Fault
  /\ late' = late \cup {d}
  /\ UNCHANGED <<row, source, work, person, sends, lost>>

(***************************************************************************)
(* The member and the alert, as other parts of the program change them.    *)
(***************************************************************************)
Queue == <<row, late, source, work, faults, sends, lost>>

SetConsent(consent) ==
  /\ optedIn' = consent
  /\ UNCHANGED <<Queue, bound, active, current, quiet, nights>>

Unlink ==
  /\ bound' = FALSE
  /\ optedIn' = FALSE
  /\ UNCHANGED <<Queue, active, current, quiet, nights>>

Link ==
  /\ bound' = TRUE
  /\ UNCHANGED <<Queue, optedIn, active, current, quiet, nights>>

\* A suspension or an activation, which leaves the binding and the consent.
ChangeMembership ==
  /\ active' = ~active
  /\ UNCHANGED <<Queue, bound, optedIn, current, quiet, nights>>

\* The alert is resolved or reopened, the member's access taken or given.
ChangeAlert(a) ==
  /\ current' = IF a \in current THEN current \ {a} ELSE current \cup {a}
  /\ UNCHANGED <<Queue, bound, optedIn, active, quiet, nights>>

NightFalls ==
  /\ ~quiet /\ nights < MaxNights
  /\ quiet' = TRUE
  /\ nights' = nights + 1
  /\ UNCHANGED <<Queue, bound, optedIn, active, current>>

NightEnds ==
  /\ quiet
  /\ quiet' = FALSE
  /\ UNCHANGED <<Queue, bound, optedIn, active, current, nights>>

-----------------------------------------------------------------------------
Step(w) == CheckMember(w) \/ CheckAlert(w) \/ Defer(w) \/ Send(w) \/ Complete(w)

Next ==
  \/ \E a \in Alerts : EnqueueAlert(a) \/ ChangeAlert(a)
  \/ \E r \in Replies : QueueReply(r)
  \/ \E w \in Instances :
        \/ \E d \in Messages : LeaseOne(w, d)
        \/ CheckMember(w) \/ CheckAlert(w) \/ Defer(w) \/ Send(w) \/ Complete(w)
        \/ RecordAborts(w) \/ Crash(w)
  \/ \E d \in Messages : Expire(d)
  \/ \E consent \in BOOLEAN : SetConsent(consent)
  \/ Unlink \/ Link \/ ChangeMembership \/ NightFalls \/ NightEnds

Spec == Init /\ [][Next]_vars

\* The scheduler polls every few seconds while the backend runs: each poll
\* enqueues what is due of active members, and leases in the order of available_at, so that no
\* delivery is overtaken for ever.  A step under way ends (calls time out
\* after fifteen seconds), leases nobody works under expire, nights end.
Fairness ==
  /\ \A a \in Alerts : WF_vars(EnqueueAlert(a))
  /\ \A d \in Messages : SF_vars(\E w \in Instances : LeaseOne(w, d))
  /\ \A w \in Instances : WF_vars(Step(w))
  /\ \A d \in Messages : WF_vars(Orphaned(d) /\ Expire(d))
  /\ WF_vars(NightEnds)

FairSpec == Spec /\ Fairness

-----------------------------------------------------------------------------
(* Properties                                                              *)

TypeOK ==
  /\ row \in [Messages -> Row]
  /\ late \subseteq Messages
  /\ source \in [Alerts -> {"PENDING", "LEASED", "FAILED"} \cup Told]
  /\ work \in [Instances -> Work]
  /\ bound \in BOOLEAN
  /\ optedIn \in BOOLEAN
  /\ active \in BOOLEAN
  /\ current \subseteq Alerts
  /\ quiet \in BOOLEAN
  /\ nights \in 0 .. MaxNights
  /\ faults \in 0 .. MaxFaults
  /\ sends \in [Messages -> Nat]
  /\ lost \in [Messages -> Nat]

\* What an alert's notification says agrees with what became of its delivery,
\* though two handlers write it: it is delivered exactly when the delivery
\* is, given up whenever the delivery is, and leased or failed only while
\* the delivery is still in the queue.
NotificationFollows ==
  \A a \in Alerts :
    /\ source[a] = "DELIVERED" <=> row[a].state = "DELIVERED"
    /\ row[a].state \in {"DEAD_LETTER", "SUPPRESSED"} => source[a] = "SUPPRESSED"
    /\ source[a] = "LEASED" => row[a].state \in Open
    /\ source[a] = "FAILED" => row[a].state \in {"RETRY", "LEASED"}

\* A settled delivery is never leased, sent or recorded again, whatever an
\* instance that lost its lease still does.
SettledIsFinal ==
  [][\A d \in Messages : row[d].state \in Settled => row'[d] = row[d]]_vars

\* The retry limit bounds the messages a member receives: beyond it there is
\* at most one for each lease that ran out, however crashes, time-outs of
\* calls the provider had answered and aborted records follow each other.
SendsAreBounded == \A d \in Messages : sends[d] <= MaxAttempts + lost[d]

\* A notification is decided unless its member is suspended before it is
\* taken up, for then nothing selects it; one taken up is decided, and a
\* queued delivery settled, suspended or not, through crashes, lost leases
\* and quiet hours.
EverythingSettles ==
  /\ \A a \in Alerts :
       /\ (source[a] = "PENDING") ~> (source[a] \in Told \/ ~active)
       /\ (source[a] \in {"LEASED", "FAILED"}) ~> (source[a] \in Told)
  /\ \A d \in Messages : (row[d].state # "NONE") ~> (row[d].state \in Settled)
=============================================================================
