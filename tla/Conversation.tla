----------------------------- MODULE Conversation -----------------------------
(***************************************************************************)
(* What a member says to the application over WhatsApp.  Meta posts each   *)
(* message until it is answered 200; the instance that gets it claims the  *)
(* event under a lease of two minutes, applies it in one transaction with  *)
(* its receipt, queues a reply and completes the claim, each in            *)
(* transactions of their own.  A text may leave a proposal behind, which a *)
(* later CONFIRM or CANCEL decides, unless the member decides it in the    *)
(* application; START and STOP set the consent to alerts; LINK binds the   *)
(* number with a code of the application.                                  *)
(*                                                                         *)
(* One member with one number: rows of others are never looked at.  What a *)
(* command does is one transaction with the execution row that names it,   *)
(* so that here only the row is kept.  Proposals of other channels cannot  *)
(* be decided by a message and are left out.                               *)
(***************************************************************************)
EXTENDS Naturals, FiniteSets

CONSTANTS
  Events,         \* message identifiers of the provider
  Proposals,      \* proposals of the member's WhatsApp threads
  Instances,      \* requests the backend works on at a time
  None, Web,      \* no value; done in the application, by whatever key
  Scripts,        \* what the events may say: functions from Events to Message
  MaxCodes,       \* bound: link codes the member asks for
  MaxChanges,     \* bound: times the member's channel is changed in the application
  MaxPosts,       \* bound: times events are posted, in all
  MaxFaults       \* bound: failures, crashes, and stalls past a lease

Kinds == {"TEXT", "CONFIRM", "CANCEL", "START", "STOP", "LINK"}
Codes == 1 .. MaxCodes
Message == [kind : Kinds, about : Proposals \cup Codes \cup {None}]

VARIABLES
  said,        \* the script of this behaviour
  claim,       \* conversation_provider_event_claims
  receipt,     \* conversation_provider_receipts: disposition
  messages,    \* conversation_messages: events whose text is kept
  proposal,    \* state of conversation_proposals
  executed,    \* conversation_executions: the key a proposal was executed with
  linked,      \* whether the number has an ACTIVE binding
  codes,       \* codes of whatsapp_link_challenges given out so far
  challenge,   \* the code not consumed yet, or None
  consent, consentEvent,
  replies,     \* events whose reply is queued
  changes,     \* of the member's channel in the application
  work,        \* what each request is at
  posts,       \* times an event was posted
  answered,    \* events the provider has got a 200 for
  faults,
  effects,     \* history: transactions that applied an event
  parted,      \* history: whether the number has been without a binding
  early,       \* history: events answered 200 while another request had them
  overtaken    \* history: events claimed again while their holder went on

vars == <<said, claim, receipt, messages, proposal, executed, linked, codes,
          challenge, consent, consentEvent, changes, replies, work, posts, answered, faults, effects,
          parted, early, overtaken>>
member == <<linked, parted, codes, challenge, consent, consentEvent>>
provider == <<said, changes, posts, answered, early, overtaken>>
threads == <<messages, proposal, executed>>
requests == <<said, posts, answered, early, overtaken, claim, receipt, threads, replies,
              work, faults, effects>>

Dispositions == {"ACCEPTED", "UNBOUND", "INVALID"}
Steps == {"idle", "claimed", "deciding", "acting", "replying", "closing",
          "retrying", "clashing"}
Claim == [state : {"NONE", "PROCESSING", "RETRY", "COMPLETED"},
          holder : Instances \cup {None}, lapsed : BOOLEAN,
          disposition : Dispositions \cup {None}]
Work == [step : Steps, event : Events \cup {None}, target : Proposals \cup {None},
         disposition : Dispositions \cup {None}]
Idle == [step |-> "idle", event |-> None, target |-> None, disposition |-> None]

Init ==
  /\ said \in Scripts
  /\ claim = [e \in Events |-> [state |-> "NONE", holder |-> None,
                                lapsed |-> FALSE, disposition |-> None]]
  /\ receipt = [e \in Events |-> None]
  /\ messages = {}
  /\ proposal = [p \in Proposals |-> "NONE"]
  /\ executed = [p \in Proposals |-> None]
  /\ linked \in BOOLEAN /\ parted = ~linked
  /\ codes = 0 /\ challenge = None
  /\ consent = "OPTED_OUT" /\ consentEvent = None
  /\ changes = 0
  /\ replies = {}
  /\ work = [i \in Instances |-> Idle]
  /\ posts = 0
  /\ answered = {} /\ early = {} /\ overtaken = {}
  /\ faults = 0
  /\ effects = [e \in Events |-> 0]

(***************************************************************************)
(* Claims.                                                                 *)
(***************************************************************************)
Goes(i, step) == work' = [work EXCEPT ![i].step = step]
Closes(i, d) == work' = [work EXCEPT ![i].step = "closing", ![i].disposition = d]

\* Mutant: an event that failed is not taken up again.
ClaimableOnce(e) ==
  \/ claim[e].state = "NONE"
  \/ claim[e].state = "PROCESSING" /\ claim[e].lapsed

Claimable(e) ==
  \/ claim[e].state \in {"NONE", "RETRY"}
  \/ claim[e].state = "PROCESSING" /\ claim[e].lapsed

\* The provider posts an event: it is claimed, or answered as a duplicate.
Receive(i, e) ==
  /\ work[i] = Idle /\ e \notin answered
  /\ posts < MaxPosts /\ posts' = posts + 1
  /\ \/ /\ Claimable(e)
        /\ claim' = [claim EXCEPT ![e] = [state |-> "PROCESSING", holder |-> i,
                                          lapsed |-> FALSE, disposition |-> None]]
        /\ work' = [work EXCEPT ![i] = [Idle EXCEPT !.step = "claimed", !.event = e]]
        /\ overtaken' = IF \E j \in Instances : work[j].event = e
                        THEN overtaken \cup {e} ELSE overtaken
        /\ UNCHANGED <<answered, early>>
     \/ /\ ~Claimable(e)
        /\ answered' = answered \cup {e}
        /\ early' = IF claim[e].state = "PROCESSING" THEN early \cup {e} ELSE early
        /\ UNCHANGED <<claim, work, overtaken>>
  /\ UNCHANGED <<said, changes, receipt, threads, member, replies, faults, effects>>

Holds(i, e) == claim[e].state = "PROCESSING" /\ claim[e].holder = i

\* Every disposition is answered 200: the error, if any, is a client's.
Complete(i) ==
  LET e == work[i].event IN
  /\ work[i].step = "closing"
  /\ claim' = IF Holds(i, e)
              THEN [claim EXCEPT ![e] = [state |-> "COMPLETED", holder |-> None, lapsed |-> FALSE,
                                         disposition |-> work[i].disposition]]
              ELSE claim
  /\ work' = [work EXCEPT ![i] = Idle]
  /\ answered' = answered \cup {e}
  /\ UNCHANGED <<said, changes, receipt, threads, member, replies, posts, faults, effects,
                 early, overtaken>>

\* A failure is answered 503; a row that is there already, 200.
Retry(i) ==
  LET e == work[i].event IN
  /\ work[i].step \in {"retrying", "clashing"}
  /\ claim' = IF Holds(i, e)
              THEN [claim EXCEPT ![e] = [state |-> "RETRY", holder |-> None, lapsed |-> FALSE,
                                         disposition |-> None]]
              ELSE claim
  /\ work' = [work EXCEPT ![i] = Idle]
  /\ answered' = IF work[i].step = "clashing" THEN answered \cup {e} ELSE answered
  /\ UNCHANGED <<said, changes, receipt, threads, member, replies, posts, faults, effects,
                 early, overtaken>>

(***************************************************************************)
(* What is said, once claimed.                                             *)
(***************************************************************************)
\* A reply is made up again from what was written; nothing was, if the
\* number was not bound.
Evidence(e) == said[e].kind = "TEXT" => e \in messages

\* Mutant: the event is looked at without asking for its receipt.
ReceivedNever(e) == FALSE

providerEventReceived(e) == receipt[e] # None

Look(i) ==
  LET e == work[i].event IN
  /\ work[i].step = "claimed"
  /\ IF providerEventReceived(e)
     THEN /\ replies' = IF linked /\ Evidence(e) THEN replies \cup {e} ELSE replies
          /\ Closes(i, "ACCEPTED")
     ELSE Goes(i, "deciding") /\ UNCHANGED replies
  /\ UNCHANGED <<provider, claim, receipt, threads, member, faults, effects>>

Receipt(e, d) == receipt' = IF receipt[e] = None THEN [receipt EXCEPT ![e] = d] ELSE receipt

\* The transaction that applies an event writes its receipt as well.
Applies(i, e) ==
  /\ Receipt(e, "ACCEPTED")
  /\ effects' = [effects EXCEPT ![e] = @ + 1]
  /\ Goes(i, "replying")

Unbound(i) ==
  LET e == work[i].event IN
  /\ work[i].step = "deciding" /\ said[e].kind # "LINK" /\ ~linked
  /\ IF said[e].kind = "TEXT" THEN Receipt(e, "UNBOUND") ELSE UNCHANGED receipt
  /\ Closes(i, "UNBOUND")
  /\ UNCHANGED <<provider, claim, threads, member, replies, faults, effects>>

Unused == {p \in Proposals : proposal[p] = "NONE"}
NextProposal == CHOOSE p \in Unused : TRUE

\* The message is unique; it may leave one proposal to review.  One refused
\* with a 4xx (no access, a closed thread, a bad attachment) is completed as
\* INVALID without effect and is left out.
Submit(i) ==
  LET e == work[i].event IN
  /\ work[i].step = "deciding" /\ said[e].kind = "TEXT" /\ linked
  /\ IF e \in messages
     THEN Goes(i, "clashing") /\ UNCHANGED <<receipt, messages, proposal, effects>>
     ELSE /\ Applies(i, e)
          /\ messages' = messages \cup {e}
          /\ \/ UNCHANGED proposal
             \/ Unused # {} /\ proposal' = [proposal EXCEPT ![NextProposal] = "PENDING"]
  /\ UNCHANGED <<provider, claim, executed, member, replies, faults>>

\* A code is consumed with the binding.
AcceptLink(i) ==
  LET e == work[i].event IN
  /\ work[i].step = "deciding" /\ said[e].kind = "LINK"
  /\ IF challenge = said[e].about
     THEN /\ Applies(i, e)
          /\ linked' = TRUE
          /\ challenge' = None
     ELSE Closes(i, "INVALID") /\ UNCHANGED <<receipt, effects, linked, challenge>>
  /\ UNCHANGED <<provider, claim, threads, parted, codes, consent, consentEvent, replies, faults>>

setConsentByMobile(i) ==
  LET e == work[i].event IN
  /\ work[i].step = "deciding" /\ said[e].kind \in {"START", "STOP"} /\ linked
  /\ IF consentEvent = e
     THEN Goes(i, "replying") /\ UNCHANGED <<receipt, effects, consent, consentEvent>>
     ELSE /\ Applies(i, e)
          /\ consent' = IF said[e].kind = "START" THEN "OPTED_IN" ELSE "OPTED_OUT"
          /\ consentEvent' = e
  /\ UNCHANGED <<provider, claim, threads, linked, parted, codes, challenge, replies, faults>>

Pending == {p \in Proposals : proposal[p] = "PENDING"}

\* The proposal a message means: the one it names, or the only one pending.
actOnWhatsappProposal(i) ==
  LET e == work[i].event
      about == said[e].about
      named == IF about = None THEN Pending ELSE Pending \cap {about}
  IN
  /\ work[i].step = "deciding" /\ said[e].kind \in {"CONFIRM", "CANCEL"} /\ linked
  /\ \/ \E p \in Proposals : /\ named = {p}
                             /\ work' = [work EXCEPT ![i].step = "acting", ![i].target = p]
     \/ Cardinality(named) # 1 /\ Closes(i, "INVALID")
  /\ UNCHANGED <<provider, claim, receipt, threads, member, replies, faults, effects>>

Execute(p, key) ==
  /\ proposal' = [proposal EXCEPT ![p] = "EXECUTED"]
  /\ executed' = [executed EXCEPT ![p] = key]

\* Mutant: the proposal is decided as it was found, without reading it again.
ActionableAsRead(p) == TRUE

Actionable(p) == proposal[p] = "PENDING"

\* The key is that of the event: the same one is a replay, one that was used
\* for another proposal a conflict.
confirm(i) ==
  LET e == work[i].event
      p == work[i].target
  IN
  /\ work[i].step = "acting" /\ said[e].kind = "CONFIRM"
  /\ \/ /\ executed[p] = e
        /\ Receipt(e, "ACCEPTED") /\ Goes(i, "replying")
        /\ UNCHANGED <<threads, effects>>
     \/ /\ \A q \in Proposals : executed[q] # e
        /\ Actionable(p)
        /\ Execute(p, e) /\ Applies(i, e) /\ UNCHANGED messages
     \/ /\ executed[p] # e
        /\ ~Actionable(p) \/ \E q \in Proposals : executed[q] = e
        /\ Closes(i, "INVALID")
        /\ UNCHANGED <<receipt, threads, effects>>
  /\ UNCHANGED <<provider, claim, member, replies, faults>>

cancel(i) ==
  LET e == work[i].event
      p == work[i].target
  IN
  /\ work[i].step = "acting" /\ said[e].kind = "CANCEL"
  /\ IF Actionable(p)
     THEN /\ proposal' = [proposal EXCEPT ![p] = "CLOSED"]
          /\ Applies(i, e)
     ELSE Closes(i, "INVALID") /\ UNCHANGED <<receipt, proposal, effects>>
  /\ UNCHANGED <<provider, claim, messages, executed, member, replies, faults>>

\* Access was lost, the action needs a step-up or the command refuses.
Refuse(i) ==
  /\ work[i].step = "acting"
  /\ Closes(i, "INVALID")
  /\ UNCHANGED <<provider, claim, receipt, threads, member, replies, faults, effects>>

\* The reply is queued whether or not the lease is still there; if the
\* number was unlinked meanwhile, the event ends as unbound.
persistAndQueueProviderReply(i) ==
  LET e == work[i].event IN
  /\ work[i].step = "replying"
  /\ IF linked THEN replies' = replies \cup {e} /\ Closes(i, "ACCEPTED")
               ELSE Closes(i, "UNBOUND") /\ UNCHANGED replies
  /\ UNCHANGED <<provider, claim, receipt, threads, member, faults, effects>>

(***************************************************************************)
(* Faults: a statement or a download fails, an instance stops, a lease     *)
(* runs out.                                                               *)
(***************************************************************************)
Fail(i) ==
  /\ work[i].step \in {"claimed", "deciding", "acting", "replying"}
  /\ faults < MaxFaults /\ faults' = faults + 1
  /\ Goes(i, "retrying")
  /\ UNCHANGED <<provider, claim, receipt, threads, member, replies, effects>>

Crash(i) ==
  /\ work[i] # Idle
  /\ faults < MaxFaults /\ faults' = faults + 1
  /\ work' = [work EXCEPT ![i] = Idle]
  /\ UNCHANGED <<provider, claim, receipt, threads, member, replies, effects>>

\* It costs a fault only while its holder goes on.
LeaseRunsOut(e) ==
  LET held == \E i \in Instances : work[i].event = e IN
  /\ claim[e].state = "PROCESSING" /\ ~claim[e].lapsed
  /\ IF held THEN faults < MaxFaults /\ faults' = faults + 1 ELSE UNCHANGED faults
  /\ claim' = [claim EXCEPT ![e].lapsed = TRUE]
  /\ UNCHANGED <<provider, receipt, threads, member, replies, work, effects>>

(***************************************************************************)
(* The member in the application.                                          *)
(***************************************************************************)
\* It is confirmed, or cancelled, or its half hour passes.
DecideInApp(p) ==
  /\ proposal[p] = "PENDING"
  /\ \/ Execute(p, Web)
     \/ proposal' = [proposal EXCEPT ![p] = "CLOSED"] /\ UNCHANGED executed
  /\ UNCHANGED <<provider, claim, receipt, messages, member, replies, work, faults, effects>>

Changes == changes < MaxChanges /\ changes' = changes + 1

\* A new code replaces the one before; each lasts ten minutes.
createWhatsappChallenge ==
  /\ Changes
  /\ codes < MaxCodes
  /\ codes' = codes + 1
  /\ challenge' = codes + 1
  /\ UNCHANGED <<requests, linked, parted, consent, consentEvent>>

ChallengeExpires ==
  /\ challenge # None
  /\ challenge' = None
  /\ UNCHANGED <<requests, linked, parted, codes, changes, consent, consentEvent>>

updatePreference(c) ==
  /\ Changes
  /\ consent' = c
  /\ UNCHANGED <<requests, linked, parted, codes, challenge, consentEvent>>

unlink ==
  /\ Changes
  /\ linked
  /\ linked' = FALSE /\ parted' = TRUE
  /\ consent' = "OPTED_OUT"
  /\ UNCHANGED <<requests, codes, challenge, consentEvent>>

RequestNext(i) ==
  \/ Look(i) \/ Unbound(i) \/ Submit(i) \/ AcceptLink(i) \/ setConsentByMobile(i)
  \/ actOnWhatsappProposal(i) \/ confirm(i) \/ cancel(i) \/ Refuse(i)
  \/ persistAndQueueProviderReply(i) \/ Complete(i) \/ Retry(i) \/ Fail(i) \/ Crash(i)
  \/ \E e \in Events : Receive(i, e)

Next ==
  \/ \E i \in Instances : RequestNext(i)
  \/ \E e \in Events : LeaseRunsOut(e)
  \/ \E p \in Proposals : DecideInApp(p)
  \/ \E c \in {"OPTED_IN", "OPTED_OUT"} : updatePreference(c)
  \/ createWhatsappChallenge \/ ChallengeExpires
  \/ unlink

Spec == Init /\ [][Next]_vars

(***************************************************************************)
(* Properties.                                                             *)
(***************************************************************************)
\* The rows have their shape and a lease has a holder while it is processed,
\* as the checks of the table of claims require.
TypeOK ==
  /\ said \in [Events -> Message]
  /\ claim \in [Events -> Claim]
  /\ \A e \in Events : (claim[e].state = "PROCESSING") = (claim[e].holder # None)
  /\ receipt \in [Events -> {None, "ACCEPTED", "UNBOUND"}]
  /\ proposal \in [Proposals -> {"NONE", "PENDING", "EXECUTED", "CLOSED"}]
  /\ executed \in [Proposals -> Events \cup {None, Web}]
  /\ linked \in BOOLEAN /\ parted \in BOOLEAN
  /\ codes \in 0 .. MaxCodes /\ challenge \in Codes \cup {None}
  /\ consent \in {"OPTED_IN", "OPTED_OUT"} /\ consentEvent \in Events \cup {None}
  /\ messages \cup replies \cup answered \cup early \cup overtaken \subseteq Events
  /\ work \in [Instances -> Work]
  /\ changes \in 0 .. MaxChanges /\ posts \in 0 .. MaxPosts /\ faults \in 0 .. MaxFaults
  /\ effects \in [Events -> Nat]

\* However often a message is posted, and wherever a request fails or stops
\* in between, it takes effect once.  Only one that was claimed again while
\* its holder went on may do so twice, and then only if it is a CANCEL that
\* names no proposal or sets the consent: a confirmation has its key, a text
\* its unique message and a link its code.
EventsTakeEffectOnce ==
  \A e \in Events :
    \/ effects[e] <= 1
    \/ e \in overtaken /\ said[e].kind \in {"CANCEL", "START", "STOP"}

\* A proposal is decided once, by a message or in the application: what was
\* executed has one execution, what was cancelled or has lapsed none.
DecidedOnce ==
  /\ \A p \in Proposals : (proposal[p] = "EXECUTED") = (executed[p] # None)
  /\ \A p, q \in Proposals : executed[p] = executed[q] => p = q \/ executed[p] \in {None, Web}

\* A reply is queued only for a message that took effect, however it was made
\* up; and what took effect has its reply once it is settled, unless the
\* number has been without a binding or the request was overtaken.
RepliesAreTrue ==
  \A e \in Events :
    /\ e \in replies => effects[e] > 0
    /\ effects[e] > 0 /\ claim[e].state = "COMPLETED" =>
         e \in replies \/ parted \/ e \in overtaken

\* A message the provider was told is received is settled, or a request that
\* holds it will settle it.  The exceptions are the ones that were answered
\* as a duplicate while they were being processed, and the ones overtaken.
NothingIsForgotten ==
  \A e \in answered \ (early \cup overtaken) :
    \/ claim[e].state = "COMPLETED"
    \/ \E i \in Instances : work[i].event = e /\ Holds(i, e)
===============================================================================
