------------------------------ MODULE Assistant ------------------------------
(***************************************************************************)
(* Commands that are given in the application's conversation (apps/backend *)
(* /src/modules/conversation/conversation.service.ts): a message becomes a *)
(* proposal, and a proposal that its member confirms is executed by the    *)
(* service it is about, in the transaction of the confirmation.  One       *)
(* member, whose session may lack the second factor, two kinds of command, *)
(* and one record that the second is about and that others change too.     *)
(* The commands that come over WhatsApp are in Conversation.               *)
(***************************************************************************)
EXTENDS Integers, FiniteSets, Sequences

CONSTANTS
  Proposals,
  Keys,      \* idempotency keys, of messages and of confirmations
  Texts,     \* what is said: [intent, of], where of is the version it names
  Requests,  \* confirmations that are being served
  Nobody,
  Versions,  \* of a proposal, that requests expect
  MaxWrites  \* bound: writes of the record

VARIABLES
  sent,        \* app.conversation_messages by key, and the proposal of each
  proposal,    \* app.conversation_proposals
  execution,   \* app.conversation_executions
  attempt,     \* app.conversation_confirmation_attempts
  confirming,  \* the requests
  written,     \* who wrote each version of the record
  created,     \* the proposals a record was created for
  agreed       \* what the member was told

vars == <<sent, proposal, execution, attempt, confirming, written, created, agreed>>

Unsaid == [text |-> [intent |-> "NONE", of |-> 0], proposal |-> Nobody]
Unmade == [state |-> "NONE", intent |-> "CREATE", of |-> 0, version |-> 0, expired |-> "no"]
Idle == [phase |-> "idle", proposal |-> Nobody, version |-> 0, key |-> Nobody]

Init ==
  /\ sent = [k \in Keys |-> Unsaid]
  /\ proposal = [p \in Proposals |-> Unmade]
  /\ execution = {} /\ attempt = {} /\ agreed = {} /\ created = {}
  /\ confirming = [r \in Requests |-> Idle]
  /\ written = <<Nobody>>

-----------------------------------------------------------------------------
\* The message and its proposal are one transaction; a text that is not
\* understood, or asks something, gets an answer and no proposal.  Said again,
\* it changes nothing and is answered with the proposal it has.
Submit(k, text) ==
  /\ sent[k] = Unsaid
  /\ \/ /\ sent' = [sent EXCEPT ![k] = [text |-> text, proposal |-> Nobody]]
        /\ UNCHANGED proposal
     \/ \E p \in Proposals :
          /\ proposal[p] = Unmade
          /\ sent' = [sent EXCEPT ![k] = [text |-> text, proposal |-> p]]
          /\ proposal' = [proposal EXCEPT ![p] =
               [state |-> "PENDING", intent |-> text.intent, of |-> text.of, version |-> 1, expired |-> "no"]]
  /\ UNCHANGED <<execution, attempt, confirming, written, created, agreed>>

Expire(p) ==
  /\ proposal[p].state = "PENDING" /\ proposal[p].expired = "no"
  /\ proposal' = [proposal EXCEPT ![p].expired = "yes"]
  /\ UNCHANGED <<sent, execution, attempt, confirming, written, created, agreed>>

Locked(p) == \E r \in Requests : confirming[r].phase = "taken" /\ confirming[r].proposal = p
KeyHeld(k) == \E r \in Requests : confirming[r].phase \in {"begun", "taken"} /\ confirming[r].key = k

\* Mutant: only the version is compared.
ActionableByVersion(p, v) == proposal[p].version >= v

Actionable(p, v) == proposal[p].state = "PENDING" /\ proposal[p].version = v /\ proposal[p].expired = "no"

Cancel(p, v) ==
  /\ ~Locked(p)
  /\ Actionable(p, v)
  /\ proposal' = [proposal EXCEPT ![p].state = "CANCELLED", ![p].version = @ + 1]
  /\ agreed' = agreed \cup {[what |-> "cancelled", proposal |-> p, key |-> Nobody]}
  /\ UNCHANGED <<sent, execution, attempt, confirming, written, created>>

(***************************************************************************)
(* Confirming.                                                             *)
(***************************************************************************)
Goes(r, phase) == confirming' = [confirming EXCEPT ![r].phase = phase]

\* The key is locked until the transaction ends.
BeginConfirm(r, p, v, k) ==
  /\ confirming[r] = Idle /\ ~KeyHeld(k) /\ proposal[p] # Unmade
  /\ confirming' = [confirming EXCEPT ![r] = [phase |-> "begun", proposal |-> p, version |-> v, key |-> k]]
  /\ UNCHANGED <<sent, proposal, execution, attempt, written, created, agreed>>

Earlier(r) == {e \in execution : e.key = confirming[r].key}

Tried(r, outcome) ==
  attempt \cup {[key |-> confirming[r].key, outcome |-> outcome,
                 proposal |-> IF outcome = "SUCCEEDED" THEN confirming[r].proposal ELSE Nobody]}
Told(r) == agreed \cup {[what |-> "executed", proposal |-> confirming[r].proposal, key |-> confirming[r].key]}

ReplayConfirm(r) ==
  /\ confirming[r].phase = "begun"
  /\ \E e \in Earlier(r) : e.proposal = confirming[r].proposal /\ e.of = confirming[r].version
  /\ attempt' = Tried(r, "SUCCEEDED") /\ agreed' = Told(r)
  /\ confirming' = [confirming EXCEPT ![r] = Idle]
  /\ UNCHANGED <<sent, proposal, execution, written, created>>

\* The row of the proposal is locked, and looked at under the lock.
Take(r) ==
  /\ confirming[r].phase = "begun"
  /\ Earlier(r) = {}
  /\ ~Locked(confirming[r].proposal)
  /\ Actionable(confirming[r].proposal, confirming[r].version)
  /\ Goes(r, "taken")
  /\ UNCHANGED <<sent, proposal, execution, attempt, written, created, agreed>>

\* Commands that create, under a key that is derived from the proposal's.
ExecuteCreate(p) ==
  /\ proposal[p].intent = "CREATE"
  /\ created' = created \cup {p}
  /\ UNCHANGED written

\* Commands that change the version of a record that they name.
ExecuteChange(p) ==
  /\ proposal[p].intent = "CHANGE" /\ proposal[p].of = Len(written)
  /\ Len(written) < MaxWrites
  /\ written' = Append(written, p)
  /\ UNCHANGED created

CommitConfirm(r) ==
  LET p == confirming[r].proposal IN
  /\ confirming[r].phase = "taken"
  /\ ExecuteCreate(p) \/ ExecuteChange(p)
  /\ \A e \in execution : e.proposal # p
  /\ execution' = execution \cup {[proposal |-> p, key |-> confirming[r].key, of |-> confirming[r].version]}
  /\ proposal' = [proposal EXCEPT ![p].state = "EXECUTED", ![p].version = @ + 1]
  /\ attempt' = Tried(r, "SUCCEEDED") /\ agreed' = Told(r)
  /\ confirming' = [confirming EXCEPT ![r] = Idle]
  /\ UNCHANGED sent

\* Refused - for the key, the proposal, the session, a right or by the service
\* that is asked - or failed: the transaction is undone before that is noted,
\* as DENIED or FAILED, which are one here.
Undo(r) ==
  /\ confirming[r].phase \in {"begun", "taken"}
  /\ Goes(r, "undone")
  /\ UNCHANGED <<sent, proposal, execution, attempt, written, created, agreed>>

Note(r) ==
  /\ confirming[r].phase = "undone"
  /\ attempt' = Tried(r, "REFUSED")
  /\ confirming' = [confirming EXCEPT ![r] = Idle]
  /\ UNCHANGED <<sent, proposal, execution, written, created, agreed>>

\* The backend stops.
Stop(r) ==
  /\ confirming[r] # Idle
  /\ confirming' = [confirming EXCEPT ![r] = Idle]
  /\ UNCHANGED <<sent, proposal, execution, attempt, written, created, agreed>>

\* Somebody else changes the record.
Write ==
  /\ Len(written) < MaxWrites
  /\ written' = Append(written, Nobody)
  /\ UNCHANGED <<sent, proposal, execution, attempt, confirming, created, agreed>>

-----------------------------------------------------------------------------
Next ==
  \/ \E k \in Keys, text \in Texts : Submit(k, text)
  \/ \E p \in Proposals : Expire(p) \/ \E v \in Versions : Cancel(p, v)
  \/ \E r \in Requests :
       \/ \E p \in Proposals, v \in Versions, k \in Keys : BeginConfirm(r, p, v, k)
       \/ ReplayConfirm(r) \/ Take(r) \/ CommitConfirm(r) \/ Undo(r) \/ Note(r) \/ Stop(r)
  \/ Write

Spec == Init /\ [][Next]_vars

-----------------------------------------------------------------------------
(* Properties                                                              *)

TypeOK ==
  /\ \A p \in Proposals : proposal[p].state \in {"NONE", "PENDING", "CANCELLED", "EXECUTED"}
  /\ \A e \in execution : e.proposal \in Proposals /\ e.key \in Keys
  /\ created \subseteq Proposals /\ Len(written) \in 1 .. MaxWrites

Done(p) == p \in created \/ \E n \in DOMAIN written : written[n] = p

\* A proposal is executed once, by one confirmation, on the version of the
\* record that it names; and not at all once its member was told that it is
\* cancelled.
DoneAsProposed ==
  /\ \A p \in Proposals : Done(p) <=> proposal[p].state = "EXECUTED"
  /\ \A p \in Proposals : Cardinality({e \in execution : e.proposal = p}) = IF Done(p) THEN 1 ELSE 0
  /\ \A n \in DOMAIN written : written[n] \in Proposals => proposal[written[n]].of = n - 1
  /\ \A a \in agreed : a.what = "cancelled" => ~Done(a.proposal)

\* Who was told that a proposal was executed used the key it was executed
\* under, and what succeeded is on file, whoever stopped in between.
AttemptsTell ==
  /\ \A a \in agreed : a.what = "executed" => \E e \in execution : e.proposal = a.proposal /\ e.key = a.key
  /\ {[key |-> a.key, proposal |-> a.proposal] : a \in {b \in attempt : b.outcome = "SUCCEEDED"}}
       = {[key |-> e.key, proposal |-> e.proposal] : e \in execution}

\* One message has one proposal, however often it is said.
SaidOnce ==
  \A j, k \in Keys : sent[j].proposal = sent[k].proposal /\ j # k => sent[j].proposal = Nobody
=============================================================================
