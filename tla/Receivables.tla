------------------------------ MODULE Receivables ------------------------------
(***************************************************************************)
(* Client invoices, as four services of the backend write them:            *)
(*   finance/workbench.service.ts      createInvoice, invoiceAction, notes *)
(*   canonical/canonical.service.ts    createInvoice, transition           *)
(*   canonical/advanced.service.ts     acknowledge, reverse, notes         *)
(*   data/data.provider.ts             imported invoices                   *)
(*                                                                         *)
(* An invoice charges services: trips that are delivered and whose POD is  *)
(* accepted.  Every service costs the same here, so an invoice is a set of *)
(* trips and a sign: a reversal invoice copies the lines of its original   *)
(* with the opposite sign.  What makes a trip billable happens elsewhere   *)
(* (TripExecution) and comes and goes under an invoice being written.      *)
(*                                                                         *)
(* The workbench's createInvoice and both addInvoiceNote act on what an    *)
(* earlier statement of their transaction read and did not lock, and are   *)
(* two steps.  The other handlers decide under the lock of the row they    *)
(* change.  updateInvoice writes the number, the date and the credit days  *)
(* of a draft, which are left out.                                         *)
(***************************************************************************)
EXTENDS Integers, FiniteSets

CONSTANTS Invoice,   \* ids client invoices are created under
          Trip,
          User,
          Session,   \* two-step requests under way
          Null

ASSUME ReceivablesAssumption ==
    Null \notin Invoice \cup User /\ IsFiniteSet(Invoice)

VARIABLES billable,  \* trips DELIVERED with an accepted POD
          link,      \* app.invoice_service_links: the invoice of a trip's line
          invoice,   \* app.client_invoices and app.client_invoice_lines
          noted,     \* invoices with a row in app.invoice_notes
          session    \* what a two-step request has read

vars == <<billable, link, invoice, noted, session>>

InvoiceMoves == [
    DRAFT |-> {"PENDING_APPROVAL"},
    PENDING_APPROVAL |-> {"APPROVED", "REJECTED"},
    REJECTED |-> {"PENDING_APPROVAL"},
    APPROVED |-> {"POSTED"},
    POSTED |-> {"SUBMITTED", "REVERSED"},
    SUBMITTED |-> {"REVERSED"},
    REVERSED |-> {}]

\* invoiceAction: the states an action starts from and the one it sets.
Rules == [
    SUBMIT |-> [from |-> {"DRAFT", "REJECTED"}, to |-> "PENDING_APPROVAL"],
    APPROVE |-> [from |-> {"PENDING_APPROVAL"}, to |-> "APPROVED"],
    REJECT |-> [from |-> {"PENDING_APPROVAL"}, to |-> "REJECTED"],
    POST |-> [from |-> {"APPROVED"}, to |-> "POSTED"],
    ACKNOWLEDGE |-> [from |-> {"POSTED"}, to |-> "SUBMITTED"]]

InvoiceState == DOMAIN InvoiceMoves
Outstanding == {"POSTED", "SUBMITTED"}
Posted == Outstanding \cup {"REVERSED"}
Idle == [op |-> "IDLE"]
NoInvoice == [state |-> "NONE", lines |-> {}, sign |-> 1, mirrors |-> Null,
              maker |-> Null, approver |-> Null, acknowledged |-> FALSE]

InvoiceRow == [state: InvoiceState \cup {"NONE"}, lines: SUBSET Trip, sign: {1, -1},
               mirrors: Invoice \cup {Null}, maker: User \cup {Null},
               approver: User \cup {Null}, acknowledged: BOOLEAN]

SessionRow == {Idle} \cup [op: {"BILL"}, trips: SUBSET Trip]
                     \cup [op: {"NOTE"}, invoice: Invoice]

TypeOK ==
    /\ billable \subseteq Trip
    /\ link \in [Trip -> Invoice \cup {Null}]
    /\ invoice \in [Invoice -> InvoiceRow]
    /\ noted \subseteq Invoice
    /\ session \in [Session -> SessionRow]

Init ==
    /\ billable = {}
    /\ link = [t \in Trip |-> Null]
    /\ invoice = [i \in Invoice |-> NoInvoice]
    /\ noted = {}
    /\ session = [s \in Session |-> Idle]

-----------------------------------------------------------------------------
\* A trip is delivered and its POD accepted; a late device event undoes it.
ServiceDone(t) ==
    /\ billable' = billable \cup {t}
    /\ UNCHANGED <<link, invoice, noted, session>>

ServiceTakenBack(t) ==
    /\ billable' = billable \ {t}
    /\ UNCHANGED <<link, invoice, noted, session>>

\* A refused request, a deadlock, a timeout or a crash of the backend.
Rollback(s) ==
    /\ session[s] # Idle
    /\ session' = [session EXCEPT ![s] = Idle]
    /\ UNCHANGED <<billable, link, invoice, noted>>

\* Mutant: no unique index on (tenant_id, trip_id) of the links.
InsertInvoiceRelinking(i, trips, u) ==
    /\ invoice[i] = NoInvoice
    /\ invoice' = [invoice EXCEPT ![i] =
          [NoInvoice EXCEPT !.state = "DRAFT", !.lines = trips, !.maker = u]]
    /\ link' = [t \in Trip |-> IF t \in trips THEN i ELSE link[t]]

\* UNIQUE(tenant_id,trip_id): a trip that has a link refuses the whole invoice.
InsertInvoice(i, trips, u) ==
    /\ invoice[i] = NoInvoice
    /\ \A t \in trips : link[t] = Null
    /\ invoice' = [invoice EXCEPT ![i] =
          [NoInvoice EXCEPT !.state = "DRAFT", !.lines = trips, !.maker = u]]
    /\ link' = [t \in Trip |-> IF t \in trips THEN i ELSE link[t]]

\* The advisory locks of the trips, and the eligibility of each.
BeginInvoice(s, trips) ==
    /\ session[s] = Idle
    /\ \A other \in Session :
          session[other].op = "BILL" => session[other].trips \cap trips = {}
    /\ \A t \in trips : t \in billable /\ link[t] = Null
    /\ session' = [session EXCEPT ![s] = [op |-> "BILL", trips |-> trips]]
    /\ UNCHANGED <<billable, link, invoice, noted>>

FinishInvoice(s, i, u) ==
    /\ session[s].op = "BILL"
    /\ InsertInvoice(i, session[s].trips, u)
    /\ session' = [session EXCEPT ![s] = Idle]
    /\ UNCHANGED <<billable, noted>>

\* The canonical createInvoice asks neither for eligibility nor for locks.
CreateInvoice(i, trips, u) ==
    /\ InsertInvoice(i, trips, u)
    /\ UNCHANGED <<billable, noted, session>>

\* An imported invoice is posted and has no lines.
ImportInvoice(i, u) ==
    /\ invoice[i] = NoInvoice
    /\ invoice' = [invoice EXCEPT ![i] =
          [NoInvoice EXCEPT !.state = "POSTED", !.maker = u]]
    /\ UNCHANGED <<billable, link, noted, session>>

-----------------------------------------------------------------------------
\* Mutant: the maker may approve.
SetInvoiceStateUnchecked(i, state, u) ==
    invoice' = [invoice EXCEPT ![i].state = state,
                   ![i].approver = IF state = "APPROVED" THEN u ELSE @,
                   ![i].acknowledged = @ \/ state = "SUBMITTED"]

\* The maker does not approve; ACKNOWLEDGE sets the due date.
SetInvoiceState(i, state, u) ==
    /\ state = "APPROVED" => u # invoice[i].maker
    /\ invoice' = [invoice EXCEPT ![i].state = state,
                      ![i].approver = IF state = "APPROVED" THEN u ELSE @,
                      ![i].acknowledged = @ \/ state = "SUBMITTED"]

InvoiceAction(i, action, u) ==
    /\ invoice[i].state \in Rules[action].from
    /\ SetInvoiceState(i, Rules[action].to, u)
    /\ UNCHANGED <<billable, link, noted, session>>

\* The table is checked; then a posted invoice refuses, and so does REVERSED.
\* "PENDING_APPROVAL" contains "APPROV", so the maker cannot submit here.
TransitionInvoice(i, state, u) ==
    /\ invoice[i].state \in InvoiceState \ Outstanding
    /\ state \in InvoiceMoves[invoice[i].state] \ {"REVERSED"}
    /\ state \in {"PENDING_APPROVAL", "APPROVED"} => u # invoice[i].maker
    /\ invoice' = [invoice EXCEPT ![i].state = state,
                      ![i].approver = IF state = "APPROVED" THEN u ELSE @]
    /\ UNCHANGED <<billable, link, noted, session>>

\* acknowledgeInvoice sets the due date and leaves the state as it is.
AcknowledgeInvoice(i) ==
    /\ invoice[i].state \in Outstanding
    /\ invoice' = [invoice EXCEPT ![i].acknowledged = TRUE]
    /\ noted' = noted \cup {i}
    /\ UNCHANGED <<billable, link, session>>

\* Mutant: the state REVERSED is not written.
MirrorOnly(i, j, u) ==
    /\ invoice[i].state \in Outstanding
    /\ invoice[j] = NoInvoice
    /\ invoice' = [invoice EXCEPT ![j] =
          [NoInvoice EXCEPT !.state = "POSTED", !.lines = invoice[i].lines,
                            !.sign = -invoice[i].sign, !.mirrors = i, !.maker = u]]

\* A reversal invoice j of i; it is posted, and so can be reversed itself.
Mirror(i, j, u) ==
    /\ invoice[i].state \in Outstanding
    /\ invoice[j] = NoInvoice
    /\ invoice' = [invoice EXCEPT
          ![i].state = "REVERSED",
          ![j] = [NoInvoice EXCEPT
                     !.state = "POSTED", !.lines = invoice[i].lines,
                     !.sign = -invoice[i].sign, !.mirrors = i, !.maker = u]]

\* REVERSE of the workbench writes no note, reverseInvoice does.
ReverseInvoice(i, j, u) ==
    /\ Mirror(i, j, u)
    /\ noted' \in {noted, noted \cup {i}}
    /\ UNCHANGED <<billable, link, session>>

BeginNote(s, i) ==
    /\ session[s] = Idle
    /\ invoice[i].state \in Outstanding
    /\ session' = [session EXCEPT ![s] = [op |-> "NOTE", invoice |-> i]]
    /\ UNCHANGED <<billable, link, invoice, noted>>

\* The row was not locked: it may have been reversed since.
FinishNote(s) ==
    /\ session[s].op = "NOTE"
    /\ noted' = noted \cup {session[s].invoice}
    /\ session' = [session EXCEPT ![s] = Idle]
    /\ UNCHANGED <<billable, link, invoice>>

-----------------------------------------------------------------------------
Next ==
    \/ \E t \in Trip : ServiceDone(t) \/ ServiceTakenBack(t)
    \/ \E s \in Session : Rollback(s) \/ FinishNote(s)
    \/ \E s \in Session, trips \in SUBSET Trip \ {{}} : BeginInvoice(s, trips)
    \/ \E s \in Session, i \in Invoice, u \in User : FinishInvoice(s, i, u)
    \/ \E i \in Invoice, trips \in SUBSET Trip \ {{}}, u \in User :
          CreateInvoice(i, trips, u)
    \/ \E i \in Invoice, u \in User : ImportInvoice(i, u)
    \/ \E i \in Invoice, a \in DOMAIN Rules, u \in User : InvoiceAction(i, a, u)
    \/ \E i \in Invoice, state \in InvoiceState, u \in User :
          TransitionInvoice(i, state, u)
    \/ \E i \in Invoice : AcknowledgeInvoice(i)
    \/ \E i, j \in Invoice, u \in User : ReverseInvoice(i, j, u)
    \/ \E s \in Session, i \in Invoice : BeginNote(s, i)

Spec == Init /\ [][Next]_vars

-----------------------------------------------------------------------------
\* The posted invoices that charge a trip, or credit it (sign -1).
Charging(t, sign) ==
    {i \in Invoice : /\ invoice[i].state \in Posted
                     /\ invoice[i].sign = sign
                     /\ t \in invoice[i].lines}

NetBilled(t) == Cardinality(Charging(t, 1)) - Cardinality(Charging(t, -1))

\* However invoices, reversals and reversals of reversals of several services
\* interleave, a trip is charged to the client once or not at all: it is
\* neither billed twice nor credited more than it was billed.
BilledOnce == \A t \in Trip : NetBilled(t) \in {0, 1}

\* At most one invoice that is not a reversal charges a trip, drafts included,
\* and it is the one the trip's link names.
OneInvoicePerTrip ==
    \A i \in Invoice : invoice[i].mirrors = Null =>
        \A t \in invoice[i].lines : link[t] = i

\* An invoice of services that has been posted was approved by somebody other
\* than the one who made it, whichever service made, approved or posted it.
PostedWasApproved ==
    \A i \in Invoice :
        /\ invoice[i].state \in Posted
        /\ invoice[i].lines # {}
        /\ invoice[i].mirrors = Null
        => invoice[i].approver \notin {Null, invoice[i].maker}

\* An invoice that counts as submitted to the client has the acknowledgement
\* its due date is computed from; two services set either of them.
SubmittedIsAcknowledged ==
    \A i \in Invoice : invoice[i].state = "SUBMITTED" => invoice[i].acknowledged

\* Every note belongs to an invoice that has been posted, though the row is
\* not locked while a note is written.
NotesFollowPosting == \A i \in noted : invoice[i].state \in Posted

\* What has been posted stays on the books with the lines it was posted with.
PostedStays ==
    [][\A i \in Invoice : invoice[i].state \in Posted =>
          /\ invoice'[i].state \in Posted
          /\ invoice'[i].lines = invoice[i].lines
          /\ invoice[i].state = "REVERSED" => invoice'[i] = invoice[i]]_vars
=============================================================================
