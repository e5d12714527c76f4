---------------------------- MODULE ReceivablesProof ----------------------------
(***************************************************************************)
(* Proofs about Receivables for any sets of invoices, trips, users and     *)
(* sessions.                                                               *)
(*                                                                         *)
(* BilledOnce counts invoices, which no single step keeps by itself.  The  *)
(* inductive invariant says why it holds: the posted invoices that charge  *)
(* a trip form a chain that starts at the invoice the trip's link names,   *)
(* each reversing the one before, of which only the last is outstanding;   *)
(* the sign of the last one tells whether the trip counts as billed.       *)
(***************************************************************************)
EXTENDS Receivables, FiniteSetTheorems, TLAPS

\* An id without an invoice is a blank record.
BlanksAreBlank ==
    \A i \in Invoice : invoice[i].state = "NONE" => invoice[i] = NoInvoice

\* An approved invoice has an independent approver until it is reversed.
ApprovalsAreIndependent ==
    \A i \in Invoice :
        /\ invoice[i].state \in {"APPROVED"} \cup Posted
        /\ invoice[i].lines # {}
        /\ invoice[i].mirrors = Null
        => invoice[i].approver \notin {Null, invoice[i].maker}

\* Originals charge; reversals come posted, after the original was posted.
MirrorsFollowOriginals ==
    \A i \in Invoice :
        /\ invoice[i].mirrors = Null => invoice[i].sign = 1
        /\ invoice[i].mirrors # Null =>
              /\ invoice[i].state \in Posted
              /\ \A t \in invoice[i].lines :
                    link[t] \in Invoice /\ invoice[link[t]].state \in Posted

\* A note is written about an invoice that has been posted.
PendingNotesFollowPosting ==
    \A s \in Session :
        session[s].op = "NOTE" => invoice[session[s].invoice].state \in Posted

\* Of the posted invoices that charge a trip one at most is outstanding.
OneOutstanding ==
    \A i, j \in Invoice :
        /\ invoice[i].state \in Outstanding
        /\ invoice[j].state \in Outstanding
        /\ invoice[i].lines \cap invoice[j].lines # {}
        => i = j

\* The sign of the outstanding invoice tells whether a trip counts as billed.
LastDecides ==
    \A i \in Invoice : \A t \in invoice[i].lines :
        invoice[i].state \in Outstanding =>
            NetBilled(t) = IF invoice[i].sign = 1 THEN 1 ELSE 0

\* What the rows of invoices and links satisfy.
BooksAreKept ==
    /\ BlanksAreBlank
    /\ ApprovalsAreIndependent
    /\ MirrorsFollowOriginals
    /\ OneInvoicePerTrip
    /\ SubmittedIsAcknowledged
    /\ OneOutstanding
    /\ LastDecides
    /\ BilledOnce

IInv == TypeOK /\ BooksAreKept /\ NotesFollowPosting /\ PendingNotesFollowPosting

-----------------------------------------------------------------------------
\* The states the table of transitions names.
LEMMA InvoiceStates ==
    InvoiceState = {"DRAFT", "PENDING_APPROVAL", "REJECTED", "APPROVED",
                    "POSTED", "SUBMITTED", "REVERSED"}
  BY DEF InvoiceState, InvoiceMoves

\* A fresh row of either kind is a row.
LEMMA NewRows ==
    /\ NoInvoice \in InvoiceRow
    /\ NoInvoice.state = "NONE" /\ NoInvoice.lines = {}
    /\ NoInvoice.mirrors = Null /\ NoInvoice.sign = 1
    /\ \A u \in User, trips \in SUBSET Trip :
          [NoInvoice EXCEPT !.state = "DRAFT", !.lines = trips, !.maker = u] \in InvoiceRow
    /\ \A u \in User :
          [NoInvoice EXCEPT !.state = "POSTED", !.maker = u] \in InvoiceRow
    /\ \A i \in Invoice, row \in InvoiceRow, u \in User :
          [NoInvoice EXCEPT !.state = "POSTED", !.lines = row.lines,
                            !.sign = -row.sign, !.mirrors = i, !.maker = u] \in InvoiceRow
<1>1. /\ NoInvoice \in InvoiceRow
      /\ NoInvoice.state = "NONE" /\ NoInvoice.lines = {}
      /\ NoInvoice.mirrors = Null /\ NoInvoice.sign = 1
  BY DEF NoInvoice, InvoiceRow
<1>2. ASSUME NEW u \in User, NEW trips \in SUBSET Trip
      PROVE  [NoInvoice EXCEPT !.state = "DRAFT", !.lines = trips, !.maker = u] \in InvoiceRow
  BY <1>1, InvoiceStates DEF InvoiceRow
<1>3. ASSUME NEW u \in User
      PROVE  [NoInvoice EXCEPT !.state = "POSTED", !.maker = u] \in InvoiceRow
  BY <1>1, InvoiceStates DEF InvoiceRow
<1>4. ASSUME NEW i \in Invoice, NEW row \in InvoiceRow, NEW u \in User
      PROVE  [NoInvoice EXCEPT !.state = "POSTED", !.lines = row.lines,
                !.sign = -row.sign, !.mirrors = i, !.maker = u] \in InvoiceRow
  <2>1. row.lines \in SUBSET Trip /\ -row.sign \in {1, -1}
    BY DEF InvoiceRow
  <2>2. QED
    BY <1>1, <2>1, InvoiceStates DEF InvoiceRow
<1>5. QED
  BY <1>1, <1>2, <1>3, <1>4

\* The type of every variable is kept by every step.
LEMMA TypeStep == TypeOK /\ [Next]_vars => TypeOK'
<1> SUFFICES ASSUME TypeOK, [Next]_vars PROVE TypeOK'
  OBVIOUS
<1> USE DEF TypeOK
<1> USE DEF Idle
<1>1. ASSUME NEW t \in Trip, ServiceDone(t) \/ ServiceTakenBack(t) PROVE TypeOK'
  BY <1>1 DEF ServiceDone, ServiceTakenBack
<1>2. ASSUME NEW s \in Session, Rollback(s) PROVE TypeOK'
  BY <1>2 DEF Rollback, SessionRow
<1>3. ASSUME NEW s \in Session, FinishNote(s) PROVE TypeOK'
  <2>1. session[s].invoice \in Invoice
    BY <1>3 DEF FinishNote, SessionRow
  <2>2. QED
    BY <1>3, <2>1 DEF FinishNote, SessionRow
<1>4. ASSUME NEW s \in Session, NEW trips \in SUBSET Trip, BeginInvoice(s, trips)
      PROVE TypeOK'
  BY <1>4 DEF BeginInvoice, SessionRow
<1>5. ASSUME NEW s \in Session, NEW i \in Invoice, NEW u \in User, FinishInvoice(s, i, u)
      PROVE TypeOK'
  <2>1. session[s].trips \in SUBSET Trip
    BY <1>5 DEF FinishInvoice, SessionRow
  <2>2. QED
    BY <1>5, <2>1, NewRows DEF FinishInvoice, InsertInvoice, SessionRow
<1>6. ASSUME NEW i \in Invoice, NEW trips \in SUBSET Trip, NEW u \in User,
             CreateInvoice(i, trips, u)
      PROVE TypeOK'
  BY <1>6, NewRows DEF CreateInvoice, InsertInvoice
<1>7. ASSUME NEW i \in Invoice, NEW u \in User, ImportInvoice(i, u) PROVE TypeOK'
  BY <1>7, NewRows DEF ImportInvoice
<1>8. ASSUME NEW i \in Invoice, NEW a \in DOMAIN Rules, NEW u \in User,
             InvoiceAction(i, a, u)
      PROVE TypeOK'
  <2>1. Rules[a].to \in InvoiceState
    BY InvoiceStates DEF Rules
  <2> DEFINE row == [invoice[i] EXCEPT
                       !.state = Rules[a].to,
                       !.approver = IF Rules[a].to = "APPROVED" THEN u ELSE @,
                       !.acknowledged = @ \/ Rules[a].to = "SUBMITTED"]
  <2>2. row \in InvoiceRow
    <3>1. /\ invoice[i] \in InvoiceRow
          /\ (IF Rules[a].to = "APPROVED" THEN u ELSE invoice[i].approver) \in User \cup {Null}
          /\ (invoice[i].acknowledged \/ Rules[a].to = "SUBMITTED") \in BOOLEAN
      BY DEF InvoiceRow
    <3>2. ASSUME NEW state \in InvoiceState, NEW approver \in User \cup {Null},
                 NEW acknowledged \in BOOLEAN
          PROVE  [invoice[i] EXCEPT !.state = state, !.approver = approver,
                                    !.acknowledged = acknowledged] \in InvoiceRow
      BY <3>1 DEF InvoiceRow
    <3>3. QED
      BY <2>1, <3>1, <3>2
  <2>3. invoice' = [invoice EXCEPT ![i] = row]
    BY <1>8 DEF InvoiceAction, SetInvoiceState, InvoiceRow
  <2>4. QED
    BY <1>8, <2>2, <2>3 DEF InvoiceAction
<1>9. ASSUME NEW i \in Invoice, NEW state \in InvoiceState, NEW u \in User,
             TransitionInvoice(i, state, u)
      PROVE TypeOK'
  <2> DEFINE row == [invoice[i] EXCEPT
                       !.state = state,
                       !.approver = IF state = "APPROVED" THEN u ELSE @]
  <2>1. row \in InvoiceRow
    BY DEF InvoiceRow
  <2>2. invoice' = [invoice EXCEPT ![i] = row]
    BY <1>9 DEF TransitionInvoice, InvoiceRow
  <2>3. QED
    BY <1>9, <2>1, <2>2 DEF TransitionInvoice
<1>10. ASSUME NEW i \in Invoice, AcknowledgeInvoice(i) PROVE TypeOK'
  BY ZenonT(30), <1>10 DEF AcknowledgeInvoice, InvoiceRow
<1>11. ASSUME NEW i \in Invoice, NEW j \in Invoice, NEW u \in User, ReverseInvoice(i, j, u)
       PROVE TypeOK'
  <2>1. [invoice[i] EXCEPT !.state = "REVERSED"] \in InvoiceRow
    BY InvoiceStates DEF InvoiceRow
  <2>2. QED
    BY <1>11, <2>1, NewRows DEF ReverseInvoice, Mirror
<1>12. ASSUME NEW s \in Session, NEW i \in Invoice, BeginNote(s, i) PROVE TypeOK'
  BY <1>12 DEF BeginNote, SessionRow
<1>13. CASE UNCHANGED vars
  BY <1>13 DEF vars
<1>14. QED
  BY <1>1, <1>2, <1>3, <1>4, <1>5, <1>6, <1>7, <1>8, <1>9, <1>10, <1>11, <1>12, <1>13
     DEF Next

-----------------------------------------------------------------------------
(* What a step does to the rows of invoices                                *)

\* Row i moves between the states of the table or is acknowledged.
Edited(i) ==
    /\ invoice[i].state \notin {"NONE", "REVERSED"}
    /\ link' = link
    /\ \A k \in Invoice \ {i} : invoice'[k] = invoice[k]
    /\ invoice'[i].lines = invoice[i].lines
    /\ invoice'[i].sign = invoice[i].sign
    /\ invoice'[i].mirrors = invoice[i].mirrors
    /\ invoice'[i].maker = invoice[i].maker
    /\ invoice'[i].state \in InvoiceState \ {"REVERSED"}
    /\ invoice[i].state \in Outstanding => invoice'[i].state \in Outstanding
    /\ invoice'[i].state \in Outstanding =>
          invoice[i].state \in Outstanding \cup {"APPROVED"}
    /\ invoice'[i].state \in {"APPROVED"} \cup Posted =>
          \/ invoice'[i].approver \notin {Null, invoice[i].maker}
          \/ /\ invoice[i].state \in {"APPROVED"} \cup Posted
             /\ invoice'[i].approver = invoice[i].approver
    /\ invoice'[i].state = "SUBMITTED" => invoice'[i].acknowledged

\* Row i is inserted by the data import.
Imported(i) ==
    \E u \in User :
        /\ invoice[i] = NoInvoice
        /\ invoice' = [invoice EXCEPT ![i] =
                          [NoInvoice EXCEPT !.state = "POSTED", !.maker = u]]
        /\ link' = link

\* Every step leaves the invoices alone or is of one of four kinds.
LEMMA StepKinds ==
    ASSUME TypeOK, TypeOK', [Next]_vars
    PROVE  \/ UNCHANGED <<invoice, link>>
           \/ \E i \in Invoice : Edited(i) \/ Imported(i)
           \/ \E i \in Invoice, trips \in SUBSET Trip, u \in User : InsertInvoice(i, trips, u)
           \/ \E i, j \in Invoice, u \in User : Mirror(i, j, u) /\ link' = link
<1> DEFINE Goal == \/ UNCHANGED <<invoice, link>>
                   \/ \E i \in Invoice : Edited(i) \/ Imported(i)
                   \/ \E i \in Invoice, trips \in SUBSET Trip, u \in User :
                         InsertInvoice(i, trips, u)
                   \/ \E i, j \in Invoice, u \in User : Mirror(i, j, u) /\ link' = link
<1> USE DEF TypeOK
<1>1. ASSUME NEW t \in Trip, ServiceDone(t) \/ ServiceTakenBack(t) PROVE Goal
  BY <1>1 DEF ServiceDone, ServiceTakenBack
<1>2. ASSUME NEW s \in Session, Rollback(s) \/ FinishNote(s) PROVE Goal
  BY <1>2 DEF Rollback, FinishNote
<1>3. ASSUME NEW s \in Session, NEW trips \in SUBSET Trip, BeginInvoice(s, trips) PROVE Goal
  BY <1>3 DEF BeginInvoice
<1>4. ASSUME NEW s \in Session, NEW i \in Invoice, NEW u \in User, FinishInvoice(s, i, u)
      PROVE Goal
  <2>1. session[s].trips \in SUBSET Trip
    BY <1>4 DEF FinishInvoice, SessionRow, Idle
  <2>2. QED
    BY <1>4, <2>1 DEF FinishInvoice
<1>5. ASSUME NEW i \in Invoice, NEW trips \in SUBSET Trip, NEW u \in User,
             CreateInvoice(i, trips, u)
      PROVE Goal
  BY <1>5 DEF CreateInvoice
<1>6. ASSUME NEW i \in Invoice, NEW u \in User, ImportInvoice(i, u) PROVE Goal
  BY <1>6 DEF ImportInvoice, Imported
<1>7. ASSUME NEW i \in Invoice, NEW a \in DOMAIN Rules, NEW u \in User,
             InvoiceAction(i, a, u)
      PROVE Goal
  <2> DEFINE to == Rules[a].to
  <2>1. /\ invoice[i].state \in InvoiceState \ {"REVERSED", "SUBMITTED"}
        /\ to \in InvoiceState \ {"REVERSED"}
        /\ invoice[i].state \in Outstanding => to \in Outstanding
        /\ to \in Outstanding => invoice[i].state \in {"APPROVED", "POSTED"}
    BY <1>7, InvoiceStates DEF InvoiceAction, Rules, Outstanding
  <2> HIDE DEF to
  <2>2. /\ link' = link
        /\ \A k \in Invoice \ {i} : invoice'[k] = invoice[k]
        /\ invoice'[i].lines = invoice[i].lines /\ invoice'[i].sign = invoice[i].sign
        /\ invoice'[i].mirrors = invoice[i].mirrors
        /\ invoice'[i].maker = invoice[i].maker
    BY <1>7 DEF InvoiceAction, SetInvoiceState, InvoiceRow
  <2>3. /\ invoice'[i].state = to
        /\ invoice'[i].approver = IF to = "APPROVED" THEN u ELSE invoice[i].approver
        /\ to = "SUBMITTED" => invoice'[i].acknowledged
        /\ to = "APPROVED" => u # invoice[i].maker
    BY <1>7 DEF InvoiceAction, SetInvoiceState, InvoiceRow, to
  <2>4. Null \notin User
    BY ReceivablesAssumption
  <2>5. Edited(i)
    BY <2>1, <2>2, <2>3, <2>4, InvoiceStates DEF Edited, Outstanding, Posted
  <2>6. QED
    BY <2>5
<1>8. ASSUME NEW i \in Invoice, NEW state \in InvoiceState, NEW u \in User,
             TransitionInvoice(i, state, u)
      PROVE Goal
  <2>1. /\ invoice[i].state \in InvoiceState \ {"REVERSED", "SUBMITTED", "POSTED"}
        /\ state \in InvoiceState \ {"REVERSED", "SUBMITTED"}
        /\ state = "POSTED" => invoice[i].state = "APPROVED"
    BY <1>8, InvoiceStates DEF TransitionInvoice, InvoiceMoves, Outstanding
  <2>2. /\ link' = link
        /\ \A k \in Invoice \ {i} : invoice'[k] = invoice[k]
        /\ invoice'[i].lines = invoice[i].lines /\ invoice'[i].sign = invoice[i].sign
        /\ invoice'[i].mirrors = invoice[i].mirrors
        /\ invoice'[i].maker = invoice[i].maker
        /\ invoice'[i].state = state
        /\ invoice'[i].approver = IF state = "APPROVED" THEN u ELSE invoice[i].approver
        /\ state = "APPROVED" => u # invoice[i].maker
    BY <1>8 DEF TransitionInvoice, InvoiceRow
  <2>3. Null \notin User
    BY ReceivablesAssumption
  <2>4. Edited(i)
    BY <2>1, <2>2, <2>3, InvoiceStates DEF Edited, Outstanding, Posted
  <2>5. QED
    BY <2>4
<1>9. ASSUME NEW i \in Invoice, AcknowledgeInvoice(i) PROVE Goal
  <2>1. /\ link' = link
        /\ \A k \in Invoice \ {i} : invoice'[k] = invoice[k]
        /\ invoice'[i] = [invoice[i] EXCEPT !.acknowledged = TRUE]
        /\ invoice[i].state \in Outstanding
    BY <1>9 DEF AcknowledgeInvoice
  <2>2. invoice[i] \in InvoiceRow
    OBVIOUS
  <2>3. Edited(i)
    BY <2>1, <2>2, InvoiceStates DEF Edited, InvoiceRow, Outstanding, Posted
  <2>4. QED
    BY <2>3
<1>10. ASSUME NEW i \in Invoice, NEW j \in Invoice, NEW u \in User, ReverseInvoice(i, j, u)
       PROVE Goal
  BY <1>10 DEF ReverseInvoice
<1>11. ASSUME NEW s \in Session, NEW i \in Invoice, BeginNote(s, i) PROVE Goal
  BY <1>11 DEF BeginNote
<1>12. CASE UNCHANGED vars
  BY <1>12 DEF vars
<1>13. QED
  BY <1>1, <1>2, <1>3, <1>4, <1>5, <1>6, <1>7, <1>8, <1>9, <1>10, <1>11, <1>12 DEF Next

-----------------------------------------------------------------------------
(* The books                                                               *)

\* A posted invoice that charges a trip needs the trip's own invoice posted.
LEMMA UnpostedTripsAreUncharged ==
    ASSUME BooksAreKept, TypeOK, NEW i \in Invoice, NEW t \in invoice[i].lines,
           invoice[i].state \notin Posted, NEW sign
    PROVE  Charging(t, sign) = {}
<1>1. invoice[i].mirrors = Null /\ link[t] = i
  BY DEF BooksAreKept, MirrorsFollowOriginals, OneInvoicePerTrip
<1>2. SUFFICES ASSUME NEW k \in Invoice, invoice[k].state \in Posted, t \in invoice[k].lines
               PROVE  FALSE
  BY DEF Charging
<1>3. CASE invoice[k].mirrors = Null
  BY <1>1, <1>2, <1>3 DEF BooksAreKept, OneInvoicePerTrip
<1>4. CASE invoice[k].mirrors # Null
  BY <1>1, <1>2, <1>4 DEF BooksAreKept, MirrorsFollowOriginals
<1>5. QED
  BY <1>3, <1>4

\* Sets of charging invoices are finite.
LEMMA ChargingIsFinite ==
    ASSUME NEW t, NEW sign
    PROVE  /\ IsFiniteSet(Charging(t, sign)) /\ Cardinality(Charging(t, sign)) \in Nat
  BY ReceivablesAssumption, FS_Subset, FS_CardinalityType DEF Charging

\* The same sets of charging invoices give the same count.
LEMMA SameCount ==
    ASSUME NEW t, Charging(t, 1)' = Charging(t, 1), Charging(t, -1)' = Charging(t, -1)
    PROVE  NetBilled(t)' = NetBilled(t)
  BY DEF NetBilled

\* Moving a row between the states of the table or acknowledging it keeps the
\* books: what it charges and whether that is outstanding do not get worse.
LEMMA EditKeepsBooks ==
    ASSUME TypeOK, TypeOK', BooksAreKept, NEW i \in Invoice, Edited(i)
    PROVE  BooksAreKept'
<1> USE DEF Edited, BooksAreKept, TypeOK
<1>1. BlanksAreBlank'
  BY InvoiceStates DEF BlanksAreBlank
<1>2. ApprovalsAreIndependent'
  BY DEF ApprovalsAreIndependent
<1>3. MirrorsFollowOriginals'
  <2>1. invoice[i].state \in Posted => invoice'[i].state \in Posted
    BY DEF Outstanding, Posted
  <2>2. \A k \in Invoice : invoice[k].state \in Posted => invoice'[k].state \in Posted
    BY <2>1
  <2>3. QED
    BY <2>2 DEF MirrorsFollowOriginals
<1>4. OneInvoicePerTrip'
  BY DEF OneInvoicePerTrip
<1>5. SubmittedIsAcknowledged'
  BY DEF SubmittedIsAcknowledged
<1>6. CASE invoice[i].state \in Outstanding \/ invoice'[i].state \notin Outstanding
  <2>1. invoice'[i].state \in Posted <=> invoice[i].state \in Posted
    BY <1>6 DEF Outstanding, Posted
  <2>2. invoice'[i].state \in Outstanding <=> invoice[i].state \in Outstanding
    BY <1>6
  <2>3. \A t \in Trip : /\ Charging(t, 1)' = Charging(t, 1)
                       /\ Charging(t, -1)' = Charging(t, -1)
    BY <2>1 DEF Charging
  <2>4. \A t \in Trip : NetBilled(t)' = NetBilled(t)
    BY <2>3, SameCount
  <2>5. \A k \in Invoice : invoice'[k].lines \subseteq Trip
    BY DEF InvoiceRow
  <2>6. OneOutstanding'
    BY <2>2 DEF OneOutstanding
  <2>7. LastDecides'
    BY <2>2, <2>4, <2>5 DEF LastDecides
  <2>8. BilledOnce'
    BY <2>4 DEF BilledOnce
  <2>9. QED
    BY <1>1, <1>2, <1>3, <1>4, <1>5, <2>6, <2>7, <2>8
<1>7. CASE invoice[i].state = "APPROVED" /\ invoice'[i].state \in Outstanding
  <2>1. invoice[i].state \notin Posted /\ invoice'[i].state \in Posted
    BY <1>7 DEF Outstanding, Posted
  <2>2. invoice[i].mirrors = Null /\ invoice'[i].sign = 1
    BY <2>1 DEF MirrorsFollowOriginals
  <2>3. ASSUME NEW t \in invoice[i].lines
        PROVE  Charging(t, 1)' = {i} /\ Charging(t, -1)' = {}
    <3>1. \A sign : Charging(t, sign) = {}
      BY <2>1, UnpostedTripsAreUncharged
    <3>2. \A k \in Invoice : t \in invoice[k].lines => invoice[k].state \notin Posted
      BY <3>1 DEF Charging
    <3>3. /\ invoice'[i].state \in Posted /\ invoice'[i].sign = 1 /\ t \in invoice'[i].lines
          /\ \A k \in Invoice \ {i} : ~(invoice'[k].state \in Posted /\ t \in invoice'[k].lines)
      BY <2>1, <2>2, <3>2
    <3>4. /\ \A k : k \in Charging(t, 1)' <=> k = i
          /\ \A k : k \notin Charging(t, -1)'
      BY <3>3 DEF Charging
    <3>5. QED
      BY <3>4
  <2>4. ASSUME NEW t \in invoice[i].lines PROVE NetBilled(t)' = 1
    <3>1. Cardinality({i}) = 1 /\ Cardinality({}) = 0
      BY FS_EmptySet, FS_Singleton
    <3>2. Charging(t, 1)' = {i} /\ Charging(t, -1)' = {}
      BY <2>3
    <3>3. NetBilled(t)' = Cardinality(Charging(t, 1)') - Cardinality(Charging(t, -1)')
      BY DEF NetBilled
    <3>4. QED
      BY SMTT(30), <3>1, <3>2, <3>3
  <2>5. ASSUME NEW t \in Trip \ invoice[i].lines PROVE NetBilled(t)' = NetBilled(t)
    <3>1. Charging(t, 1)' = Charging(t, 1) /\ Charging(t, -1)' = Charging(t, -1)
      BY DEF Charging
    <3>2. QED
      BY <3>1, SameCount
  <2>6. ASSUME NEW k \in Invoice \ {i}, invoice[k].state \in Outstanding
        PROVE  invoice[k].lines \cap invoice[i].lines = {}
    <3>1. SUFFICES ASSUME NEW t \in invoice[k].lines, t \in invoice[i].lines PROVE FALSE
      OBVIOUS
    <3>2. k \in Charging(t, invoice[k].sign)
      BY <2>6 DEF Charging, Posted
    <3>3. QED
      BY <2>1, <3>1, <3>2, UnpostedTripsAreUncharged
  <2>7. OneOutstanding'
    BY <2>6 DEF OneOutstanding
  <2>8. LastDecides'
    <3>1. SUFFICES ASSUME NEW k \in Invoice, NEW t \in invoice'[k].lines,
                          invoice'[k].state \in Outstanding
                   PROVE  NetBilled(t)' = IF invoice'[k].sign = 1 THEN 1 ELSE 0
      BY DEF LastDecides
    <3>2. CASE k = i
      BY <2>2, <2>4, <3>1, <3>2
    <3>3. CASE k # i
      <4>1. t \in Trip \ invoice[i].lines
        BY <2>6, <3>1, <3>3 DEF InvoiceRow
      <4>2. QED
        BY <2>5, <3>1, <3>3, <4>1 DEF LastDecides
    <3>4. QED
      BY <3>2, <3>3
  <2>9. BilledOnce'
    BY <2>4, <2>5 DEF BilledOnce
  <2>10. QED
    BY <1>1, <1>2, <1>3, <1>4, <1>5, <2>7, <2>8, <2>9
<1>8. QED
  BY <1>6, <1>7 DEF Outstanding

\* A new invoice links its trips for the first time and charges nothing yet.
LEMMA InsertKeepsBooks ==
    ASSUME TypeOK, TypeOK', BooksAreKept, NEW i \in Invoice, NEW trips \in SUBSET Trip,
           NEW u \in User, InsertInvoice(i, trips, u)
    PROVE  BooksAreKept'
<1> USE DEF BooksAreKept, TypeOK
<1>1. /\ invoice[i] = NoInvoice
      /\ invoice'[i].state = "DRAFT" /\ invoice'[i].lines = trips
      /\ invoice'[i].mirrors = Null /\ invoice'[i].sign = 1
      /\ \A k \in Invoice \ {i} : invoice'[k] = invoice[k]
  BY NewRows DEF InsertInvoice, NoInvoice
<1>2. /\ \A t \in trips : link[t] = Null /\ link'[t] = i
      /\ \A t \in Trip \ trips : link'[t] = link[t]
  BY DEF InsertInvoice
<1>3. {"DRAFT", "NONE"} \cap ({"APPROVED"} \cup Posted) = {}
  BY DEF Posted, Outstanding
<1>4. \A t \in Trip : /\ Charging(t, 1)' = Charging(t, 1)
                     /\ Charging(t, -1)' = Charging(t, -1)
  BY <1>1, <1>3, NewRows DEF Charging
<1>5. \A t \in Trip : NetBilled(t)' = NetBilled(t)
  BY <1>4, SameCount
<1>6. \A k \in Invoice : invoice'[k].lines \subseteq Trip
  BY DEF InvoiceRow
<1>7. \A k \in Invoice, t \in Trip :
        k # i /\ t \in invoice[k].lines /\ t \in trips => FALSE
  <2>1. SUFFICES ASSUME NEW k \in Invoice, NEW t \in trips, t \in invoice[k].lines PROVE FALSE
    OBVIOUS
  <2>2. link[t] = Null
    BY <1>2
  <2>3. Null \notin Invoice
    BY ReceivablesAssumption
  <2>4. QED
    BY <2>1, <2>2, <2>3 DEF MirrorsFollowOriginals, OneInvoicePerTrip
<1>8. BlanksAreBlank'
  BY <1>1 DEF BlanksAreBlank
<1>9. ApprovalsAreIndependent'
  BY <1>1, <1>3 DEF ApprovalsAreIndependent
<1>10. MirrorsFollowOriginals'
  <2>1. SUFFICES ASSUME NEW k \in Invoice \ {i}, invoice[k].mirrors # Null
                 PROVE  \A t \in invoice[k].lines :
                           link'[t] \in Invoice /\ invoice'[link'[t]].state \in Posted
    BY <1>1 DEF MirrorsFollowOriginals
  <2>2. ASSUME NEW t \in invoice[k].lines
        PROVE  link'[t] = link[t] /\ link[t] \in Invoice /\ invoice[link[t]].state \in Posted
    BY <1>2, <1>7, <2>1 DEF MirrorsFollowOriginals, InvoiceRow
  <2>3. \A t \in invoice[k].lines : link[t] # i
    BY <1>1, <1>3, <2>2, NewRows
  <2>4. QED
    BY <1>1, <2>2, <2>3
<1>11. OneInvoicePerTrip'
  <2>1. SUFFICES ASSUME NEW k \in Invoice, invoice'[k].mirrors = Null, NEW t \in invoice'[k].lines
                 PROVE  link'[t] = k
    BY DEF OneInvoicePerTrip
  <2>2. CASE k = i
    BY <1>1, <1>2, <2>1, <2>2
  <2>3. CASE k # i
    BY <1>1, <1>2, <1>6, <1>7, <2>1, <2>3 DEF OneInvoicePerTrip
  <2>4. QED
    BY <2>2, <2>3
<1>12. SubmittedIsAcknowledged'
  BY <1>1 DEF SubmittedIsAcknowledged
<1>13. OneOutstanding'
  BY <1>1 DEF OneOutstanding, Outstanding
<1>14. LastDecides'
  BY <1>1, <1>5, <1>6 DEF LastDecides, Outstanding
<1>15. BilledOnce'
  BY <1>5 DEF BilledOnce
<1>16. QED
  BY <1>8, <1>9, <1>10, <1>11, <1>12, <1>13, <1>14, <1>15

\* An imported invoice is posted at once but has no lines.
LEMMA ImportKeepsBooks ==
    ASSUME TypeOK, TypeOK', BooksAreKept, NEW i \in Invoice, Imported(i)
    PROVE  BooksAreKept'
<1> USE DEF BooksAreKept, TypeOK
<1>1. /\ invoice[i] = NoInvoice /\ link' = link
      /\ invoice'[i].state = "POSTED" /\ invoice'[i].lines = {}
      /\ invoice'[i].mirrors = Null /\ invoice'[i].sign = 1
      /\ \A k \in Invoice \ {i} : invoice'[k] = invoice[k]
  <2>1. PICK u \in User : /\ invoice[i] = NoInvoice /\ link' = link
                          /\ invoice' = [invoice EXCEPT ![i] =
                                [NoInvoice EXCEPT !.state = "POSTED", !.maker = u]]
    BY DEF Imported
  <2>2. invoice'[i] = [NoInvoice EXCEPT !.state = "POSTED", !.maker = u]
    BY <2>1
  <2>3. QED
    BY <2>1, <2>2 DEF NoInvoice
<1>2. \A t \in Trip : /\ Charging(t, 1)' = Charging(t, 1)
                     /\ Charging(t, -1)' = Charging(t, -1)
  BY <1>1, NewRows DEF Charging
<1>3. \A t \in Trip : NetBilled(t)' = NetBilled(t)
  BY <1>2, SameCount
<1>4. \A k \in Invoice : invoice'[k].lines \subseteq Trip
  BY DEF InvoiceRow
<1>5. BlanksAreBlank'
  BY <1>1 DEF BlanksAreBlank
<1>6. ApprovalsAreIndependent'
  BY <1>1 DEF ApprovalsAreIndependent
<1>7. MirrorsFollowOriginals'
  BY ZenonT(30), <1>1, NewRows DEF MirrorsFollowOriginals, Posted, Outstanding
<1>8. OneInvoicePerTrip'
  BY <1>1 DEF OneInvoicePerTrip
<1>9. SubmittedIsAcknowledged'
  BY <1>1 DEF SubmittedIsAcknowledged
<1>10. OneOutstanding'
  BY <1>1 DEF OneOutstanding
<1>11. LastDecides'
  BY <1>1, <1>3, <1>4 DEF LastDecides
<1>12. BilledOnce'
  BY <1>3 DEF BilledOnce
<1>13. QED
  BY <1>5, <1>6, <1>7, <1>8, <1>9, <1>10, <1>11, <1>12

\* A reversal j of i takes over from i as the last of the chain, with the
\* opposite sign, and adds one to the invoices of that sign.
LEMMA MirrorKeepsBooks ==
    ASSUME TypeOK, TypeOK', BooksAreKept, NEW i \in Invoice, NEW j \in Invoice,
           NEW u \in User, Mirror(i, j, u), link' = link
    PROVE  BooksAreKept'
<1> USE DEF BooksAreKept, TypeOK
<1>1. /\ invoice[i].state \in Outstanding /\ invoice[j] = NoInvoice /\ i # j
  BY NewRows DEF Mirror, Outstanding
<1>2. \A k \in Invoice : k # i /\ k # j => invoice'[k] = invoice[k]
  BY <1>1 DEF Mirror
<1>3. /\ invoice'[i].state = "REVERSED" /\ invoice'[i].lines = invoice[i].lines
      /\ invoice'[i].sign = invoice[i].sign /\ invoice'[i].mirrors = invoice[i].mirrors
      /\ invoice'[i].maker = invoice[i].maker /\ invoice'[i].approver = invoice[i].approver
      /\ invoice'[j].state = "POSTED" /\ invoice'[j].lines = invoice[i].lines
      /\ invoice'[j].sign = -invoice[i].sign /\ invoice'[j].mirrors = i
      /\ invoice'[i].acknowledged = invoice[i].acknowledged
  <2>1. invoice'[i] = [invoice[i] EXCEPT !.state = "REVERSED"]
    BY <1>1 DEF Mirror
  <2>2. invoice'[j] = [NoInvoice EXCEPT !.state = "POSTED", !.lines = invoice[i].lines,
                          !.sign = -invoice[i].sign, !.mirrors = i, !.maker = u]
    BY <1>1 DEF Mirror
  <2>3. QED
    BY <2>1, <2>2 DEF InvoiceRow, NoInvoice
<1>4. /\ "NONE" \notin Posted /\ "REVERSED" \in Posted /\ "POSTED" \in Posted
      /\ "REVERSED" \notin Outstanding /\ Outstanding \subseteq Posted
  BY DEF Posted, Outstanding
<1>5. \A k \in Invoice : invoice[k].state \in Posted => invoice'[k].state \in Posted
  BY <1>2, <1>3, <1>4
<1>6. invoice[i].sign \in {1, -1} /\ \A k \in Invoice : invoice'[k].lines \subseteq Trip
  BY DEF InvoiceRow
<1>7. BlanksAreBlank'
  BY <1>2, <1>3, <1>4 DEF BlanksAreBlank
<1>8. ApprovalsAreIndependent'
  <2>1. Null # i
    BY ReceivablesAssumption
  <2>2. QED
    BY <1>1, <1>2, <1>3, <1>4, <2>1 DEF ApprovalsAreIndependent
<1>9. OneInvoicePerTrip'
  <2>1. Null # i
    BY ReceivablesAssumption
  <2>2. QED
    BY <1>2, <1>3, <2>1 DEF OneInvoicePerTrip
<1>10. ASSUME NEW t \in invoice[i].lines
       PROVE  link[t] \in Invoice /\ invoice[link[t]].state \in Posted
  BY <1>1, <1>4 DEF MirrorsFollowOriginals, OneInvoicePerTrip
<1>11. MirrorsFollowOriginals'
  <2>1. \A k \in Invoice \ {j} : /\ invoice'[k].mirrors = invoice[k].mirrors
                                 /\ invoice'[k].sign = invoice[k].sign
                                 /\ invoice'[k].lines = invoice[k].lines
    BY <1>2, <1>3
  <2>2. Null # i
    BY ReceivablesAssumption
  <2>3. QED
    BY <1>3, <1>4, <1>5, <1>10, <2>1, <2>2 DEF MirrorsFollowOriginals
<1>12. SubmittedIsAcknowledged'
  BY <1>2, <1>3 DEF SubmittedIsAcknowledged
<1>13. ASSUME NEW k \in Invoice \ {i}, invoice[k].state \in Outstanding
       PROVE  invoice[k].lines \cap invoice[i].lines = {}
  BY <1>1, <1>13 DEF OneOutstanding
<1>14. OneOutstanding'
  BY <1>2, <1>3, <1>4, <1>13 DEF OneOutstanding
<1>15. ASSUME NEW t \in invoice[i].lines, NEW sign \in {1, -1}
       PROVE  Cardinality(Charging(t, sign)') =
                Cardinality(Charging(t, sign)) + IF sign = -invoice[i].sign THEN 1 ELSE 0
  <2>1. j \notin Charging(t, sign)
    BY <1>1, <1>4, NewRows DEF Charging
  <2>2. /\ invoice'[i].state \in Posted /\ invoice[i].state \in Posted
        /\ invoice'[j].state \in Posted /\ t \in invoice'[j].lines
    BY <1>1, <1>3, <1>4
  <2>3. CASE sign = -invoice[i].sign
    <3>1. \A k : k \in Charging(t, sign)' <=> k \in Charging(t, sign) \/ k = j
      BY <1>1, <1>2, <1>3, <2>1, <2>2, <2>3 DEF Charging
    <3>2. Charging(t, sign)' = Charging(t, sign) \cup {j}
      BY <3>1
    <3>3. QED
      BY <2>1, <2>3, <3>2, ChargingIsFinite, FS_AddElement
  <2>4. CASE sign # -invoice[i].sign
    <3>1. \A k : k \in Charging(t, sign)' <=> k \in Charging(t, sign)
      BY <1>1, <1>2, <1>3, <2>1, <2>2, <2>4 DEF Charging
    <3>2. Charging(t, sign)' = Charging(t, sign)
      BY <3>1
    <3>3. QED
      BY <2>4, <3>2, ChargingIsFinite
  <2>5. QED
    BY <2>3, <2>4
<1>16. ASSUME NEW t \in invoice[i].lines
       PROVE  NetBilled(t)' = IF invoice'[j].sign = 1 THEN 1 ELSE 0
  <2>1. NetBilled(t) = IF invoice[i].sign = 1 THEN 1 ELSE 0
    BY <1>1 DEF LastDecides
  <2>2. NetBilled(t)' = Cardinality(Charging(t, 1)') - Cardinality(Charging(t, -1)')
    BY DEF NetBilled
  <2>3. /\ Cardinality(Charging(t, 1)') =
              Cardinality(Charging(t, 1)) + IF 1 = -invoice[i].sign THEN 1 ELSE 0
        /\ Cardinality(Charging(t, -1)') =
              Cardinality(Charging(t, -1)) + IF -1 = -invoice[i].sign THEN 1 ELSE 0
    BY <1>15
  <2>4. Cardinality(Charging(t, 1)) \in Nat /\ Cardinality(Charging(t, -1)) \in Nat
    BY ChargingIsFinite
  <2>5. NetBilled(t) = Cardinality(Charging(t, 1)) - Cardinality(Charging(t, -1))
    BY DEF NetBilled
  <2>6. QED
    BY <1>3, <1>6, <2>1, <2>2, <2>3, <2>4, <2>5
<1>17. ASSUME NEW t \in Trip \ invoice[i].lines PROVE NetBilled(t)' = NetBilled(t)
  <2>1. ASSUME NEW sign PROVE Charging(t, sign)' = Charging(t, sign)
    <3>1. \A k : k \in Charging(t, sign)' <=> k \in Charging(t, sign)
      BY <1>1, <1>2, <1>3, NewRows DEF Charging
    <3>2. QED
      BY <3>1
  <2>2. Charging(t, 1)' = Charging(t, 1)
    BY <2>1
  <2>3. Charging(t, -1)' = Charging(t, -1)
    BY <2>1
  <2>4. QED
    BY <2>2, <2>3, SameCount
<1>18. LastDecides'
  <2>1. SUFFICES ASSUME NEW k \in Invoice, NEW t \in invoice'[k].lines,
                        invoice'[k].state \in Outstanding
                 PROVE  NetBilled(t)' = IF invoice'[k].sign = 1 THEN 1 ELSE 0
    BY DEF LastDecides
  <2>2. CASE k = j
    BY <1>3, <1>16, <2>1, <2>2
  <2>3. CASE k # j
    <3>1. k # i /\ invoice'[k] = invoice[k]
      BY <1>2, <1>3, <1>4, <2>1, <2>3
    <3>2. t \in Trip \ invoice[i].lines
      BY <1>6, <1>13, <2>1, <3>1
    <3>3. QED
      BY <1>17, <2>1, <3>1, <3>2 DEF LastDecides
  <2>4. QED
    BY <2>2, <2>3
<1>19. BilledOnce'
  BY <1>16, <1>17 DEF BilledOnce
<1>20. QED
  BY <1>7, <1>8, <1>9, <1>11, <1>12, <1>14, <1>18, <1>19

\* An invoice that has been posted stays so, with its lines and its sign, and
\* a reversed one does not change at all.
LEMMA PostedRowsStay ==
    ASSUME TypeOK, TypeOK', [Next]_vars, NEW k \in Invoice, invoice[k].state \in Posted
    PROVE  /\ invoice'[k].state \in Posted
           /\ invoice'[k].lines = invoice[k].lines
           /\ invoice[k].state = "REVERSED" => invoice'[k] = invoice[k]
<1> USE DEF TypeOK, Posted, Outstanding
<1>1. CASE UNCHANGED <<invoice, link>>
  BY <1>1
<1> DEFINE Stays == /\ invoice'[k].state \in Posted
                    /\ invoice'[k].lines = invoice[k].lines
                    /\ invoice[k].state = "REVERSED" => invoice'[k] = invoice[k]
<1>2. ASSUME NEW i \in Invoice, Edited(i) PROVE Stays
  BY <1>2 DEF Edited
<1>3. ASSUME NEW i \in Invoice, Imported(i) PROVE Stays
  BY <1>3, NewRows DEF Imported
<1>4. ASSUME NEW i \in Invoice, NEW trips \in SUBSET Trip, NEW u \in User,
             InsertInvoice(i, trips, u)
      PROVE Stays
  BY <1>4, NewRows DEF InsertInvoice
<1>5. ASSUME NEW i \in Invoice, NEW j \in Invoice, NEW u \in User, Mirror(i, j, u)
      PROVE Stays
  <2>1. k # j
    BY <1>5, NewRows DEF Mirror
  <2>2. CASE k # i
    BY <1>5, <2>1, <2>2 DEF Mirror
  <2>3. CASE k = i
    <3>1. invoice'[k] = [invoice[k] EXCEPT !.state = "REVERSED"] /\ invoice[k].state # "REVERSED"
      BY <1>5, <2>1, <2>3 DEF Mirror
    <3>2. QED
      BY <3>1 DEF InvoiceRow
  <2>4. QED
    BY <2>2, <2>3
<1>6. QED
  BY <1>1, <1>2, <1>3, <1>4, <1>5, StepKinds

\* Notes, and the requests about to write one, stay with posted invoices,
\* because no step takes an invoice out of the posted states.
LEMMA NotesStep ==
    ASSUME TypeOK, TypeOK', NotesFollowPosting, PendingNotesFollowPosting, [Next]_vars
    PROVE  NotesFollowPosting' /\ PendingNotesFollowPosting'
<1> USE DEF NotesFollowPosting, PendingNotesFollowPosting
<1>1. \A k \in Invoice : invoice[k].state \in Posted => invoice'[k].state \in Posted
  BY PostedRowsStay
<1>2. /\ noted \subseteq Invoice
      /\ \A s \in Session : session[s].op = "NOTE" => session[s].invoice \in Invoice
  BY DEF TypeOK, SessionRow, Idle
<1>3. Outstanding \subseteq Posted
  BY DEF Posted
<1> DEFINE Changed == /\ \A k \in noted' : k \in Invoice /\ (k \notin noted => invoice[k].state \in Posted)
                      /\ \A s \in Session : session'[s] = session[s]
<1> DEFINE Opened == /\ noted' = noted
                     /\ \A s \in Session : session'[s].op = "NOTE" =>
                           \/ session'[s] = session[s]
                           \/ /\ session'[s].invoice \in Invoice
                              /\ invoice[session'[s].invoice].state \in Posted
<1> DEFINE Goal == NotesFollowPosting' /\ PendingNotesFollowPosting'
<1>4. Changed => Goal
  BY <1>1, <1>2
<1>5. Opened => Goal
  BY <1>1, <1>2
<1> HIDE DEF Goal
<1>6. ASSUME NEW t \in Trip, ServiceDone(t) \/ ServiceTakenBack(t) PROVE Goal
  BY <1>5, <1>6 DEF ServiceDone, ServiceTakenBack
<1>7. ASSUME NEW s \in Session, Rollback(s) PROVE Goal
  BY <1>5, <1>7 DEF Rollback, Idle, TypeOK
<1>8. ASSUME NEW s \in Session, FinishNote(s) PROVE Goal
  <2>1. /\ noted' = noted \cup {session[s].invoice}
        /\ session[s].invoice \in Invoice /\ invoice[session[s].invoice].state \in Posted
        /\ \A r \in Session : session'[r] = IF r = s THEN Idle ELSE session[r]
    BY <1>2, <1>8 DEF FinishNote, TypeOK
  <2>2. \A r \in Session : session'[r].op = "NOTE" => session'[r] = session[r]
    BY <2>1 DEF Idle
  <2>3. QED
    BY <1>1, <1>2, <2>1, <2>2 DEF Goal
<1>9. ASSUME NEW s \in Session, NEW trips \in SUBSET Trip, BeginInvoice(s, trips) PROVE Goal
  BY <1>5, <1>9 DEF BeginInvoice, TypeOK
<1>10. ASSUME NEW s \in Session, NEW i \in Invoice, NEW u \in User, FinishInvoice(s, i, u)
       PROVE Goal
  BY <1>5, <1>10 DEF FinishInvoice, Idle, TypeOK
<1>11. ASSUME NEW i \in Invoice, NEW trips \in SUBSET Trip, NEW u \in User,
              CreateInvoice(i, trips, u)
       PROVE Goal
  BY <1>5, <1>11 DEF CreateInvoice
<1>12. ASSUME NEW i \in Invoice, NEW u \in User, ImportInvoice(i, u) PROVE Goal
  BY <1>5, <1>12 DEF ImportInvoice
<1>13. ASSUME NEW i \in Invoice, NEW a \in DOMAIN Rules, NEW u \in User, InvoiceAction(i, a, u)
       PROVE Goal
  BY <1>5, <1>13 DEF InvoiceAction
<1>14. ASSUME NEW i \in Invoice, NEW state \in InvoiceState, NEW u \in User,
              TransitionInvoice(i, state, u)
       PROVE Goal
  BY <1>5, <1>14 DEF TransitionInvoice
<1>15. ASSUME NEW i \in Invoice, AcknowledgeInvoice(i) PROVE Goal
  BY <1>2, <1>3, <1>4, <1>15 DEF AcknowledgeInvoice
<1>16. ASSUME NEW i \in Invoice, NEW j \in Invoice, NEW u \in User, ReverseInvoice(i, j, u)
       PROVE Goal
  BY <1>2, <1>3, <1>4, <1>16 DEF ReverseInvoice, Mirror
<1>17. ASSUME NEW s \in Session, NEW i \in Invoice, BeginNote(s, i) PROVE Goal
  BY <1>3, <1>5, <1>17 DEF BeginNote, TypeOK
<1>18. CASE UNCHANGED vars
  BY <1>5, <1>18 DEF vars
<1>19. QED
  BY <1>6, <1>7, <1>8, <1>9, <1>10, <1>11, <1>12, <1>13, <1>14, <1>15, <1>16, <1>17, <1>18
     DEF Next, Goal

-----------------------------------------------------------------------------
(* The theorems                                                            *)

\* The empty tables satisfy the inductive invariant.
LEMMA InitIInv == Init => IInv
<1> SUFFICES ASSUME Init PROVE IInv
  OBVIOUS
<1> USE DEF Init
<1>1. TypeOK
  BY NewRows DEF TypeOK, SessionRow
<1>2. \A t, sign : Charging(t, sign) = {}
  BY NewRows DEF Charging
<1>3. \A t : NetBilled(t) = 0
  BY <1>2, FS_EmptySet DEF NetBilled
<1>4. BooksAreKept
  BY <1>3, NewRows
     DEF BooksAreKept, BlanksAreBlank, ApprovalsAreIndependent, MirrorsFollowOriginals,
         OneInvoicePerTrip, SubmittedIsAcknowledged, OneOutstanding, LastDecides, BilledOnce,
         Posted, Outstanding
<1>5. NotesFollowPosting /\ PendingNotesFollowPosting
  BY DEF NotesFollowPosting, PendingNotesFollowPosting, Idle
<1>6. QED
  BY <1>1, <1>4, <1>5 DEF IInv

\* Every step keeps the inductive invariant.
LEMMA NextIInv == IInv /\ [Next]_vars => IInv'
<1> SUFFICES ASSUME IInv, [Next]_vars PROVE IInv'
  OBVIOUS
<1> USE DEF IInv
<1>1. TypeOK'
  BY TypeStep
<1>2. NotesFollowPosting' /\ PendingNotesFollowPosting'
  BY <1>1, NotesStep
<1>3. BooksAreKept'
  <2>1. CASE UNCHANGED <<invoice, link>>
    BY SMTT(30), <2>1 DEF BooksAreKept, BlanksAreBlank, ApprovalsAreIndependent, MirrorsFollowOriginals,
                OneInvoicePerTrip, SubmittedIsAcknowledged, OneOutstanding, LastDecides,
                BilledOnce, NetBilled, Charging
  <2>2. QED
    BY <1>1, <2>1, StepKinds, EditKeepsBooks, InsertKeepsBooks, ImportKeepsBooks,
       MirrorKeepsBooks
<1>4. QED
  BY <1>1, <1>2, <1>3

\* IInv is an invariant of the specification.
LEMMA Invariance == Spec => []IInv
  BY InitIInv, NextIInv, PTL DEF Spec

\* Every row of invoices, links, notes and requests keeps its type.
THEOREM TypeCorrect == Spec => []TypeOK
<1>1. IInv => TypeOK
  BY DEF IInv
<1>2. QED
  BY <1>1, Invariance, PTL

\* No trip is ever charged twice or credited more than it was charged, for
\* any chain of invoices, reversals and reversals of reversals.
THEOREM TripsAreBilledOnce == Spec => []BilledOnce
<1>1. IInv => BilledOnce
  BY DEF IInv, BooksAreKept
<1>2. QED
  BY <1>1, Invariance, PTL

\* A trip is on at most one invoice that is not a reversal, whichever of the
\* two services inserts it.
THEOREM LinksAreExclusive == Spec => []OneInvoicePerTrip
<1>1. IInv => OneInvoicePerTrip
  BY DEF IInv, BooksAreKept
<1>2. QED
  BY <1>1, Invariance, PTL

\* No invoice of services is posted without an independent approval.
THEOREM PostingsAreApproved == Spec => []PostedWasApproved
<1>1. IInv => PostedWasApproved
  BY DEF IInv, BooksAreKept, ApprovalsAreIndependent, PostedWasApproved
<1>2. QED
  BY <1>1, Invariance, PTL

\* Notes belong to posted invoices although they are written without a lock.
THEOREM NotesBelongToPostings == Spec => []NotesFollowPosting
<1>1. IInv => NotesFollowPosting
  BY DEF IInv
<1>2. QED
  BY <1>1, Invariance, PTL

\* An invoice that is submitted has been acknowledged.
THEOREM SubmissionsAreAcknowledged == Spec => []SubmittedIsAcknowledged
<1>1. IInv => SubmittedIsAcknowledged
  BY DEF IInv, BooksAreKept
<1>2. QED
  BY <1>1, Invariance, PTL

\* What has been posted is never taken off the books or rewritten.
THEOREM BooksAreAppendOnly == Spec => PostedStays
<1> DEFINE Stays == \A i \in Invoice : invoice[i].state \in Posted =>
                       /\ invoice'[i].state \in Posted
                       /\ invoice'[i].lines = invoice[i].lines
                       /\ invoice[i].state = "REVERSED" => invoice'[i] = invoice[i]
<1>1. IInv /\ IInv' /\ [Next]_vars => [Stays]_vars
  BY PostedRowsStay DEF IInv
<1>2. Spec => [][Stays]_vars
  BY <1>1, Invariance, PTL DEF Spec
<1>3. QED
  BY <1>2 DEF PostedStays
=============================================================================
