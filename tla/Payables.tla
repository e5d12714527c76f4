------------------------------- MODULE Payables -------------------------------
(***************************************************************************)
(* Vendor bills, payment batches and the payment ledger, as written by two *)
(* services over the same four tables:                                     *)
(*   workbench  apps/backend/src/modules/finance/workbench.service.ts      *)
(*   canonical  apps/backend/src/modules/canonical/advanced.service.ts     *)
(*                                                                         *)
(* Every handler is one PostgreSQL transaction at READ COMMITTED.  A       *)
(* handler that locks all it reads is one step.  Two handlers act on       *)
(* values they read before they hold the rows they write, and take two or  *)
(* more steps: the canonical createPaymentBatch reads bill balances with   *)
(* no lock and inserts later, and the workbench's MARK_PAID and REVERSE    *)
(* recompute bill states from a statement snapshot that may be older than  *)
(* the bill row they end up updating.                                      *)
(*                                                                         *)
(* A bill stands for the one delivered trip it bills: creating it once is  *)
(* UNIQUE(tenant_id, trip_id) of vendor_bill_lines.  The expectedVersion   *)
(* of a request only makes a stale request fail, so every step is taken by *)
(* a client that has just reloaded the row.                                *)
(***************************************************************************)
EXTENDS Integers, FiniteSets

CONSTANTS User,        \* the tenant's finance users
          Bill,        \* vendor bills, one per delivered trip
          Batch,       \* payment batches (batch_no is unique)
          Payable,     \* the payable amounts a bill may be created with
          MaxAmount,   \* bound: the largest amount of one request item
          MaxItems,    \* bound: items in one createPaymentBatch request
          Nobody       \* SQL NULL in a user column

ASSUME PayablesAssumption ==
    /\ MaxAmount \in Nat
    /\ MaxItems \in Nat
    /\ Payable \subseteq 0..MaxAmount
    /\ Nobody \notin User
    /\ IsFiniteSet(Batch)

VARIABLES bill,     \* app.vendor_bills
          batch,    \* app.payment_batches
          claim,    \* app.payment_allocations with reversal_of IS NULL
          refund,   \* ... and their compensating rows, as a positive amount
          request,  \* canonical createPaymentBatch transactions still open
          settle    \* workbench MARK_PAID / REVERSE transactions still open

vars == <<bill, batch, claim, refund, request, settle>>

BillState == {"NONE", "DRAFT", "VALIDATION_EXCEPTION",
              "PENDING_OPERATIONAL_VERIFICATION", "PENDING_FINANCE_APPROVAL",
              "APPROVED", "PART_PAID", "PAID", "DISPUTED"}

BatchState == {"NONE", "DRAFT", "PENDING_APPROVAL", "APPROVED", "SUBMITTED",
               "PAID", "FAILED", "REVERSED"}

Amount == 0..(MaxItems * MaxAmount + MaxAmount)

NoClaim == [b \in Bill |-> 0]
NoRequest == [by |-> Nobody, items |-> NoClaim, count |-> 0]
NoSettlement == [to |-> "NONE", paid |-> {}]

TypeOK ==
    /\ bill \in [Bill -> [state: BillState, payable: 0..MaxAmount,
                          maker: User \cup {Nobody},
                          verifier: User \cup {Nobody},
                          approver: User \cup {Nobody}]]
    /\ batch \in [Batch -> [state: BatchState, maker: User \cup {Nobody},
                            checker: User \cup {Nobody}]]
    /\ claim \in [Batch -> [Bill -> Amount]]
    /\ refund \in [Batch -> [Bill -> Amount]]
    /\ request \in [Batch -> [by: User \cup {Nobody}, items: [Bill -> Amount],
                              count: 0..MaxItems]]
    /\ settle \in [Batch -> [to: {"NONE", "PAID", "REVERSED"},
                             paid: SUBSET Batch]]

Init ==
    /\ bill = [b \in Bill |-> [state |-> "NONE", payable |-> 0, maker |-> Nobody,
                               verifier |-> Nobody, approver |-> Nobody]]
    /\ batch = [p \in Batch |-> [state |-> "NONE", maker |-> Nobody,
                                 checker |-> Nobody]]
    /\ claim = [p \in Batch |-> NoClaim]
    /\ refund = [p \in Batch |-> NoClaim]
    /\ request = [p \in Batch |-> NoRequest]
    /\ settle = [p \in Batch |-> NoSettlement]

-----------------------------------------------------------------------------
(* Sums of ledger rows.  The SQL sums amount_minor; here the minor units   *)
(* that the batches P hold against bill b are counted one by one, so that  *)
(* the sum is the cardinality of a set.                                    *)

Units(ledger, b, P) == {u \in P \X (1..(MaxItems * MaxAmount + MaxAmount)) :
                            u[2] <= ledger[u[1]][b]}

Total(ledger, b, P) == Cardinality(Units(ledger, b, P))

InState(S) == {p \in Batch : batch[p].state \in S}

\* Batches whose money is reserved or paid: NOT IN ('FAILED','REVERSED').
Live == InState(BatchState \ {"FAILED", "REVERSED"})

\* Mutant: money reserved by batches still on their way is not counted.
OutstandingPaidOnly(b) == bill[b].payable - Total(claim, b, InState({"PAID"}))

\* The two services compute what is still owed on a bill differently: the
\* workbench over live batches, the canonical one over every ledger row.
Outstanding(b) == bill[b].payable - Total(claim, b, Live)
Balance(b) ==
    bill[b].payable - (Total(claim, b, Batch) - Total(refund, b, Batch))

Payers(p) == {b \in Bill : claim[p][b] > 0}

\* No open transaction holds the batch row FOR UPDATE.
Unlocked(p) == settle[p].to = "NONE"

-----------------------------------------------------------------------------
(* Vendor bills                                                            *)

NewBill(u, b, amount, state) ==
    /\ bill[b].state = "NONE"
    /\ bill' = [bill EXCEPT ![b] = [state |-> state, payable |-> amount,
                                    maker |-> u, verifier |-> Nobody,
                                    approver |-> Nobody]]
    /\ UNCHANGED <<batch, claim, refund, request, settle>>

\* A rate variance sends the new bill to VALIDATION_EXCEPTION.
CreateVendorBill(u, b, amount) ==
    \E state \in {"DRAFT", "VALIDATION_EXCEPTION"} : NewBill(u, b, amount, state)

CanonicalCreateVendorBill(u, b, amount) ==
    \E state \in {"PENDING_OPERATIONAL_VERIFICATION", "VALIDATION_EXCEPTION"} :
        NewBill(u, b, amount, state)

MoveBill(b, from, new) ==
    /\ bill[b].state \in from
    /\ bill' = [bill EXCEPT ![b] = new]
    /\ UNCHANGED <<batch, claim, refund, request, settle>>

SubmitBill(b) ==
    MoveBill(b, {"DRAFT", "VALIDATION_EXCEPTION"},
             [bill[b] EXCEPT !.state = "PENDING_OPERATIONAL_VERIFICATION"])

\* The workbench lets anyone verify, the maker included.
VerifyBill(u, b) ==
    MoveBill(b, {"PENDING_OPERATIONAL_VERIFICATION"},
             [bill[b] EXCEPT !.state = "PENDING_FINANCE_APPROVAL", !.verifier = u])

ApproveBill(u, b) ==
    /\ bill[b].maker # u
    /\ MoveBill(b, {"PENDING_FINANCE_APPROVAL"},
                [bill[b] EXCEPT !.state = "APPROVED", !.approver = u])

\* Mutant: DISPUTE without its list of source states.
DisputeAnyBill(b) ==
    MoveBill(b, BillState \ {"NONE"}, [bill[b] EXCEPT !.state = "DISPUTED"])

DisputeBill(b) ==
    MoveBill(b, {"VALIDATION_EXCEPTION", "PENDING_OPERATIONAL_VERIFICATION",
                 "PENDING_FINANCE_APPROVAL"},
             [bill[b] EXCEPT !.state = "DISPUTED"])

\* The canonical service also offers DISPUTE, but its statement never executes:
\* it gives a parameter that the text does not refer to.
CanonicalVerifyBill(u, b) ==
    /\ bill[b].maker # u
    /\ MoveBill(b, {"PENDING_OPERATIONAL_VERIFICATION", "VALIDATION_EXCEPTION"},
                [bill[b] EXCEPT !.state = "PENDING_FINANCE_APPROVAL",
                                !.verifier = u])

CanonicalApproveBill(u, b) ==
    /\ bill[b].maker # u
    /\ bill[b].verifier # u
    /\ MoveBill(b, {"PENDING_FINANCE_APPROVAL"},
                [bill[b] EXCEPT !.state = "APPROVED", !.approver = u])

-----------------------------------------------------------------------------
(* Payment batches                                                         *)

\* PAY: the bill row is held FOR UPDATE, so the ledger is read and extended
\* in one step.
CreatePayment(u, b, p, amount) ==
    /\ bill[b].state \in {"APPROVED", "PART_PAID"}
    /\ batch[p].state = "NONE"
    /\ request[p] = NoRequest
    /\ amount <= Outstanding(b)
    /\ batch' = [batch EXCEPT ![p] = [state |-> "PENDING_APPROVAL", maker |-> u,
                                      checker |-> Nobody]]
    /\ claim' = [claim EXCEPT ![p] = [NoClaim EXCEPT ![b] = amount]]
    /\ UNCHANGED <<bill, refund, request, settle>>

\* createPaymentBatch reads the balance of one item at a time, without a
\* lock; a bill may be named by several items.
ReadRequestItem(u, p, b, amount) ==
    /\ batch[p].state = "NONE"
    /\ request[p].by \in {Nobody, u}
    /\ request[p].count < MaxItems
    /\ bill[b].state \in {"APPROVED", "PART_PAID"}
    /\ amount <= Balance(b)
    /\ request' = [request EXCEPT ![p] =
                      [by |-> u, count |-> request[p].count + 1,
                       items |-> [request[p].items EXCEPT ![b] = @ + amount]]]
    /\ UNCHANGED <<bill, batch, claim, refund, settle>>

\* ... and inserts the batch and its rows when all items have passed.
InsertRequestedBatch(p) ==
    /\ request[p] # NoRequest
    /\ batch' = [batch EXCEPT ![p] = [state |-> "DRAFT", maker |-> request[p].by,
                                      checker |-> Nobody]]
    /\ claim' = [claim EXCEPT ![p] = request[p].items]
    /\ request' = [request EXCEPT ![p] = NoRequest]
    /\ UNCHANGED <<bill, refund, settle>>

\* Mutant: the maker may approve the batch.
ApproveByAnyone(u, p, from) ==
    /\ Unlocked(p)
    /\ batch[p].state = from
    /\ batch' = [batch EXCEPT ![p].state = "APPROVED", ![p].checker = u]
    /\ UNCHANGED <<bill, claim, refund, request, settle>>

ApproveFrom(u, p, from) ==
    /\ Unlocked(p)
    /\ batch[p].state = from
    /\ batch[p].maker # u
    /\ batch' = [batch EXCEPT ![p].state = "APPROVED", ![p].checker = u]
    /\ UNCHANGED <<bill, claim, refund, request, settle>>

ApproveBatch(u, p) == ApproveFrom(u, p, "PENDING_APPROVAL")
CanonicalApproveBatch(u, p) == ApproveFrom(u, p, "DRAFT")

\* SUBMIT and FAIL are the same in both services.
MoveBatch(p, from, to) ==
    /\ Unlocked(p)
    /\ batch[p].state = from
    /\ batch' = [batch EXCEPT ![p].state = to]
    /\ UNCHANGED <<bill, claim, refund, request, settle>>

\* Mutant: a failed batch may be submitted again.
ResubmitBatch(p) ==
    MoveBatch(p, "APPROVED", "SUBMITTED") \/ MoveBatch(p, "FAILED", "SUBMITTED")

SubmitBatch(p) == MoveBatch(p, "APPROVED", "SUBMITTED")
FailBatch(p) == MoveBatch(p, "SUBMITTED", "FAILED")

\* The workbench's MARK_PAID and REVERSE up to the snapshot of the UPDATE of
\* vendor_bills: the batches that are PAID in it, this one's own change
\* included.  The batch row is locked until the transaction ends.
BeginMarkPaid(p) ==
    /\ Unlocked(p)
    /\ batch[p].state = "SUBMITTED"
    /\ settle' = [settle EXCEPT ![p] =
                     [to |-> "PAID", paid |-> InState({"PAID"}) \cup {p}]]
    /\ UNCHANGED <<bill, batch, claim, refund, request>>

\* Mutant: REVERSE accepts a batch that is reversed already.
BeginReverseAgain(p) ==
    /\ Unlocked(p)
    /\ batch[p].state \in {"PAID", "REVERSED"}
    /\ settle' = [settle EXCEPT ![p] =
                     [to |-> "REVERSED", paid |-> InState({"PAID"}) \ {p}]]
    /\ UNCHANGED <<bill, batch, claim, refund, request>>

BeginReverse(p) ==
    /\ Unlocked(p)
    /\ batch[p].state = "PAID"
    /\ settle' = [settle EXCEPT ![p] =
                     [to |-> "REVERSED", paid |-> InState({"PAID"}) \ {p}]]
    /\ UNCHANGED <<bill, batch, claim, refund, request>>

RecomputedState(b, paid) ==
    LET paidMinor == Total(claim, b, paid)
    IN  IF paidMinor <= 0 THEN "APPROVED"
        ELSE IF paidMinor >= bill[b].payable THEN "PAID"
        ELSE "PART_PAID"

\* The compensating rows negate the rows with reversal_of IS NULL.
Compensated(p) == [refund EXCEPT ![p] = [b \in Bill |-> refund[p][b] + claim[p][b]]]

FinishSettlement(p) ==
    /\ settle[p].to # "NONE"
    /\ batch' = [batch EXCEPT ![p].state = settle[p].to]
    /\ refund' = IF settle[p].to = "REVERSED" THEN Compensated(p) ELSE refund
    /\ bill' = [b \in Bill |->
                   IF b \in Payers(p)
                   THEN [bill[b] EXCEPT !.state = RecomputedState(b, settle[p].paid)]
                   ELSE bill[b]]
    /\ settle' = [settle EXCEPT ![p] = NoSettlement]
    /\ UNCHANGED <<claim, request>>

\* The canonical service looks at this batch's rows alone, which no other
\* transaction changes, and leaves the bills alone on REVERSE.
CanonicalMarkPaid(p) ==
    /\ Unlocked(p)
    /\ batch[p].state = "SUBMITTED"
    /\ batch' = [batch EXCEPT ![p].state = "PAID"]
    /\ bill' = [b \in Bill |->
                   IF b \in Payers(p)
                   THEN [bill[b] EXCEPT !.state =
                            IF claim[p][b] >= bill[b].payable THEN "PAID"
                            ELSE "PART_PAID"]
                   ELSE bill[b]]
    /\ UNCHANGED <<claim, refund, request, settle>>

CanonicalReverse(p) ==
    /\ Unlocked(p)
    /\ batch[p].state = "PAID"
    /\ batch' = [batch EXCEPT ![p].state = "REVERSED"]
    /\ refund' = Compensated(p)
    /\ UNCHANGED <<bill, claim, request, settle>>

\* An open transaction rolls back: a refused later item, a deadlock, a
\* timeout or a crash of the backend.
Rollback(p) ==
    /\ request[p] # NoRequest \/ settle[p] # NoSettlement
    /\ request' = [request EXCEPT ![p] = NoRequest]
    /\ settle' = [settle EXCEPT ![p] = NoSettlement]
    /\ UNCHANGED <<bill, batch, claim, refund>>

-----------------------------------------------------------------------------
SharedNext == \E p \in Batch : SubmitBatch(p) \/ FailBatch(p) \/ Rollback(p)

WorkbenchNext ==
    \/ \E u \in User, b \in Bill :
          \/ \E amount \in Payable : CreateVendorBill(u, b, amount)
          \/ VerifyBill(u, b)
          \/ ApproveBill(u, b)
          \/ \E p \in Batch, amount \in 1..MaxAmount : CreatePayment(u, b, p, amount)
    \/ \E b \in Bill : SubmitBill(b) \/ DisputeBill(b)
    \/ \E u \in User, p \in Batch : ApproveBatch(u, p)
    \/ \E p \in Batch : BeginMarkPaid(p) \/ BeginReverse(p) \/ FinishSettlement(p)
    \/ SharedNext

CanonicalNext ==
    \/ \E u \in User, b \in Bill :
          \/ \E amount \in Payable : CanonicalCreateVendorBill(u, b, amount)
          \/ CanonicalVerifyBill(u, b)
          \/ CanonicalApproveBill(u, b)
          \/ \E p \in Batch, amount \in 1..MaxAmount : ReadRequestItem(u, p, b, amount)
    \/ \E u \in User, p \in Batch : CanonicalApproveBatch(u, p)
    \/ \E p \in Batch :
          InsertRequestedBatch(p) \/ CanonicalMarkPaid(p) \/ CanonicalReverse(p)
    \/ SharedNext

Next == WorkbenchNext \/ CanonicalNext

\* Both services serve the same tables.
Spec == Init /\ [][Next]_vars

\* A tenant that uses the workbench only.
WorkbenchSpec == Init /\ [][WorkbenchNext]_vars

-----------------------------------------------------------------------------
(* Properties                                                              *)

\* Money leaves the tenant only with two pairs of independent eyes on it: a
\* batch handed to the bank was approved by someone other than its maker, and
\* every bill it pays was approved by someone other than the bill's maker,
\* whichever of the two services took each step.
MoneyMovedIsApproved ==
    \A p \in InState({"SUBMITTED", "PAID", "FAILED", "REVERSED"}) :
        /\ batch[p].checker \in User \ {batch[p].maker}
        /\ \A b \in Payers(p) : bill[b].approver \in User \ {bill[b].maker}

\* Compensation happens exactly once: the ledger holds one compensating row
\* for every row of a REVERSED batch and none for any other batch, although
\* reversals, rollbacks and the two services interleave.
ReversalsMirrorClaims ==
    \A p \in Batch : \A b \in Bill :
        refund[p][b] = IF batch[p].state = "REVERSED" THEN claim[p][b] ELSE 0

\* A batch row stays as its open settlement found it until that settlement
\* ends, so MARK_PAID and REVERSE can neither overlap nor repeat.
SettlementHoldsBatch ==
    \A p \in Batch :
        /\ settle[p].to = "PAID" => batch[p].state = "SUBMITTED"
        /\ settle[p].to = "REVERSED" => batch[p].state = "PAID"

\* The money reserved or paid against a bill by batches that have neither
\* failed nor been reversed never exceeds what the bill owes.
NoOverpayment == \A b \in Bill : Total(claim, b, Live) <= bill[b].payable

\* A bill that any batch pays, or did pay, is payable, whichever service created
\* the batch and whichever settles it: its state is one that MARK_PAID and
\* REVERSE may overwrite with what they computed from an older snapshot.
ClaimedBillsPayable ==
    \A p \in Batch : \A b \in Payers(p) :
        bill[b].state \in {"APPROVED", "PART_PAID", "PAID"}

-----------------------------------------------------------------------------
(* The workbench implements an account per bill that cannot be overdrawn:  *)
(* creating a payment reserves, FAIL releases, MARK_PAID pays and REVERSE  *)
(* gives back, each in one atomic step and never twice.                    *)

Account == INSTANCE PayableAccount WITH
    MaxOwed <- MaxAmount,
    owed <- [b \in Bill |-> bill[b].payable],
    reserved <- [b \in Bill |-> Total(claim, b, Live \ InState({"PAID"}))],
    paid <- [b \in Bill |-> Total(claim, b, InState({"PAID"}))]

\* Payments made through the workbench behave like reservations, payments and
\* refunds on one account per bill.
AccountIsKept == Account!Spec
=============================================================================
