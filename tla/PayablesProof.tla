---------------------------- MODULE PayablesProof ----------------------------
(***************************************************************************)
(* Proofs about Payables, for any number of users, bills and batches.      *)
(*                                                                         *)
(* The first part is about Spec, where both services work on the same      *)
(* tables: TypeOK, MoneyMovedIsApproved, ReversalsMirrorClaims,            *)
(* SettlementHoldsBatch and ClaimedBillsPayable follow from one inductive  *)
(* invariant.  The second is about WorkbenchSpec: no bill is ever          *)
(* overpaid.  That argument compares sets of minor units, so it never      *)
(* needs the value of a sum.  The third is that WorkbenchSpec implements   *)
(* PayableAccount for every bill: a batch of the workbench pays one bill,  *)
(* so a step moves one account by one amount.                              *)
(***************************************************************************)
EXTENDS Payables, FiniteSetTheorems, TLAPS

Cap == MaxItems * MaxAmount + MaxAmount

\* An open createPaymentBatch request is for a batch that does not exist yet
\* and has added at most MaxAmount per item it has read.
RequestsAreNew ==
    \A p \in Batch :
        /\ request[p] # NoRequest => batch[p].state = "NONE" /\ request[p].by \in User
        /\ \A b \in Bill : request[p].items[b] <= request[p].count * MaxAmount

PayableState == {"APPROVED", "PART_PAID", "PAID"}

\* Nobody pays the bill, and no open request means to.
Unclaimed(b) == \A p \in Batch : claim[p][b] = 0 /\ request[p].items[b] = 0

\* A bill in a payable state was approved by someone other than its maker ...
PayableWasApproved ==
    \A b \in Bill : bill[b].state \in PayableState => bill[b].approver \in User \ {bill[b].maker}

\* ... and nobody pays one in any other state: no state leads back from the
\* payable ones to those in which the row is decided about.
ClaimedIsPayable == \A b \in Bill : bill[b].state \notin PayableState => Unclaimed(b)

BatchesApproved ==
    \A p \in InState({"APPROVED", "SUBMITTED", "PAID", "FAILED", "REVERSED"}) :
        batch[p].checker \in User \ {batch[p].maker}

IInv ==
    /\ TypeOK
    /\ RequestsAreNew
    /\ SettlementHoldsBatch
    /\ ReversalsMirrorClaims
    /\ PayableWasApproved
    /\ ClaimedIsPayable
    /\ BatchesApproved

-----------------------------------------------------------------------------
(* Arithmetic of the bounds                                                *)

\* The bounds on amounts are natural numbers, and the items of a request that
\* has not read its last one still fit below them.
LEMMA Bounds ==
    /\ MaxAmount \in Nat /\ MaxItems \in Nat /\ Cap \in Nat
    /\ MaxAmount <= Cap
    /\ \A n \in 0..MaxItems : n * MaxAmount \in Nat /\ n * MaxAmount <= Cap
    /\ \A n \in 0..MaxItems : (n + 1) * MaxAmount = n * MaxAmount + MaxAmount
<1>1. MaxAmount \in Nat /\ MaxItems \in Nat
  BY PayablesAssumption
<1>2. MaxItems * MaxAmount \in Nat
  BY <1>1
<1>3. ASSUME NEW n \in 0..MaxItems
      PROVE  /\ n * MaxAmount \in Nat
             /\ n * MaxAmount <= MaxItems * MaxAmount
             /\ (n + 1) * MaxAmount = n * MaxAmount + MaxAmount
  <2>1. n \in Nat /\ MaxItems - n \in Nat
    BY <1>1
  <2>2. (MaxItems - n) * MaxAmount \in Nat /\ n * MaxAmount \in Nat
    BY <1>1, <2>1
  <2>3. MaxItems * MaxAmount = n * MaxAmount + (MaxItems - n) * MaxAmount
    BY <1>1, <2>1
  <2>4. QED
    BY <1>1, <1>2, <2>1, <2>2, <2>3
<1>4. QED
  BY <1>1, <1>2, <1>3 DEF Cap

-----------------------------------------------------------------------------
(* The invariant of Spec                                                   *)

BillRow == [state: BillState, payable: 0..MaxAmount, maker: User \cup {Nobody},
            verifier: User \cup {Nobody}, approver: User \cup {Nobody}]

EarlyState == {"NONE", "DRAFT", "VALIDATION_EXCEPTION",
               "PENDING_OPERATIONAL_VERIFICATION", "PENDING_FINANCE_APPROVAL"}

\* Initially there are no rows and no open transactions.
LEMMA InitInvariant == Init => IInv
<1> SUFFICES ASSUME Init PROVE IInv
  OBVIOUS
<1> USE DEF Init, NoClaim, NoRequest, NoSettlement
<1>1. TypeOK
  BY Bounds DEF TypeOK, BillState, BatchState, Amount, Cap
<1>2. RequestsAreNew
  BY Bounds DEF RequestsAreNew
<1>3. SettlementHoldsBatch /\ ReversalsMirrorClaims
  BY DEF SettlementHoldsBatch, ReversalsMirrorClaims
<1>4. PayableWasApproved /\ ClaimedIsPayable /\ BatchesApproved
  BY DEF PayableWasApproved, ClaimedIsPayable, Unclaimed, PayableState, BatchesApproved, InState
<1>5. QED
  BY <1>1, <1>2, <1>3, <1>4 DEF IInv

\* Writing one bill row keeps the invariant when the new row is payable and
\* approved, or nobody claims it.
LEMMA BillWritten ==
    ASSUME IInv, NEW b \in Bill, NEW row \in BillRow,
           bill' = [bill EXCEPT ![b] = row],
           UNCHANGED <<batch, claim, refund, request, settle>>,
           row.state \in PayableState => row.approver \in User \ {row.maker},
           row.state \notin PayableState => Unclaimed(b)
    PROVE  IInv'
<1> USE DEF IInv
<1>1. TypeOK'
  BY DEF TypeOK, BillRow
<1>2. RequestsAreNew' /\ SettlementHoldsBatch' /\ ReversalsMirrorClaims' /\ BatchesApproved'
  BY DEF RequestsAreNew, SettlementHoldsBatch, ReversalsMirrorClaims, BatchesApproved, InState
<1>3. bill \in [Bill -> BillRow]
  BY DEF TypeOK, BillRow
<1>4. PayableWasApproved'
  BY <1>3 DEF PayableWasApproved
<1>5. ClaimedIsPayable'
  BY <1>3 DEF ClaimedIsPayable, Unclaimed
<1>6. QED
  BY <1>1, <1>2, <1>4, <1>5

\* The handlers that create a bill or decide about it.
LEMMA BillStep ==
    ASSUME IInv, NEW b \in Bill,
           \/ SubmitBill(b) \/ DisputeBill(b)
           \/ \E u \in User :
                \/ \E amount \in Payable : \/ CreateVendorBill(u, b, amount)
                                           \/ CanonicalCreateVendorBill(u, b, amount)
                \/ VerifyBill(u, b) \/ ApproveBill(u, b) \/ CanonicalVerifyBill(u, b)
                \/ CanonicalApproveBill(u, b)
    PROVE  IInv'
<1>1. bill \in [Bill -> BillRow] /\ Nobody \notin User
  BY PayablesAssumption DEF IInv, TypeOK, BillRow
<1>2. bill[b].state \in EarlyState => Unclaimed(b)
  BY DEF IInv, ClaimedIsPayable, EarlyState, PayableState
<1>4. ASSUME NEW u \in User, NEW amount \in Payable,
             CreateVendorBill(u, b, amount) \/ CanonicalCreateVendorBill(u, b, amount)
      PROVE  IInv'
  <2>1. PICK s \in {"DRAFT", "VALIDATION_EXCEPTION", "PENDING_OPERATIONAL_VERIFICATION"} :
            NewBill(u, b, amount, s)
    BY <1>4 DEF CreateVendorBill, CanonicalCreateVendorBill
  <2> DEFINE row == [state |-> s, payable |-> amount, maker |-> u,
                     verifier |-> Nobody, approver |-> Nobody]
  <2>2. row \in BillRow
    BY PayablesAssumption DEF BillRow, BillState
  <2>3. Unclaimed(b)
    BY <1>2, <2>1 DEF NewBill, EarlyState
  <2>4. QED
    BY <2>1, <2>2, <2>3, BillWritten DEF NewBill, PayableState
<1>5. CASE SubmitBill(b) \/ \E u \in User : VerifyBill(u, b) \/ CanonicalVerifyBill(u, b)
  <2>1. PICK u \in User \cup {Nobody}, state \in {"PENDING_OPERATIONAL_VERIFICATION",
                                                  "PENDING_FINANCE_APPROVAL"} :
            LET row == [bill[b] EXCEPT !.state = state, !.verifier = u]
            IN  /\ bill[b].state \in EarlyState
                /\ bill' = [bill EXCEPT ![b] = row]
                /\ UNCHANGED <<batch, claim, refund, request, settle>>
    <3>1. [bill[b] EXCEPT !.state = "PENDING_OPERATIONAL_VERIFICATION"] =
          [bill[b] EXCEPT !.state = "PENDING_OPERATIONAL_VERIFICATION",
                          !.verifier = bill[b].verifier]
      BY <1>1 DEF BillRow
    <3>2. bill[b].verifier \in User \cup {Nobody}
      BY <1>1 DEF BillRow
    <3>3. QED
      BY <1>5, <3>1, <3>2 DEF SubmitBill, VerifyBill, CanonicalVerifyBill, MoveBill, EarlyState
  <2> DEFINE row == [bill[b] EXCEPT !.state = state, !.verifier = u]
  <2>2. row \in BillRow /\ row.state \notin PayableState
    BY <1>1 DEF BillRow, BillState, PayableState
  <2>3. QED
    BY <1>2, <2>1, <2>2, BillWritten
<1>6. ASSUME NEW u \in User, ApproveBill(u, b) \/ CanonicalApproveBill(u, b)
      PROVE  IInv'
  <2> DEFINE row == [bill[b] EXCEPT !.state = "APPROVED", !.approver = u]
  <2>1. /\ bill[b].maker # u
        /\ bill' = [bill EXCEPT ![b] = row]
        /\ UNCHANGED <<batch, claim, refund, request, settle>>
    BY <1>6 DEF ApproveBill, CanonicalApproveBill, MoveBill
  <2>2. row \in BillRow /\ row.approver \in User \ {row.maker} /\ row.state \in PayableState
    BY <1>1, <2>1 DEF BillRow, BillState, PayableState
  <2>3. QED
    BY <2>1, <2>2, BillWritten
<1>7. CASE DisputeBill(b)
  <2> DEFINE row == [bill[b] EXCEPT !.state = "DISPUTED"]
  <2>1. /\ bill' = [bill EXCEPT ![b] = row] /\ bill[b].state \in EarlyState
        /\ UNCHANGED <<batch, claim, refund, request, settle>>
    BY <1>7 DEF DisputeBill, MoveBill, EarlyState
  <2>2. row \in BillRow /\ row.state \notin PayableState
    BY <1>1 DEF BillRow, BillState, PayableState
  <2>3. QED
    BY <1>2, <2>1, <2>2, BillWritten
<1>8. QED
  BY <1>4, <1>5, <1>6, <1>7

\* Approving, submitting and failing a batch: only its row changes, and none
\* of its old and new states is REVERSED.
LEMMA BatchStep ==
    ASSUME IInv, NEW p \in Batch,
           \/ \E u \in User : ApproveBatch(u, p) \/ CanonicalApproveBatch(u, p)
           \/ SubmitBatch(p) \/ FailBatch(p)
    PROVE  IInv'
<1> USE DEF IInv
<1>1. PICK row \in [state: {"APPROVED", "SUBMITTED", "FAILED"}, maker: User \cup {Nobody},
                    checker: User \cup {Nobody}] :
         /\ batch' = [batch EXCEPT ![p] = row]
         /\ batch[p].state \notin {"NONE", "REVERSED"}
         /\ row.checker \in User \ {row.maker}
  <2>1. ASSUME NEW u \in User, NEW from \in {"PENDING_APPROVAL", "DRAFT"},
               ApproveFrom(u, p, from)
        PROVE  /\ batch' = [batch EXCEPT ![p] = [batch[p] EXCEPT !.state = "APPROVED",
                                                                 !.checker = u]]
               /\ batch[p].state = from /\ batch[p].maker # u
    BY <2>1 DEF ApproveFrom, TypeOK
  <2>2. ASSUME NEW from \in {"APPROVED", "SUBMITTED"}, NEW to, MoveBatch(p, from, to)
        PROVE  /\ batch' = [batch EXCEPT ![p] = [batch[p] EXCEPT !.state = to]]
               /\ batch[p].state = from
               /\ batch[p].checker \in User \ {batch[p].maker}
    BY <2>2 DEF MoveBatch, TypeOK, BatchesApproved, InState
  <2>3. batch[p] \in [state: BatchState, maker: User \cup {Nobody}, checker: User \cup {Nobody}]
    BY DEF TypeOK
  <2>4. ASSUME NEW u \in User, ApproveBatch(u, p) \/ CanonicalApproveBatch(u, p)
        PROVE  \E row \in [state: {"APPROVED", "SUBMITTED", "FAILED"}, maker: User \cup {Nobody},
                           checker: User \cup {Nobody}] :
                 /\ batch' = [batch EXCEPT ![p] = row]
                 /\ batch[p].state \notin {"NONE", "REVERSED"}
                 /\ row.checker \in User \ {row.maker}
    <3> DEFINE row == [batch[p] EXCEPT !.state = "APPROVED", !.checker = u]
    <3>1. /\ batch' = [batch EXCEPT ![p] = row]
          /\ batch[p].state \in {"PENDING_APPROVAL", "DRAFT"} /\ batch[p].maker # u
      BY <2>1, <2>4 DEF ApproveBatch, CanonicalApproveBatch
    <3>2. /\ row \in [state: {"APPROVED"}, maker: User \cup {Nobody},
                      checker: User \cup {Nobody}]
          /\ row.checker = u /\ row.maker = batch[p].maker
      BY <2>3
    <3>3. QED
      BY <3>1, <3>2
  <2>5. CASE SubmitBatch(p) \/ FailBatch(p)
    BY <2>2, <2>3, <2>5 DEF SubmitBatch, FailBatch
  <2>6. QED
    BY <2>4, <2>5
<1>2. UNCHANGED <<bill, claim, refund, request, settle>> /\ Unlocked(p)
  BY DEF ApproveBatch, CanonicalApproveBatch, ApproveFrom, SubmitBatch, FailBatch, MoveBatch
<1>3. TypeOK'
  BY <1>1, <1>2 DEF TypeOK, BatchState
<1>4. RequestsAreNew'
  BY <1>1, <1>2 DEF RequestsAreNew, TypeOK
<1>5. SettlementHoldsBatch' /\ ReversalsMirrorClaims'
  BY <1>1, <1>2 DEF SettlementHoldsBatch, ReversalsMirrorClaims, Unlocked, TypeOK
<1>6. PayableWasApproved' /\ ClaimedIsPayable'
  BY <1>1, <1>2 DEF PayableWasApproved, ClaimedIsPayable, Unclaimed
<1>7. BatchesApproved'
  BY <1>1, <1>2 DEF BatchesApproved, InState, TypeOK
<1>8. QED
  BY <1>3, <1>4, <1>5, <1>6, <1>7

\* PAY creates a batch that no open request and no settlement knows of.
LEMMA PaymentStep ==
    ASSUME IInv, NEW u \in User, NEW b \in Bill, NEW p \in Batch,
           NEW amount \in 1..MaxAmount, CreatePayment(u, b, p, amount)
    PROVE  IInv'
<1> USE DEF IInv, CreatePayment
<1>1. TypeOK'
  <2>1. [NoClaim EXCEPT ![b] = amount] \in [Bill -> Amount]
    BY Bounds DEF NoClaim, Amount, Cap
  <2>2. [state |-> "PENDING_APPROVAL", maker |-> u, checker |-> Nobody]
           \in [state: BatchState, maker: User \cup {Nobody}, checker: User \cup {Nobody}]
    BY DEF BatchState
  <2>3. QED
    BY <2>1, <2>2 DEF TypeOK
<1>2. RequestsAreNew'
  BY DEF RequestsAreNew, TypeOK
<1>3. SettlementHoldsBatch' /\ ReversalsMirrorClaims'
  BY DEF SettlementHoldsBatch, ReversalsMirrorClaims, TypeOK
<1>4. \A q \in Batch, c \in Bill : claim'[q][c] = claim[q][c] \/ claim'[q][c] = 0 \/ c = b
  BY DEF TypeOK, NoClaim
<1>5. PayableWasApproved' /\ ClaimedIsPayable'
  BY <1>4 DEF PayableWasApproved, ClaimedIsPayable, Unclaimed, PayableState
<1>6. BatchesApproved'
  BY DEF BatchesApproved, InState, TypeOK
<1>7. QED
  BY <1>1, <1>2, <1>3, <1>5, <1>6

\* Reading one item of a createPaymentBatch request.
LEMMA ReadStep ==
    ASSUME IInv, NEW u \in User, NEW b \in Bill, NEW p \in Batch,
           NEW amount \in 1..MaxAmount, ReadRequestItem(u, p, b, amount)
    PROVE  IInv'
<1> USE DEF IInv, ReadRequestItem
<1>1. /\ request[p].count \in 0..MaxItems /\ request[p].count + 1 \in 0..MaxItems
      /\ request[p].items \in [Bill -> Nat]
  BY Bounds DEF TypeOK, Amount, Cap
<1>2. \A c \in Bill : /\ request'[p].items[c] \in Nat
                      /\ request'[p].items[c] <= (request[p].count + 1) * MaxAmount
  <2> SUFFICES ASSUME NEW c \in Bill
               PROVE  /\ request'[p].items[c] \in Nat
                      /\ request'[p].items[c] <= (request[p].count + 1) * MaxAmount
    OBVIOUS
  <2>1. request[p].items[c] <= request[p].count * MaxAmount
    BY DEF RequestsAreNew
  <2>2. request'[p].items = [request[p].items EXCEPT ![b] = request[p].items[b] + amount]
    BY DEF TypeOK
  <2>3. request'[p].items[c] \in {request[p].items[c], request[p].items[c] + amount}
    BY <1>1, <2>2
  <2>4. (request[p].count + 1) * MaxAmount = request[p].count * MaxAmount + MaxAmount
    BY <1>1, Bounds
  <2>5. request[p].count * MaxAmount \in Nat
    BY <1>1, Bounds
  <2>6. QED
    BY <1>1, <2>1, <2>3, <2>4, <2>5, Bounds
<1>3. \A c \in Bill : request'[p].items[c] \in Amount
  BY <1>1, <1>2, Bounds DEF Amount, Cap
<1>4. TypeOK'
  BY <1>1, <1>3 DEF TypeOK
<1>5. RequestsAreNew'
  <2> SUFFICES ASSUME NEW q \in Batch
               PROVE  /\ request'[q] # NoRequest =>
                             batch'[q].state = "NONE" /\ request'[q].by \in User
                      /\ \A c \in Bill :
                            request'[q].items[c] <= request'[q].count * MaxAmount
    BY DEF RequestsAreNew
  <2>1. CASE q = p
    BY <1>2, <2>1 DEF TypeOK
  <2>2. CASE q # p
    BY <2>2 DEF RequestsAreNew, TypeOK
  <2>3. QED
    BY <2>1, <2>2
<1>6. SettlementHoldsBatch' /\ ReversalsMirrorClaims' /\ BatchesApproved'
  BY DEF SettlementHoldsBatch, ReversalsMirrorClaims, BatchesApproved, InState
<1>7. \A q \in Batch, c \in Bill : c # b => request'[q].items[c] = request[q].items[c]
  BY DEF TypeOK
<1>8. PayableWasApproved' /\ ClaimedIsPayable'
  BY <1>7 DEF PayableWasApproved, ClaimedIsPayable, Unclaimed, PayableState
<1>9. QED
  BY <1>4, <1>5, <1>6, <1>8

\* Inserting the batch a request describes.
LEMMA InsertStep ==
    ASSUME IInv, NEW p \in Batch, InsertRequestedBatch(p)
    PROVE  IInv'
<1> USE DEF IInv, InsertRequestedBatch
<1>1. batch[p].state = "NONE" /\ request[p].by \in User
  BY DEF RequestsAreNew
<1>2. TypeOK'
  BY Bounds DEF TypeOK, BatchState, NoRequest, NoClaim, Amount, Cap
<1>3. RequestsAreNew'
  BY Bounds DEF RequestsAreNew, TypeOK, NoRequest, NoClaim
<1>4. SettlementHoldsBatch' /\ ReversalsMirrorClaims'
  BY <1>1 DEF SettlementHoldsBatch, ReversalsMirrorClaims, TypeOK
<1>5. \A q \in Batch, c \in Bill :
         /\ claim'[q][c] \in {claim[q][c], request[q].items[c]}
         /\ request'[q].items[c] \in {0, request[q].items[c]}
  BY DEF TypeOK, NoRequest, NoClaim
<1>6. PayableWasApproved' /\ ClaimedIsPayable'
  BY <1>5 DEF PayableWasApproved, ClaimedIsPayable, Unclaimed
<1>7. BatchesApproved'
  BY <1>1 DEF BatchesApproved, InState, TypeOK
<1>8. QED
  BY <1>2, <1>3, <1>4, <1>6, <1>7

\* Opening a settlement records what it saw; rolling one back forgets it.
LEMMA OpenStep ==
    ASSUME IInv, NEW p \in Batch,
           BeginMarkPaid(p) \/ BeginReverse(p) \/ Rollback(p)
    PROVE  IInv'
<1> USE DEF IInv
<1>1. UNCHANGED <<bill, batch, claim, refund>>
  BY DEF BeginMarkPaid, BeginReverse, Rollback
<1>2. /\ request' = request \/ request' = [request EXCEPT ![p] = NoRequest]
      /\ \A q \in Batch : q # p => settle'[q] = settle[q]
      /\ settle'[p].to = "PAID" => batch[p].state = "SUBMITTED"
      /\ settle'[p].to = "REVERSED" => batch[p].state = "PAID"
      /\ settle' \in [Batch -> [to: {"NONE", "PAID", "REVERSED"}, paid: SUBSET Batch]]
  <2>1. CASE BeginMarkPaid(p)
    BY <2>1 DEF BeginMarkPaid, TypeOK, InState
  <2>2. CASE BeginReverse(p)
    BY <2>2 DEF BeginReverse, TypeOK, InState
  <2>3. CASE Rollback(p)
    BY <2>3 DEF Rollback, TypeOK, NoSettlement
  <2>4. QED
    BY <2>1, <2>2, <2>3
<1>3. /\ request' \in [Batch -> [by: User \cup {Nobody}, items: [Bill -> Amount],
                                 count: 0..MaxItems]]
      /\ \A q \in Batch : request'[q] = request[q] \/ request'[q] = NoRequest
  <2>1. NoRequest \in [by: User \cup {Nobody}, items: [Bill -> Amount], count: 0..MaxItems]
    BY Bounds DEF NoRequest, NoClaim, Amount, Cap
  <2>2. request \in [Batch -> [by: User \cup {Nobody}, items: [Bill -> Amount],
                             count: 0..MaxItems]]
    BY DEF TypeOK
  <2>3. CASE request' = request
    BY <2>2, <2>3
  <2>4. CASE request' = [request EXCEPT ![p] = NoRequest]
    BY <2>1, <2>2, <2>4
  <2>5. QED
    BY <1>2, <2>3, <2>4
<1>4. TypeOK'
  BY <1>1, <1>2, <1>3 DEF TypeOK
<1>5. \A b \in Bill : NoRequest.items[b] = 0 /\ 0 <= NoRequest.count * MaxAmount
  BY Bounds DEF NoRequest, NoClaim
<1>6. RequestsAreNew'
  <2> SUFFICES ASSUME NEW q \in Batch
               PROVE  /\ request'[q] # NoRequest =>
                             batch'[q].state = "NONE" /\ request'[q].by \in User
                      /\ \A b \in Bill :
                            request'[q].items[b] <= request'[q].count * MaxAmount
    BY DEF RequestsAreNew
  <2>1. CASE request'[q] = request[q]
    BY <1>1, <2>1 DEF RequestsAreNew
  <2>2. CASE request'[q] = NoRequest
    BY <1>5, <2>2
  <2>3. QED
    BY <1>3, <2>1, <2>2
<1>7. SettlementHoldsBatch'
  BY <1>1, <1>2 DEF SettlementHoldsBatch
<1>8. ReversalsMirrorClaims' /\ BatchesApproved'
  BY <1>1 DEF ReversalsMirrorClaims, BatchesApproved, InState
<1>9. PayableWasApproved' /\ ClaimedIsPayable'
  BY <1>1, <1>3, <1>5 DEF PayableWasApproved, ClaimedIsPayable, Unclaimed
<1>10. QED
  BY <1>4, <1>6, <1>7, <1>8, <1>9

\* Ending a settlement, in either service: the batch moves on, a reversal
\* compensates its rows, and only bills it pays change, to a payable state.
LEMMA Settled ==
    ASSUME IInv, NEW p \in Batch, NEW to \in {"PAID", "REVERSED"},
           batch[p].state = IF to = "PAID" THEN "SUBMITTED" ELSE "PAID",
           batch' = [batch EXCEPT ![p].state = to],
           refund' = IF to = "REVERSED" THEN Compensated(p) ELSE refund,
           settle' \in {settle, [settle EXCEPT ![p] = NoSettlement]},
           settle'[p].to = "NONE",
           UNCHANGED <<claim, request>>,
           DOMAIN bill' = Bill, bill' = [b \in Bill |-> bill'[b]],
           \A b \in Bill :
              \/ bill'[b] = bill[b]
              \/ /\ b \in Payers(p)
                 /\ \E s \in PayableState : bill'[b] = [bill[b] EXCEPT !.state = s]
    PROVE  IInv'
<1> USE DEF IInv
<1>1. bill \in [Bill -> BillRow] /\ refund \in [Batch -> [Bill -> Amount]]
      /\ claim \in [Batch -> [Bill -> Amount]]
  BY DEF TypeOK, BillRow
<1>2. \A b \in Bill : /\ bill'[b] \in BillRow
                      /\ bill'[b].approver = bill[b].approver
                      /\ bill'[b].maker = bill[b].maker
                      /\ \/ bill'[b] = bill[b]
                         \/ b \in Payers(p) /\ bill'[b].state \in PayableState
  <2> SUFFICES ASSUME NEW b \in Bill, NEW s \in PayableState,
                      b \in Payers(p), bill'[b] = [bill[b] EXCEPT !.state = s]
               PROVE  /\ bill'[b] \in BillRow
                      /\ bill'[b].approver = bill[b].approver
                      /\ bill'[b].maker = bill[b].maker
                      /\ bill'[b].state \in PayableState
    BY <1>1
  <2>1. bill[b] \in BillRow
    BY <1>1
  <2>2. QED
    BY <2>1 DEF BillRow, BillState, PayableState
<1>3. \A b \in Bill : refund[p][b] = 0
  BY DEF ReversalsMirrorClaims
<1>4. /\ to = "REVERSED" => refund' = [refund EXCEPT ![p] = claim[p]]
      /\ to = "PAID" => refund' = refund
  <2>1. ASSUME NEW b \in Bill PROVE refund[p][b] + claim[p][b] = claim[p][b]
    <3>1. claim[p][b] \in Nat
      BY <1>1, Bounds DEF Amount, Cap
    <3>2. QED
      BY <1>3, <3>1
  <2>2. [b \in Bill |-> refund[p][b] + claim[p][b]] = claim[p]
    BY <1>1, <2>1
  <2>3. QED
    BY <2>2 DEF Compensated
<1>5. TypeOK'
  <2>1. bill' \in [Bill -> BillRow]
    BY <1>2
  <2>2. refund' \in [Batch -> [Bill -> Amount]]
    <3>1. claim[p] \in [Bill -> Amount]
      BY <1>1
    <3>2. QED
      BY <1>1, <1>4, <3>1
  <2>3. batch' \in [Batch -> [state: BatchState, maker: User \cup {Nobody},
                              checker: User \cup {Nobody}]]
    <3>1. to \in BatchState
      BY DEF BatchState
    <3>2. batch \in [Batch -> [state: BatchState, maker: User \cup {Nobody},
                              checker: User \cup {Nobody}]]
      BY DEF TypeOK
    <3>3. QED
      BY <3>1, <3>2
  <2>4. settle' \in [Batch -> [to: {"NONE", "PAID", "REVERSED"}, paid: SUBSET Batch]]
    <3>1. settle \in [Batch -> [to: {"NONE", "PAID", "REVERSED"}, paid: SUBSET Batch]]
      BY DEF TypeOK
    <3>2. NoSettlement \in [to: {"NONE", "PAID", "REVERSED"}, paid: SUBSET Batch]
      BY DEF NoSettlement
    <3>3. QED
      BY <3>1, <3>2
  <2>5. QED
    BY <2>1, <2>2, <2>3, <2>4 DEF TypeOK, BillRow
<1>6. /\ \A q \in Batch \ {p} : batch'[q] = batch[q] /\ settle'[q] = settle[q]
      /\ batch'[p].state = to /\ batch[p].state \in {"SUBMITTED", "PAID"}
      /\ batch'[p].maker = batch[p].maker /\ batch'[p].checker = batch[p].checker
      /\ settle'[p].to = "NONE"
  BY DEF TypeOK, NoSettlement
<1>7. RequestsAreNew'
  BY <1>6 DEF RequestsAreNew
<1>8. SettlementHoldsBatch'
  BY <1>6 DEF SettlementHoldsBatch
<1>9. ReversalsMirrorClaims'
  <2> SUFFICES ASSUME NEW q \in Batch, NEW b \in Bill
               PROVE  refund'[q][b] = IF batch'[q].state = "REVERSED"
                                      THEN claim[q][b] ELSE 0
    BY DEF ReversalsMirrorClaims
  <2>1. CASE q = p
    <3>1. CASE to = "REVERSED"
      BY <1>1, <1>4, <1>6, <2>1, <3>1
    <3>2. CASE to = "PAID"
      BY <1>3, <1>4, <1>6, <2>1, <3>2
    <3>3. QED
      BY <3>1, <3>2
  <2>2. CASE q # p
    <3>1. refund'[q] = refund[q]
      BY <1>1, <1>4, <2>2
    <3>2. QED
      BY <1>6, <2>2, <3>1 DEF ReversalsMirrorClaims
  <2>3. QED
    BY <2>1, <2>2
<1>10. \A b \in Payers(p) : claim[p][b] # 0
  BY <1>1, Bounds DEF Payers, Amount, Cap
<1>11. PayableWasApproved'
  <2>1. \A b \in Payers(p) : bill[b].state \in PayableState
    BY <1>10 DEF ClaimedIsPayable, Unclaimed, Payers
  <2>2. QED
    BY <1>2, <2>1 DEF PayableWasApproved
<1>12. ClaimedIsPayable'
  BY <1>2 DEF ClaimedIsPayable, Unclaimed
<1>13. BatchesApproved'
  BY <1>6 DEF BatchesApproved, InState
<1>14. QED
  BY <1>5, <1>7, <1>8, <1>9, <1>11, <1>12, <1>13

\* The handlers that end a settlement are instances of Settled.
LEMMA SettleStep ==
    ASSUME IInv, NEW p \in Batch,
           \/ FinishSettlement(p) \/ CanonicalMarkPaid(p) \/ CanonicalReverse(p)
    PROVE  IInv'
<1>1. CASE FinishSettlement(p)
  <2> USE <1>1 DEF FinishSettlement
  <2>1. \A b \in Bill : RecomputedState(b, settle[p].paid) \in PayableState
    BY DEF RecomputedState, PayableState
  <2>2. PICK to \in {"PAID", "REVERSED"} : to = settle[p].to
    BY DEF IInv, TypeOK
  <2>3. batch[p].state = IF to = "PAID" THEN "SUBMITTED" ELSE "PAID"
    BY <2>2 DEF IInv, SettlementHoldsBatch
  <2>4. settle'[p].to = "NONE"
    BY DEF IInv, TypeOK, NoSettlement
  <2>5. QED
    BY <2>1, <2>2, <2>3, <2>4, Settled
<1>2. CASE CanonicalMarkPaid(p) \/ CanonicalReverse(p)
  <2>1. settle'[p].to = "NONE" /\ settle' = settle
    BY <1>2 DEF CanonicalMarkPaid, CanonicalReverse, Unlocked
  <2>2. CASE CanonicalMarkPaid(p)
    BY <2>1, <2>2, Settled DEF CanonicalMarkPaid, PayableState
  <2>3. CASE CanonicalReverse(p)
    BY <2>1, <2>3, Settled DEF CanonicalReverse, IInv, TypeOK
  <2>4. QED
    BY <1>2, <2>2, <2>3
<1>3. QED
  BY <1>1, <1>2

\* A stuttering step changes nothing the invariant speaks of.
LEMMA StutterInvariant == IInv /\ UNCHANGED vars => IInv'
<1> SUFFICES ASSUME IInv, UNCHANGED vars PROVE IInv'
  OBVIOUS
<1> USE DEF IInv, vars
<1>1. TypeOK' /\ RequestsAreNew'
  BY DEF TypeOK, RequestsAreNew
<1>2. SettlementHoldsBatch' /\ ReversalsMirrorClaims'
  BY DEF SettlementHoldsBatch, ReversalsMirrorClaims
<1>3. PayableWasApproved' /\ ClaimedIsPayable' /\ BatchesApproved'
  BY DEF PayableWasApproved, ClaimedIsPayable, Unclaimed, BatchesApproved, InState
<1>4. QED
  BY <1>1, <1>2, <1>3

\* Every step of either service, by user, by worker or by rollback, keeps the
\* invariant.
LEMMA NextInvariant == IInv /\ [Next]_vars => IInv'
<1> SUFFICES ASSUME IInv, [Next]_vars PROVE IInv'
  OBVIOUS
<1>1. CASE UNCHANGED vars
  BY <1>1, StutterInvariant
<1>2. ASSUME SharedNext PROVE IInv'
  BY <1>2, BatchStep, OpenStep DEF SharedNext
<1>3. CASE WorkbenchNext
  <2>1. ASSUME NEW u \in User, NEW b \in Bill,
               \/ \E amount \in Payable : CreateVendorBill(u, b, amount)
               \/ VerifyBill(u, b)
               \/ ApproveBill(u, b)
        PROVE  IInv'
    BY <2>1, BillStep
  <2>2. ASSUME NEW u \in User, NEW b \in Bill, NEW p \in Batch, NEW amount \in 1..MaxAmount,
               CreatePayment(u, b, p, amount)
        PROVE  IInv'
    BY <2>2, PaymentStep
  <2>3. ASSUME NEW b \in Bill, SubmitBill(b) \/ DisputeBill(b)
        PROVE  IInv'
    BY <2>3, BillStep
  <2>4. ASSUME NEW u \in User, NEW p \in Batch, ApproveBatch(u, p)
        PROVE  IInv'
    BY <2>4, BatchStep
  <2>5. ASSUME NEW p \in Batch, BeginMarkPaid(p) \/ BeginReverse(p) \/ FinishSettlement(p)
        PROVE  IInv'
    BY <2>5, OpenStep, SettleStep
  <2>6. QED
    BY <1>2, <1>3, <2>1, <2>2, <2>3, <2>4, <2>5 DEF WorkbenchNext
<1>4. CASE CanonicalNext
  <2>1. ASSUME NEW u \in User, NEW b \in Bill,
               \/ \E amount \in Payable : CanonicalCreateVendorBill(u, b, amount)
               \/ CanonicalVerifyBill(u, b)
               \/ CanonicalApproveBill(u, b)
        PROVE  IInv'
    BY <2>1, BillStep
  <2>2. ASSUME NEW u \in User, NEW b \in Bill, NEW p \in Batch, NEW amount \in 1..MaxAmount,
               ReadRequestItem(u, p, b, amount)
        PROVE  IInv'
    BY <2>2, ReadStep
  <2>3. ASSUME NEW u \in User, NEW p \in Batch, CanonicalApproveBatch(u, p)
        PROVE  IInv'
    BY <2>3, BatchStep
  <2>4. ASSUME NEW p \in Batch,
               InsertRequestedBatch(p) \/ CanonicalMarkPaid(p) \/ CanonicalReverse(p)
        PROVE  IInv'
    BY <2>4, InsertStep, SettleStep
  <2>5. QED
    BY <1>2, <1>4, <2>1, <2>2, <2>3, <2>4 DEF CanonicalNext
<1>5. QED
  BY <1>1, <1>3, <1>4 DEF Next

\* IInv is an invariant of the specification.
LEMMA Invariance == Spec => []IInv
BY InitInvariant, NextInvariant, PTL DEF Spec

\* Every row keeps its type: in particular no amount of the ledger, and no
\* compensation, ever exceeds what one request can put into it.
THEOREM TypeCorrect == Spec => []TypeOK
<1>1. IInv => TypeOK
  BY DEF IInv
<1>2. QED
  BY <1>1, Invariance, PTL

\* A batch row stays as its open settlement found it, so that MARK_PAID and
\* REVERSE neither overlap nor repeat.
THEOREM SettlementsAreExclusive == Spec => []SettlementHoldsBatch
<1>1. IInv => SettlementHoldsBatch
  BY DEF IInv
<1>2. QED
  BY <1>1, Invariance, PTL

\* The ledger holds one compensating row for each row of a REVERSED batch and
\* none for any other, in whatever way the two services interleave.
THEOREM CompensatedOnce == Spec => []ReversalsMirrorClaims
<1>1. IInv => ReversalsMirrorClaims
  BY DEF IInv
<1>2. QED
  BY <1>1, Invariance, PTL

\* What a batch pays is payable.
LEMMA PayersArePayable ==
    ASSUME IInv, NEW p \in Batch, NEW b \in Payers(p)
    PROVE  bill[b].state \in PayableState
<1>1. claim[p][b] # 0
  BY Bounds DEF IInv, TypeOK, Payers, Amount, Cap
<1>2. QED
  BY <1>1 DEF IInv, ClaimedIsPayable, Unclaimed, Payers

\* A bill that any batch pays is payable, whichever service created the batch
\* and whichever settles it, although MARK_PAID and REVERSE overwrite its state
\* with one they computed from an older snapshot.
THEOREM ClaimedStayPayable == Spec => []ClaimedBillsPayable
<1>1. IInv => ClaimedBillsPayable
  BY PayersArePayable DEF ClaimedBillsPayable, PayableState
<1>2. QED
  BY <1>1, Invariance, PTL

\* A batch handed to the bank, and every bill it pays, was approved by someone
\* other than its maker, whichever service took each step.
THEOREM MoneyIsApproved == Spec => []MoneyMovedIsApproved
<1>1. ASSUME IInv PROVE MoneyMovedIsApproved
  <2>1. ASSUME NEW p \in InState({"SUBMITTED", "PAID", "FAILED", "REVERSED"})
        PROVE  batch[p].checker \in User \ {batch[p].maker}
    BY <1>1, <2>1 DEF IInv, BatchesApproved, InState
  <2>2. ASSUME NEW p \in Batch, NEW b \in Payers(p)
        PROVE  bill[b].approver \in User \ {bill[b].maker}
    <3>1. bill[b].state \in PayableState
      BY <1>1, <2>2, PayersArePayable
    <3>2. QED
      BY <1>1, <2>2, <3>1 DEF IInv, PayableWasApproved, Payers
  <2>3. QED
    BY <2>1, <2>2 DEF MoneyMovedIsApproved, InState
<1>2. QED
  BY <1>1, Invariance, PTL

-----------------------------------------------------------------------------
(* Sums of the ledger                                                      *)

Ledger == [Batch -> [Bill -> Amount]]

\* The units of finitely many batches are finitely many, so that their number
\* is a natural number.
LEMMA UnitsFinite ==
    ASSUME NEW ledger \in Ledger, NEW b \in Bill, NEW P \in SUBSET Batch
    PROVE  IsFiniteSet(Units(ledger, b, P)) /\ Total(ledger, b, P) \in Nat
<1>1. IsFiniteSet(P) /\ IsFiniteSet(1..Cap)
  BY PayablesAssumption, Bounds, FS_Subset, FS_Interval
<1>2. IsFiniteSet(P \X (1..Cap))
  BY <1>1, FS_Product
<1>3. Units(ledger, b, P) \subseteq P \X (1..Cap)
  BY DEF Units, Cap
<1>4. IsFiniteSet(Units(ledger, b, P))
  BY <1>2, <1>3, FS_Subset
<1>5. QED
  BY <1>4, FS_CardinalityType DEF Total

\* One more batch adds exactly what it holds against the bill.
LEMMA TotalAdds ==
    ASSUME NEW ledger \in Ledger, NEW b \in Bill, NEW P \in SUBSET Batch,
           NEW p \in Batch, p \notin P
    PROVE  Total(ledger, b, P \cup {p}) = Total(ledger, b, P) + ledger[p][b]
<1> DEFINE n == ledger[p][b]
           New == {p} \X (1..n)
<1>1. n \in Nat /\ n <= Cap
  BY Bounds DEF Ledger, Amount, Cap
<1> HIDE DEF n
<1>2. IsFiniteSet(New) /\ Cardinality(New) = n
  <2>1. IsFiniteSet({p}) /\ Cardinality({p}) = 1
    BY FS_Singleton
  <2>2. IsFiniteSet(1..n) /\ Cardinality(1..n) = IF 1 > n THEN 0 ELSE n - 1 + 1
    BY <1>1, FS_Interval
  <2>3. IsFiniteSet(New) /\ Cardinality(New) = Cardinality({p}) * Cardinality(1..n)
    BY <2>1, <2>2, FS_Product
  <2>4. QED
    BY <1>1, <2>1, <2>2, <2>3
<1>3. Units(ledger, b, P \cup {p}) = Units(ledger, b, P) \cup New
  <2>1. ASSUME NEW u \in Units(ledger, b, P \cup {p})
        PROVE  u \in Units(ledger, b, P) \cup New
    BY <1>1, Bounds DEF Units, n
  <2>2. Units(ledger, b, P) \subseteq Units(ledger, b, P \cup {p})
    BY DEF Units
  <2>3. ASSUME NEW u \in New PROVE u \in Units(ledger, b, P \cup {p})
    <3>1. PICK k \in 1..n : u = <<p, k>>
      OBVIOUS
    <3>2. k \in 1..Cap /\ k <= ledger[p][b]
      BY <1>1, <3>1, Bounds DEF n
    <3>3. QED
      BY <3>1, <3>2 DEF Units, Cap
  <2>4. QED
    BY <2>1, <2>2, <2>3
<1> HIDE DEF New
<1>4. Units(ledger, b, P) \cap New = {}
  BY DEF Units, New
<1>5. Cardinality(Units(ledger, b, P) \cap New) = 0
  BY <1>4, FS_EmptySet
<1>6. IsFiniteSet(Units(ledger, b, P)) /\ Cardinality(Units(ledger, b, P)) \in Nat
  BY UnitsFinite DEF Total
<1>7. Cardinality(Units(ledger, b, P) \cup New) =
        Cardinality(Units(ledger, b, P)) + Cardinality(New)
        - Cardinality(Units(ledger, b, P) \cap New)
  BY <1>2, <1>6, FS_Union
<1>8. Cardinality(Units(ledger, b, P) \cup New) = Cardinality(Units(ledger, b, P)) + n
  BY <1>1, <1>2, <1>5, <1>6, <1>7
<1>9. Cardinality(Units(ledger, b, P \cup {p})) = Cardinality(Units(ledger, b, P)) + n
  BY <1>3, <1>8
<1>10. QED
  BY <1>9 DEF Total, n

\* Fewer batches hold no more.
LEMMA TotalMonotone ==
    ASSUME NEW ledger \in Ledger, NEW b \in Bill,
           NEW Q \in SUBSET Batch, NEW P \in SUBSET Q
    PROVE  Total(ledger, b, P) <= Total(ledger, b, Q)
<1>1. Units(ledger, b, P) \subseteq Units(ledger, b, Q)
  BY DEF Units
<1>2. QED
  BY <1>1, UnitsFinite, FS_Subset DEF Total

\* Batches that hold nothing against the bill add up to nothing.
LEMMA TotalZero ==
    ASSUME NEW ledger \in Ledger, NEW b \in Bill, NEW P \in SUBSET Batch,
           \A p \in P : ledger[p][b] = 0
    PROVE  Total(ledger, b, P) = 0
<1>1. Units(ledger, b, P) = {}
  BY DEF Units
<1>2. QED
  BY <1>1, FS_EmptySet DEF Total

-----------------------------------------------------------------------------
(* No bill is overpaid through the workbench                               *)

\* What the workbench adds to the invariant.  BillStep and its companions
\* cover its steps too, because WorkbenchNext is a disjunct of Next.
WInv == IInv /\ NoOverpayment

\* A step that leaves the ledger and what bills owe alone keeps NoOverpayment
\* unless it brings a batch back to life.
LEMMA NothingReserved ==
    ASSUME WInv, IInv', claim' = claim, Live' \subseteq Live,
           \A b \in Bill : bill'[b].payable = bill[b].payable
    PROVE  NoOverpayment'
<1> SUFFICES ASSUME NEW b \in Bill
             PROVE  Total(claim, b, Live') <= bill[b].payable
  BY DEF NoOverpayment, Total, Units
<1>1. claim \in Ledger /\ bill[b].payable \in Nat
  BY PayablesAssumption DEF WInv, IInv, TypeOK, Ledger
<1>2. Live \in SUBSET Batch /\ Live' \in SUBSET Live
  BY DEF Live, InState
<1>3. Total(claim, b, Live') <= Total(claim, b, Live)
  BY <1>1, <1>2, TotalMonotone
<1>4. Total(claim, b, Live) \in Nat /\ Total(claim, b, Live') \in Nat
  BY <1>1, <1>2, UnitsFinite
<1>5. QED
  BY <1>1, <1>3, <1>4 DEF WInv, NoOverpayment

\* A new bill owes a natural number, and nothing is claimed against it.
LEMMA NewBillOwes ==
    ASSUME WInv, NEW u \in User, NEW b \in Bill, NEW amount \in Payable,
           CreateVendorBill(u, b, amount)
    PROVE  NoOverpayment'
<1> USE DEF WInv
<1>1. /\ claim' = claim /\ Live' = Live /\ bill[b].state = "NONE"
      /\ \A c \in Bill \ {b} : bill'[c].payable = bill[c].payable
      /\ bill'[b].payable = amount
  BY DEF CreateVendorBill, NewBill, Live, InState, IInv, TypeOK
<1>2. claim \in Ledger /\ Live \in SUBSET Batch /\ amount \in Nat
  BY PayablesAssumption DEF IInv, TypeOK, Ledger, Live, InState
<1>3. Total(claim, b, Live) = 0
  <2>1. \A p \in Live : claim[p][b] = 0
    BY <1>1, <1>2 DEF IInv, ClaimedIsPayable, Unclaimed, PayableState
  <2>2. QED
    BY <1>2, <2>1, TotalZero
<1> SUFFICES ASSUME NEW c \in Bill
             PROVE  Total(claim, c, Live) <= bill'[c].payable
  BY <1>1 DEF NoOverpayment, Total, Units
<1>4. QED
  BY <1>1, <1>2, <1>3 DEF NoOverpayment

\* PAY reserves at most what is outstanding.
LEMMA PaymentFits ==
    ASSUME WInv, NEW u \in User, NEW b \in Bill, NEW p \in Batch,
           NEW amount \in 1..MaxAmount, CreatePayment(u, b, p, amount), IInv'
    PROVE  NoOverpayment'
<1> USE DEF WInv
<1> DEFINE R == Live \ {p}
<1>1. /\ Live' = R \cup {p} /\ Live = R \cup {p} /\ p \notin R
      /\ R \in SUBSET Batch /\ bill' = bill
  BY DEF CreatePayment, Live, InState, IInv, TypeOK, BatchState
<1>2. claim \in Ledger /\ claim' \in Ledger
  BY DEF IInv, TypeOK, Ledger
<1>3. /\ \A q \in R, c \in Bill : claim'[q][c] = claim[q][c]
      /\ \A c \in Bill : claim'[p][c] = IF c = b THEN amount ELSE 0
  BY <1>1, <1>2 DEF CreatePayment, NoClaim, Ledger
<1> HIDE DEF R
<1> SUFFICES ASSUME NEW c \in Bill
             PROVE  Total(claim', c, R \cup {p}) <= bill[c].payable
  BY <1>1 DEF NoOverpayment, Total, Units
<1>4. Total(claim', c, R \cup {p}) = Total(claim, c, R) + claim'[p][c]
  <2>1. Units(claim', c, R) = Units(claim, c, R)
    BY <1>3 DEF Units
  <2>2. QED
    BY <1>1, <1>2, <2>1, TotalAdds DEF Total
<1>5. Total(claim, c, R) <= Total(claim, c, Live)
  BY <1>1, <1>2, TotalMonotone
<1>6. /\ Total(claim, c, R) \in Nat /\ Total(claim, c, Live) \in Nat
      /\ bill[c].payable \in Nat /\ amount \in Nat
  BY <1>1, <1>2, UnitsFinite, Bounds DEF IInv, TypeOK, Live, InState
<1>7. CASE c = b
  <2>1. amount <= bill[b].payable - Total(claim, b, Live)
    BY DEF CreatePayment, Outstanding
  <2>2. QED
    BY <1>3, <1>4, <1>5, <1>6, <1>7, <2>1
<1>8. CASE c # b
  <2>1. Total(claim, c, Live) <= bill[c].payable
    BY DEF NoOverpayment
  <2>2. QED
    BY <1>3, <1>4, <1>5, <1>6, <1>8, <2>1
<1>9. QED
  BY <1>7, <1>8

\* The remaining steps of the workbench reserve nothing: they move batches
\* forward, and a batch that has left Live never comes back.
LEMMA OthersReserveNothing ==
    ASSUME WInv, IInv',
           \/ \E b \in Bill : SubmitBill(b) \/ DisputeBill(b)
           \/ \E u \in User, b \in Bill : VerifyBill(u, b) \/ ApproveBill(u, b)
           \/ \E u \in User, p \in Batch : ApproveBatch(u, p)
           \/ \E p \in Batch : BeginMarkPaid(p) \/ BeginReverse(p) \/ FinishSettlement(p)
           \/ SharedNext
    PROVE  NoOverpayment'
<1> USE DEF WInv
<1>1. ASSUME NEW p \in Batch, NEW q \in Batch, NEW to, batch'[q] # batch[q],
             batch' = [batch EXCEPT ![p].state = to],
             batch[p].state \notin {"FAILED", "REVERSED"}
      PROVE  q \in Live
  BY <1>1 DEF Live, InState, IInv, TypeOK
<1>2. \A b \in Bill : bill'[b].payable = bill[b].payable
  <2> bill \in [Bill -> BillRow]
    BY DEF IInv, TypeOK, BillRow
  <2>1. CASE \E b \in Bill : SubmitBill(b) \/ DisputeBill(b)
    <3>1. PICK b \in Bill, s \in BillState : bill' = [bill EXCEPT ![b] = [bill[b] EXCEPT !.state = s]]
      BY <2>1 DEF SubmitBill, DisputeBill, MoveBill, BillState
    <3>2. [bill[b] EXCEPT !.state = s].payable = bill[b].payable
      BY DEF BillRow
    <3>3. QED
      BY <3>1, <3>2
  <2>2. CASE \E u \in User, b \in Bill : VerifyBill(u, b) \/ ApproveBill(u, b)
    <3>1. PICK u \in User, b \in Bill :
             bill' \in {[bill EXCEPT ![b] = [bill[b] EXCEPT !.state = "PENDING_FINANCE_APPROVAL",
                                                           !.verifier = u]],
                       [bill EXCEPT ![b] = [bill[b] EXCEPT !.state = "APPROVED",
                                                           !.approver = u]]}
      BY <2>2 DEF VerifyBill, ApproveBill, MoveBill
    <3>2. /\ [bill[b] EXCEPT !.state = "PENDING_FINANCE_APPROVAL", !.verifier = u].payable
               = bill[b].payable
          /\ [bill[b] EXCEPT !.state = "APPROVED", !.approver = u].payable = bill[b].payable
      BY DEF BillRow
    <3>3. QED
      BY <3>1, <3>2
  <2>3. CASE \E p \in Batch : FinishSettlement(p)
    BY <2>3 DEF FinishSettlement, IInv, TypeOK
  <2>4. CASE \/ \E u \in User, p \in Batch : ApproveBatch(u, p)
             \/ \E p \in Batch : BeginMarkPaid(p) \/ BeginReverse(p)
             \/ SharedNext
    BY <2>4 DEF ApproveBatch, ApproveFrom, BeginMarkPaid, BeginReverse, SharedNext,
                SubmitBatch, FailBatch, MoveBatch, Rollback
  <2>5. QED
    BY <2>1, <2>2, <2>3, <2>4
<1>3. claim' = claim
  BY DEF SubmitBill, DisputeBill, VerifyBill, ApproveBill, MoveBill, ApproveBatch, ApproveFrom,
         BeginMarkPaid, BeginReverse, FinishSettlement, SharedNext, SubmitBatch, FailBatch,
         MoveBatch, Rollback
<1>4. Live' \subseteq Live
  <2> SUFFICES ASSUME NEW q \in Batch, q \in Live', q \notin Live PROVE FALSE
    BY DEF Live, InState
  <2>1. batch'[q] # batch[q]
    BY DEF Live, InState
  <2>2. CASE \E p \in Batch : FinishSettlement(p)
    <3>1. PICK p \in Batch : FinishSettlement(p)
      BY <2>2
    <3>2. batch[p].state \in {"SUBMITTED", "PAID"}
      BY <3>1 DEF FinishSettlement, IInv, SettlementHoldsBatch, TypeOK
    <3>3. QED
      BY <1>1, <2>1, <3>1, <3>2 DEF FinishSettlement
  <2>3. CASE \/ \E u \in User, p \in Batch : ApproveBatch(u, p)
             \/ \E p \in Batch : SubmitBatch(p) \/ FailBatch(p)
    <3>1. PICK p \in Batch : /\ batch[p].state \in {"PENDING_APPROVAL", "APPROVED", "SUBMITTED"}
                             /\ \A r \in Batch \ {p} : batch'[r] = batch[r]
      BY <2>3 DEF ApproveBatch, ApproveFrom, SubmitBatch, FailBatch, MoveBatch, IInv, TypeOK
    <3>2. q = p
      BY <2>1, <3>1
    <3>3. QED
      BY <3>1, <3>2 DEF Live, InState, BatchState
  <2>4. QED
    BY <2>1, <2>2, <2>3 DEF SubmitBill, DisputeBill, VerifyBill, ApproveBill, MoveBill,
         BeginMarkPaid, BeginReverse, SharedNext, Rollback
<1>5. QED
  BY <1>2, <1>3, <1>4, NothingReserved

\* WInv holds at the start and is kept by every step of the workbench.
LEMMA WorkbenchInit == Init => WInv
<1> SUFFICES ASSUME Init PROVE NoOverpayment
  BY InitInvariant DEF WInv
<1>1. claim \in Ledger /\ Live \in SUBSET Batch
  BY InitInvariant DEF IInv, TypeOK, Ledger, Live, InState
<1>2. ASSUME NEW b \in Bill PROVE Total(claim, b, Live) = 0 /\ bill[b].payable = 0
  <2>1. \A p \in Live : claim[p][b] = 0
    BY <1>1 DEF Init, NoClaim
  <2>2. QED
    BY <1>1, <2>1, TotalZero DEF Init
<1>3. QED
  BY <1>2 DEF NoOverpayment

LEMMA WorkbenchStep == WInv /\ [WorkbenchNext]_vars => WInv'
<1> SUFFICES ASSUME WInv, [WorkbenchNext]_vars PROVE WInv'
  OBVIOUS
<1>1. IInv'
  BY NextInvariant DEF WInv, Next
<1>2. CASE UNCHANGED vars
  BY <1>1, <1>2 DEF WInv, vars, NoOverpayment, Total, Units, Live, InState
<1>3. ASSUME NEW u \in User, NEW b \in Bill, NEW amount \in Payable,
             CreateVendorBill(u, b, amount)
      PROVE  WInv'
  BY <1>1, <1>3, NewBillOwes DEF WInv
<1>4. ASSUME NEW u \in User, NEW b \in Bill, NEW p \in Batch, NEW amount \in 1..MaxAmount,
             CreatePayment(u, b, p, amount)
      PROVE  WInv'
  BY <1>1, <1>4, PaymentFits DEF WInv
<1>5. CASE WorkbenchNext
  BY <1>1, <1>3, <1>4, <1>5, OthersReserveNothing DEF WorkbenchNext, WInv
<1>6. QED
  BY <1>2, <1>5

LEMMA WorkbenchInvariance == WorkbenchSpec => []WInv
BY WorkbenchInit, WorkbenchStep, PTL DEF WorkbenchSpec

\* The money reserved or paid against a bill by batches that have neither
\* failed nor been reversed never exceeds what the bill owes, as long as
\* payments are made through the workbench.
THEOREM NeverOverpaid == WorkbenchSpec => []NoOverpayment
<1>1. WInv => NoOverpayment
  BY DEF WInv
<1>2. QED
  BY <1>1, WorkbenchInvariance, PTL

-----------------------------------------------------------------------------
(* The workbench keeps an account per bill                                 *)

\* A batch of the workbench pays one bill, and a bill without a row owes
\* nothing.
OneBillEach ==
    \A p \in Batch :
        IF batch[p].state = "NONE" THEN claim[p] = NoClaim
        ELSE \E b \in Bill, n \in 1..MaxAmount : claim[p] = [NoClaim EXCEPT ![b] = n]

NoRowOwesNothing == \A b \in Bill : bill[b].state = "NONE" => bill[b].payable = 0

AInv == WInv /\ OneBillEach /\ NoRowOwesNothing

Reserving == Live \ InState({"PAID"})
Paying == InState({"PAID"})

\* What the batches P hold against each bill.
Held(ledger, P) == [b \in Bill |-> Total(ledger, b, P)]

\* One more batch that claims n of one bill.
LEMMA HeldAdds ==
    ASSUME NEW ledger \in Ledger, NEW P \in SUBSET Batch, NEW p \in Batch, p \notin P,
           NEW b \in Bill, NEW n \in 1..MaxAmount, ledger[p] = [NoClaim EXCEPT ![b] = n]
    PROVE  /\ Held(ledger, P \cup {p}) = [Held(ledger, P) EXCEPT ![b] = @ + n]
           /\ Held(ledger, P) = [Held(ledger, P \cup {p}) EXCEPT ![b] = @ - n]
           /\ n <= Held(ledger, P \cup {p})[b]
<1>1. \A c \in Bill : ledger[p][c] = IF c = b THEN n ELSE 0
  BY DEF NoClaim
<1>2. \A c \in Bill : /\ Total(ledger, c, P) \in Nat
                      /\ Total(ledger, c, P \cup {p}) = Total(ledger, c, P) + ledger[p][c]
  <2> SUFFICES ASSUME NEW c \in Bill
               PROVE  /\ Total(ledger, c, P) \in Nat
                      /\ Total(ledger, c, P \cup {p}) = Total(ledger, c, P) + ledger[p][c]
    OBVIOUS
  <2>1. Total(ledger, c, P) \in Nat
    BY ZenonT(40), UnitsFinite
  <2>2. Total(ledger, c, P \cup {p}) = Total(ledger, c, P) + ledger[p][c]
    BY ZenonT(40), TotalAdds
  <2> QED
    BY <2>1, <2>2
<1>3. n \in Nat
  BY Bounds
<1> DEFINE f == Held(ledger, P)
           g == Held(ledger, P \cup {p})
<1>4. ASSUME NEW c \in Bill
      PROVE  /\ f[c] \in Nat
             /\ g[c] = IF c = b THEN f[c] + n ELSE f[c]
  <2>1. f[c] = Total(ledger, c, P) /\ g[c] = Total(ledger, c, P \cup {p})
    BY DEF Held
  <2>2. f[c] \in Nat /\ g[c] = f[c] + ledger[p][c]
    BY <1>2, <2>1
  <2>3. QED
    BY <1>1, <1>3, <2>2
<1>5. f = [c \in Bill |-> f[c]] /\ g = [c \in Bill |-> g[c]]
  BY DEF Held
<1> HIDE DEF f, g
<1>6. /\ g = [f EXCEPT ![b] = f[b] + n]
      /\ f = [g EXCEPT ![b] = g[b] - n]
      /\ n <= g[b]
  <2>1. \A c \in Bill : /\ g[c] = [f EXCEPT ![b] = f[b] + n][c]
                        /\ f[c] = [g EXCEPT ![b] = g[b] - n][c]
    BY <1>3, <1>4, <1>5
  <2>2. n <= g[b]
    BY <1>3, <1>4
  <2>3. QED
    BY <1>5, <2>1, <2>2
<1>7. QED
  BY <1>6 DEF f, g

\* Only the rows of the batches P count.
LEMMA HeldLocal ==
    ASSUME NEW P \in SUBSET Batch, NEW l, NEW m,
           \A p \in P : l[p] = m[p]
    PROVE  Held(l, P) = Held(m, P)
<1>1. \A b \in Bill : Units(l, b, P) = Units(m, b, P)
  BY DEF Units
<1>2. QED
  BY <1>1 DEF Held, Total

\* What the mapping of the variables makes of a state.
LEMMA Mapping ==
    /\ Held(claim, Reserving) = [b \in Bill |-> Total(claim, b, Live \ InState({"PAID"}))]
    /\ Held(claim, Paying) = [b \in Bill |-> Total(claim, b, InState({"PAID"}))]
BY DEF Held, Reserving, Paying

\* A step that leaves the ledger, the sets of batches that count and what the
\* bills owe alone is no step of the accounts.
LEMMA NoStep ==
    ASSUME claim' = claim, Live' = Live, Paying' = Paying,
           \A b \in Bill : bill'[b].payable = bill[b].payable
    PROVE  UNCHANGED Account!vars
<1>1. /\ [b \in Bill |-> bill[b].payable]' = [b \in Bill |-> bill[b].payable]
      /\ Held(claim, Reserving)' = Held(claim, Reserving)
      /\ Held(claim, Paying)' = Held(claim, Paying)
  BY DEF Held, Total, Units, Reserving, Paying
<1>2. QED
  BY <1>1, Mapping DEF Account!vars, Held, Reserving, Paying

\* A decision about a bill, or its dispute, through the workbench: no amount
\* changes, and only a bill that nobody pays yet changes its state.
LEMMA BillDecided ==
    ASSUME AInv, NEW b \in Bill,
           \/ SubmitBill(b) \/ DisputeBill(b)
           \/ \E u \in User : VerifyBill(u, b) \/ ApproveBill(u, b)
    PROVE  /\ UNCHANGED <<batch, claim>>
           /\ \A c \in Bill :
                 /\ bill'[c].payable = bill[c].payable
                 /\ \/ bill'[c].state = bill[c].state
                    \/ /\ bill[c].state \in EarlyState \ {"NONE"}
                       /\ bill'[c].state # "NONE"
<1>1. bill \in [Bill -> BillRow]
  BY DEF AInv, WInv, IInv, TypeOK, BillRow
<1>2. ASSUME NEW new, MoveBill(b, EarlyState \ {"NONE"}, new),
             new.payable = bill[b].payable, new.state # "NONE"
      PROVE  /\ UNCHANGED <<batch, claim>>
             /\ \A c \in Bill :
                   /\ bill'[c].payable = bill[c].payable
                   /\ \/ bill'[c].state = bill[c].state
                      \/ /\ bill[c].state \in EarlyState \ {"NONE"}
                         /\ bill'[c].state # "NONE"
  BY <1>1, <1>2 DEF MoveBill
<1>3. ASSUME NEW state \in BillState \ {"NONE"}
      PROVE  LET new == [bill[b] EXCEPT !.state = state]
             IN  new.payable = bill[b].payable /\ new.state # "NONE"
  BY <1>1 DEF BillRow
<1>4. ASSUME NEW u \in User
      PROVE  LET v == [bill[b] EXCEPT !.state = "PENDING_FINANCE_APPROVAL", !.verifier = u]
                 a == [bill[b] EXCEPT !.state = "APPROVED", !.approver = u]
             IN  /\ v.payable = bill[b].payable /\ v.state # "NONE"
                 /\ a.payable = bill[b].payable /\ a.state # "NONE"
  BY <1>1 DEF BillRow
<1>5. ASSUME NEW from, from \subseteq EarlyState \ {"NONE"}, NEW new, MoveBill(b, from, new)
      PROVE  MoveBill(b, EarlyState \ {"NONE"}, new)
  BY <1>5 DEF MoveBill
<1>6. CASE SubmitBill(b) \/ DisputeBill(b)
  <2>1. {"DRAFT", "VALIDATION_EXCEPTION"} \subseteq EarlyState \ {"NONE"}
        /\ {"VALIDATION_EXCEPTION", "PENDING_OPERATIONAL_VERIFICATION",
            "PENDING_FINANCE_APPROVAL"} \subseteq EarlyState \ {"NONE"}
    BY DEF EarlyState
  <2>2. {"PENDING_OPERATIONAL_VERIFICATION", "DISPUTED"} \subseteq BillState \ {"NONE"}
    BY DEF BillState
  <2>3. QED
    BY <1>2, <1>3, <1>5, <1>6, <2>1, <2>2 DEF SubmitBill, DisputeBill
<1>7. ASSUME NEW u \in User, VerifyBill(u, b) \/ ApproveBill(u, b)
      PROVE  /\ UNCHANGED <<batch, claim>>
             /\ \A c \in Bill :
                   /\ bill'[c].payable = bill[c].payable
                   /\ \/ bill'[c].state = bill[c].state
                      \/ /\ bill[c].state \in EarlyState \ {"NONE"}
                         /\ bill'[c].state # "NONE"
  <2>2. CASE VerifyBill(u, b)
    <3> DEFINE new == [bill[b] EXCEPT !.state = "PENDING_FINANCE_APPROVAL", !.verifier = u]
    <3>1. MoveBill(b, {"PENDING_OPERATIONAL_VERIFICATION"}, new)
      BY <2>2, Zenon DEF VerifyBill, MoveBill
    <3>2. new.payable = bill[b].payable /\ new.state # "NONE"
      BY <1>4
    <3> HIDE DEF new
    <3>3. MoveBill(b, EarlyState \ {"NONE"}, new)
      BY <3>1 DEF MoveBill, EarlyState
    <3>4. QED
      BY <1>2, <3>2, <3>3
  <2>3. CASE ApproveBill(u, b)
    <3> DEFINE new == [bill[b] EXCEPT !.state = "APPROVED", !.approver = u]
    <3>1. MoveBill(b, {"PENDING_FINANCE_APPROVAL"}, new)
      BY <2>3, Zenon DEF ApproveBill, MoveBill
    <3>2. new.payable = bill[b].payable /\ new.state # "NONE"
      BY <1>4
    <3> HIDE DEF new
    <3>3. MoveBill(b, EarlyState \ {"NONE"}, new)
      BY <3>1 DEF MoveBill, EarlyState
    <3>4. QED
      BY <1>2, <3>2, <3>3
  <2>4. QED
    BY <1>7, <2>2, <2>3
<1>8. QED
  BY <1>6, <1>7

\* What a step of the workbench does to a batch that exists.
Forward == {<<"PENDING_APPROVAL", "APPROVED">>, <<"APPROVED", "SUBMITTED">>,
            <<"SUBMITTED", "FAILED">>, <<"SUBMITTED", "PAID">>, <<"PAID", "REVERSED">>}

BatchMoves(p) ==
    /\ <<batch[p].state, batch'[p].state>> \in Forward
    /\ \A q \in Batch \ {p} : batch'[q] = batch[q]
    /\ claim' = claim
    /\ \A b \in Bill : /\ bill'[b].payable = bill[b].payable
                       /\ \/ bill'[b].state = bill[b].state
                          \/ b \in Payers(p) /\ bill'[b].state \in PayableState

LEMMA BatchMoved ==
    ASSUME AInv, NEW p \in Batch,
           \/ \E u \in User : ApproveBatch(u, p)
           \/ SubmitBatch(p) \/ FailBatch(p) \/ FinishSettlement(p)
    PROVE  BatchMoves(p)
<1>1. /\ batch \in [Batch -> [state: BatchState, maker: User \cup {Nobody},
                              checker: User \cup {Nobody}]]
      /\ bill \in [Bill -> BillRow]
      /\ settle[p].to \in {"NONE", "PAID", "REVERSED"}
      /\ settle[p].to = "PAID" => batch[p].state = "SUBMITTED"
      /\ settle[p].to = "REVERSED" => batch[p].state = "PAID"
  BY DEF AInv, WInv, IInv, TypeOK, BillRow, SettlementHoldsBatch
<1>2. CASE \/ \E u \in User : ApproveBatch(u, p)
           \/ SubmitBatch(p) \/ FailBatch(p)
  BY <1>1, <1>2 DEF ApproveBatch, ApproveFrom, SubmitBatch, FailBatch, MoveBatch, BatchMoves,
                    Forward
<1>3. CASE FinishSettlement(p)
  <2>1. \A b \in Bill : RecomputedState(b, settle[p].paid) \in PayableState
    BY DEF RecomputedState, PayableState
  <2>2. \A b \in Bill : /\ bill'[b].payable = bill[b].payable
                        /\ \/ bill'[b].state = bill[b].state
                           \/ b \in Payers(p) /\ bill'[b].state \in PayableState
    BY <1>1, <1>3, <2>1 DEF FinishSettlement, BillRow
  <2>3. QED
    BY <1>1, <1>3, <2>2 DEF FinishSettlement, BatchMoves, Forward
<1>4. QED
  BY <1>2, <1>3

\* The steps that change neither a batch nor the ledger nor a bill.
LEMMA NothingMoved ==
    ASSUME \E p \in Batch : BeginMarkPaid(p) \/ BeginReverse(p) \/ Rollback(p)
    PROVE  UNCHANGED <<bill, batch, claim>>
BY DEF BeginMarkPaid, BeginReverse, Rollback

-----------------------------------------------------------------------------
(* The accounts' invariant                                                 *)

\* The invariant, without what WorkbenchSpec is known to keep already.
LEMMA AccountsInvariant ==
    ASSUME AInv, WInv', [WorkbenchNext]_vars
    PROVE  AInv'
<1> USE DEF AInv
<1>1. ASSUME NEW u \in User, NEW b \in Bill, NEW amount \in Payable,
             CreateVendorBill(u, b, amount)
      PROVE  AInv'
  <2>1. /\ UNCHANGED <<batch, claim>> /\ bill[b].state = "NONE"
        /\ \A c \in Bill \ {b} : bill'[c] = bill[c]
        /\ bill'[b].state # "NONE"
    BY <1>1 DEF CreateVendorBill, NewBill, WInv, IInv, TypeOK
  <2>2. QED
    BY <2>1 DEF OneBillEach, NoRowOwesNothing
<1>2. ASSUME NEW b \in Bill,
             \/ SubmitBill(b) \/ DisputeBill(b)
             \/ \E u \in User : VerifyBill(u, b) \/ ApproveBill(u, b)
      PROVE  AInv'
  BY <1>2, BillDecided DEF OneBillEach, NoRowOwesNothing
<1>3. ASSUME NEW u \in User, NEW b \in Bill, NEW p \in Batch, NEW amount \in 1..MaxAmount,
             CreatePayment(u, b, p, amount)
      PROVE  AInv'
  <2>1. /\ bill' = bill /\ bill[b].state \in {"APPROVED", "PART_PAID"}
        /\ \A q \in Batch \ {p} : batch'[q] = batch[q] /\ claim'[q] = claim[q]
        /\ batch'[p].state # "NONE" /\ claim'[p] = [NoClaim EXCEPT ![b] = amount]
    BY <1>3 DEF CreatePayment, WInv, IInv, TypeOK
  <2>2. QED
    BY <2>1 DEF OneBillEach, NoRowOwesNothing
<1>4. ASSUME NEW p \in Batch, BatchMoves(p)
      PROVE  AInv'
  <2>1. batch[p].state # "NONE" /\ batch'[p].state # "NONE"
    BY <1>4 DEF BatchMoves, Forward
  <2>2. OneBillEach' /\ NoRowOwesNothing'
    BY <1>4, <2>1 DEF BatchMoves, OneBillEach, NoRowOwesNothing, PayableState
  <2>3. QED
    BY <2>2
<1>5. CASE UNCHANGED <<bill, batch, claim>>
  BY <1>5 DEF OneBillEach, NoRowOwesNothing
<1>6. CASE WorkbenchNext
  BY <1>1, <1>2, <1>3, <1>4, <1>5, <1>6, BatchMoved, NothingMoved DEF WorkbenchNext, SharedNext
<1>7. CASE UNCHANGED vars
  BY <1>5, <1>7 DEF vars
<1>8. QED
  BY <1>6, <1>7

LEMMA Accounts == WorkbenchSpec => []AInv
<1>1. Init => AInv
  <2> SUFFICES ASSUME Init PROVE AInv
    OBVIOUS
  <2>1. WInv
    BY WorkbenchInit
  <2>2. OneBillEach /\ NoRowOwesNothing
    BY DEF Init, NoClaim, OneBillEach, NoRowOwesNothing
  <2>3. QED
    BY <2>1, <2>2 DEF AInv
<1>2. AInv /\ WInv' /\ [WorkbenchNext]_vars => AInv'
  BY AccountsInvariant
<1>3. AInv => WInv
  BY DEF AInv
<1>4. QED
  BY <1>1, <1>2, WorkbenchInvariance, PTL DEF WorkbenchSpec

-----------------------------------------------------------------------------
(* The refinement: each step of the workbench is one of the accounts       *)

Owed == [b \in Bill |-> bill[b].payable]

LEMMA Mapped ==
    /\ Account!vars = <<Owed, Held(claim, Reserving), Held(claim, Paying)>>
    /\ (Account!vars)' = <<Owed', Held(claim', Reserving'), Held(claim', Paying')>>
BY Mapping DEF Account!vars, Owed, Held, Reserving, Paying

\* A batch that is paid or reserving counts in one of the two sums, and a
\* step forward moves it from one sum to the other, or out of both.
LEMMA ForwardStep ==
    ASSUME AInv, NEW p \in Batch, BatchMoves(p)
    PROVE  [Account!Next]_(Account!vars)
<1> DEFINE R == Reserving \ {p}
           Q == Paying \ {p}
<1>1. PICK b \in Bill, n \in 1..MaxAmount : claim[p] = [NoClaim EXCEPT ![b] = n]
  BY DEF AInv, OneBillEach, BatchMoves, Forward
<1>2. /\ claim \in Ledger /\ claim' = claim /\ Owed' = Owed
      /\ R \in SUBSET Batch /\ Q \in SUBSET Batch /\ p \notin R /\ p \notin Q
  BY DEF AInv, WInv, IInv, TypeOK, Ledger, BatchMoves, Owed, Reserving, Paying, Live, InState
<1>3. \A q \in Batch \ {p} : /\ q \in Reserving' <=> q \in Reserving
                             /\ q \in Paying' <=> q \in Paying
  BY DEF BatchMoves, Reserving, Paying, Live, InState
<1>4. /\ Reserving = IF batch[p].state \in BatchState \ {"FAILED", "REVERSED", "PAID"}
                     THEN R \cup {p} ELSE R
      /\ Paying = IF batch[p].state = "PAID" THEN Q \cup {p} ELSE Q
  BY DEF Reserving, Paying, Live, InState, BatchState
<1>5. /\ Reserving' = IF batch'[p].state \in BatchState \ {"FAILED", "REVERSED", "PAID"}
                      THEN R \cup {p} ELSE R
      /\ Paying' = IF batch'[p].state = "PAID" THEN Q \cup {p} ELSE Q
  BY <1>3 DEF Reserving, Paying, Live, InState, BatchState
<1>6. /\ Held(claim, R) = [Held(claim, R \cup {p}) EXCEPT ![b] = @ - n]
      /\ n <= Held(claim, R \cup {p})[b]
      /\ Held(claim, Q \cup {p}) = [Held(claim, Q) EXCEPT ![b] = @ + n]
      /\ Held(claim, Q) = [Held(claim, Q \cup {p}) EXCEPT ![b] = @ - n]
      /\ n <= Held(claim, Q \cup {p})[b]
  <2> HIDE DEF R, Q
  <2>1. ASSUME NEW P \in SUBSET Batch, p \notin P
        PROVE  /\ Held(claim, P \cup {p}) = [Held(claim, P) EXCEPT ![b] = @ + n]
               /\ Held(claim, P) = [Held(claim, P \cup {p}) EXCEPT ![b] = @ - n]
               /\ n <= Held(claim, P \cup {p})[b]
    BY <1>1, <1>2, <2>1, HeldAdds
  <2>2. QED
    BY <1>2, <2>1
<1> HIDE DEF R, Q
<1>7. CASE /\ batch[p].state \in {"PENDING_APPROVAL", "APPROVED"}
           /\ batch'[p].state \in {"APPROVED", "SUBMITTED"}
  <2>1. Reserving' = Reserving /\ Paying' = Paying
    BY <1>4, <1>5, <1>7 DEF BatchState
  <2>2. QED
    BY <1>2, <2>1, Mapped
<1>8. CASE batch[p].state = "SUBMITTED" /\ batch'[p].state = "FAILED"
  <2>1. Reserving = R \cup {p} /\ Reserving' = R /\ Paying' = Paying
    BY <1>4, <1>5, <1>8 DEF BatchState
  <2>2. Account!Release(b, n)
    BY <1>2, <1>6, <2>1, Mapping, Mapped DEF Account!Release, Owed, Held, Reserving, Paying
  <2>3. QED
    BY <2>2 DEF Account!Next
<1>9. CASE batch[p].state = "SUBMITTED" /\ batch'[p].state = "PAID"
  <2>1. Reserving = R \cup {p} /\ Reserving' = R /\ Paying = Q /\ Paying' = Q \cup {p}
    BY <1>4, <1>5, <1>9 DEF BatchState
  <2>2. Account!Pay(b, n)
    BY <1>2, <1>6, <2>1, Mapping, Mapped DEF Account!Pay, Owed, Held, Reserving, Paying
  <2>3. QED
    BY <2>2 DEF Account!Next
<1>10. CASE batch[p].state = "PAID" /\ batch'[p].state = "REVERSED"
  <2>1. Reserving' = Reserving /\ Paying = Q \cup {p} /\ Paying' = Q
    BY <1>4, <1>5, <1>10 DEF BatchState
  <2>2. Account!Return(b, n)
    BY <1>2, <1>6, <2>1, Mapping, Mapped DEF Account!Return, Owed, Held, Reserving, Paying
  <2>3. QED
    BY <2>2 DEF Account!Next
<1>11. QED
  BY <1>7, <1>8, <1>9, <1>10 DEF BatchMoves, Forward

\* PAY reserves, and the outstanding amount it was checked against is what the
\* account has neither reserved nor paid.
LEMMA ReserveStep ==
    ASSUME AInv, NEW u \in User, NEW b \in Bill, NEW p \in Batch, NEW n \in 1..MaxAmount,
           CreatePayment(u, b, p, n)
    PROVE  Account!Next
<1> DEFINE R == Reserving \ {p}
<1>1. /\ claim \in Ledger /\ bill' = bill /\ batch[p].state = "NONE"
      /\ batch'[p].state = "PENDING_APPROVAL"
      /\ \A q \in Batch \ {p} : batch'[q] = batch[q] /\ claim'[q] = claim[q]
      /\ claim'[p] = [NoClaim EXCEPT ![b] = n]
      /\ n <= Outstanding(b)
  BY DEF CreatePayment, AInv, WInv, IInv, TypeOK, Ledger
<1>2. claim' \in Ledger
  <2>1. [NoClaim EXCEPT ![b] = n] \in [Bill -> Amount]
    BY Bounds DEF NoClaim, Amount, Cap
  <2>2. QED
    BY <1>1, <2>1 DEF CreatePayment, Ledger
<1>3. /\ R \in SUBSET Batch /\ p \notin R /\ Reserving' = R \cup {p} /\ Reserving = R \cup {p}
      /\ Paying' = Paying /\ Paying \in SUBSET Batch /\ p \notin Paying
      /\ Live = Reserving \cup Paying /\ Reserving \cap Paying = {}
  BY <1>1 DEF Reserving, Paying, Live, InState, BatchState
<1>4. claim[p] = NoClaim
  BY <1>1 DEF AInv, OneBillEach
<1> HIDE DEF R
<1>5. Held(claim', R \cup {p}) = [Held(claim', R) EXCEPT ![b] = @ + n]
  BY <1>1, <1>2, <1>3, HeldAdds
<1>6. Held(claim', R) = Held(claim, R) /\ Held(claim', Paying) = Held(claim, Paying)
  BY <1>1, <1>3, HeldLocal
<1>7. Held(claim, R) = Held(claim, R \cup {p})
  <2>1. \A c \in Bill : Units(claim, c, R \cup {p}) = Units(claim, c, R)
    BY <1>4 DEF Units, NoClaim
  <2>2. QED
    BY <2>1 DEF Held, Total
<1>8. Held(claim', Reserving') = [Held(claim, Reserving) EXCEPT ![b] = @ + n]
  BY <1>3, <1>5, <1>6, <1>7
<1>9. Held(claim, Reserving)[b] + Held(claim, Paying)[b] + n <= Owed[b]
  <2>1. Units(claim, b, Live) = Units(claim, b, Reserving) \cup Units(claim, b, Paying)
    BY <1>3 DEF Units
  <2>2. Units(claim, b, Reserving) \cap Units(claim, b, Paying) = {}
    BY <1>3 DEF Units
  <2>3. /\ IsFiniteSet(Units(claim, b, Reserving)) /\ IsFiniteSet(Units(claim, b, Paying))
        /\ Total(claim, b, Reserving) \in Nat /\ Total(claim, b, Paying) \in Nat
    BY <1>1, <1>3, UnitsFinite
  <2>4. Total(claim, b, Live) = Total(claim, b, Reserving) + Total(claim, b, Paying)
    <3>1. Cardinality(Units(claim, b, Reserving) \cup Units(claim, b, Paying)) =
            Cardinality(Units(claim, b, Reserving)) + Cardinality(Units(claim, b, Paying))
            - Cardinality(Units(claim, b, Reserving) \cap Units(claim, b, Paying))
      BY <2>3, FS_Union
    <3>2. Cardinality(Units(claim, b, Reserving) \cap Units(claim, b, Paying)) = 0
      BY <2>2, FS_EmptySet
    <3>3. QED
      BY <2>1, <2>3, <3>1, <3>2 DEF Total
  <2>5. n \in Nat /\ bill[b].payable \in Nat
    BY Bounds DEF AInv, WInv, IInv, TypeOK
  <2>6. n <= bill[b].payable - Total(claim, b, Live)
    BY <1>1 DEF Outstanding
  <2>7. Total(claim, b, Reserving) + Total(claim, b, Paying) + n <= bill[b].payable
    BY <2>3, <2>4, <2>5, <2>6
  <2>8. QED
    BY <2>7 DEF Held, Owed
<1>10. Owed' = Owed /\ Held(claim', Paying') = Held(claim, Paying)
  BY <1>1, <1>3, <1>6 DEF Owed
<1>11. Account!Reserve(b, n)
  BY <1>8, <1>9, <1>10 DEF Account!Reserve, Owed, Held, Reserving, Paying
<1>12. QED
  BY <1>11 DEF Account!Next

\* A new bill owes its amount; a bill of amount zero changes no account.
LEMMA OweStep ==
    ASSUME AInv, NEW u \in User, NEW b \in Bill, NEW n \in Payable, CreateVendorBill(u, b, n)
    PROVE  [Account!Next]_(Account!vars)
<1>1. /\ bill \in [Bill -> BillRow] /\ UNCHANGED <<batch, claim>>
      /\ Owed[b] = 0 /\ Owed' = [Owed EXCEPT ![b] = n]
  <2>1. bill \in [Bill -> BillRow] /\ UNCHANGED <<batch, claim>>
    BY DEF CreateVendorBill, NewBill, AInv, WInv, IInv, TypeOK, BillRow
  <2>2. bill[b].payable = 0
    BY DEF CreateVendorBill, NewBill, AInv, NoRowOwesNothing
  <2>3. \A c \in Bill : bill'[c].payable = IF c = b THEN n ELSE bill[c].payable
    BY <2>1 DEF CreateVendorBill, NewBill
  <2>4. QED
    BY <2>1, <2>2, <2>3 DEF Owed
<1>2. /\ Held(claim', Reserving') = Held(claim, Reserving)
      /\ Held(claim', Paying') = Held(claim, Paying)
  BY <1>1 DEF Reserving, Paying, Live, InState
<1>3. CASE n = 0
  <2>1. Owed' = Owed
    BY <1>1, <1>3 DEF Owed
  <2>2. QED
    BY <1>2, <2>1, Mapped
<1>4. CASE n # 0
  <2>1. n \in 1..MaxAmount
    BY <1>4, PayablesAssumption
  <2>2. Account!Owe(b, n)
    BY <1>1, <1>2 DEF Account!Owe, Owed, Held, Reserving, Paying
  <2>3. QED
    BY <2>1, <2>2 DEF Account!Next
<1>5. QED
  BY <1>3, <1>4

LEMMA AccountStep ==
    ASSUME AInv, [WorkbenchNext]_vars
    PROVE  [Account!Next]_(Account!vars)
<1>1. ASSUME UNCHANGED <<batch, claim>>, \A c \in Bill : bill'[c].payable = bill[c].payable
      PROVE  UNCHANGED Account!vars
  BY <1>1, NoStep DEF Live, Paying, InState
<1>2. ASSUME NEW b \in Bill,
             \/ SubmitBill(b) \/ DisputeBill(b)
             \/ \E u \in User : VerifyBill(u, b) \/ ApproveBill(u, b)
      PROVE  UNCHANGED Account!vars
  BY <1>1, <1>2, BillDecided
<1>3. CASE WorkbenchNext
  BY <1>1, <1>2, <1>3, OweStep, ReserveStep, BatchMoved, ForwardStep, NothingMoved
     DEF WorkbenchNext, SharedNext
<1>4. CASE UNCHANGED vars
  BY <1>1, <1>4 DEF vars
<1>5. QED
  BY <1>3, <1>4

\* Payments made through the workbench behave like reservations, payments and
\* refunds on one account per bill, which is never overdrawn.
THEOREM AccountsAreKept == WorkbenchSpec => AccountIsKept
<1>1. Init => Account!Init
  <2> SUFFICES ASSUME Init PROVE Account!Init
    OBVIOUS
  <2>1. claim \in Ledger /\ Reserving \in SUBSET Batch /\ Paying \in SUBSET Batch
    BY InitInvariant DEF IInv, TypeOK, Ledger, Reserving, Paying, Live, InState
  <2>2. ASSUME NEW b \in Bill, NEW P \in SUBSET Batch
        PROVE  Total(claim, b, P) = 0
    BY <2>1, TotalZero DEF Init, NoClaim
  <2>3. QED
    BY <2>1, <2>2 DEF Account!Init, Init, Reserving, Paying
<1>2. AInv /\ [WorkbenchNext]_vars => [Account!Next]_(Account!vars)
  BY AccountStep
<1>3. QED
  BY <1>1, <1>2, Accounts, PTL DEF WorkbenchSpec, AccountIsKept, Account!Spec
=============================================================================
