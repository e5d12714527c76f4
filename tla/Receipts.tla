-------------------------------- MODULE Receipts --------------------------------
(***************************************************************************)
(* Receipts of client money and their ledger, as written by createReceipt  *)
(* (two services and the data import), by the generic transition and by    *)
(* reverseReceiptEntry.                                                    *)
(*                                                                         *)
(* The ledger holds the entries it was seeded with and their reversals:    *)
(* allocateReceipt reads receipt.amountMinor from a row of SELECT *, which *)
(* has no such column, and fails on every request before it inserts, so it *)
(* has no action here.  reverseReceiptEntry looks for an earlier reversal  *)
(* without a lock and then inserts, in two statements of a READ COMMITTED  *)
(* transaction: it is two steps.                                           *)
(***************************************************************************)
EXTENDS Integers, FiniteSets

CONSTANTS Receipt,
          Entry,     \* ids of ledger entries
          Seeded,    \* of those, the ones the ledger starts with, of one unit each
          User,
          Session,   \* reversals under way
          Null

VARIABLES receipt,  \* app.receipts
          ledger,   \* app.receipt_ledger_entries
          session   \* the entry a reversal under way is about

vars == <<receipt, ledger, session>>

ReceiptMoves == [
    UNRECONCILED |-> {"PENDING_APPROVAL"},
    PENDING_APPROVAL |-> {"RECONCILED", "UNRECONCILED"},
    RECONCILED |-> {"REVERSED"},
    REVERSED |-> {}]

ReceiptState == DOMAIN ReceiptMoves
NoReceipt == [state |-> "NONE", maker |-> Null, submitter |-> Null]
NoEntry == [amount |-> 0, reverses |-> Null]

TypeOK ==
    /\ receipt \in [Receipt ->
          [state: ReceiptState \cup {"NONE"}, maker: User \cup {Null},
           submitter: User \cup {Null}]]
    /\ ledger \in [Entry -> [amount: {-1, 0, 1}, reverses: Entry \cup {Null}]]
    /\ session \in [Session -> Entry \cup {Null}]

Init ==
    /\ receipt = [r \in Receipt |-> NoReceipt]
    /\ ledger = [e \in Entry |->
                    [NoEntry EXCEPT !.amount = IF e \in Seeded THEN 1 ELSE 0]]
    /\ session = [s \in Session |-> Null]

-----------------------------------------------------------------------------
CreateReceipt(r, u) ==
    /\ receipt[r] = NoReceipt
    /\ receipt' = [receipt EXCEPT ![r] =
          [NoReceipt EXCEPT !.state = "UNRECONCILED", !.maker = u]]
    /\ UNCHANGED <<ledger, session>>

\* A receipt is never set to REVERSED.  The word "APPROV" in the new state
\* bars the maker, so the maker cannot submit, but anybody may reconcile.
TransitionReceipt(r, state, u) ==
    /\ receipt[r] # NoReceipt
    /\ state \in ReceiptMoves[receipt[r].state] \ {"REVERSED"}
    /\ state = "PENDING_APPROVAL" => u # receipt[r].maker
    /\ receipt' = [receipt EXCEPT
          ![r].state = state,
          ![r].submitter = IF state = "PENDING_APPROVAL" THEN u ELSE @]
    /\ UNCHANGED <<ledger, session>>

\* Any entry without a reversal will do, a reversal too.
BeginReversal(s, e) ==
    /\ session[s] = Null
    /\ ledger[e] # NoEntry
    /\ \A f \in Entry : ledger[f].reverses # e
    /\ session' = [session EXCEPT ![s] = e]
    /\ UNCHANGED <<receipt, ledger>>

FinishReversal(s, f) ==
    /\ session[s] # Null
    /\ ledger[f] = NoEntry
    /\ ledger' = [ledger EXCEPT ![f] =
          [amount |-> -ledger[session[s]].amount, reverses |-> session[s]]]
    /\ session' = [session EXCEPT ![s] = Null]
    /\ UNCHANGED receipt

Rollback(s) ==
    /\ session[s] # Null
    /\ session' = [session EXCEPT ![s] = Null]
    /\ UNCHANGED <<receipt, ledger>>

Next ==
    \/ \E r \in Receipt, u \in User : CreateReceipt(r, u)
    \/ \E r \in Receipt, state \in ReceiptState, u \in User :
          TransitionReceipt(r, state, u)
    \/ \E s \in Session, e \in Entry : BeginReversal(s, e) \/ FinishReversal(s, e)
    \/ \E s \in Session : Rollback(s)

Spec == Init /\ [][Next]_vars

-----------------------------------------------------------------------------
Magnitude(e) == IF ledger[e].amount < 0 THEN -ledger[e].amount ELSE ledger[e].amount

\* Mutant: the register adds up magnitudes.
ShownMagnitude(e) == Magnitude(e)

\* What the registers of the workbench count an entry as.
Shown(e) == IF ledger[e].reverses # Null THEN -Magnitude(e) ELSE Magnitude(e)

\* What entries of one unit add up to.
Total(value(_)) ==
    Cardinality({e \in Entry : value(e) = 1}) - Cardinality({e \in Entry : value(e) = -1})

\* What the registers show as received is never more than what the ledger
\* adds up to, whatever is reversed and however often.
ReceivedNotOverstated == Total(Shown) <= Total(LAMBDA e : ledger[e].amount)

\* A reconciled receipt passed through the hands of somebody other than the
\* one who recorded it, though the maker is free to reconcile it.
ReconciledByTwo ==
    \A r \in Receipt : receipt[r].state = "RECONCILED" =>
        receipt[r].submitter \notin {Null, receipt[r].maker}
=============================================================================
