--------------------------- MODULE PayableAccount ---------------------------
(***************************************************************************)
(* What the payables promise about each vendor bill, with no batches, no   *)
(* users and no transactions: an account that owes a fixed amount.  Money  *)
(* is reserved against it, paid to the bank, or given back; reserved and   *)
(* paid money together never exceed what is owed.                          *)
(***************************************************************************)
EXTENDS Integers

CONSTANTS Bill, MaxOwed

VARIABLES owed, reserved, paid

vars == <<owed, reserved, paid>>

Init ==
    /\ owed = [b \in Bill |-> 0]
    /\ reserved = [b \in Bill |-> 0]
    /\ paid = [b \in Bill |-> 0]

\* The bill is recorded with the amount it claims.
Owe(b, n) ==
    /\ owed[b] = 0
    /\ owed' = [owed EXCEPT ![b] = n]
    /\ UNCHANGED <<reserved, paid>>

Reserve(b, n) ==
    /\ reserved[b] + paid[b] + n <= owed[b]
    /\ reserved' = [reserved EXCEPT ![b] = @ + n]
    /\ UNCHANGED <<owed, paid>>

\* A failed payment gives its reservation back.
Release(b, n) ==
    /\ n <= reserved[b]
    /\ reserved' = [reserved EXCEPT ![b] = @ - n]
    /\ UNCHANGED <<owed, paid>>

Pay(b, n) ==
    /\ n <= reserved[b]
    /\ reserved' = [reserved EXCEPT ![b] = @ - n]
    /\ paid' = [paid EXCEPT ![b] = @ + n]
    /\ UNCHANGED owed

\* A reversal reopens the amount.
Return(b, n) ==
    /\ n <= paid[b]
    /\ paid' = [paid EXCEPT ![b] = @ - n]
    /\ UNCHANGED <<owed, reserved>>

Next ==
    \E b \in Bill, n \in 1..MaxOwed :
        Owe(b, n) \/ Reserve(b, n) \/ Release(b, n) \/ Pay(b, n) \/ Return(b, n)

Spec == Init /\ [][Next]_vars
=============================================================================
