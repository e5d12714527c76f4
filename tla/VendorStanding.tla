---------------------------- MODULE VendorStanding ----------------------------
(***************************************************************************)
(* What a vendor must have before it gets work and money: documents that   *)
(* are verified, and an account that is.  apps/backend/src/modules/        *)
(* canonical/advanced.service.ts keeps the versions of the account, the    *)
(* compliance records and the overrides; it and finance/workbench.service. *)
(* ts ask for a verified account when they make a payment.                 *)
(*                                                                         *)
(* To verify an account locks its version alone, supersedes those that are *)
(* verified in a second statement and verifies it in a third.  A payment   *)
(* looks the account up and is inserted later.  Compliance records are     *)
(* decided in whatever state they are.                                     *)
(***************************************************************************)
EXTENDS Naturals, FiniteSets

CONSTANTS
  Versions,      \* 1 .. the bound on versions of the account
  Users,
  Nobody,
  Requirements,  \* codes of compliance
  Batches,
  Decisions,     \* approvals of an override of this vendor's eligibility
  MaxPapers      \* bound: submissions of one requirement

VARIABLES
  account,    \* app.vendor_bank_versions
  verifying,  \* versions about to be verified, with those to be superseded
  crowded,    \* whether two versions were ever verified at once
  batch,      \* app.payment_batches: the account each is paid to
  paper,      \* app.compliance_records, by requirement
  expired,    \* requirements whose valid_to has passed
  override    \* app.eligibility_overrides, by the decision they rest on

vars == <<account, verifying, crowded, batch, paper, expired, override>>
accounts == <<account, verifying, crowded, batch>>
compliance == <<paper, expired, override>>

NoAccount == [state |-> "none", maker |-> Nobody]
NoPaper == [no |-> 0, state |-> "none", verdictOn |-> 0]

Init ==
  /\ account = [v \in Versions |-> NoAccount]
  /\ verifying = [v \in Versions |-> {}]
  /\ crowded = FALSE
  /\ batch = [b \in Batches |-> [state |-> "none", account |-> 0]]
  /\ paper = [r \in Requirements |-> NoPaper]
  /\ expired = {}
  /\ override = [d \in Decisions |-> "none"]

(***************************************************************************)
(* The account.                                                            *)
(***************************************************************************)
Verified == {v \in Versions : account[v].state = "VERIFIED"}
Open == {v \in Versions : account[v].state = "locked"}

\* max(version) + 1, which two at once cannot both have.
AddVendorBank(u) ==
  \E v \in Versions :
    /\ account[v] = NoAccount /\ \A older \in 1 .. (v - 1) : account[older] # NoAccount
    /\ account' = [account EXCEPT ![v] = [state |-> "PENDING_VERIFICATION", maker |-> u]]
    /\ UNCHANGED <<verifying, crowded, batch, compliance>>

\* Not by its maker.
MayDecide(u, v) == account[v].state = "PENDING_VERIFICATION" /\ account[v].maker # u

RejectVendorBank(u, v) ==
  /\ MayDecide(u, v)
  /\ account' = [account EXCEPT ![v].state = "REJECTED"]
  /\ UNCHANGED <<verifying, crowded, batch, compliance>>

\* Mutant: only the version before this one is superseded.
Predecessors(v) == Verified \cap {v - 1}

Superseded(v) == Verified

BeginVerify(u, v) ==
  /\ MayDecide(u, v)
  /\ account' = [account EXCEPT ![v].state = "locked"]
  /\ verifying' = [verifying EXCEPT ![v] = Superseded(v)]
  /\ crowded' = (crowded \/ Open # {})
  /\ UNCHANGED <<batch, compliance>>

CommitVerify(v) ==
  /\ v \in Open
  /\ account' = [w \in Versions |->
       IF w = v THEN [account[w] EXCEPT !.state = "VERIFIED"]
       ELSE IF w \in verifying[v] THEN [account[w] EXCEPT !.state = "SUPERSEDED"]
       ELSE account[w]]
  /\ verifying' = [verifying EXCEPT ![v] = {}]
  /\ UNCHANGED <<crowded, batch, compliance>>

\* A failure, after which the version is as it was.
RollbackVerify(v) ==
  /\ v \in Open
  /\ account' = [account EXCEPT ![v].state = "PENDING_VERIFICATION"]
  /\ verifying' = [verifying EXCEPT ![v] = {}]
  /\ UNCHANGED <<crowded, batch, compliance>>

CheckAccount(b, v) ==
  /\ batch[b].state = "none" /\ v \in Verified
  /\ batch' = [batch EXCEPT ![b] = [state |-> "checked", account |-> v]]
  /\ UNCHANGED <<account, verifying, crowded, compliance>>

\* Nobody looks at the account again.
CreatePayment(b) ==
  /\ batch[b].state = "checked"
  /\ batch' = [batch EXCEPT ![b].state = "created"]
  /\ UNCHANGED <<account, verifying, crowded, compliance>>

(***************************************************************************)
(* Compliance.                                                             *)
(***************************************************************************)
\* A new submission replaces the old one and its verdict.
UpsertCompliance(r) ==
  /\ paper[r].no < MaxPapers
  /\ paper' = [paper EXCEPT ![r] = [no |-> @.no + 1, state |-> "PENDING", verdictOn |-> 0]]
  /\ expired' \in {expired \ {r}, expired \cup {r}}
  /\ UNCHANGED <<override, accounts>>

DecideCompliance(r, verdict) ==
  /\ paper[r] # NoPaper
  /\ paper' = [paper EXCEPT ![r].state = verdict, ![r].verdictOn = paper[r].no]
  /\ UNCHANGED <<expired, override, accounts>>

Expire(r) ==
  /\ paper[r] # NoPaper
  /\ expired' = expired \cup {r}
  /\ UNCHANGED <<paper, override, accounts>>

\* One override of each approval, which somebody else must have given.
OverrideEligibility(d) ==
  /\ override[d] = "none"
  /\ override' = [override EXCEPT ![d] = "valid"]
  /\ UNCHANGED <<paper, expired, accounts>>

ExpireOverride(d) ==
  /\ override[d] = "valid"
  /\ override' = [override EXCEPT ![d] = "expired"]
  /\ UNCHANGED <<paper, expired, accounts>>

Held == {r \in Requirements : paper[r] # NoPaper}
Met(r) == paper[r].state = "VERIFIED" /\ r \notin expired

Overridden == \E d \in Decisions : override[d] = "valid"

\* No record at all is not enough, an override is.
Eligible == Overridden \/ (Held # {} /\ \A r \in Held : Met(r))

-----------------------------------------------------------------------------
AccountNext ==
  \/ \E u \in Users : AddVendorBank(u) \/ \E v \in Versions : RejectVendorBank(u, v) \/ BeginVerify(u, v)
  \/ \E v \in Versions : CommitVerify(v) \/ RollbackVerify(v)
  \/ \E b \in Batches : CreatePayment(b) \/ \E v \in Versions : CheckAccount(b, v)

ComplianceNext ==
  \/ \E r \in Requirements :
       UpsertCompliance(r) \/ Expire(r) \/ \E verdict \in {"VERIFIED", "REJECTED"} : DecideCompliance(r, verdict)
  \/ \E d \in Decisions : OverrideEligibility(d) \/ ExpireOverride(d)

Next == AccountNext \/ ComplianceNext

Spec == Init /\ [][Next]_vars

-----------------------------------------------------------------------------
(* Properties                                                              *)

TypeOK ==
  /\ \A v \in Versions : account[v] = NoAccount \/
       (account[v].state \in {"PENDING_VERIFICATION", "locked", "VERIFIED", "REJECTED", "SUPERSEDED"}
          /\ account[v].maker \in Users)
  /\ \A r \in Requirements : paper[r].no \in 0 .. MaxPapers

\* One account is in force at a time, unless two were verified at once; one
\* always is once there was one; and money only goes to an account that was.
AccountsAreInForce ==
  /\ crowded \/ Cardinality(Verified) <= 1
  /\ (\E v \in Versions : account[v].state = "SUPERSEDED") => Verified # {}
  /\ \A b \in Batches : batch[b].state # "none" => account[batch[b].account].state \in {"VERIFIED", "SUPERSEDED"}

\* Who is eligible without an override had the last paper of every
\* requirement verified, and not one that it replaced.
PapersAreDecided ==
  Eligible /\ ~Overridden =>
    \A r \in Held : paper[r].state = "VERIFIED" /\ paper[r].verdictOn = paper[r].no
===============================================================================
