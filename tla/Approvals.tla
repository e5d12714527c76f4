------------------------------- MODULE Approvals -------------------------------
(***************************************************************************)
(* Approvals of one target: requests that carry a snapshot of it, decided  *)
(* step by step under a policy which may be changed meanwhile, and the     *)
(* overrides of eligibility that rest on a decision.                       *)
(*                                                                         *)
(* A request invalidates the pending ones of another snapshot and is       *)
(* inserted later in the same transaction, so two that overlap do not see  *)
(* each other.  Nothing gives a request a time to expire.                  *)
(***************************************************************************)
EXTENDS Naturals, Sequences, FiniteSets

CONSTANTS
  Users, Roles, None,
  RolesOf,     \* the roles of each user whose scope covers the target
  Requests, Snapshots,
  PolicySteps, \* the lists of roles that a policy may ask for
  MaxEdits     \* bound: changes of the policy

VARIABLES
  policy,     \* approval_definitions: [steps, active]
  request,    \* approval_instances
  asking,     \* requests not inserted yet
  decisions,  \* approval_decisions
  overrides,  \* eligibility_overrides: the decision and who used it
  crossed,    \* history: requests that overlapped another
  edits

vars == <<policy, request, asking, decisions, overrides, crossed, edits>>

NoRequest == [state |-> "ABSENT", snapshot |-> None, requester |-> None, step |-> 0]

Init ==
  /\ \E s \in PolicySteps : policy = [steps |-> s, active |-> TRUE]
  /\ request = [r \in Requests |-> NoRequest]
  /\ asking = [r \in {} |-> None]
  /\ decisions = {}
  /\ overrides = {}
  /\ crossed = {}
  /\ edits = 0

\* GovernanceWorkbenchService, which changes what pending requests ask for.
update(list, active) ==
  /\ edits < MaxEdits /\ edits' = edits + 1
  /\ policy # [steps |-> list, active |-> active]
  /\ policy' = [steps |-> list, active |-> active]
  /\ UNCHANGED <<request, asking, decisions, overrides, crossed>>

Pending == {r \in Requests : request[r].state = "PENDING"}

\* Mutant: those of another snapshot are left alone.
StaleNone(s) == {}

Stale(s) == {r \in Pending : request[r].snapshot # s}

Locked(r) == \E a \in DOMAIN asking : r \in asking[a].invalidates

requestApproval(r, u, s) ==
  /\ request[r] = NoRequest /\ r \notin DOMAIN asking
  /\ \A x \in Stale(s) : ~Locked(x)
  /\ asking' = [x \in DOMAIN asking \cup {r} |->
       IF x = r THEN [requester |-> u, snapshot |-> s, invalidates |-> Stale(s)] ELSE asking[x]]
  /\ crossed' = IF DOMAIN asking = {} THEN crossed ELSE crossed \cup DOMAIN asking \cup {r}
  /\ UNCHANGED <<policy, request, decisions, overrides, edits>>

\* The insert selects the policy, which must be active.
Request(r) ==
  /\ r \in DOMAIN asking /\ policy.active
  /\ request' = [x \in Requests |->
       IF x = r THEN [state |-> "PENDING", snapshot |-> asking[r].snapshot,
                      requester |-> asking[r].requester, step |-> 1]
       ELSE IF x \in asking[r].invalidates THEN [request[x] EXCEPT !.state = "INVALIDATED"]
       ELSE request[x]]
  /\ asking' = [x \in DOMAIN asking \ {r} |-> asking[x]]
  /\ UNCHANGED <<policy, decisions, overrides, crossed, edits>>

Withdraw(r) ==
  /\ r \in DOMAIN asking /\ ~policy.active
  /\ asking' = [x \in DOMAIN asking \ {r} |-> asking[x]]
  /\ UNCHANGED <<policy, request, decisions, overrides, crossed, edits>>

decideApproval(r, u, role, decision) ==
  LET i == request[r]
      complete == decision = "REJECT" \/ i.step >= Len(policy.steps)
  IN
  /\ i.state = "PENDING" /\ ~Locked(r)
  /\ i.requester # u
  /\ i.step \in DOMAIN policy.steps /\ policy.steps[i.step] = role
  /\ role \in RolesOf[u]
  /\ \A d \in decisions : d.request # r \/ d.step # i.step
  /\ decisions' = decisions \cup {[request |-> r, step |-> i.step, by |-> u, decision |-> decision]}
  /\ request' = [request EXCEPT ![r] =
       IF ~complete THEN [i EXCEPT !.step = @ + 1]
       ELSE [i EXCEPT !.state = IF decision = "APPROVE" THEN "APPROVED" ELSE "REJECTED"]]
  /\ UNCHANGED <<policy, asking, overrides, crossed, edits>>

\* The context of the override is the target, and its subject is read from
\* the snapshot; each decision serves once.
overrideEligibility(u, d, s) ==
  /\ d \in decisions /\ d.decision = "APPROVE" /\ d.by # u
  /\ request[d.request].state = "APPROVED" /\ request[d.request].snapshot = s
  /\ \A o \in overrides : o.decision # d
  /\ overrides' = overrides \cup {[decision |-> d, by |-> u, snapshot |-> s]}
  /\ UNCHANGED <<policy, request, asking, decisions, crossed, edits>>

Next ==
  \/ \E s \in PolicySteps, a \in BOOLEAN : update(s, a)
  \/ \E r \in Requests, u \in Users, s \in Snapshots : requestApproval(r, u, s)
  \/ \E r \in Requests : Request(r) \/ Withdraw(r)
  \/ \E r \in Requests, u \in Users, role \in Roles, d \in {"APPROVE", "REJECT"} : decideApproval(r, u, role, d)
  \/ \E u \in Users, d \in decisions, s \in Snapshots : overrideEligibility(u, d, s)

Spec == Init /\ [][Next]_vars

(***************************************************************************)
(* Properties.                                                             *)
(***************************************************************************)
TypeOK ==
  /\ policy.steps \in PolicySteps
  /\ \A r \in Requests :
       /\ request[r].state \in {"ABSENT", "PENDING", "APPROVED", "REJECTED", "INVALIDATED"}
       /\ request[r].snapshot \in Snapshots \cup {None}
       /\ request[r].requester \in Users \cup {None}
  /\ DOMAIN asking \subseteq Requests
  /\ \A d \in decisions : d.request \in Requests /\ d.by \in Users /\ d.decision \in {"APPROVE", "REJECT"}
  /\ \A o \in overrides : o.decision \in decisions /\ o.by \in Users
  /\ crossed \subseteq Requests /\ edits <= MaxEdits

Decided(r) == {d \in decisions : d.request = r}

\* However the policy changes while a request is pending, it is approved by
\* one approval of each of its steps, none of them its requester's, and by
\* nothing after it was rejected or invalidated.
ApprovalIsEarned ==
  \A r \in Requests :
    LET last == IF request[r].state \in {"APPROVED", "REJECTED"} THEN request[r].step ELSE request[r].step - 1 IN
    request[r].state # "ABSENT" =>
      /\ {d.step : d \in Decided(r)} = 1..last
      /\ Cardinality(Decided(r)) = last
      /\ request[r].state = "APPROVED" /\ edits = 0 => last = Len(policy.steps)
      /\ \A d \in Decided(r) :
           /\ d.by # request[r].requester
           /\ d.decision = IF request[r].state = "REJECTED" /\ d.step = last THEN "REJECT" ELSE "APPROVE"

\* Requests of two snapshots are pending together only if they overlapped.
OneSnapshotPending ==
  \A r, s \in Pending : request[r].snapshot = request[s].snapshot \/ {r, s} \cap crossed # {}

\* What is overridden was approved as it is, by somebody else.
OverridesAreApproved ==
  \A o \in overrides :
    /\ o.by # o.decision.by
    /\ request[o.decision.request].state = "APPROVED"
    /\ request[o.decision.request].snapshot = o.snapshot
================================================================================
