---------------------------- MODULE RuleExecution ----------------------------
(***************************************************************************)
(* Executing an auto-allocation rule for an indent: executeRule in apps/   *)
(* backend/src/modules/operations/operations-workbench.service.ts.  It     *)
(* goes through six transactions - a record of the request under its       *)
(* idempotency key, the rule, a preview, the allocation, the execution and *)
(* the completed record - between which it may stop, be repeated with the  *)
(* same key or overlap with a repetition, while the rule is edited and the *)
(* indent allocated by hand.  The allocation is made by the idempotent     *)
(* create of canonical.service.ts under a key derived from the request's.  *)
(* Which vendors are eligible may change from one look to the next.        *)
(***************************************************************************)
EXTENDS Integers, FiniteSets, FiniteSetsExt

CONSTANTS
  Keys,      \* idempotency keys of requests; a key is one rule and one indent
  Requests,  \* the requests that are being served
  Vendors,
  Any,       \* a rule without a vendor
  Demand,    \* requested_vehicles of the indent
  MaxEdits,  \* bound: versions of the rule
  MaxAllocations  \* bound: app.allocations

VARIABLES
  rule,        \* app.auto_allocation_rules
  envelope,    \* app.idempotency_records of executeRule: the allocation told
  allocation,  \* app.allocations; the key under which each was created
  executed,    \* app.auto_allocation_executions: their allocations
  request      \* what each request has read

vars == <<rule, envelope, allocation, executed, request>>

Allocations == 1 .. MaxAllocations
Unused == [state |-> "none", key |-> "none", vendor |-> Any, vehicles |-> 0, terms |-> 0]
Idle == [phase |-> "idle", key |-> "none", vendor |-> Any, vehicles |-> 0, max |-> 0, terms |-> 0, made |-> 0]

Init ==
  /\ rule \in [active : {"yes"}, vendor : {Any}, max : 1 .. Demand, version : {1}]
  /\ envelope = [k \in Keys |-> [state |-> "none", told |-> 0]]
  /\ allocation = [a \in Allocations |-> Unused]
  /\ executed = {}
  /\ request = [r \in Requests |-> Idle]

Made(k) == {a \in Allocations : allocation[a].key = k}
Standing == {a \in Allocations : allocation[a].state = "OFFERED"}
\* Every vehicle that an allocation holds, so that their number is the sum.
Units == {u \in Standing \X (1 .. Demand) : u[2] <= allocation[u[1]].vehicles}
Allotted == Cardinality(Units)
Remaining == Demand - Allotted

At(r, phase) == request[r].phase = phase
Goes(r, changed) == request' = [request EXCEPT ![r] = changed]

\* The record is inserted, or found as an earlier attempt left it.
BeginExecute(r, k) ==
  /\ At(r, "idle")
  /\ envelope[k].state # "COMPLETE"
  /\ envelope' = [envelope EXCEPT ![k].state = "PENDING"]
  /\ Goes(r, [Idle EXCEPT !.phase = "begun", !.key = k])
  /\ UNCHANGED <<rule, allocation, executed>>

ExecutionRule(r) ==
  /\ At(r, "begun") /\ rule.active = "yes"
  /\ Goes(r, [request[r] EXCEPT !.phase = "ruled", !.max = rule.max, !.terms = rule.version])
  /\ UNCHANGED <<rule, envelope, allocation, executed>>

\* The rule is read again, for who may be proposed.
PreviewRule(r, vendor, available) ==
  /\ At(r, "ruled") /\ rule.active = "yes"
  /\ rule.vendor \in {Any, vendor} /\ Remaining >= 1
  /\ Goes(r, [request[r] EXCEPT !.phase = "proposed", !.vendor = vendor,
                                !.vehicles = Min({Remaining, request[r].max, available})])
  /\ UNCHANGED <<rule, envelope, allocation, executed>>

Offer(key, q) ==
  [state |-> "OFFERED", key |-> key, vendor |-> q.vendor, vehicles |-> q.vehicles, terms |-> q.terms]

\* Mutant: the key is not the request's, so nothing is found under it.
EarlierNone(k) == {}

\* What the create looks up under the key that is derived from the request's.
Earlier(k) == Made(k)

\* The create answers a repetition of the same input with what it made, and
\* looks at the demand otherwise.  Another input under the key is refused.
CreateAllocation(r) ==
  LET q == request[r] IN
  /\ At(r, "proposed")
  /\ \E a \in Allocations :
       /\ IF Earlier(q.key) # {}
            THEN /\ a \in Earlier(q.key)
                 /\ Offer(q.key, q) = [allocation[a] EXCEPT !.state = "OFFERED"]
                 /\ UNCHANGED allocation
            ELSE /\ allocation[a] = Unused /\ Remaining >= q.vehicles
                 /\ allocation' = [allocation EXCEPT ![a] = Offer(q.key, q)]
       /\ Goes(r, [Idle EXCEPT !.phase = "allocated", !.key = q.key, !.made = a])
  /\ UNCHANGED <<rule, envelope, executed>>

RecordExecution(r) ==
  /\ At(r, "allocated")
  /\ executed' = executed \cup {request[r].made}
  /\ Goes(r, [request[r] EXCEPT !.phase = "recorded"])
  /\ UNCHANGED <<rule, envelope, allocation>>

Complete(r) ==
  /\ At(r, "recorded")
  /\ envelope' = [envelope EXCEPT ![request[r].key] = [state |-> "COMPLETE", told |-> request[r].made]]
  /\ Goes(r, Idle)
  /\ UNCHANGED <<rule, allocation, executed>>

\* A crash, or a refusal of the next step.
Stop(r) ==
  /\ ~At(r, "idle")
  /\ Goes(r, Idle)
  /\ UNCHANGED <<rule, envelope, allocation, executed>>

(***************************************************************************)
(* Meanwhile.                                                              *)
(***************************************************************************)
SaveRule(active, vendor, max) ==
  /\ rule.version < MaxEdits
  /\ rule' = [active |-> active, vendor |-> vendor, max |-> max, version |-> rule.version + 1]
  /\ UNCHANGED <<envelope, allocation, executed, request>>

AllocateByHand(vendor, vehicles) ==
  /\ Remaining >= vehicles
  /\ \E a \in Allocations :
       /\ allocation[a] = Unused
       /\ allocation' = [allocation EXCEPT ![a] = Offer("manual", [Idle EXCEPT !.vendor = vendor, !.vehicles = vehicles])]
  /\ UNCHANGED <<rule, envelope, executed, request>>

Refuse(a) ==
  /\ allocation[a].state = "OFFERED"
  /\ allocation' = [allocation EXCEPT ![a].state = "REJECTED"]
  /\ UNCHANGED <<rule, envelope, executed, request>>

-----------------------------------------------------------------------------
Next ==
  \/ \E r \in Requests :
       \/ \E k \in Keys : BeginExecute(r, k)
       \/ ExecutionRule(r)
       \/ \E vendor \in Vendors, available \in 1 .. Demand : PreviewRule(r, vendor, available)
       \/ CreateAllocation(r) \/ RecordExecution(r) \/ Complete(r) \/ Stop(r)
  \/ \E active \in {"yes", "no"}, vendor \in Vendors \cup {Any}, max \in 1 .. Demand : SaveRule(active, vendor, max)
  \/ \E vendor \in Vendors, vehicles \in 1 .. Demand : AllocateByHand(vendor, vehicles)
  \/ \E a \in Allocations : Refuse(a)

Spec == Init /\ [][Next]_vars

-----------------------------------------------------------------------------
(* Properties                                                              *)

TypeOK ==
  /\ rule.version \in 1 .. MaxEdits /\ rule.max \in 1 .. Demand
  /\ executed \subseteq Allocations
  /\ \A r \in Requests : request[r].vehicles \in 0 .. Demand

\* However often a request is repeated, and wherever it stopped, its key has
\* one allocation at most.
AllocatedOnce == \A k \in Keys : Cardinality(Made(k)) <= 1

\* What a request was told is its key's allocation, and its execution was
\* recorded.  What is recorded was allocated by a rule.
ToldIsDone ==
  /\ \A k \in Keys : envelope[k].state = "COMPLETE" =>
       envelope[k].told \in Made(k) \cap executed
  /\ \A a \in executed : allocation[a].key \in Keys /\ envelope[allocation[a].key].state # "none"

\* Requests that previewed the same demand do not both allocate it.
DemandIsKept == Allotted <= Demand
=============================================================================
