------------------------------- MODULE Employees -------------------------------
(***************************************************************************)
(* Employees: who reports to whom, who is assigned to what, and the access *)
(* their home and regions give them.  The employee pages work one at a     *)
(* time, under an advisory lock: each reads who is active and writes what  *)
(* follows from it later.  The generic masters pages and the exceptional   *)
(* deactivation do not take that lock.                                     *)
(*                                                                         *)
(* A grant that follows from a home or a region exists once for each       *)
(* membership and scope: one that was ended stays ended.                   *)
(***************************************************************************)
EXTENDS Naturals

CONSTANTS
  Employees, None,
  Scopes,
  Members,       \* employees for whom there is a membership to link
  Covers,        \* what the home and the regions of each employee may cover
  Assignments,
  MaxUnlocked    \* bound: steps that do not take the lock

VARIABLES
  staff,     \* employees: [state, manager, cover, linked]
  link,      \* employee_scope_grant_links with their grants, per scope
  assigned,  \* operational_assignments: who holds each
  open,      \* employees with an open master_deactivation_exception
  hand,      \* what the holder of the lock has read and not written yet
  left,      \* history: employees that were inactive, or created unchecked
  gone, \* history: employees deactivated after hand had read them
  unlocked   \* history: number of steps without the lock

vars == <<staff, link, assigned, open, hand, left, gone, unlocked>>

Nobody == [state |-> "ABSENT", manager |-> None, cover |-> {}, linked |-> FALSE]
Idle == [kind |-> "IDLE"]

Active(e) == e # None /\ staff[e].state = "ACTIVE"

\* Init: the first employee of a tenant is there.
Init ==
  /\ \E e \in Employees, c \in UNION {Covers[x] : x \in Employees} :
       /\ c \in Covers[e]
       /\ staff = [x \in Employees |-> IF x = e THEN [Nobody EXCEPT !.state = "ACTIVE", !.cover = c]
                                                ELSE Nobody]
  /\ link = [e \in Employees |-> [s \in Scopes |-> "NONE"]]
  /\ assigned = [a \in Assignments |-> None]
  /\ open = {}
  /\ hand = Idle
  /\ left = {}
  /\ gone = {}
  /\ unlocked = 0

(***************************************************************************)
(* Managed grants.                                                         *)
(***************************************************************************)
endManagedEmployeeGrants(l) == [s \in Scopes |-> IF l[s] = "ACTIVE" THEN "INACTIVE" ELSE l[s]]

provisionManagedEmployeeGrants(l, c, linked) ==
  [s \in Scopes |-> IF linked /\ s \in c /\ l[s] = "NONE" THEN "ACTIVE" ELSE l[s]]

(***************************************************************************)
(* Under the lock.                                                         *)
(***************************************************************************)
Reports(e, E) == {x \in E : staff[x].manager = e}

\* Whoever is in every group that has the reports of e and those of its own.
Below(e, E) ==
  {x \in E : \A T \in SUBSET E : Reports(e, E) \cup UNION {Reports(y, E) : y \in T} \subseteq T => x \in T}
Actives == {e \in Employees : Active(e)}

MayManage(e, m) == m # None => Active(m) /\ m # e /\ m \notin Below(e, Employees)

createEmployee(e, m, c, linked) ==
  /\ hand = Idle /\ staff[e].state = "ABSENT"
  /\ m = None \/ Active(m)
  /\ hand' = [kind |-> "CREATE", e |-> e, to |-> m, cover |-> c, linked |-> linked]
  /\ UNCHANGED <<staff, link, assigned, open, left, gone, unlocked>>

updateEmployee(e, m, c, linked) ==
  /\ hand = Idle /\ staff[e].state # "ABSENT"
  /\ MayManage(e, m)
  /\ staff[e].linked => linked
  /\ <<m, c, linked>> # <<staff[e].manager, staff[e].cover, staff[e].linked>>
  /\ hand' = [kind |-> "UPDATE", e |-> e, to |-> m, cover |-> c, linked |-> linked]
  /\ UNCHANGED <<staff, link, assigned, open, left, gone, unlocked>>

Write ==
  /\ hand.kind \in {"CREATE", "UPDATE"}
  /\ LET e == hand.e
         row == [state |-> IF hand.kind = "CREATE" THEN "ACTIVE" ELSE staff[e].state,
                 manager |-> hand.to, cover |-> hand.cover, linked |-> hand.linked]
         moved == row.cover # staff[e].cover \/ row.linked # staff[e].linked
     IN
     /\ staff' = [staff EXCEPT ![e] = row]
     /\ link' = IF moved
                THEN [link EXCEPT ![e] = provisionManagedEmployeeGrants(
                        endManagedEmployeeGrants(@), row.cover, row.linked)]
                ELSE link
  /\ hand' = Idle
  /\ UNCHANGED <<assigned, open, left, gone, unlocked>>

bulkAssignments(a, e) ==
  /\ hand = Idle /\ assigned[a] = None /\ Active(e)
  /\ hand' = [kind |-> "ASSIGN", assignment |-> a, to |-> e]
  /\ UNCHANGED <<staff, link, assigned, open, left, gone, unlocked>>

Assign ==
  /\ hand.kind = "ASSIGN"
  /\ assigned' = [assigned EXCEPT ![hand.assignment] = hand.to]
  /\ hand' = Idle
  /\ UNCHANGED <<staff, link, open, left, gone, unlocked>>

\* Somebody's work goes to somebody else outside of the active reports.
reassignEmployee(e, r) ==
  /\ hand = Idle /\ staff[e].state # "ABSENT"
  /\ r # e /\ Active(r) /\ r \notin Below(e, Actives)
  /\ hand' = [kind |-> "REASSIGN", e |-> e, to |-> r, reports |-> Reports(e, Actives)]
  /\ UNCHANGED <<staff, link, assigned, open, left, gone, unlocked>>

Moved(e, r, reports) ==
  [x \in Employees |-> IF x = e THEN [staff[x] EXCEPT !.state = "INACTIVE"]
                       ELSE IF x \in reports THEN [staff[x] EXCEPT !.manager = r] ELSE staff[x]]

Reassign ==
  /\ hand.kind = "REASSIGN"
  /\ LET e == hand.e
         r == hand.to
     IN
     /\ staff' = Moved(e, r, hand.reports)
     /\ assigned' = [a \in Assignments |-> IF assigned[a] = e THEN r ELSE assigned[a]]
     /\ link' = [link EXCEPT ![e] = endManagedEmployeeGrants(@),
                             ![r] = provisionManagedEmployeeGrants(@, staff[r].cover, staff[r].linked)]
     /\ left' = left \cup {e}
  /\ hand' = Idle
  /\ UNCHANGED <<open, gone, unlocked>>

(***************************************************************************)
(* Without it.                                                             *)
(***************************************************************************)
Unlocked == unlocked < MaxUnlocked /\ unlocked' = unlocked + 1

\* The row that an update or a reassignment works on is locked by it.
Locked(e) == hand.kind \in {"UPDATE", "REASSIGN"} /\ hand.e = e
Overtakes(e) == IF hand # Idle /\ hand.to = e THEN gone \cup {e} ELSE gone

exceptionDeactivate(e) ==
  /\ staff[e].state # "ABSENT" /\ ~Locked(e)
  /\ staff' = [staff EXCEPT ![e].state = "INACTIVE"]
  /\ link' = [link EXCEPT ![e] = endManagedEmployeeGrants(@)]
  /\ open' = open \cup {e}
  /\ left' = left \cup {e}
  /\ gone' = Overtakes(e)
  /\ Unlocked
  /\ UNCHANGED <<assigned, hand>>

reactivateException(e) ==
  /\ e \in open /\ ~Locked(e)
  /\ staff' = [staff EXCEPT ![e].state = "ACTIVE"]
  /\ link' = [link EXCEPT ![e] = provisionManagedEmployeeGrants(@, staff[e].cover, staff[e].linked)]
  /\ open' = open \ {e}
  /\ UNCHANGED <<assigned, hand, left, gone, unlocked>>

\* The generic create does not ask whether the manager is active.  The id is
\* new.
createRow(e, m, c) ==
  /\ staff[e].state = "ABSENT" /\ ~(hand.kind = "CREATE" /\ hand.e = e)
  /\ m # None => staff[m].state # "ABSENT" /\ ~Locked(m)
  /\ staff' = [staff EXCEPT ![e] = [state |-> "ACTIVE", manager |-> m, cover |-> c, linked |-> FALSE]]
  /\ left' = left \cup {e}
  /\ Unlocked
  /\ UNCHANGED <<link, assigned, open, hand, gone>>

\* Mutant: the generic transition does not look for reports.
FreeAlways(e) == TRUE

FreeOfWork(e) ==
  /\ Reports(e, Actives) = {}
  /\ \A a \in Assignments : assigned[a] # e

transition(e) ==
  /\ staff[e].state # "ABSENT" /\ ~Locked(e)
  /\ \/ /\ Active(e) /\ FreeOfWork(e)
        /\ staff' = [staff EXCEPT ![e].state = "INACTIVE"]
     \/ /\ ~Active(e)
        /\ staff' = [staff EXCEPT ![e].state = "ACTIVE"]
  /\ left' = left \cup {e}
  /\ gone' = Overtakes(e)
  /\ Unlocked
  /\ UNCHANGED <<link, assigned, open, hand>>

Next ==
  \/ \E e \in Employees, m \in Employees \cup {None} : \E c \in Covers[e], l \in {FALSE, (e \in Members)} :
       createEmployee(e, m, c, l) \/ updateEmployee(e, m, c, l)
  \/ Write \/ Assign \/ Reassign
  \/ \E e \in Employees, a \in Assignments : bulkAssignments(a, e)
  \/ \E e, r \in Employees : reassignEmployee(e, r)
  \/ \E e \in Employees : exceptionDeactivate(e) \/ reactivateException(e) \/ transition(e)
  \/ \E e \in Employees, m \in Employees \cup {None} : \E c \in Covers[e] : createRow(e, m, c)

Spec == Init /\ [][Next]_vars

(***************************************************************************)
(* Properties.                                                             *)
(***************************************************************************)
TypeOK ==
  /\ \A e \in Employees : /\ staff[e].state \in {"ABSENT", "ACTIVE", "INACTIVE"}
                          /\ staff[e].manager \in Employees \cup {None}
                          /\ staff[e].cover \subseteq Scopes
                          /\ staff[e].linked \in BOOLEAN
  /\ link \in [Employees -> [Scopes -> {"NONE", "ACTIVE", "INACTIVE"}]]
  /\ assigned \in [Assignments -> Employees \cup {None}]
  /\ open \cup left \cup gone \subseteq Employees
  /\ unlocked <= MaxUnlocked

\* Somebody was deactivated, or created unchecked, on every circle of
\* managers: the pages under the lock close none among people who stayed.
NoCircle == \A e \in Employees \ left : e \notin Below(e, Employees \ left)

\* Whoever stayed reports to somebody active, and an assignment is held by
\* somebody active, unless the deactivation is an open exception or overtook
\* the step that had found the superior active.
NobodyLeftBehind ==
  LET Covered(m) == Active(m) \/ m \in open \cup gone IN
  /\ \A e \in Employees \ left : staff[e].manager # None => Covered(staff[e].manager)
  /\ \A a \in Assignments : assigned[a] # None => Covered(assigned[a])

\* The managed grants somebody holds are for the home and the regions they
\* have now.
GrantsFollowCover ==
  \A e \in Employees, s \in Scopes :
    link[e][s] = "ACTIVE" => s \in staff[e].cover /\ staff[e].linked
================================================================================
