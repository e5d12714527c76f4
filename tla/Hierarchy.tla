------------------------------- MODULE Hierarchy -------------------------------
(***************************************************************************)
(* The organization of a tenant: its legal entities, regions, branches,    *)
(* hubs and teams (app.organization_nodes), the index of who is above whom *)
(* (app.organization_closure) and the authorization scopes that follow the *)
(* tree (app.authorization_scope_nodes).  Two services write them:         *)
(*   masters    modules/canonical/mst01.service.ts, and the move command   *)
(*              of advanced.service.ts.  They hold one advisory lock, so   *)
(*              that each of their handlers is a step.                     *)
(*   generic    the create and transition handlers for any resource, in    *)
(*              canonical.service.ts.  They do not take that lock.         *)
(*                                                                         *)
(* A generic creation is two steps: the insert of the row and the read of  *)
(* the ancestors, which leaves the parent's row share-locked; the commit   *)
(* of the ancestors it read.  Its checks are part of the first: what could *)
(* change between them and the insert is only seen in the new node.        *)
(*                                                                         *)
(* A node has at most one scope of its own in use, and is named like it;   *)
(* whether the scope is active is left out.                                *)
(* expectedVersion and the impact snapshot only make a stale request fail; *)
(* addresses, geofences, dates and the responsibilities that move to a     *)
(* replacement are not here.                                               *)
(***************************************************************************)
EXTENDS Naturals, FiniteSets

CONSTANTS
  Nodes,
  Root,          \* the legal entity the tenant was provisioned with
  Tenant,        \* the tenant's own scope
  None,
  MaxGeneric,    \* bound: generic creations
  MaxUpdates,    \* bound: updates and moves
  MaxClosed      \* bound: nodes that are inactive or have an exception

ASSUME HierarchyAssumption ==
  /\ Root \in Nodes
  /\ Tenant \notin Nodes /\ None \notin Nodes
  /\ MaxGeneric \in Nat /\ MaxUpdates \in Nat
  /\ MaxClosed \in Nat

VARIABLES
  node,       \* app.organization_nodes
  closure,    \* app.organization_closure, without the depths
  own,        \* the scope that carries a node's id
  exception,  \* states of a node's unresolved deactivation exceptions
  creating,   \* a generic creation that is under way
  \* history
  generic,    \* nodes that were created so
  loose,      \* nodes deactivated by an exception or a generic transition
  raced,      \* whether an ancestor ever moved between the steps of a creation
  updates

vars == <<node, closure, own, exception, creating, generic, loose, raced, updates>>
history == <<generic, loose, raced, updates>>

Types == {"LEGAL_ENTITY", "REGION", "BRANCH", "HUB", "TEAM"}
Scoped == {"LEGAL_ENTITY", "REGION", "BRANCH"}
Scopes == Nodes \cup {Tenant}

organizationParentAllowed(type, above) ==
  \/ type = "REGION" /\ above = "LEGAL_ENTITY"
  \/ type = "BRANCH" /\ above = "REGION"
  \/ type = "HUB" /\ above \in {"REGION", "BRANCH"}
  \/ type = "TEAM" /\ above \in {"BRANCH", "HUB"}

Node == [type : Types \cup {"NONE"}, parent : Nodes \cup {None},
         state : {"ACTIVE", "INACTIVE"}, scope : Scopes]
Scope == [type : Scoped \cup {"NONE"}, under : Scopes]
Creation == [open : {"yes", "no"}, node : Nodes,
             row : Node, above : SUBSET Nodes]

NoNode == [type |-> "NONE", parent |-> None, state |-> "ACTIVE", scope |-> Tenant]
NoScope == [type |-> "NONE", under |-> Tenant]
NoCreation == [open |-> "no", node |-> Root, row |-> NoNode, above |-> {}]

Init ==
  /\ node = [n \in Nodes |-> IF n = Root
       THEN [type |-> "LEGAL_ENTITY", parent |-> None, state |-> "ACTIVE", scope |-> Root] ELSE NoNode]
  /\ closure = {<<Root, Root>>}
  /\ own = [n \in Nodes |-> IF n = Root
       THEN [type |-> "LEGAL_ENTITY", under |-> Tenant] ELSE NoScope]
  /\ exception = [n \in Nodes |-> {}]
  /\ creating = NoCreation
  /\ generic = {} /\ loose = {} /\ raced = FALSE /\ updates = 0

Exists(n) == node[n].type # "NONE"
ActiveNode(n) == Exists(n) /\ node[n].state = "ACTIVE"

\* By the index: a node's ancestors and its descendants, itself included.
Above(d) == {a \in Nodes : <<a, d>> \in closure}
Below(n) == {d \in Nodes : <<n, d>> \in closure}

\* Bound: few nodes are closed at a time.
Closes(n) ==
  Cardinality({m \in Nodes : node[m].state = "INACTIVE" \/ exception[m] # {}} \cup {n}) <= MaxClosed

\* A row that a creation refers to cannot be locked for an update.
Free(n) == creating.open = "yes" => creating.row.parent # n

\* The trigger on authorization_scope_nodes.
ScopeMayBeUnder(type, under) ==
  \/ type = "LEGAL_ENTITY" /\ under = Tenant
  \/ type = "REGION" /\ under = Tenant
  \/ type = "REGION" /\ under \in Nodes /\ own[under].type = "LEGAL_ENTITY"
  \/ type = "BRANCH" /\ under \in Nodes /\ own[under].type \in {"LEGAL_ENTITY", "REGION"}

ScopeAbove(p) == IF p = None THEN Tenant ELSE node[p].scope

\* assertParent, and that legal entities are the roots.
ParentOK(type, p) ==
  /\ type = "LEGAL_ENTITY" <=> p = None
  /\ p # None => ActiveNode(p) /\ organizationParentAllowed(type, node[p].type)

(***************************************************************************)
(* Masters.                                                                *)
(***************************************************************************)
createOrganization(n, type, p) ==
  LET above == ScopeAbove(p) IN
  /\ ~Exists(n) /\ creating.node # n
  /\ ParentOK(type, p)
  /\ type \in Scoped => ScopeMayBeUnder(type, above)
  /\ node' = [node EXCEPT ![n] = [type |-> type, parent |-> p, state |-> "ACTIVE",
                                  scope |-> IF type \in Scoped THEN n ELSE above]]
  /\ own' = IF type \in Scoped
       THEN [own EXCEPT ![n] = [type |-> type, under |-> above]] ELSE own
  /\ closure' = closure \cup {<<n, n>>} \cup
       (IF p = None THEN {} ELSE {<<a, n>> : a \in Above(p)})
  /\ UNCHANGED <<exception, creating, history>>

\* The rows of a subtree that moves: those of its old ancestors go, those of
\* its new ones come.
Kept(moved) == {r \in closure : r[2] \in moved => r[1] \in moved}

\* Mutant: only the node itself gets its new ancestors.
MovedAlone(n, p) ==
  Kept(Below(n)) \cup (IF p = None THEN {} ELSE (Above(p) \ Below(n)) \X {n})

Moved(n, p) ==
  LET moved == Below(n) IN
  Kept(moved) \cup (IF p = None THEN {} ELSE (Above(p) \ moved) \X moved)

MayMove(n, p) == p # n /\ p \notin Below(n)

(***************************************************************************)
(* app.reconcile_organization_subtree_scopes goes down the subtree: a node *)
(* of a scoped type has a scope of its own, under that of its parent, any  *)
(* other node that of its parent.  rows and scopes are what the update     *)
(* left; parents come before their children, so that what a node takes     *)
(* from its parent is settled.                                             *)
(***************************************************************************)
Settled(rows, moved) ==
  LET settled[d \in Nodes] ==
        IF d \in moved /\ rows[d].type \in Scoped THEN d
        ELSE IF d \in moved /\ rows[d].parent # None THEN settled[rows[d].parent]
        ELSE rows[d].scope
  IN settled

\* Mutant: the scopes below the node stay as they are.
ReconcileAlone(rows, scopes, moved, n) == <<rows, scopes>>

Reconcile(rows, scopes, moved, n) ==
  LET settled == Settled(rows, moved) IN
  << [d \in Nodes |-> [rows[d] EXCEPT !.scope = settled[d]]],
     [d \in Nodes |->
        IF d \notin moved THEN scopes[d]
        ELSE IF rows[d].type \in Scoped
          THEN [type |-> rows[d].type,
                under |-> IF rows[d].type = "LEGAL_ENTITY" \/ rows[d].parent = None
                            THEN Tenant ELSE settled[rows[d].parent]]
          ELSE scopes[d]] >>

\* The trigger may refuse a scope that is reconciled, and with it the update.
ScopesMayBe(rows, scopes, moved) ==
  \A d \in moved : rows[d].type \in Scoped =>
    LET under == scopes[d].under IN
    \/ rows[d].type = "LEGAL_ENTITY"
    \/ rows[d].type = "REGION" /\ under = Tenant
    \/ rows[d].type = "REGION" /\ under # Tenant /\ scopes[under].type = "LEGAL_ENTITY"
    \/ rows[d].type = "BRANCH" /\ under # Tenant /\ scopes[under].type \in {"LEGAL_ENTITY", "REGION"}

\* The scope of the node itself, before anything is reconciled.  A node that
\* becomes scoped takes a new code if it had such a scope before.
Rescoped(n, type, above) ==
  IF type \in Scoped
    THEN [own EXCEPT ![n] = [type |-> type, under |-> above]] ELSE own

\* Only a changed parent or a given type make it reconcile.
updateOrganization(n, type, p, given) ==
  LET above == ScopeAbove(p)
      parentChanged == p # node[n].parent
      index == IF parentChanged THEN Moved(n, p) ELSE closure
      moved == {d \in Nodes : <<n, d>> \in index}
      rows == [node EXCEPT ![n] = [@ EXCEPT !.type = type, !.parent = p,
                                            !.scope = IF type \in Scoped THEN n ELSE above]]
      after == IF parentChanged \/ given THEN Reconcile(rows, Rescoped(n, type, above), moved, n)
                                         ELSE <<rows, Rescoped(n, type, above)>>
  IN
  /\ updates < MaxUpdates
  /\ Exists(n) /\ Free(n)
  /\ type # node[n].type => given
  /\ MayMove(n, p)
  /\ ParentOK(type, p)
  /\ type # node[n].type =>
       \A d \in Nodes : Exists(d) /\ node[d].parent = n => organizationParentAllowed(node[d].type, type)
  /\ type \in Scoped => ScopeMayBeUnder(type, above)
  /\ parentChanged \/ given => ScopesMayBe(after[1], after[2], moved)
  /\ node' = after[1]
  /\ own' = after[2]
  /\ closure' = index
  /\ raced' = (raced \/ (parentChanged /\ n \in creating.above))
  /\ updates' = updates + 1
  /\ UNCHANGED <<exception, creating, generic, loose>>

moveOrganization(n, p) == updateOrganization(n, node[n].type, p, TRUE)

\* Mutant: what is below the node is left where it is.
MayCloseAnyhow(n) == TRUE

MayClose(n) == Below(n) \subseteq {n}

\* What the node is responsible for moves to r.
reassignDeactivateOrganization(n, r) ==
  /\ Exists(n) /\ Free(n) /\ ActiveNode(r) /\ Free(r)
  /\ n # r /\ node[n].type = node[r].type
  /\ Closes(n)
  /\ MayClose(n)
  /\ node' = [node EXCEPT ![n].state = "INACTIVE"]
  /\ loose' = loose \ {n}
  /\ UNCHANGED <<closure, own, exception, creating, generic, raced, updates>>

\* Whatever depends on the node, and whatever its state; but not twice.
exceptionDeactivate(n) ==
  /\ Exists(n) /\ Free(n) /\ Closes(n)
  /\ "OPEN" \notin exception[n]
  /\ exception' = [exception EXCEPT ![n] = @ \cup {"OPEN"}]
  /\ node' = [node EXCEPT ![n].state = "INACTIVE"]
  /\ loose' = loose \cup {n}
  /\ UNCHANGED <<closure, own, creating, generic, raced, updates>>

ExceptionExpires(n) ==
  /\ "OPEN" \in exception[n]
  /\ exception' = [exception EXCEPT ![n] = {"EXPIRED"}]
  /\ UNCHANGED <<node, closure, own, creating, history>>

\* Under a lock of its own.  Neither the parent nor the scope is looked at.
reactivateException(n, e) ==
  /\ e \in exception[n]
  /\ exception' = [exception EXCEPT ![n] = @ \ {e}]
  /\ node' = [node EXCEPT ![n].state = "ACTIVE"]
  /\ loose' = loose \ {n}
  /\ UNCHANGED <<closure, own, creating, generic, raced, updates>>

(***************************************************************************)
(* Generic.                                                                *)
(***************************************************************************)
\* Any type under any active node.  No scope is created: the node takes the
\* parent's; one that is asked for instead is left out.
InsertCreation(n, type, p) ==
  /\ Cardinality(generic) < MaxGeneric
  /\ creating.open = "no" /\ ~Exists(n)
  /\ p # None => ActiveNode(p)
  /\ creating' = [open |-> "yes", node |-> n,
                  row |-> [type |-> type, parent |-> p, state |-> "ACTIVE", scope |-> ScopeAbove(p)],
                  above |-> IF p = None THEN {} ELSE Above(p)]
  /\ UNCHANGED <<node, closure, own, exception, history>>

CommitCreation ==
  LET n == creating.node IN
  /\ creating.open = "yes"
  /\ node' = [node EXCEPT ![n] = creating.row]
  /\ closure' = closure \cup {<<n, n>>} \cup (creating.above \X {n})
  /\ creating' = NoCreation
  /\ generic' = generic \cup {n}
  /\ UNCHANGED <<own, exception, loose, raced, updates>>

RollbackCreation ==
  /\ creating.open = "yes"
  /\ creating' = NoCreation
  /\ UNCHANGED <<node, closure, own, exception, history>>

\* Only employees and locations hold up a deactivation.
transition(n) ==
  /\ Exists(n) /\ Free(n)
  /\ \/ /\ node[n].state = "ACTIVE" /\ Closes(n)
        /\ node' = [node EXCEPT ![n].state = "INACTIVE"] /\ loose' = loose \cup {n}
     \/ /\ node[n].state = "INACTIVE"
        /\ node' = [node EXCEPT ![n].state = "ACTIVE"] /\ loose' = loose \ {n}
  /\ UNCHANGED <<closure, own, exception, creating, generic, raced, updates>>

-----------------------------------------------------------------------------
Parents == Nodes \cup {None}

NodeNext(n) ==
  \/ \E type \in Types, p \in Parents :
        \/ createOrganization(n, type, p)
        \/ \E given \in BOOLEAN : updateOrganization(n, type, p, given)
        \/ InsertCreation(n, type, p)
  \/ \E p \in Parents : moveOrganization(n, p)
  \/ \E r \in Nodes : reassignDeactivateOrganization(n, r)
  \/ exceptionDeactivate(n) \/ ExceptionExpires(n) \/ transition(n)
  \/ \E e \in {"OPEN", "EXPIRED"} : reactivateException(n, e)

Next ==
  \/ \E n \in Nodes : NodeNext(n)
  \/ CommitCreation \/ RollbackCreation

Spec == Init /\ [][Next]_vars

-----------------------------------------------------------------------------
(* Properties                                                              *)

TypeOK ==
  /\ node \in [Nodes -> Node]
  /\ closure \in SUBSET (Nodes \X Nodes)
  /\ own \in [Nodes -> Scope]
  /\ exception \in [Nodes -> SUBSET {"OPEN", "EXPIRED"}]
  /\ creating \in Creation
  /\ generic \in SUBSET Nodes /\ loose \in SUBSET Nodes
  /\ raced \in BOOLEAN
  /\ updates \in 0 .. MaxUpdates

\* The index agrees with the tree after any number of moves of whole
\* subtrees: what is above a node is the node and what is above its parent.
\* Unless a node was created the generic way across a move.
ClosureIsAncestry ==
  raced \/ \A d \in Nodes : Exists(d) =>
    /\ Above(d) = {d} \cup (IF node[d].parent = None THEN {} ELSE Above(node[d].parent))
    /\ node[d].parent # None => d \notin Above(node[d].parent)

\* Whoever may work in a node's scope may do so in what is below it: a legal
\* entity, region or branch has a scope of its own, under that of its
\* parent, and a hub or team that of its parent, as long as no node above it
\* was created the generic way.
ScopesFollowHierarchy ==
  \A d \in Nodes : Exists(d) /\ Above(d) \cap generic = {} =>
    LET above == ScopeAbove(node[d].parent) IN
    IF node[d].type \in Scoped THEN node[d].scope = d /\ own[d].under = above
                               ELSE node[d].scope = above

\* An inactive node has no active child, unless it was deactivated by an
\* exception or a generic transition, or the child created the generic way;
\* once a creation has raced with a move, later moves can take a child from
\* the index that the tree still has.
NoOrphans ==
  raced \/ \A d \in Nodes : ActiveNode(d) /\ node[d].parent # None =>
    \/ node[node[d].parent].state = "ACTIVE"
    \/ node[d].parent \in loose
    \/ d \in generic
=============================================================================
