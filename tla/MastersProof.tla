---------------------------- MODULE MastersProof ----------------------------
(***************************************************************************)
(* Proofs about the masters of a tenant, for any number of nodes,          *)
(* employees, files and links, and any bounds.  A behaviour of MCMasters   *)
(* is one of a single component, so each has an invariant of its own.      *)
(*                                                                         *)
(* Hierarchy: the index of ancestors agrees with the tree, and no node is  *)
(* left below an inactive one, unless a node was created the generic way   *)
(* across a move.  That each node's rows are its own and its parent's does *)
(* not say by itself what lies further up, and a move cuts the index along *)
(* a whole subtree.  So the invariant adds that the index is transitive    *)
(* and antisymmetric, and that a creation under way still knows the        *)
(* ancestors of its parent.  Then what lies below a node in the index is   *)
(* what takes its scope from there, and reconciling it settles the scopes  *)
(* of everything that moved.                                               *)
(*                                                                         *)
(* Employees: managers form no circle.  What is below somebody is the      *)
(* least group of people that has those he manages and those whom anyone   *)
(* in it manages, so nobody gets below himself when he, or his reports,    *)
(* get a manager from outside that group.  The invariant adds what the     *)
(* request under way found: the manager it is about to write stands        *)
(* outside the group, is active or has been noticed to go since, and the   *)
(* reports it is about to move are all the reports there are.              *)
(*                                                                         *)
(* Imports: versions count what the rows of committed files say.  A commit *)
(* under way already holds its records, so the invariant counts what its   *)
(* rows say beside the versions they have, and no two commits hold the     *)
(* same record or file.                                                    *)
(*                                                                         *)
(* Passwords: a link that is live is younger than the last password, an    *)
(* administrator's link to a user is the only one, and the links that a    *)
(* user asked for are counted for every window at once.                    *)
(*                                                                         *)
(* OwnerInvitation: a link is in one place at a time.  What was mailed of  *)
(* a token, what the queue holds of it and the instances that may yet mail *)
(* it or put it back are together one, and one more for each record made   *)
(* under somebody else's lease, which is what can put a link back into the *)
(* queue that its holder still carries.                                    *)
(***************************************************************************)
EXTENDS MCMasters, FiniteSetTheorems, TLAPS

Living == {d \in Nodes : Exists(d)}
Up == [d \in Nodes |-> node[d].parent]

(***************************************************************************)
(* R is the index of the tree of the nodes S under their parents up.       *)
(***************************************************************************)
IsIndex(S, up, R) ==
  /\ \A d \in S : up[d] = None \/ up[d] \in S
  /\ \A a, d \in Nodes : <<a, d>> \in R => a \in S /\ d \in S

IsTree(S, up, R) ==
  /\ \A d \in S : \A a \in Nodes : <<a, d>> \in R <=> a = d \/ (up[d] # None /\ <<a, up[d]>> \in R)
  /\ \A d \in S : up[d] # None => <<d, up[d]>> \notin R
  /\ \A a, b, c \in Nodes : <<a, b>> \in R /\ <<b, c>> \in R => <<a, c>> \in R
  /\ \A a, b \in Nodes : <<a, b>> \in R /\ <<b, a>> \in R => a = b

AboveIn(R, p) == IF p = None THEN {} ELSE {a \in Nodes : <<a, p>> \in R}
BelowIn(R, n) == {d \in Nodes : <<n, d>> \in R}
GrownBy(R, n, U) == R \cup {<<n, n>>} \cup (U \X {n})
MovedIn(R, n, p) ==
  {r \in R : r[2] \in BelowIn(R, n) => r[1] \in BelowIn(R, n)} \cup
  (IF p = None THEN {} ELSE (AboveIn(R, p) \ BelowIn(R, n)) \X BelowIn(R, n))

Fields(r) ==
  /\ r = [type |-> r.type, parent |-> r.parent, state |-> r.state, scope |-> r.scope]
  /\ r.type \in Types \cup {"NONE"} /\ r.state \in {"ACTIVE", "INACTIVE"}

Shapes ==
  /\ node = [d \in Nodes |-> node[d]]
  /\ \A d \in Nodes : Fields(node[d]) /\ node[d].parent \in Nodes \cup {None}
  /\ closure \in SUBSET (Nodes \X Nodes)
  /\ creating.open \in {"yes", "no"}
  /\ creating.open = "yes" =>
       /\ creating.node \in Nodes /\ creating.row.parent \in Nodes \cup {None}
       /\ Fields(creating.row) /\ creating.row.type # "NONE"

\* Only nodes that exist have rows or children, and so will those of a
\* creation under way.
Peopled ==
  /\ IsIndex(Living, Up, closure)
  /\ creating.open = "yes" =>
       /\ creating.node \notin Living
       /\ creating.row.parent = None \/ creating.row.parent \in Living
       /\ creating.above \in SUBSET Living

\* A creation under way knows the ancestors of its parent.
Awaiting == creating.open = "yes" => creating.above = AboveIn(closure, creating.row.parent)

\* Whatever the state of the node: nothing below it would have let it close.
Sheltered ==
  \A d \in Nodes : Exists(d) /\ node[d].parent # None =>
    \/ node[node[d].parent].state # "INACTIVE"
    \/ node[d].parent \in loose
    \/ d \in generic

IInv == Shapes /\ Peopled /\ (raced \/ (IsTree(Living, Up, closure) /\ Awaiting /\ Sheltered))

-----------------------------------------------------------------------------
(* Trees that grow and move                                                *)

LEMMA GrownIndex ==
  ASSUME NEW S \in SUBSET Nodes, NEW up \in [Nodes -> Nodes \cup {None}], NEW R \in SUBSET (Nodes \X Nodes),
         IsIndex(S, up, R), NEW n \in Nodes \ S, NEW p \in S \cup {None}, NEW U \in SUBSET S
  PROVE  IsIndex(S \cup {n}, [up EXCEPT ![n] = p], GrownBy(R, n, U))
  BY DEF IsIndex, GrownBy

LEMMA GrownTree ==
  ASSUME NEW S \in SUBSET Nodes, NEW up \in [Nodes -> Nodes \cup {None}], NEW R \in SUBSET (Nodes \X Nodes),
         IsIndex(S, up, R), IsTree(S, up, R), NEW n \in Nodes \ S, NEW p \in S \cup {None}
  PROVE  IsTree(S \cup {n}, [up EXCEPT ![n] = p], GrownBy(R, n, AboveIn(R, p)))
  <1> DEFINE Q == GrownBy(R, n, AboveIn(R, p))
             to == [up EXCEPT ![n] = p]
  <1>1. \A a, d \in Nodes : <<a, d>> \in Q <=>
          <<a, d>> \in R \/ (d = n /\ (a = n \/ (p # None /\ <<a, p>> \in R)))
    BY DEF GrownBy, AboveIn
  <1>2. \A a \in Nodes : <<a, n>> \notin R /\ <<n, a>> \notin R
    BY DEF IsIndex
  <1>3. to[n] = p /\ \A d \in S : to[d] = up[d] /\ d # n /\ up[d] # n
    BY HierarchyAssumption DEF IsIndex
  <1> HIDE DEF Q, to
  <1>4. p # n
    BY HierarchyAssumption
  <1>5. \A d \in S : \A a \in Nodes : <<a, d>> \in Q <=> <<a, d>> \in R
    BY <1>1
  <1>6. ASSUME NEW d \in S \cup {n}
        PROVE  /\ \A a \in Nodes : <<a, d>> \in Q <=> a = d \/ (to[d] # None /\ <<a, to[d]>> \in Q)
               /\ to[d] # None => <<d, to[d]>> \notin Q
    <2>1. CASE d = n
      BY <1>1, <1>2, <1>3, <1>4, <1>5, <2>1
    <2>2. CASE d # n
      BY <1>3, <1>5, <2>2 DEF IsTree, IsIndex
    <2> QED
      BY <2>1, <2>2
  <1>7. ASSUME NEW a \in Nodes, NEW b \in Nodes, NEW c \in Nodes, <<a, b>> \in Q, <<b, c>> \in Q
        PROVE  <<a, c>> \in Q
    <2>1. CASE b = n
      BY <1>1, <1>2, <1>4, <1>7, <2>1
    <2>2. CASE b # n /\ c = n
      <3>1. <<a, b>> \in R /\ p # None /\ <<b, p>> \in R
        BY <1>1, <1>2, <1>7, <2>2
      <3>2. <<a, p>> \in R
        BY <3>1 DEF IsTree
      <3> QED
        BY <1>1, <2>2, <3>1, <3>2
    <2>3. CASE b # n /\ c # n
      <3>1. <<a, b>> \in R /\ <<b, c>> \in R
        BY <1>1, <1>7, <2>3
      <3>2. <<a, c>> \in R
        BY <3>1 DEF IsTree
      <3> QED
        BY <1>1, <3>2
    <2> QED
      BY <2>1, <2>2, <2>3
  <1>8. ASSUME NEW a \in Nodes, NEW b \in Nodes, <<a, b>> \in Q, <<b, a>> \in Q
        PROVE  a = b
    <2>1. CASE a = n \/ b = n
      <3>1. \A d \in Nodes : <<n, d>> \in Q => d = n
        BY <1>1, <1>2
      <3> QED
        BY <1>8, <2>1, <3>1
    <2>2. CASE a # n /\ b # n
      <3>1. <<a, b>> \in R /\ <<b, a>> \in R
        BY <1>1, <1>8, <2>2
      <3> QED
        BY <3>1 DEF IsTree
    <2> QED
      BY <2>1, <2>2
  <1> QED
    BY <1>6, <1>7, <1>8 DEF IsTree, Q, to

LEMMA MovedRows ==
  ASSUME NEW R \in SUBSET (Nodes \X Nodes), NEW n \in Nodes, NEW p \in Nodes \cup {None}
  PROVE  /\ MovedIn(R, n, p) \in SUBSET (Nodes \X Nodes)
         /\ \A a, d \in Nodes : <<a, d>> \in MovedIn(R, n, p) <=>
              \/ <<a, d>> \in R /\ (<<n, d>> \in R => <<n, a>> \in R)
              \/ p # None /\ <<n, d>> \in R /\ <<a, p>> \in R /\ <<n, a>> \notin R
  BY DEF MovedIn, AboveIn, BelowIn

LEMMA MovedIndex ==
  ASSUME NEW S \in SUBSET Nodes, NEW up \in [Nodes -> Nodes \cup {None}], NEW R \in SUBSET (Nodes \X Nodes),
         IsIndex(S, up, R), NEW n \in S, NEW p \in S \cup {None}
  PROVE  IsIndex(S, [up EXCEPT ![n] = p], MovedIn(R, n, p))
  <1>1. p \in Nodes \cup {None}
    OBVIOUS
  <1>2. \A a, d \in Nodes : <<a, d>> \in MovedIn(R, n, p) <=>
              \/ <<a, d>> \in R /\ (<<n, d>> \in R => <<n, a>> \in R)
              \/ p # None /\ <<n, d>> \in R /\ <<a, p>> \in R /\ <<n, a>> \notin R
    BY <1>1, MovedRows, Zenon
  <1> QED
    BY <1>2 DEF IsIndex

LEMMA MovedTree ==
  ASSUME NEW S \in SUBSET Nodes, NEW up \in [Nodes -> Nodes \cup {None}], NEW R \in SUBSET (Nodes \X Nodes),
         IsIndex(S, up, R), IsTree(S, up, R), NEW n \in S, NEW p \in S \cup {None},
         p # None => <<n, p>> \notin R
  PROVE  IsTree(S, [up EXCEPT ![n] = p], MovedIn(R, n, p))
  <1> DEFINE Q == MovedIn(R, n, p)
             to == [up EXCEPT ![n] = p]
  <1>1. \A a, d \in Nodes : <<a, d>> \in Q <=>
              \/ <<a, d>> \in R /\ (<<n, d>> \in R => <<n, a>> \in R)
              \/ p # None /\ <<n, d>> \in R /\ <<a, p>> \in R /\ <<n, a>> \notin R
    <2>1. p \in Nodes \cup {None}
      OBVIOUS
    <2> QED
      BY <2>1, MovedRows, Zenon
  <1>2. to[n] = p /\ \A d \in S \ {n} : to[d] = up[d]
    OBVIOUS
  <1> HIDE DEF Q, to
  <1>3. <<n, n>> \in R
    BY DEF IsTree
  <1>4. \A a, d \in Nodes : <<n, d>> \notin R => (<<a, d>> \in Q <=> <<a, d>> \in R)
    BY <1>1
  <1>5. \A a \in Nodes : <<a, n>> \in Q <=> a = n \/ (p # None /\ <<a, p>> \in R)
    BY <1>1, <1>3 DEF IsTree
  <1>6. ASSUME NEW d \in S
        PROVE  /\ \A a \in Nodes : <<a, d>> \in Q <=> a = d \/ (to[d] # None /\ <<a, to[d]>> \in Q)
               /\ to[d] # None => <<d, to[d]>> \notin Q
    <2>1. CASE d = n
      BY <1>2, <1>3, <1>4, <1>5, <2>1 DEF IsTree
    <2>2. CASE d # n /\ <<n, d>> \notin R
      <3>1. to[d] = up[d] /\ (up[d] # None => up[d] \in Nodes /\ <<n, up[d]>> \notin R)
        BY <1>2, <2>2 DEF IsTree, IsIndex
      <3> QED
        BY <1>4, <2>2, <3>1 DEF IsTree
    <2>3. CASE d # n /\ <<n, d>> \in R
      <3>1. to[d] = up[d] /\ up[d] \in Nodes /\ up[d] # None /\ <<n, up[d]>> \in R
        BY <1>2, <2>3, HierarchyAssumption DEF IsTree, IsIndex
      <3>2. \A a \in Nodes : <<a, d>> \in R <=> a = d \/ <<a, up[d]>> \in R
        BY <3>1 DEF IsTree
      <3>3. <<d, up[d]>> \notin R
        BY <3>1 DEF IsTree
      <3> QED
        BY <1>1, <2>3, <3>1, <3>2, <3>3
    <2> QED
      BY <2>1, <2>2, <2>3
  <1>7. ASSUME NEW a \in Nodes, NEW b \in Nodes, NEW c \in Nodes, <<a, b>> \in Q, <<b, c>> \in Q
        PROVE  <<a, c>> \in Q
    BY <1>1, <1>7 DEF IsTree
  <1>8. ASSUME NEW a \in Nodes, NEW b \in Nodes, <<a, b>> \in Q, <<b, a>> \in Q
        PROVE  a = b
    BY <1>1, <1>8 DEF IsTree
  <1> QED
    BY <1>6, <1>7, <1>8 DEF IsTree, Q, to

-----------------------------------------------------------------------------
(* The first state, and steps that leave the tree as it is                 *)

LEMMA InitIInv == Init => IInv
  <1> SUFFICES ASSUME Init PROVE IInv
    OBVIOUS
  <1>1. /\ node[Root] = [type |-> "LEGAL_ENTITY", parent |-> None, state |-> "ACTIVE", scope |-> Root]
        /\ \A d \in Nodes \ {Root} : node[d] = NoNode
    BY HierarchyAssumption DEF Init
  <1>2. creating.open = "no" /\ closure = {<<Root, Root>>} /\ node = [d \in Nodes |-> node[d]]
    BY DEF Init, NoCreation
  <1>3. Shapes
    BY <1>1, <1>2, HierarchyAssumption DEF Shapes, Fields, NoNode, Types
  <1>4. Living = {Root} /\ Up = [d \in Nodes |-> None]
    BY <1>1, HierarchyAssumption DEF Living, Up, Exists, NoNode
  <1>5. IsIndex(Living, Up, closure) /\ IsTree(Living, Up, closure)
    BY <1>2, <1>4, HierarchyAssumption DEF IsIndex, IsTree
  <1>6. Awaiting /\ Sheltered
    BY <1>1, <1>2, HierarchyAssumption DEF Awaiting, Sheltered, Exists, NoNode
  <1> QED
    BY <1>2, <1>3, <1>5, <1>6 DEF IInv, Peopled

\* What the states of nodes and the rows of exceptions are is no matter of the tree.
LEMMA TreeStays ==
  ASSUME IInv, UNCHANGED <<closure, raced>>,
         node' = [d \in Nodes |-> node'[d]],
         \A d \in Nodes : Fields(node'[d]) /\ node'[d].type = node[d].type /\ node'[d].parent = node[d].parent,
         creating' = creating \/ creating'.open = "no",
         raced \/ Sheltered'
  PROVE  IInv'
  <1>1. Living' = Living /\ Up' = Up
    BY DEF Living, Up, Exists
  <1>2. Shapes'
    BY DEF IInv, Shapes, Fields
  <1>3. IsIndex(Living, Up, closure)' /\ (raced \/ IsTree(Living, Up, closure)')
    BY <1>1 DEF IInv, Peopled, IsIndex, IsTree
  <1>4. Peopled'
    BY <1>1, <1>3 DEF IInv, Peopled
  <1>5. raced \/ Awaiting'
    BY DEF IInv, Awaiting, AboveIn
  <1> QED
    BY <1>2, <1>3, <1>4, <1>5 DEF IInv

LEMMA StateChanges ==
  ASSUME IInv, NEW n \in Nodes, NEW state \in {"ACTIVE", "INACTIVE"}, node' = [node EXCEPT ![n].state = state]
  PROVE  /\ node' = [d \in Nodes |-> node'[d]]
         /\ \A d \in Nodes : Fields(node'[d]) /\ node'[d].type = node[d].type /\ node'[d].parent = node[d].parent
         /\ node'[n].state = state
         /\ \A d \in Nodes \ {n} : node'[d] = node[d]
         /\ node'[n].scope = node[n].scope
  <1>1. /\ node' = [d \in Nodes |-> node'[d]]
        /\ \A d \in Nodes \ {n} : node'[d] = node[d]
        /\ node'[n] = [node[n] EXCEPT !.state = state]
    BY DEF IInv, Shapes
  <1>2. node[n] = [type |-> node[n].type, parent |-> node[n].parent, state |-> node[n].state, scope |-> node[n].scope]
    BY DEF IInv, Shapes, Fields
  <1>3. node'[n] = [type |-> node[n].type, parent |-> node[n].parent, state |-> state, scope |-> node[n].scope]
    BY <1>1, <1>2
  <1>4. /\ Fields(node'[n]) /\ node'[n].type = node[n].type /\ node'[n].parent = node[n].parent
        /\ node'[n].state = state /\ node'[n].scope = node[n].scope
    BY <1>3 DEF Fields, IInv, Shapes
  <1> QED
    BY <1>1, <1>4 DEF IInv, Shapes

\* Nobody is left without shelter by a node that becomes active, or whose
\* deactivation is remembered as loose, or that has no child.
LEMMA ShelterStays ==
  ASSUME IInv, ~raced, NEW n \in Nodes, NEW state \in {"ACTIVE", "INACTIVE"},
         node' = [node EXCEPT ![n].state = state], UNCHANGED generic,
         loose \ {n} \subseteq loose',
         \/ state = "ACTIVE"
         \/ n \in loose'
         \/ \A d \in Living : node[d].parent # n
  PROVE  Sheltered'
  <1>1. /\ \A d \in Nodes : node'[d].type = node[d].type /\ node'[d].parent = node[d].parent
        /\ node'[n].state = state
        /\ \A d \in Nodes \ {n} : node'[d] = node[d]
    BY StateChanges
  <1>2. \A d \in Nodes : node[d].parent \in Nodes \cup {None}
    BY DEF IInv, Shapes
  <1> SUFFICES ASSUME NEW d \in Nodes, Exists(d), node[d].parent # None
               PROVE  \/ node'[node[d].parent].state # "INACTIVE"
                      \/ node[d].parent \in loose'
                      \/ d \in generic'
    BY <1>1 DEF Sheltered, Exists
  <1>3. CASE node[d].parent = n
    BY <1>1, <1>3 DEF Living
  <1>4. CASE node[d].parent # n
    BY <1>1, <1>2, <1>4 DEF IInv, Sheltered
  <1> QED
    BY <1>3, <1>4

\* Whoever has nothing below has no child.
LEMMA ClosedIsChildless ==
  ASSUME IInv, ~raced, NEW n \in Nodes, Exists(n), MayClose(n)
  PROVE  \A d \in Living : node[d].parent # n
  <1> SUFFICES ASSUME NEW d \in Living, node[d].parent = n PROVE FALSE
    OBVIOUS
  <1>1. IsTree(Living, Up, closure) /\ n \in Living /\ Up[d] = n /\ n # None
    BY HierarchyAssumption DEF IInv, Living, Up
  <1>2. <<n, n>> \in closure /\ <<n, d>> \in closure
    BY <1>1 DEF IsTree, Living
  <1>3. d = n
    BY <1>2 DEF MayClose, Below, Living
  <1> QED
    BY <1>1, <1>2, <1>3 DEF IsTree

LEMMA ReassignStep ==
  ASSUME IInv, NEW n \in Nodes, NEW r \in Nodes, reassignDeactivateOrganization(n, r)
  PROVE  IInv'
  <1>1. /\ node' = [node EXCEPT ![n].state = "INACTIVE"] /\ UNCHANGED <<closure, creating, generic, raced>>
        /\ loose' = loose \ {n} /\ Exists(n) /\ MayClose(n)
    BY DEF reassignDeactivateOrganization
  <1>2. raced \/ Sheltered'
    BY <1>1, ClosedIsChildless, ShelterStays
  <1> QED
    BY <1>1, <1>2, StateChanges, TreeStays

LEMMA StateSteps ==
  ASSUME IInv, NEW n \in Nodes,
         exceptionDeactivate(n) \/ transition(n) \/ \E e \in {"OPEN", "EXPIRED"} : reactivateException(n, e)
  PROVE  IInv'
  <1>1. /\ \/ node' = [node EXCEPT ![n].state = "INACTIVE"] /\ loose' = loose \cup {n}
           \/ node' = [node EXCEPT ![n].state = "ACTIVE"] /\ loose' = loose \ {n}
        /\ UNCHANGED <<closure, creating, generic, raced>>
    BY DEF exceptionDeactivate, transition, reactivateException
  <1>2. raced \/ Sheltered'
    BY <1>1, ShelterStays
  <1> QED
    BY <1>1, <1>2, StateChanges, TreeStays

LEMMA StutterSteps ==
  ASSUME IInv, UNCHANGED vars \/ RollbackCreation \/ \E n \in Nodes : ExceptionExpires(n)
  PROVE  IInv'
  <1>1. UNCHANGED <<node, closure, generic, loose, raced>>
    BY DEF vars, RollbackCreation, ExceptionExpires, history
  <1>2. creating' = creating \/ creating'.open = "no"
    BY DEF vars, RollbackCreation, ExceptionExpires, NoCreation
  <1>3. raced \/ Sheltered'
    BY <1>1 DEF IInv, Sheltered, Exists
  <1> QED
    BY <1>1, <1>2, <1>3, TreeStays DEF IInv, Shapes

-----------------------------------------------------------------------------
(* Creations                                                               *)

LEMMA InsertStep ==
  ASSUME IInv, NEW n \in Nodes, NEW type \in Types, NEW p \in Parents, InsertCreation(n, type, p)
  PROVE  IInv'
  <1>1. /\ creating'.open = "yes" /\ creating'.node = n
        /\ creating'.row = [type |-> type, parent |-> p, state |-> "ACTIVE", scope |-> ScopeAbove(p)]
        /\ creating'.above = IF p = None THEN {} ELSE Above(p)
        /\ UNCHANGED <<node, closure, loose, generic, raced>>
        /\ ~Exists(n) /\ (p # None => ActiveNode(p))
    BY DEF InsertCreation, history
  <1>2. /\ creating'.row.parent = p /\ creating'.row.type = type /\ Fields(creating'.row) /\ type # "NONE"
        /\ p \in Nodes \cup {None}
    BY <1>1 DEF Fields, Types, Parents
  <1>3. Shapes'
    BY <1>1, <1>2 DEF IInv, Shapes, Fields
  <1>4. Living' = Living /\ Up' = Up
    BY <1>1 DEF Living, Up, Exists
  <1>5. creating'.above = AboveIn(closure, p)
    BY <1>1 DEF AboveIn, Above
  <1>6. creating'.above \in SUBSET Living
    BY <1>1, <1>2 DEF IInv, Peopled, IsIndex, Above, Living
  <1>7. Peopled'
    BY <1>1, <1>2, <1>4, <1>6 DEF IInv, Peopled, IsIndex, Living, ActiveNode
  <1>8. raced \/ (IsTree(Living, Up, closure)' /\ Awaiting' /\ Sheltered')
    BY <1>1, <1>2, <1>4, <1>5 DEF IInv, IsTree, Awaiting, Sheltered, Exists, AboveIn
  <1> QED
    BY <1>1, <1>3, <1>7, <1>8 DEF IInv

\* A row that is new, with its ancestors: by either service.
LEMMA Growing ==
  ASSUME IInv, NEW n \in Nodes, NEW r, NEW U \in SUBSET Living,
         n \notin Living, Fields(r), r.type # "NONE", r.parent \in Living \cup {None},
         node' = [node EXCEPT ![n] = r], closure' = GrownBy(closure, n, U),
         raced \/ U = AboveIn(closure, r.parent), UNCHANGED <<raced, loose>>,
         \/ generic' = generic /\ UNCHANGED creating /\ (creating.open = "yes" => creating.node # n)
            /\ (r.parent # None => node[r.parent].state = "ACTIVE")
         \/ generic' = generic \cup {n} /\ creating'.open = "no"
  PROVE  IInv'
  <1>1. /\ node' = [d \in Nodes |-> node'[d]] /\ node'[n] = r
        /\ \A d \in Nodes \ {n} : node'[d] = node[d]
    BY DEF IInv, Shapes
  <1>2. Living \in SUBSET Nodes /\ Up \in [Nodes -> Nodes \cup {None}] /\ closure \in SUBSET (Nodes \X Nodes)
    BY DEF Living, Up, IInv, Shapes
  <1>3. Living' = Living \cup {n} /\ Up' = [Up EXCEPT ![n] = r.parent]
    BY <1>1 DEF Living, Up, Exists
  <1>4. closure' \in SUBSET (Nodes \X Nodes)
    BY <1>2 DEF GrownBy
  <1>5. Shapes'
    BY <1>1, <1>2, <1>4 DEF IInv, Shapes, Fields
  <1>6. IsIndex(Living, Up, closure)'
    <2>1. IsIndex(Living \cup {n}, [Up EXCEPT ![n] = r.parent], GrownBy(closure, n, U))
      BY <1>2, GrownIndex DEF IInv, Peopled
    <2> QED
      BY <1>3, <2>1 DEF IsIndex
  <1>7. Peopled'
    BY <1>3, <1>6 DEF IInv, Peopled
  <1>8. ASSUME ~raced PROVE IsTree(Living, Up, closure)'
    <2>1. IsTree(Living \cup {n}, [Up EXCEPT ![n] = r.parent], GrownBy(closure, n, AboveIn(closure, r.parent)))
      BY <1>2, <1>8, GrownTree DEF IInv, Peopled
    <2> QED
      BY <1>3, <1>8, <2>1 DEF IsTree
  <1>9. ASSUME ~raced PROVE Awaiting'
    <2>1. \A a, d \in Nodes : d # n => (<<a, d>> \in closure' <=> <<a, d>> \in closure)
      BY <1>2 DEF GrownBy
    <2>2. creating.open = "yes" => creating.row.parent # n
      BY HierarchyAssumption DEF IInv, Peopled
    <2> QED
      BY <1>9, <2>1, <2>2 DEF IInv, Shapes, Awaiting, AboveIn
  <1>10. ASSUME ~raced PROVE Sheltered'
    <2> SUFFICES ASSUME NEW d \in Nodes, Exists(d)', node'[d].parent # None
                 PROVE  \/ node'[node'[d].parent].state # "INACTIVE"
                        \/ node'[d].parent \in loose'
                        \/ d \in generic'
      BY DEF Sheltered
    <2>1. CASE d = n
      BY <1>1, <2>1 DEF Living
    <2>2. CASE d # n
      <3>1. node'[d] = node[d] /\ Exists(d) /\ node[d].parent \in Living /\ node[d].parent # n
        BY <1>1, <2>2 DEF Exists, IInv, Peopled, IsIndex, Living, Up
      <3> QED
        BY <1>1, <1>10, <3>1 DEF IInv, Sheltered, Living
    <2> QED
      BY <2>1, <2>2
  <1> QED
    BY <1>5, <1>7, <1>8, <1>9, <1>10 DEF IInv

LEMMA CreateStep ==
  ASSUME IInv, NEW n \in Nodes, NEW type \in Types, NEW p \in Parents, createOrganization(n, type, p)
  PROVE  IInv'
  <1> DEFINE r == [type |-> type, parent |-> p, state |-> "ACTIVE",
                   scope |-> IF type \in Scoped THEN n ELSE ScopeAbove(p)]
  <1>1. /\ n \notin Living /\ p \in Living \cup {None} /\ (p # None => node[p].state = "ACTIVE")
    BY DEF createOrganization, ParentOK, ActiveNode, Living, Parents
  <1>2. Fields(r) /\ r.type # "NONE" /\ r.parent = p
    BY DEF Fields, Types
  <1>3. AboveIn(closure, p) \in SUBSET Living
    BY <1>1 DEF AboveIn, IInv, Peopled, IsIndex, Living
  <1>4. closure' = GrownBy(closure, n, AboveIn(closure, p))
    <2>1. closure' = closure \cup {<<n, n>>} \cup (IF p = None THEN {} ELSE {<<a, n>> : a \in Above(p)})
      BY DEF createOrganization
    <2>2. {<<a, n>> : a \in Above(p)} = Above(p) \X {n} /\ {} = {} \X {n}
      OBVIOUS
    <2>3. AboveIn(closure, p) = IF p = None THEN {} ELSE Above(p)
      BY DEF AboveIn, Above
    <2> QED
      BY <2>1, <2>2, <2>3 DEF GrownBy
  <1>5. /\ node' = [node EXCEPT ![n] = r] /\ UNCHANGED <<raced, loose, generic, creating>> /\ creating.node # n
    BY DEF createOrganization, history
  <1> HIDE DEF r
  <1> QED
    BY <1>1, <1>2, <1>3, <1>4, <1>5, Growing

LEMMA CommitStep ==
  ASSUME IInv, CommitCreation
  PROVE  IInv'
  <1> DEFINE n == creating.node
  <1>1. /\ creating.open = "yes" /\ creating'.open = "no" /\ UNCHANGED <<raced, loose>>
        /\ node' = [node EXCEPT ![n] = creating.row] /\ generic' = generic \cup {n}
        /\ closure' = GrownBy(closure, n, creating.above)
    BY DEF CommitCreation, NoCreation, GrownBy
  <1>2. /\ n \in Nodes /\ n \notin Living /\ Fields(creating.row) /\ creating.row.type # "NONE"
        /\ creating.row.parent \in Living \cup {None} /\ creating.above \in SUBSET Living
    BY <1>1 DEF IInv, Shapes, Peopled
  <1>3. raced \/ creating.above = AboveIn(closure, creating.row.parent)
    BY <1>1 DEF IInv, Awaiting
  <1> HIDE DEF n
  <1> QED
    BY <1>1, <1>2, <1>3, Growing

-----------------------------------------------------------------------------
(* Updates and moves                                                       *)

\* Whatever scopes are reconciled, a node keeps its other fields.
LEMMA UpdatedNodes ==
  ASSUME IInv, NEW n \in Nodes, NEW type \in Types, NEW p \in Parents, NEW given \in BOOLEAN,
         updateOrganization(n, type, p, given)
  PROVE  /\ node' = [d \in Nodes |-> node'[d]]
         /\ \A d \in Nodes : Fields(node'[d]) /\ node'[d].state = node[d].state
         /\ node'[n].type = type /\ node'[n].parent = p
         /\ \A d \in Nodes \ {n} : node'[d].type = node[d].type /\ node'[d].parent = node[d].parent
  <1> DEFINE scope == IF type \in Scoped THEN n ELSE ScopeAbove(p)
             rows == [node EXCEPT ![n] = [@ EXCEPT !.type = type, !.parent = p, !.scope = scope]]
  <1>1. node[n] = [type |-> node[n].type, parent |-> node[n].parent, state |-> node[n].state, scope |-> node[n].scope]
    BY DEF IInv, Shapes, Fields
  <1>2. /\ rows = [d \in Nodes |-> rows[d]]
        /\ rows[n] = [type |-> type, parent |-> p, state |-> node[n].state, scope |-> scope]
        /\ \A d \in Nodes \ {n} : rows[d] = node[d]
    <2>1. node = [d \in Nodes |-> node[d]]
      BY DEF IInv, Shapes
    <2>2. rows[n] = [node[n] EXCEPT !.type = type, !.parent = p, !.scope = scope]
      BY <2>1
    <2>3. rows[n] = [type |-> type, parent |-> p, state |-> node[n].state, scope |-> scope]
      BY <1>1, <2>2
    <2>4. rows = [d \in Nodes |-> rows[d]] /\ \A d \in Nodes \ {n} : rows[d] = node[d]
      BY <2>1
    <2> QED
      BY <2>3, <2>4
  <1>3. PICK scopes, moved, flag :
          node' = IF flag THEN Reconcile(rows, scopes, moved, n)[1] ELSE rows
    BY DEF updateOrganization
  <1> HIDE DEF rows
  <1>4. \A d \in Nodes : Fields(rows[d]) /\ rows[d].state = node[d].state
    BY <1>2 DEF Fields, IInv, Shapes
  <1>5. CASE node' = rows
    BY <1>2, <1>4, <1>5
  <1>6. CASE node' = Reconcile(rows, scopes, moved, n)[1]
    <2> DEFINE settled == Settled(rows, moved)
    <2>1. node' = [d \in Nodes |-> [rows[d] EXCEPT !.scope = settled[d]]]
      BY <1>6 DEF Reconcile
    <2> HIDE DEF settled
    <2>3. ASSUME NEW d \in Nodes
          PROVE  /\ Fields(node'[d]) /\ node'[d].state = rows[d].state
                 /\ node'[d].type = rows[d].type /\ node'[d].parent = rows[d].parent
      <3> DEFINE r == rows[d]
                 c == [type |-> r.type, parent |-> r.parent, state |-> r.state, scope |-> settled[d]]
      <3>1. r = [type |-> r.type, parent |-> r.parent, state |-> r.state, scope |-> r.scope]
        BY <1>4 DEF Fields
      <3>2. node'[d] = [r EXCEPT !.scope = settled[d]]
        BY <2>1
      <3> HIDE DEF r
      <3>3. node'[d] = c
        BY <3>1, <3>2
      <3>4. c.type = r.type /\ c.parent = r.parent /\ c.state = r.state /\ c.scope = settled[d]
        OBVIOUS
      <3> HIDE DEF c
      <3>5. Fields(r)
        BY <1>4 DEF r
      <3> QED
        BY <3>3, <3>4, <3>5 DEF Fields, c, r
    <2>4. node' = [d \in Nodes |-> node'[d]]
      BY <2>1
    <2> QED
      BY <1>2, <1>4, <2>3, <2>4
  <1> QED
    BY <1>3, <1>5, <1>6

LEMMA UpdateStep ==
  ASSUME IInv, NEW n \in Nodes, NEW type \in Types, NEW p \in Parents, NEW given \in BOOLEAN,
         updateOrganization(n, type, p, given)
  PROVE  IInv'
  <1>1. /\ node' = [d \in Nodes |-> node'[d]]
        /\ \A d \in Nodes : Fields(node'[d]) /\ node'[d].state = node[d].state
        /\ node'[n].type = type /\ node'[n].parent = p /\ type # "NONE"
        /\ \A d \in Nodes \ {n} : node'[d].type = node[d].type /\ node'[d].parent = node[d].parent
    BY UpdatedNodes DEF Types
  <1>2. /\ UNCHANGED <<creating, generic, loose>>
        /\ n \in Living /\ p \in Living \cup {None} /\ (p # None => node[p].state = "ACTIVE")
        /\ p # n /\ p \notin Below(n)
    BY DEF updateOrganization, ParentOK, ActiveNode, MayMove, Living, Parents
  <1>3. /\ raced' <=> raced \/ (p # node[n].parent /\ n \in creating.above)
        /\ closure' = IF p # node[n].parent THEN Moved(n, p) ELSE closure
    BY DEF updateOrganization
  <1>4. Moved(n, p) = MovedIn(closure, n, p)
    <2>1. Below(n) = BelowIn(closure, n)
      BY DEF Below, BelowIn
    <2>2. Kept(Below(n)) = {r \in closure : r[2] \in BelowIn(closure, n) => r[1] \in BelowIn(closure, n)}
      BY <2>1 DEF Kept
    <2>3. p # None => Above(p) = AboveIn(closure, p)
      BY DEF Above, AboveIn
    <2> QED
      BY <2>1, <2>2, <2>3 DEF Moved, MovedIn
  <1>5. Living \in SUBSET Nodes /\ Up \in [Nodes -> Nodes \cup {None}] /\ closure \in SUBSET (Nodes \X Nodes)
    BY DEF Living, Up, IInv, Shapes
  <1>6. Living' = Living /\ Up' = [Up EXCEPT ![n] = p]
    BY <1>1, <1>2 DEF Living, Up, Exists
  <1>7. p \in Nodes \cup {None} /\ (p # None => <<n, p>> \notin closure)
    BY <1>2, <1>5 DEF Below
  <1>8. closure' \in SUBSET (Nodes \X Nodes)
    BY <1>3, <1>4, <1>5, <1>7, MovedRows
  <1>9. Shapes'
    BY <1>1, <1>2, <1>7, <1>8 DEF IInv, Shapes
  <1>10. p = node[n].parent => [Up EXCEPT ![n] = p] = Up
    BY DEF Up
  <1>11. IsIndex(Living, [Up EXCEPT ![n] = p], closure')
    <2>1. CASE p # node[n].parent
      <3>1. IsIndex(Living, [Up EXCEPT ![n] = p], MovedIn(closure, n, p))
        BY <1>2, <1>5, MovedIndex DEF IInv, Peopled
      <3> QED
        BY <1>3, <1>4, <2>1, <3>1
    <2>2. CASE p = node[n].parent
      BY <1>3, <1>10, <2>2 DEF IInv, Peopled
    <2> QED
      BY <2>1, <2>2
  <1>12. Peopled'
    <2>1. IsIndex(Living, Up, closure)'
      BY <1>6, <1>11 DEF IsIndex
    <2> QED
      BY <1>2, <1>6, <2>1 DEF IInv, Peopled
  <1>13. ASSUME ~raced PROVE IsTree(Living, Up, closure)'
    <2>1. CASE p # node[n].parent
      <3>1. IsTree(Living, [Up EXCEPT ![n] = p], MovedIn(closure, n, p))
        BY <1>2, <1>5, <1>7, <1>13, MovedTree DEF IInv, Peopled
      <3> QED
        BY <1>3, <1>4, <1>6, <2>1, <3>1 DEF IsTree
    <2>2. CASE p = node[n].parent
      BY <1>3, <1>6, <1>10, <1>13, <2>2 DEF IInv, IsTree
    <2> QED
      BY <2>1, <2>2
  <1>14. ASSUME ~raced, p = node[n].parent \/ n \notin creating.above PROVE Awaiting'
    <2>1. CASE p = node[n].parent
      BY <1>2, <1>3, <1>14, <2>1 DEF IInv, Awaiting, AboveIn
    <2>2. CASE p # node[n].parent
      <3> SUFFICES ASSUME creating.open = "yes"
                   PROVE  creating.above = AboveIn(closure', creating.row.parent)
        BY <1>2 DEF Awaiting, AboveIn
      <3> DEFINE q == creating.row.parent
      <3>1. q \in Nodes \cup {None} /\ creating.above = AboveIn(closure, q)
        BY <1>14 DEF IInv, Shapes, Awaiting
      <3>2. q # None => <<n, q>> \notin closure
        BY <1>14, <2>2, <3>1 DEF AboveIn
      <3>3. q # None => \A a \in Nodes : <<a, q>> \in closure' <=> <<a, q>> \in closure
        <4>1. \A a, d \in Nodes : <<a, d>> \in MovedIn(closure, n, p) <=>
                \/ <<a, d>> \in closure /\ (<<n, d>> \in closure => <<n, a>> \in closure)
                \/ p # None /\ <<n, d>> \in closure /\ <<a, p>> \in closure /\ <<n, a>> \notin closure
          BY <1>5, <1>7, MovedRows, Zenon
        <4>2. closure' = MovedIn(closure, n, p)
          BY <1>3, <1>4, <2>2
        <4> SUFFICES ASSUME q # None, NEW a \in Nodes PROVE <<a, q>> \in closure' <=> <<a, q>> \in closure
          OBVIOUS
        <4>3. q \in Nodes /\ <<n, q>> \notin closure
          BY <3>1, <3>2
        <4> HIDE DEF q
        <4>4. <<a, q>> \in MovedIn(closure, n, p) <=> <<a, q>> \in closure
          BY <4>1, <4>3
        <4> QED
          BY <4>2, <4>4
      <3> QED
        BY <3>1, <3>3 DEF AboveIn
    <2> QED
      BY <2>1, <2>2
  <1>15. ASSUME ~raced PROVE Sheltered'
    <2> SUFFICES ASSUME NEW d \in Nodes, Exists(d)', node'[d].parent # None
                 PROVE  \/ node'[node'[d].parent].state # "INACTIVE"
                        \/ node'[d].parent \in loose'
                        \/ d \in generic'
      BY DEF Sheltered
    <2>1. CASE d = n
      BY <1>1, <1>2, <2>1 DEF Living
    <2>2. CASE d # n
      <3>1. Exists(d) /\ node'[d].parent = node[d].parent /\ node[d].parent \in Nodes
        BY <1>1, <2>2 DEF Exists, IInv, Shapes
      <3> QED
        BY <1>1, <1>2, <1>15, <3>1 DEF IInv, Sheltered
    <2> QED
      BY <2>1, <2>2
  <1> QED
    BY <1>3, <1>9, <1>12, <1>13, <1>14, <1>15 DEF IInv

LEMMA NextIInv == IInv /\ [Next]_vars => IInv'
  <1> SUFFICES ASSUME IInv, [Next]_vars PROVE IInv'
    OBVIOUS
  <1>1. ASSUME NEW n \in Nodes, NodeNext(n) PROVE IInv'
    <2>1. CASE \E type \in Types, p \in Parents :
                 createOrganization(n, type, p) \/ InsertCreation(n, type, p)
      BY <2>1, CreateStep, InsertStep
    <2>2. CASE \E type \in Types, p \in Parents, given \in BOOLEAN : updateOrganization(n, type, p, given)
      BY <2>2, UpdateStep
    <2>3. CASE \E p \in Parents : moveOrganization(n, p)
      <3>1. PICK p \in Parents : updateOrganization(n, node[n].type, p, TRUE)
        BY <2>3 DEF moveOrganization
      <3>2. node[n].type \in Types
        BY <3>1 DEF updateOrganization, Exists, IInv, Shapes, Fields
      <3> QED
        BY <3>1, <3>2, UpdateStep
    <2>4. CASE \E r \in Nodes : reassignDeactivateOrganization(n, r)
      BY <2>4, ReassignStep
    <2>5. CASE exceptionDeactivate(n) \/ transition(n) \/ \E e \in {"OPEN", "EXPIRED"} : reactivateException(n, e)
      BY <2>5, StateSteps
    <2>6. CASE ExceptionExpires(n)
      BY <2>6, StutterSteps
    <2> QED
      BY <1>1, <2>1, <2>2, <2>3, <2>4, <2>5, <2>6 DEF NodeNext
  <1>2. CASE CommitCreation
    BY <1>2, CommitStep
  <1>3. CASE RollbackCreation \/ UNCHANGED vars
    BY <1>3, StutterSteps
  <1> QED
    BY <1>1, <1>2, <1>3 DEF Next

-----------------------------------------------------------------------------
(* Theorems                                                                *)

\* Nodes, the index and a creation under way keep their shapes, and only nodes
\* that exist have rows or children.
THEOREM TypeCorrect == Spec => [](Shapes /\ Peopled)
  <1>1. IInv => Shapes /\ Peopled
    BY DEF IInv
  <1> QED
    BY <1>1, InitIInv, NextIInv, PTL DEF Spec

\* The index agrees with the tree after any number of moves of whole subtrees
\* (updateOrganization), unless a node was created the generic way
\* across one of them.
THEOREM IndexIsAncestry == Spec => []ClosureIsAncestry
  <1>1. IInv => ClosureIsAncestry
    <2> SUFFICES ASSUME IInv, ~raced, NEW d \in Nodes, Exists(d)
                 PROVE  /\ Above(d) = {d} \cup (IF node[d].parent = None THEN {} ELSE Above(node[d].parent))
                        /\ node[d].parent # None => d \notin Above(node[d].parent)
      BY DEF ClosureIsAncestry
    <2>1. d \in Living /\ Up[d] = node[d].parent /\ IsTree(Living, Up, closure)
      BY DEF IInv, Living, Up
    <2> QED
      BY <2>1 DEF IsTree, Above
  <1> QED
    BY <1>1, InitIInv, NextIInv, PTL DEF Spec

\* As long as the index is right, a node that is deactivated with a replacement
\* leaves no active node below it (reassignDeactivateOrganization), whatever is
\* reactivated, moved or created since, save for what NoOrphans excepts.
THEOREM NobodyIsOrphaned == Spec => []NoOrphans
  <1>1. IInv => NoOrphans
    <2> SUFFICES ASSUME IInv, ~raced, NEW d \in Nodes, ActiveNode(d), node[d].parent # None
                 PROVE  \/ node[node[d].parent].state = "ACTIVE"
                        \/ node[d].parent \in loose
                        \/ d \in generic
      BY DEF NoOrphans
    <2> QED
      BY DEF IInv, Shapes, Fields, Sheltered, ActiveNode
  <1> QED
    BY <1>1, InitIInv, NextIInv, PTL DEF Spec

-----------------------------------------------------------------------------
(***************************************************************************)
(* Hierarchy: the scopes.  What Reconcile settles for a node that has no   *)
(* base of its own is what it settles for the node's parent.  Settled is   *)
(* defined by recursion up the tree, which is sound if some function meets *)
(* its equation.  One does, whatever the rows: the least relation that has *)
(* the bases, and passes what a parent takes on to its children, gives     *)
(* each node one set of scopes, the same as its parent's.                  *)
(***************************************************************************)
\* What a node has without its parent, if it has.
Based(rows, moved, d) == ~(d \in moved /\ rows[d].type \notin Scoped /\ rows[d].parent # None)
BaseOf(rows, moved, d) == IF d \in moved /\ rows[d].type \in Scoped THEN d ELSE rows[d].scope
Bases(rows, moved) == {BaseOf(rows, moved, d) : d \in Nodes}
Takes(rows, moved, R) ==
  \A d \in Nodes :
    IF Based(rows, moved, d) THEN <<d, BaseOf(rows, moved, d)>> \in R
    ELSE \A v \in Bases(rows, moved) : <<rows[d].parent, v>> \in R => <<d, v>> \in R
Taken(rows, moved) ==
  {q \in Nodes \X Bases(rows, moved) :
     \A R \in SUBSET (Nodes \X Bases(rows, moved)) : Takes(rows, moved, R) => q \in R}
One(S) == CHOOSE v : v \in S

LEMMA TakenIsLeast ==
  ASSUME NEW rows, NEW moved, NEW d \in Nodes,
         \A e \in Nodes : rows[e].parent \in Nodes \cup {None}
  PROVE  {v \in Bases(rows, moved) : <<d, v>> \in Taken(rows, moved)} =
           IF Based(rows, moved, d) THEN {BaseOf(rows, moved, d)}
           ELSE {v \in Bases(rows, moved) : <<rows[d].parent, v>> \in Taken(rows, moved)}
  <1> DEFINE B == Bases(rows, moved)
             L == Taken(rows, moved)
             base(e) == BaseOf(rows, moved, e)
             based(e) == Based(rows, moved, e)
             closed(R) == Takes(rows, moved, R)
  <1>1. \A e \in Nodes : base(e) \in B
    BY DEF Bases
  <1>2. /\ L \subseteq Nodes \X B
        /\ \A R \in SUBSET (Nodes \X B) : closed(R) => L \subseteq R
    BY DEF Taken
  <1>3. \A R : closed(R) <=> \A e \in Nodes : IF based(e) THEN <<e, base(e)>> \in R
                                ELSE \A v \in B : <<rows[e].parent, v>> \in R => <<e, v>> \in R
    BY DEF Takes
  <1>4. closed(L)
    <2>1. ASSUME NEW e \in Nodes, based(e) PROVE <<e, base(e)>> \in L
      BY <1>1, <1>3, <2>1 DEF Taken
    <2>2. ASSUME NEW e \in Nodes, ~based(e), NEW v \in B, <<rows[e].parent, v>> \in L PROVE <<e, v>> \in L
      <3>1. \A R \in SUBSET (Nodes \X B) : closed(R) => <<e, v>> \in R
        BY <1>2, <1>3, <2>2
      <3> QED
        BY <3>1 DEF Taken
    <2> QED
      BY <1>3, <2>1, <2>2
  <1>5. ~based(d) => rows[d].parent \in Nodes
    BY DEF Based
  <1> HIDE DEF B, L, base, based, closed
  <1>6. CASE based(d)
    <2> DEFINE R == {q \in Nodes \X B : q[1] = d => q[2] = base(d)}
    <2>1. closed(R)
      BY <1>1, <1>3, <1>6
    <2>2. L \subseteq R
      BY <1>2, <2>1
    <2>3. <<d, base(d)>> \in L
      BY <1>3, <1>4, <1>6
    <2>4. {v \in B : <<d, v>> \in L} = {base(d)}
      BY <1>1, <2>2, <2>3
    <2> QED
      BY <1>6, <2>4 DEF B, L, base, based
  <1>7. CASE ~based(d)
    <2>1. ASSUME NEW v \in B, <<d, v>> \in L, <<rows[d].parent, v>> \notin L PROVE FALSE
      <3> DEFINE R == L \ {<<d, v>>}
      <3>1. ASSUME NEW e \in Nodes, based(e) PROVE <<e, base(e)>> \in R
        BY <1>3, <1>4, <1>7, <3>1
      <3>2. ASSUME NEW e \in Nodes, ~based(e), NEW w \in B, <<rows[e].parent, w>> \in R PROVE <<e, w>> \in R
        BY <1>3, <1>4, <2>1, <3>2
      <3>3. closed(R)
        BY <1>3, <3>1, <3>2
      <3>4. L \subseteq R
        BY <1>2, <3>3
      <3> QED
        BY <2>1, <3>4
    <2>2. {v \in B : <<d, v>> \in L} = {v \in B : <<rows[d].parent, v>> \in L}
      BY <1>3, <1>4, <1>7, <2>1
    <2> QED
      BY <1>7, <2>2 DEF B, L, based
  <1> QED
    BY <1>6, <1>7

LEMMA SettledIs ==
  ASSUME NEW rows, NEW moved, \A e \in Nodes : rows[e].parent \in Nodes \cup {None}
  PROVE  \A d \in Nodes : Settled(rows, moved)[d] =
           IF Based(rows, moved, d) THEN BaseOf(rows, moved, d) ELSE Settled(rows, moved)[rows[d].parent]
  <1> DEFINE From(d) == {v \in Bases(rows, moved) : <<d, v>> \in Taken(rows, moved)}
             Swept(f) == [d \in Nodes |-> IF d \in moved /\ rows[d].type \in Scoped THEN d
                                          ELSE IF d \in moved /\ rows[d].parent # None THEN f[rows[d].parent]
                                          ELSE rows[d].scope]
             f == [d \in Nodes |-> One(From(d))]
  <1>1. \A d \in Nodes : From(d) = IF Based(rows, moved, d) THEN {BaseOf(rows, moved, d)} ELSE From(rows[d].parent)
    BY TakenIsLeast
  <1>2. \A v : One({v}) = v
    BY DEF One
  <1>3. \A g : Swept(g) = [d \in Nodes |-> IF Based(rows, moved, d) THEN BaseOf(rows, moved, d) ELSE g[rows[d].parent]]
    BY DEF Based, BaseOf
  <1>4. f = Swept(f)
    <2> HIDE DEF From, Swept
    <2>1. \A d \in Nodes : f[d] = IF Based(rows, moved, d) THEN BaseOf(rows, moved, d) ELSE f[rows[d].parent]
      <3> SUFFICES ASSUME NEW d \in Nodes
                   PROVE  f[d] = IF Based(rows, moved, d) THEN BaseOf(rows, moved, d) ELSE f[rows[d].parent]
        OBVIOUS
      <3>1. ~Based(rows, moved, d) => rows[d].parent \in Nodes
        BY DEF Based
      <3> QED
        BY <1>1, <1>2, <3>1
    <2> QED
      BY <1>3, <2>1
  <1>5. Settled(rows, moved) = Swept(Settled(rows, moved))
    BY <1>4 DEF Settled
  <1> QED
    BY <1>3, <1>5

(***************************************************************************)
(* Nested is the invariant, beside IInv.  A node that moves may come out   *)
(* from under one created the generic way, so it says of every other node, *)
(* wherever it is, which of them are roots.                                *)
(***************************************************************************)
\* A legal entity is a root, and nothing else is, unless created generically.
Rooted ==
  \A d \in Nodes : Exists(d) /\ d \notin generic =>
    (node[d].type = "LEGAL_ENTITY" <=> node[d].parent = None)

Fits(d) ==
  IF node[d].type \in Scoped THEN node[d].scope = d /\ own[d].under = ScopeAbove(node[d].parent)
                             ELSE node[d].scope = ScopeAbove(node[d].parent)

Nested ==
  /\ own = [d \in Nodes |-> own[d]]
  /\ Rooted
  /\ raced \/ \A d \in Nodes : Exists(d) /\ Above(d) \cap generic = {} => Fits(d)

LEMMA NestedInit == Init => Nested
  <1> SUFFICES ASSUME Init PROVE Nested
    OBVIOUS
  <1>1. /\ node[Root] = [type |-> "LEGAL_ENTITY", parent |-> None, state |-> "ACTIVE", scope |-> Root]
        /\ \A d \in Nodes \ {Root} : node[d] = NoNode
        /\ own[Root] = [type |-> "LEGAL_ENTITY", under |-> Tenant]
        /\ own = [d \in Nodes |-> own[d]]
    BY HierarchyAssumption DEF Init
  <1>2. \A d \in Nodes : Exists(d) => d = Root
    BY <1>1 DEF Exists, NoNode
  <1>3. node[Root].parent = None /\ Fits(Root)
    BY <1>1 DEF Fits, ScopeAbove, Scoped
  <1> QED
    BY <1>1, <1>2, <1>3 DEF Nested, Rooted

LEMMA NestedStays ==
  ASSUME IInv, Nested, UNCHANGED <<closure, own, generic, raced>>,
         \A d \in Nodes : /\ node'[d].type = node[d].type /\ node'[d].parent = node[d].parent
                          /\ node'[d].scope = node[d].scope
  PROVE  Nested'
  <1>1. \A d \in Nodes : node[d].parent \in Nodes \cup {None}
    BY DEF IInv, Shapes
  <1>2. Rooted'
    BY DEF Nested, Rooted, Exists
  <1>3. ASSUME NEW d \in Nodes
        PROVE  (Fits(d)' <=> Fits(d)) /\ (Exists(d)' <=> Exists(d)) /\ Above(d)' = Above(d)
    <2>1. ScopeAbove(node[d].parent)' = ScopeAbove(node[d].parent)
      BY <1>1 DEF ScopeAbove
    <2> QED
      BY <2>1 DEF Fits, Exists, Above
  <1> QED
    BY <1>2, <1>3 DEF Nested

LEMMA NestedGrows ==
  ASSUME IInv, Nested, NEW n \in Nodes \ Living, NEW row, node' = [node EXCEPT ![n] = row],
         row.parent \in Living \cup {None},
         <<n, n>> \in closure',
         \A a \in Nodes : \A d \in Nodes \ {n} : <<a, d>> \in closure' <=> <<a, d>> \in closure,
         own' = [d \in Nodes |-> own'[d]], \A d \in Nodes \ {n} : own'[d] = own[d],
         generic \subseteq generic', generic' \subseteq generic \cup {n}, UNCHANGED raced,
         n \notin generic' => (row.type = "LEGAL_ENTITY" <=> row.parent = None),
         n \notin generic' =>
           IF row.type \in Scoped THEN row.scope = n /\ own'[n].under = ScopeAbove(row.parent)
                                  ELSE row.scope = ScopeAbove(row.parent)
  PROVE  Nested'
  <1>1. /\ node'[n] = row /\ \A d \in Nodes \ {n} : node'[d] = node[d]
        /\ \A d \in Living : node[d].parent = None \/ node[d].parent \in Nodes \ {n}
        /\ row.parent = None \/ row.parent \in Nodes \ {n}
    BY HierarchyAssumption DEF IInv, Shapes, Peopled, IsIndex, Living, Up
  <1>2. \A q \in (Nodes \ {n}) \cup {None} : ScopeAbove(q)' = ScopeAbove(q)
    BY <1>1 DEF ScopeAbove
  <1>3. Rooted'
    BY <1>1 DEF Nested, Rooted, Exists
  <1>4. ASSUME ~raced, NEW d \in Nodes, Exists(d)', Above(d)' \cap generic' = {}
        PROVE  Fits(d)'
    <2>1. CASE d = n
      <3>1. n \notin generic'
        BY <1>4, <2>1 DEF Above
      <3>2. ScopeAbove(row.parent)' = ScopeAbove(row.parent)
        BY <1>1, <1>2
      <3>3. IF row.type \in Scoped THEN row.scope = n /\ own'[n].under = ScopeAbove(row.parent)'
                                  ELSE row.scope = ScopeAbove(row.parent)'
        BY <3>1, <3>2
      <3> QED
        BY <1>1, <2>1, <3>3 DEF Fits, ScopeAbove
    <2>2. CASE d # n
      <3>1. Exists(d) /\ d \in Living /\ Above(d) \cap generic = {}
        BY <1>1, <1>4, <2>2 DEF Exists, Living, Above
      <3>2. Fits(d)
        BY <1>4, <3>1 DEF Nested
      <3>3. ScopeAbove(node[d].parent)' = ScopeAbove(node[d].parent) 
        BY <1>1, <1>2, <2>2, <3>1
      <3> QED
        BY <1>1, <2>2, <3>2, <3>3 DEF Fits, ScopeAbove
    <2> QED
      BY <2>1, <2>2
  <1> QED
    BY <1>3, <1>4 DEF Nested

LEMMA CreateNested ==
  ASSUME IInv, Nested, NEW n \in Nodes, NEW type \in Types, NEW p \in Parents, createOrganization(n, type, p)
  PROVE  Nested'
  <1> DEFINE row == [type |-> type, parent |-> p, state |-> "ACTIVE",
                     scope |-> IF type \in Scoped THEN n ELSE ScopeAbove(p)]
  <1>1. /\ n \in Nodes \ Living /\ p \in Living \cup {None}
        /\ node' = [node EXCEPT ![n] = row] /\ UNCHANGED <<generic, raced>>
        /\ (type = "LEGAL_ENTITY" <=> p = None)
    BY DEF createOrganization, ParentOK, ActiveNode, Living, Parents, history
  <1>2. own' = IF type \in Scoped THEN [own EXCEPT ![n] = [type |-> type, under |-> ScopeAbove(p)]] ELSE own
    BY DEF createOrganization
  <1>3. /\ own' = [d \in Nodes |-> own'[d]] /\ \A d \in Nodes \ {n} : own'[d] = own[d]
        /\ type \in Scoped => own'[n].under = ScopeAbove(p)
    BY <1>2 DEF Nested
  <1>4. closure' = closure \cup {<<n, n>>} \cup (IF p = None THEN {} ELSE {<<a, n>> : a \in Above(p)})
    BY DEF createOrganization
  <1>5. /\ <<n, n>> \in closure'
        /\ \A a \in Nodes : \A d \in Nodes \ {n} : <<a, d>> \in closure' <=> <<a, d>> \in closure
    BY <1>4
  <1>6. row.type = type /\ row.parent = p /\ row.scope = IF type \in Scoped THEN n ELSE ScopeAbove(p)
    OBVIOUS
  <1> HIDE DEF row
  <1> QED
    BY <1>1, <1>3, <1>5, <1>6, NestedGrows

LEMMA CommitNested ==
  ASSUME IInv, Nested, CommitCreation
  PROVE  Nested'
  <1> DEFINE n == creating.node
             row == creating.row
  <1>1. /\ creating.open = "yes" /\ node' = [node EXCEPT ![n] = row]
        /\ closure' = closure \cup {<<n, n>>} \cup (creating.above \X {n})
        /\ generic' = generic \cup {n} /\ UNCHANGED <<own, raced>>
    BY DEF CommitCreation
  <1>2. n \in Nodes \ Living /\ row.parent \in Living \cup {None}
    BY <1>1 DEF IInv, Shapes, Peopled
  <1>3. /\ <<n, n>> \in closure'
        /\ \A a \in Nodes : \A d \in Nodes \ {n} : <<a, d>> \in closure' <=> <<a, d>> \in closure
    BY <1>1
  <1>4. own' = [d \in Nodes |-> own'[d]] /\ \A d \in Nodes \ {n} : own'[d] = own[d]
    BY <1>1 DEF Nested
  <1> HIDE DEF n, row
  <1>5. n \in generic' /\ generic \subseteq generic' /\ generic' \subseteq generic \cup {n}
    BY <1>1
  <1> QED
    BY <1>1, <1>2, <1>3, <1>4, <1>5, NestedGrows

LEMMA StatesNested ==
  ASSUME IInv, Nested, NEW n \in Nodes,
         \/ \E r \in Nodes : reassignDeactivateOrganization(n, r)
         \/ exceptionDeactivate(n) \/ ExceptionExpires(n) \/ transition(n)
         \/ \E e \in {"OPEN", "EXPIRED"} : reactivateException(n, e)
  PROVE  Nested'
  <1>1. UNCHANGED <<closure, own, generic, raced>>
    BY DEF reassignDeactivateOrganization, exceptionDeactivate, ExceptionExpires, transition,
           reactivateException, history
  <1>2. node' = node \/ \E state \in {"ACTIVE", "INACTIVE"} : node' = [node EXCEPT ![n].state = state]
    BY DEF reassignDeactivateOrganization, exceptionDeactivate, ExceptionExpires, transition,
           reactivateException
  <1>3. \A d \in Nodes : /\ node'[d].type = node[d].type /\ node'[d].parent = node[d].parent
                         /\ node'[d].scope = node[d].scope
    BY <1>2, StateChanges
  <1> QED
    BY <1>1, <1>3, NestedStays

LEMMA UpdateNested ==
  ASSUME IInv, Nested, NEW n \in Nodes, NEW type \in Types, NEW p \in Parents, NEW given \in BOOLEAN,
         updateOrganization(n, type, p, given)
  PROVE  Nested'
  <1> DEFINE above == ScopeAbove(p)
             flag == p # node[n].parent \/ given
             moved == {d \in Nodes : <<n, d>> \in closure'}
             rows == [node EXCEPT ![n] = [@ EXCEPT !.type = type, !.parent = p,
                                                   !.scope = IF type \in Scoped THEN n ELSE above]]
             told == Rescoped(n, type, above)
             settled == Settled(rows, moved)
  <1>1. /\ node' = IF flag THEN Reconcile(rows, told, moved, n)[1] ELSE rows
        /\ own' = IF flag THEN Reconcile(rows, told, moved, n)[2] ELSE told
        /\ UNCHANGED generic /\ (raced => raced')
        /\ closure' = IF p # node[n].parent THEN Moved(n, p) ELSE closure
        /\ type # node[n].type => given
        /\ (type = "LEGAL_ENTITY" <=> p = None) /\ p # n /\ p \notin Below(n) /\ Exists(n)
    BY DEF updateOrganization, ParentOK, MayMove
  <1>2. /\ rows = [d \in Nodes |-> rows[d]] /\ \A d \in Nodes \ {n} : rows[d] = node[d]
        /\ rows[n].type = type /\ rows[n].parent = p
        /\ rows[n].scope = IF type \in Scoped THEN n ELSE above
        /\ \A d \in Nodes : rows[d] = [type |-> rows[d].type, parent |-> rows[d].parent,
                                      state |-> rows[d].state, scope |-> rows[d].scope]
    <2>1. node[n] = [type |-> node[n].type, parent |-> node[n].parent, state |-> node[n].state, scope |-> node[n].scope]
      BY DEF IInv, Shapes, Fields
    <2>2. node = [d \in Nodes |-> node[d]]
      BY DEF IInv, Shapes
    <2>3. rows[n] = [node[n] EXCEPT !.type = type, !.parent = p, !.scope = IF type \in Scoped THEN n ELSE above]
      BY <2>2
    <2>4. rows[n] = [type |-> type, parent |-> p, state |-> node[n].state,
                     scope |-> IF type \in Scoped THEN n ELSE above]
      BY <2>1, <2>3
    <2>5. rows = [d \in Nodes |-> rows[d]] /\ \A d \in Nodes \ {n} : rows[d] = node[d]
      BY <2>2
    <2>6. \A d \in Nodes \ {n} : rows[d] = [type |-> rows[d].type, parent |-> rows[d].parent,
                                            state |-> rows[d].state, scope |-> rows[d].scope]
      BY <2>5 DEF IInv, Shapes, Fields
    <2> HIDE DEF rows
    <2>7. rows[n] = [type |-> rows[n].type, parent |-> rows[n].parent,
                     state |-> rows[n].state, scope |-> rows[n].scope]
      BY <2>4
    <2>8. \A d \in Nodes : rows[d] = [type |-> rows[d].type, parent |-> rows[d].parent,
                                     state |-> rows[d].state, scope |-> rows[d].scope]
      BY <2>6, <2>7
    <2> QED
      BY <2>4, <2>5, <2>8
  <1>3. /\ told = [d \in Nodes |-> told[d]] /\ \A d \in Nodes \ {n} : told[d] = own[d]
        /\ type \in Scoped => told[n].under = above
    BY DEF Rescoped, Nested
  <1>4. /\ Reconcile(rows, told, moved, n)[1] = [d \in Nodes |-> [rows[d] EXCEPT !.scope = settled[d]]]
        /\ Reconcile(rows, told, moved, n)[2] = [d \in Nodes |->
             IF d \notin moved THEN told[d]
             ELSE IF rows[d].type \in Scoped
               THEN [type |-> rows[d].type,
                     under |-> IF rows[d].type = "LEGAL_ENTITY" \/ rows[d].parent = None
                                 THEN Tenant ELSE settled[rows[d].parent]]
               ELSE told[d]]
    BY DEF Reconcile
  <1> HIDE DEF rows, told, settled, moved
  <1>5. /\ \A d \in Nodes \ {n} : node'[d].type = node[d].type /\ node'[d].parent = node[d].parent
        /\ node'[n].type = type /\ node'[n].parent = p /\ type # "NONE"
        /\ \A d \in Nodes : node[d].parent \in Nodes \cup {None} /\ node'[d].parent \in Nodes \cup {None}
    <2>1. \A d \in Nodes : node[d].parent \in Nodes \cup {None}
      BY DEF IInv, Shapes
    <2>2. /\ \A d \in Nodes \ {n} : node'[d].type = node[d].type /\ node'[d].parent = node[d].parent
          /\ node'[n].type = type /\ node'[n].parent = p
      BY UpdatedNodes
    <2> QED
      BY <2>1, <2>2 DEF Types, Parents
  <1>6. /\ \A d \in Nodes : rows[d].type = node'[d].type /\ rows[d].parent = node'[d].parent
        /\ \A d \in Nodes : (Exists(d)' <=> Exists(d))
    BY <1>1, <1>2, <1>5 DEF Exists
  <1>7. Rooted'
    <2> SUFFICES ASSUME NEW d \in Nodes, Exists(d)', d \notin generic'
                 PROVE  (node'[d].type = "LEGAL_ENTITY" <=> node'[d].parent = None)
      BY DEF Rooted
    <2>1. Exists(d) /\ d \notin generic
      BY <1>1, <1>6
    <2> QED
      BY <1>1, <1>5, <2>1 DEF Nested, Rooted
  <1>8. \A d \in Nodes : settled[d] =
          IF d \in moved /\ node'[d].type \in Scoped THEN d
          ELSE IF d \in moved /\ node'[d].parent # None THEN settled[node'[d].parent]
          ELSE rows[d].scope
    <2>1. \A e \in Nodes : rows[e].parent \in Nodes \cup {None}
      BY <1>5, <1>6
    <2>2. \A d \in Nodes : settled[d] =
            IF Based(rows, moved, d) THEN BaseOf(rows, moved, d) ELSE settled[rows[d].parent]
      BY <2>1, SettledIs DEF settled
    <2> QED
      BY <1>6, <2>2 DEF Based, BaseOf
  <1>9. own' = [d \in Nodes |-> own'[d]]
    BY <1>1, <1>3, <1>4
  <1>10. IInv'
    BY UpdateStep
  <1>11. CASE flag
    <2>0. node' = Reconcile(rows, told, moved, n)[1] /\ own' = Reconcile(rows, told, moved, n)[2]
      BY <1>1, <1>11
    <2>1. \A d \in Nodes : node'[d].scope = settled[d]
      <3> SUFFICES ASSUME NEW d \in Nodes PROVE node'[d].scope = settled[d]
        OBVIOUS
      <3>1. node'[d] = [rows[d] EXCEPT !.scope = settled[d]]
        BY <1>4, <2>0
      <3>2. node'[d] = [type |-> rows[d].type, parent |-> rows[d].parent, state |-> rows[d].state, scope |-> settled[d]]
        BY <1>2, <3>1
      <3> QED
        BY <3>2
    <2>2. \A d \in moved : node'[d].type \in Scoped =>
            own'[d].under = IF node'[d].type = "LEGAL_ENTITY" \/ node'[d].parent = None
                              THEN Tenant ELSE settled[node'[d].parent]
      <3> SUFFICES ASSUME NEW d \in moved, node'[d].type \in Scoped
                   PROVE  own'[d].under = IF node'[d].type = "LEGAL_ENTITY" \/ node'[d].parent = None
                                            THEN Tenant ELSE settled[node'[d].parent]
        OBVIOUS
      <3>1. d \in Nodes
        BY DEF moved
      <3>2. own'[d] = [type |-> rows[d].type,
                       under |-> IF rows[d].type = "LEGAL_ENTITY" \/ rows[d].parent = None
                                   THEN Tenant ELSE settled[rows[d].parent]]
        BY <1>4, <1>6, <2>0, <3>1
      <3> QED
        BY <1>6, <3>1, <3>2
    <2>3. \A d \in Nodes \ moved : own'[d] = told[d]
      BY <1>4, <2>0
    <2>4. ASSUME ~raced', NEW d \in Nodes, Exists(d)', Above(d)' \cap generic' = {}
          PROVE  Fits(d)'
      <3>0. PICK q \in Nodes \cup {None} : q = node'[d].parent
        BY <1>5
      <3>1. /\ IsTree(Living, Up, closure)' /\ IsTree(Living, Up, closure)
            /\ d \in Living /\ d \in Living' /\ n \in Living /\ n \in Living'
            /\ Up'[d] = q /\ (d # n => Up[d] = q)
        BY <1>1, <1>5, <1>6, <1>10, <2>4, <3>0 DEF IInv, Living, Up
      <3>2. <<d, d>> \in closure' /\ <<n, n>> \in closure' /\ <<n, n>> \in closure
        BY <3>1 DEF IsTree
      <3>3. d \notin generic' /\ n \in moved
        BY <2>4, <3>2 DEF Above, moved
      <3>4. q \in Nodes \cup {None} /\ (node'[d].type = "LEGAL_ENTITY" <=> q = None)
        BY <1>7, <2>4, <3>0, <3>3 DEF Rooted
      <3>5. ScopeAbove(q)' = IF q = None THEN Tenant ELSE settled[q]
        BY <2>1, <3>4 DEF ScopeAbove
      <3>6. CASE d \in moved
        <4>1. CASE node'[d].type \in Scoped
          <5>1. node'[d].scope = d /\ own'[d].under = ScopeAbove(q)'
            BY <3>0, <1>8, <2>1, <2>2, <3>4, <3>5, <3>6, <4>1
          <5> QED
            BY <3>0, <4>1, <5>1 DEF Fits, ScopeAbove
        <4>2. CASE node'[d].type \notin Scoped
          <5>1. q # None
            BY <3>4, <4>2 DEF Scoped
          <5>2. node'[d].scope = ScopeAbove(q)'
            BY <1>8, <2>1, <3>0, <3>5, <3>6, <4>2, <5>1
          <5> QED
            BY <3>0, <4>2, <5>2 DEF Fits, ScopeAbove
        <4> QED
          BY <4>1, <4>2
      <3>7. CASE d \notin moved
        <4>1. d # n /\ <<n, d>> \notin closure'
          BY <3>3, <3>7 DEF moved
        <4>2. /\ <<n, d>> \notin closure
              /\ \A a \in Nodes : <<a, d>> \in closure' <=> <<a, d>> \in closure
          <5>1. CASE p = node[n].parent
            BY <1>1, <4>1, <5>1
          <5>2. CASE p # node[n].parent
            <6>1. closure' = Kept(Below(n)) \cup (IF p = None THEN {} ELSE (Above(p) \ Below(n)) \X Below(n))
              BY <1>1, <5>2 DEF Moved
            <6>2. <<n, d>> \notin closure
              BY <3>2, <4>1, <6>1 DEF Kept, Below
            <6> QED
              BY <6>1, <6>2 DEF Kept, Below
          <5> QED
            BY <5>1, <5>2
        <4>3. Above(d) \cap generic = {} /\ Exists(d)
          BY <1>1, <1>6, <2>4, <4>2 DEF Above
        <4>4. Fits(d)
          BY <1>1, <2>4, <4>3 DEF Nested
        <4>5. q # None => q # n /\ q \notin moved
          BY <3>1, <3>4, <4>1 DEF IsTree, moved
        <4>6. /\ node'[d].scope = node[d].scope
              /\ q # None => node'[q].scope = node[q].scope
          BY <1>2, <1>8, <2>1, <3>0, <3>4, <3>7, <4>1, <4>5
        <4>7. own'[d] = own[d]
          BY <1>3, <2>3, <3>7, <4>1
        <4>8. ScopeAbove(q)' = ScopeAbove(q) /\ node[d].parent = q /\ node[d].type = node'[d].type
          BY <1>5, <3>0, <4>1, <4>6 DEF ScopeAbove
        <4> QED
          BY <3>0, <4>4, <4>6, <4>7, <4>8 DEF Fits, ScopeAbove
      <3> QED
        BY <3>6, <3>7
    <2> QED
      BY <1>7, <1>9, <2>4 DEF Nested
  <1>12. CASE ~flag
    <2>1. /\ node' = rows /\ own' = told /\ p = node[n].parent /\ type = node[n].type
          /\ closure' = closure
      BY <1>1, <1>12
    <2>2. ASSUME ~raced', NEW d \in Nodes, Exists(d)', Above(d)' \cap generic' = {}
          PROVE  Fits(d)'
      <3>0. PICK q \in Nodes \cup {None} : q = node[d].parent
        BY <1>5
      <3>1. Exists(d) /\ Above(d) \cap generic = {} /\ ~raced
        BY <1>1, <1>6, <2>1, <2>2 DEF Above
      <3>2. Fits(d)
        BY <3>1 DEF Nested
      <3>3. CASE d = n
        <4>1. ScopeAbove(p)' = above
          BY <1>1, <1>2, <2>1 DEF ScopeAbove, Parents
        <4>2. IF type \in Scoped THEN node'[n].scope = n /\ own'[n].under = ScopeAbove(p)'
                                 ELSE node'[n].scope = ScopeAbove(p)'
          BY <1>2, <1>3, <2>1, <4>1
        <4> QED
          BY <1>5, <3>3, <4>2 DEF Fits, ScopeAbove
      <3>4. CASE d # n
        <4>1. /\ node'[d] = node[d] /\ own'[d] = own[d]
          BY <1>2, <1>3, <2>1, <3>4
        <4>2. CASE q = n
          <5>1. /\ IsTree(Living, Up, closure) /\ d \in Living /\ Up[d] = n /\ n # None
            BY <3>0, <3>1, <4>2, HierarchyAssumption DEF IInv, Living, Up
          <5>2. \A a \in Nodes : <<a, n>> \in closure => <<a, d>> \in closure
            BY <5>1 DEF IsTree
          <5>3. Fits(n)
            BY <1>1, <3>1, <5>2 DEF Nested, Above
          <5>4. node'[n].scope = node[n].scope
            BY <1>2, <2>1, <5>3 DEF Fits
          <5>5. ScopeAbove(q)' = ScopeAbove(q)
            BY <4>2, <5>4 DEF ScopeAbove
          <5> QED
            BY <3>0, <3>2, <4>1, <5>5 DEF Fits, ScopeAbove
        <4>3. CASE q # n
          <5>1. ScopeAbove(q)' = ScopeAbove(q)
            BY <1>2, <1>5, <2>1, <4>3 DEF ScopeAbove
          <5> QED
            BY <3>0, <3>2, <4>1, <5>1 DEF Fits, ScopeAbove
        <4> QED
          BY <4>2, <4>3
      <3> QED
        BY <3>3, <3>4
    <2> QED
      BY <1>7, <1>9, <2>2 DEF Nested
  <1> QED
    BY <1>11, <1>12

LEMMA NextNested == IInv /\ Nested /\ [Next]_vars => Nested'
  <1> SUFFICES ASSUME IInv, Nested, [Next]_vars PROVE Nested'
    OBVIOUS
  <1>1. ASSUME NEW n \in Nodes, NodeNext(n) PROVE Nested'
    <2>1. CASE \E type \in Types, p \in Parents : createOrganization(n, type, p)
      BY <2>1, CreateNested
    <2>2. CASE \E type \in Types, p \in Parents : InsertCreation(n, type, p)
      BY <2>2, NestedStays DEF InsertCreation, history
    <2>3. CASE \E type \in Types, p \in Parents, given \in BOOLEAN : updateOrganization(n, type, p, given)
      BY <2>3, UpdateNested
    <2>4. CASE \E p \in Parents : moveOrganization(n, p)
      <3>1. PICK p \in Parents : updateOrganization(n, node[n].type, p, TRUE)
        BY <2>4 DEF moveOrganization
      <3>2. node[n].type \in Types
        BY <3>1 DEF updateOrganization, Exists, IInv, Shapes, Fields
      <3> QED
        BY <3>1, <3>2, UpdateNested
    <2>5. CASE \/ \E r \in Nodes : reassignDeactivateOrganization(n, r)
               \/ exceptionDeactivate(n) \/ ExceptionExpires(n) \/ transition(n)
               \/ \E e \in {"OPEN", "EXPIRED"} : reactivateException(n, e)
      BY <2>5, StatesNested
    <2> QED
      BY <1>1, <2>1, <2>2, <2>3, <2>4, <2>5 DEF NodeNext
  <1>2. CASE CommitCreation
    BY <1>2, CommitNested
  <1>3. CASE RollbackCreation \/ UNCHANGED vars
    BY <1>3, NestedStays DEF RollbackCreation, history, vars
  <1> QED
    BY <1>1, <1>2, <1>3 DEF Next

\* Whoever may work in a node's scope may do so in all that is below it, after
\* any number of moves and changes of type that reconcile a subtree's scopes
\* (updateOrganization, app.reconcile_organization_subtree_scopes), as long as
\* no node above it was created the generic way and the index is right.
THEOREM ScopesAreNested == Spec => [](raced \/ ScopesFollowHierarchy)
  <1>1. Nested => raced \/ ScopesFollowHierarchy
    BY DEF Nested, Fits, ScopesFollowHierarchy
  <1>2. Init => IInv /\ Nested
    BY InitIInv, NestedInit
  <1>3. IInv /\ Nested /\ [Next]_vars => (IInv /\ Nested)'
    BY NextIInv, NextNested
  <1> QED
    BY <1>1, <1>2, <1>3, PTL DEF Spec
-----------------------------------------------------------------------------
(***************************************************************************)
(* Employees: the groups below a manager, for managers given by up.        *)
(***************************************************************************)
Under(up, y, S) == {x \in S : up[x] = y}
IsGroup(up, e, S, T) == Under(up, e, S) \subseteq T /\ \A y \in T : Under(up, y, S) \subseteq T
Down(up, e, S) == {x \in S : \A T \in SUBSET S : IsGroup(up, e, S, T) => x \in T}
Uncircled(up, S) == \A e \in S : e \notin Down(up, e, S)

LEMMA DownIsGroup ==
  ASSUME NEW up, NEW S, NEW e
  PROVE  Down(up, e, S) \subseteq S /\ IsGroup(up, e, S, Down(up, e, S))
  <1> DEFINE D == Down(up, e, S)
  <1>1. D \subseteq S
    BY DEF Down
  <1>2. ASSUME NEW x \in Under(up, e, S)
        PROVE  x \in D
    BY DEF Down, IsGroup, Under
  <1>3. ASSUME NEW y \in D, NEW x \in Under(up, y, S)
        PROVE  x \in D
    BY DEF Down, IsGroup, Under
  <1> QED
    BY <1>1, <1>2, <1>3 DEF IsGroup

LEMMA DownIsLeast ==
  ASSUME NEW up, NEW S, NEW e, NEW T \in SUBSET S, IsGroup(up, e, S, T)
  PROVE  Down(up, e, S) \subseteq T
  BY DEF Down

\* With fewer people and the same managers there is less below somebody.
LEMMA DownNarrows ==
  ASSUME NEW up, NEW to, NEW S, NEW S2, NEW e,
         \A x \in S2 : \A y \in S2 \cup {e} : to[x] = y => x \in S /\ up[x] = y
  PROVE  Down(to, e, S2) \subseteq Down(up, e, S)
  <1> DEFINE D == Down(up, e, S)
             T == D \cap S2
  <1>1. IsGroup(up, e, S, D)
    BY DownIsGroup
  <1>2. Under(to, e, S2) \subseteq Under(up, e, S)
    BY DEF Under
  <1>3. \A y \in T : Under(to, y, S2) \subseteq Under(up, y, S)
    BY DEF Under
  <1>4. \A y : Under(to, y, S2) \subseteq S2
    BY DEF Under
  <1> HIDE DEF D
  <1>5. IsGroup(to, e, S2, T)
    BY <1>1, <1>2, <1>3, <1>4 DEF IsGroup
  <1>6. Down(to, e, S2) \subseteq T
    BY <1>5, DownIsLeast
  <1> QED
    BY <1>6 DEF D

\* A group that reports to somebody outside of it closes no circle.
LEMMA Regrafted ==
  ASSUME NEW up, NEW to, NEW S, NEW S2 \in SUBSET S, NEW C \in SUBSET S, NEW r,
         Uncircled(up, S), r \notin C,
         \A y \in C : Under(up, y, S) \subseteq C,
         \A x \in S2 : to[x] = up[x] \/ (to[x] = r /\ x \in C)
  PROVE  Uncircled(to, S2)
  <1> SUFFICES ASSUME NEW e \in S2
               PROVE  e \notin Down(to, e, S2)
    BY DEF Uncircled
  <1> DEFINE D == Down(up, e, S)
  <1>1. D \subseteq S /\ IsGroup(up, e, S, D) /\ e \notin D
    BY DownIsGroup DEF Uncircled
  <1> HIDE DEF D
  <1>2. CASE e \in C
    <2>1. IsGroup(up, e, S, C)
      BY <1>2 DEF IsGroup
    <2>2. D \subseteq C
      BY <2>1, DownIsLeast DEF D
    <2>3. \A y \in C : Under(to, y, S2) \subseteq Under(up, y, S) \cap S2
      BY DEF Under
    <2>4. IsGroup(to, e, S2, D \cap S2)
      BY <1>1, <1>2, <2>2, <2>3 DEF IsGroup
    <2>5. Down(to, e, S2) \subseteq D \cap S2
      BY <2>4, DownIsLeast
    <2> QED
      BY <1>1, <2>5
  <1>3. CASE e \notin C
    <2> DEFINE T == (D \cup C) \cap S2
    <2>1. \A y : Under(to, y, S2) \subseteq (Under(up, y, S) \cup C) \cap S2
      BY DEF Under
    <2>2. Under(to, e, S2) \subseteq T
      BY <1>1, <2>1 DEF IsGroup
    <2>3. \A y \in T : Under(to, y, S2) \subseteq T
      BY <1>1, <2>1 DEF IsGroup
    <2> HIDE DEF T
    <2>4. IsGroup(to, e, S2, T)
      BY <2>2, <2>3 DEF IsGroup
    <2>5. T \in SUBSET S2 /\ e \notin T
      BY <1>1, <1>3 DEF T
    <2>6. Down(to, e, S2) \subseteq T
      BY <2>4, <2>5, DownIsLeast
    <2> QED
      BY <2>5, <2>6
  <1> QED
    BY <1>2, <1>3

Leads == [x \in Crew |-> staff[x].manager]
Stayed == Crew \ left

LEMMA BelowIsDown ==
  ASSUME NEW e, NEW S \in SUBSET Crew
  PROVE  E!Below(e, S) = Down(Leads, e, S)
  <1>1. \A y : E!Reports(y, S) = Under(Leads, y, S)
    BY DEF E!Reports, Under, Leads
  <1>2. ASSUME NEW T \in SUBSET S
        PROVE  E!Reports(e, S) \cup UNION {E!Reports(y, S) : y \in T} \subseteq T <=> IsGroup(Leads, e, S, T)
    BY <1>1 DEF IsGroup
  <1> QED
    BY <1>2 DEF E!Below, Down

(***************************************************************************)
(* Employees: the invariant.                                               *)
(***************************************************************************)
Person == [state : {"ABSENT", "ACTIVE", "INACTIVE"}, manager : Crew \cup {None},
           cover : SUBSET Places, linked : BOOLEAN]

Tasked ==
  \/ hand = E!Idle
  \/ /\ hand.kind \in {"CREATE", "UPDATE"} /\ hand.e \in Crew /\ hand.to \in Crew \cup {None}
     /\ hand.cover \in SUBSET Places /\ hand.linked \in BOOLEAN
  \/ hand.kind = "ASSIGN" /\ hand.to \in Crew /\ hand.assignment \in Assignments
  \/ hand.kind = "REASSIGN" /\ hand.e \in Crew /\ hand.to \in Crew /\ hand.reports \in SUBSET Crew

Staffed ==
  /\ staff \in [Crew -> Person]
  /\ link \in [Crew -> [Places -> {"NONE", "ACTIVE", "INACTIVE"}]]
  /\ assigned \in [Assignments -> Crew \cup {None}]
  /\ left \in SUBSET Crew /\ gone \in SUBSET Crew /\ open \in SUBSET left
  /\ unlocked \in 0 .. MaxUnlocked
  /\ Tasked

\* Nobody reports to, or is, somebody who is not there, and who is inactive
\* has left.
Present(e) == staff[e].state # "ABSENT"
Hired ==
  /\ \A e \in Crew : ~Present(e) => staff[e].manager = None /\ ~staff[e].linked
  /\ \A e \in Crew : staff[e].manager # None => Present(staff[e].manager)
  /\ \A e \in Crew : staff[e].state = "INACTIVE" => e \in left
  /\ \A e \in left : Present(e)
  /\ hand.kind # "IDLE" => hand.to = None \/ Present(hand.to)
  /\ hand.kind = "UPDATE" => Present(hand.e)

Placed ==
  \A e \in Crew, s \in Places : link[e][s] = "ACTIVE" => s \in staff[e].cover /\ staff[e].linked

\* A superior is active, or known to have gone; so is the one that hand is
\* about to make a superior.
Attends(m) == m = None \/ staff[m].state = "ACTIVE" \/ m \in open \/ m \in gone
Attended ==
  /\ \A e \in Stayed : Attends(staff[e].manager)
  /\ \A a \in Assignments : Attends(assigned[a])
  /\ hand.kind # "IDLE" => Attends(hand.to)

\* A reassignment still knows all the reports of who leaves.
Relieved ==
  hand.kind = "REASSIGN" =>
    /\ \A x \in hand.reports : staff[x].manager = hand.e
    /\ \A x \in Stayed : staff[x].manager = hand.e => x \in hand.reports

\* Nor will what hand is about to write close a circle.
Ordered ==
  /\ Uncircled(Leads, Stayed)
  /\ hand.kind \in {"CREATE", "UPDATE", "REASSIGN"} =>
       hand.to # hand.e /\ hand.to \notin Down(Leads, hand.e, Stayed)

Led == Staffed /\ Hired /\ Placed /\ Attended /\ Relieved /\ Ordered

LEMMA CrewBounds ==
  /\ None \notin Crew /\ MaxUnlocked \in Nat
  /\ \A e \in Crew : Covers[e] \subseteq SUBSET Places
  BY MastersAssumption

LEMMA LedInit == E!Init => Led
  <1> SUFFICES ASSUME E!Init PROVE Led
    OBVIOUS
  <1>1. PICK f \in Crew, c \in UNION {Covers[x] : x \in Crew} :
          /\ c \in Covers[f]
          /\ staff = [x \in Crew |-> IF x = f THEN [E!Nobody EXCEPT !.state = "ACTIVE", !.cover = c]
                                              ELSE E!Nobody]
    BY DEF E!Init
  <1>2. /\ link = [e \in Crew |-> [s \in Places |-> "NONE"]] /\ assigned = [a \in Assignments |-> None]
        /\ open = {} /\ hand = E!Idle /\ left = {} /\ gone = {} /\ unlocked = 0
    BY DEF E!Init
  <1>3. \A x \in Crew : staff[x].manager = None /\ ~staff[x].linked /\ staff[x].state \in {"ABSENT", "ACTIVE"}
    BY <1>1 DEF E!Nobody
  <1>4. E!Nobody \in Person /\ [E!Nobody EXCEPT !.state = "ACTIVE", !.cover = c] \in Person
    BY <1>1, CrewBounds DEF E!Nobody, Person
  <1>5. staff \in [Crew -> Person]
    BY <1>1, <1>4
  <1>6. Staffed
    BY <1>2, <1>5, CrewBounds DEF Staffed, Tasked
  <1>7. hand.kind = "IDLE"
    BY <1>2 DEF E!Idle
  <1>8. Hired
    BY <1>2, <1>3, <1>7 DEF Hired, Present
  <1>12. Attended /\ Relieved
    BY <1>2, <1>3, <1>7 DEF Attended, Attends, Relieved, Stayed
  <1>9. Placed
    BY <1>2 DEF Placed
  <1>10. ASSUME NEW e \in Crew
         PROVE  e \notin Down(Leads, e, Stayed)
    <2>1. IsGroup(Leads, e, Stayed, {})
      BY <1>3, CrewBounds DEF IsGroup, Under, Leads, Stayed
    <2> QED
      BY <2>1, DownIsLeast
  <1>11. Ordered
    BY <1>7, <1>10 DEF Ordered, Uncircled, Stayed
  <1> QED
    BY <1>6, <1>8, <1>9, <1>11, <1>12 DEF Led

\* Only what hand says changes.
LEMMA HandTaken ==
  ASSUME Led, Tasked', UNCHANGED <<staff, link, assigned, open, left, gone, unlocked>>,
         hand'.kind # "IDLE" =>
           hand'.to = None \/ (Present(hand'.to) /\ Attends(hand'.to)),
         hand'.kind = "UPDATE" => Present(hand'.e),
         hand'.kind \in {"CREATE", "UPDATE", "REASSIGN"} =>
           hand'.to # hand'.e /\ hand'.to \notin Down(Leads, hand'.e, Stayed),
         hand'.kind = "REASSIGN" =>
           /\ \A x \in hand'.reports : staff[x].manager = hand'.e
           /\ \A x \in Stayed : staff[x].manager = hand'.e => x \in hand'.reports
  PROVE  Led'
  <1>1. Staffed' /\ Placed'
    BY DEF Led, Staffed, Placed
  <1>2. Hired'
    BY DEF Led, Hired, Present
  <1>3. Attended'
    BY DEF Led, Attended, Attends, Stayed
  <1>4. Relieved'
    BY DEF Relieved, Stayed
  <1>5. Leads' = Leads /\ Stayed' = Stayed
    BY DEF Leads, Stayed
  <1>6. Ordered'
    BY <1>5 DEF Led, Ordered
  <1> QED
    BY <1>1, <1>2, <1>3, <1>4, <1>6 DEF Led

\* What a page finds not to be below somebody is not below them among those
\* who stayed.
LEMMA DownOfThePage ==
  ASSUME Led, NEW S \in SUBSET Crew, NEW e \in Crew, \A x \in Stayed : staff[x].manager # None => x \in S
  PROVE  Down(Leads, e, Stayed) \subseteq E!Below(e, S)
  <1>1. \A x \in Stayed : \A y \in Stayed \cup {e} : Leads[x] = y => x \in S /\ Leads[x] = y
    BY CrewBounds DEF Leads, Stayed
  <1> QED
    BY <1>1, BelowIsDown, DownNarrows

LEMMA HireStep ==
  ASSUME Led, NEW e \in Crew, NEW m \in Crew \cup {None}, NEW c \in Covers[e], NEW l \in BOOLEAN,
         E!createEmployee(e, m, c, l)
  PROVE  Led'
  <1>1. /\ ~Present(e) /\ (m = None \/ (m \in Crew /\ staff[m].state = "ACTIVE"))
        /\ hand' = [kind |-> "CREATE", e |-> e, to |-> m, cover |-> c, linked |-> l]
        /\ UNCHANGED <<staff, link, assigned, open, left, gone, unlocked>>
    BY DEF E!createEmployee, E!Active, Present
  <1>2. Tasked' /\ hand'.kind = "CREATE" /\ hand'.to = m /\ hand'.e = e
    BY <1>1, CrewBounds DEF Tasked
  <1>3. IsGroup(Leads, e, Stayed, {})
    BY <1>1, CrewBounds DEF IsGroup, Under, Leads, Stayed, Led, Hired
  <1>4. m \notin Down(Leads, e, Stayed)
    BY <1>3, DownIsLeast
  <1>5. m # e /\ (m = None \/ (Present(m) /\ Attends(m)))
    BY <1>1, CrewBounds DEF Present, Attends
  <1> QED
    BY <1>1, <1>2, <1>4, <1>5, HandTaken

LEMMA PromoteStep ==
  ASSUME Led, NEW e \in Crew, NEW m \in Crew \cup {None}, NEW c \in Covers[e], NEW l \in BOOLEAN,
         E!updateEmployee(e, m, c, l)
  PROVE  Led'
  <1>1. /\ m # None => staff[m].state = "ACTIVE" /\ m # e /\ m \notin E!Below(e, Crew)
        /\ Present(e)
        /\ hand' = [kind |-> "UPDATE", e |-> e, to |-> m, cover |-> c, linked |-> l]
        /\ UNCHANGED <<staff, link, assigned, open, left, gone, unlocked>>
    BY DEF E!updateEmployee, E!MayManage, E!Active, Present
  <1>2. Tasked' /\ hand'.kind = "UPDATE" /\ hand'.to = m /\ hand'.e = e
    BY <1>1, CrewBounds DEF Tasked
  <1>3. Down(Leads, e, Stayed) \subseteq E!Below(e, Crew)
    BY DownOfThePage DEF Stayed
  <1>4. Down(Leads, e, Stayed) \subseteq Crew
    BY DownIsGroup DEF Stayed
  <1>5. m # e /\ m \notin Down(Leads, e, Stayed)
    BY <1>1, <1>3, <1>4, CrewBounds
  <1>6. m = None \/ (Present(m) /\ Attends(m))
    BY <1>1 DEF Present, Attends
  <1> QED
    BY <1>1, <1>2, <1>5, <1>6, HandTaken

LEMMA BulkStep ==
  ASSUME Led, NEW e \in Crew, NEW a \in Assignments, E!bulkAssignments(a, e)
  PROVE  Led'
  <1>1. /\ staff[e].state = "ACTIVE"
        /\ hand' = [kind |-> "ASSIGN", assignment |-> a, to |-> e]
        /\ UNCHANGED <<staff, link, assigned, open, left, gone, unlocked>>
    BY DEF E!bulkAssignments, E!Active
  <1>2. Tasked' /\ hand'.kind = "ASSIGN" /\ hand'.to = e
    BY <1>1 DEF Tasked
  <1>3. Present(e) /\ Attends(e)
    BY <1>1 DEF Present, Attends
  <1> QED
    BY <1>1, <1>2, <1>3, HandTaken

LEMMA RelieveStep ==
  ASSUME Led, NEW e \in Crew, NEW r \in Crew, E!reassignEmployee(e, r)
  PROVE  Led'
  <1>1. /\ r # e /\ staff[r].state = "ACTIVE" /\ r \notin E!Below(e, E!Actives)
        /\ hand' = [kind |-> "REASSIGN", e |-> e, to |-> r, reports |-> E!Reports(e, E!Actives)]
        /\ UNCHANGED <<staff, link, assigned, open, left, gone, unlocked>>
    BY DEF E!reassignEmployee, E!Active
  <1>2. E!Actives = {x \in Crew : staff[x].state = "ACTIVE"}
    BY CrewBounds DEF E!Actives, E!Active
  <1>3. \A x \in Stayed : staff[x].manager # None => x \in E!Actives
    BY <1>2 DEF Led, Hired, Staffed, Person, Present, Stayed
  <1>4. Down(Leads, e, Stayed) \subseteq E!Below(e, E!Actives)
    BY <1>2, <1>3, DownOfThePage
  <1>5. /\ Tasked' /\ hand'.kind = "REASSIGN" /\ hand'.to = r /\ hand'.e = e
        /\ hand'.reports = {x \in E!Actives : staff[x].manager = e}
    BY <1>1, <1>2 DEF Tasked, E!Reports
  <1>6. Present(r) /\ Attends(r)
    BY <1>1 DEF Present, Attends
  <1>7. \A x \in Stayed : staff[x].manager = e => x \in hand'.reports
    BY <1>3, <1>5, CrewBounds
  <1>8. \A x \in hand'.reports : staff[x].manager = hand'.e
    BY <1>5
  <1>9. hand'.to # hand'.e /\ hand'.to \notin Down(Leads, hand'.e, Stayed)
    BY <1>1, <1>4, <1>5
  <1> QED
    BY <1>1, <1>5, <1>6, <1>7, <1>8, <1>9, HandTaken

\* What is below somebody can only become less when people leave.
LEMMA OrderNarrows ==
  ASSUME Led, UNCHANGED hand,
         \A x \in Stayed' : x \in Stayed /\ staff'[x].manager = staff[x].manager
  PROVE  Ordered'
  <1> DEFINE up == Leads
             S == Stayed
             to == Leads'
             S2 == Stayed'
  <1>1. S2 \in SUBSET S /\ \A x \in S2 : to[x] = up[x]
    BY DEF Leads, Stayed
  <1>2. Uncircled(up, S)
    BY DEF Led, Ordered
  <1> HIDE DEF up, S, to, S2
  <1>3. Uncircled(to, S2)
    <2>1. \A x \in S2 : Down(to, x, S2) \subseteq Down(up, x, S)
      BY <1>1, DownNarrows
    <2> QED
      BY <1>1, <1>2, <2>1 DEF Uncircled
  <1>4. Down(to, hand.e, S2) \subseteq Down(up, hand.e, S)
    BY <1>1, DownNarrows
  <1> USE DEF up, S, to, S2
  <1>5. Uncircled(Leads, Stayed)'
    BY <1>3 DEF Uncircled, Down, IsGroup, Under
  <1>6. Down(Leads, hand.e, Stayed)' = Down(to, hand.e, S2)
    BY DEF Down, IsGroup, Under
  <1> QED
    BY <1>4, <1>5, <1>6 DEF Led, Ordered

LEMMA WriteStaffStep ==
  ASSUME Led, E!Write
  PROVE  Led'
  <1> DEFINE e == hand.e
             row == [state |-> IF hand.kind = "CREATE" THEN "ACTIVE" ELSE staff[e].state,
                     manager |-> hand.to, cover |-> hand.cover, linked |-> hand.linked]
             grants == E!provisionManagedEmployeeGrants(E!endManagedEmployeeGrants(link[e]), row.cover, row.linked)
  <1>1. /\ hand.kind \in {"CREATE", "UPDATE"} /\ hand' = E!Idle
        /\ staff' = [staff EXCEPT ![e] = row]
        /\ \/ link' = [link EXCEPT ![e] = grants]
           \/ UNCHANGED link /\ row.cover = staff[e].cover /\ row.linked = staff[e].linked
        /\ UNCHANGED <<assigned, open, left, gone, unlocked>>
    BY DEF E!Write
  <1>2. /\ e \in Crew /\ hand.to \in Crew \cup {None}
        /\ hand.cover \in SUBSET Places /\ hand.linked \in BOOLEAN
    BY <1>1 DEF Led, Staffed, Tasked, E!Idle
  <1>3. row \in Person /\ row.state # "ABSENT" /\ (row.state = "INACTIVE" => e \in left)
    <2>1. staff[e] \in Person
      BY <1>2 DEF Led, Staffed
    <2>2. hand.kind = "UPDATE" => staff[e].state # "ABSENT"
      BY DEF Led, Hired, Present
    <2>3. staff[e].state = "INACTIVE" => e \in left
      BY <1>2 DEF Led, Hired
    <2> QED
      BY <1>1, <1>2, <2>1, <2>2, <2>3 DEF Person
  <1>4. \A s \in Places : /\ grants[s] \in {"NONE", "ACTIVE", "INACTIVE"}
                          /\ grants[s] = "ACTIVE" => s \in row.cover /\ row.linked
    <2>1. link[e] \in [Places -> {"NONE", "ACTIVE", "INACTIVE"}]
      BY <1>2 DEF Led, Staffed
    <2>2. \A s \in Places : /\ E!endManagedEmployeeGrants(link[e])[s] \in {"NONE", "INACTIVE"}
      BY <2>1 DEF E!endManagedEmployeeGrants
    <2> HIDE DEF row
    <2> QED
      BY <2>2 DEF E!provisionManagedEmployeeGrants
  <1>5. grants \in [Places -> {"NONE", "ACTIVE", "INACTIVE"}]
    BY <1>4 DEF E!provisionManagedEmployeeGrants
  <1>6. row.manager = hand.to
    OBVIOUS
  <1>7. row.state = "ACTIVE" \/ row.state = staff[e].state
    BY <1>1
  <1> HIDE DEF grants, row
  <1>8. Staffed'
    <2>1. staff' \in [Crew -> Person]
      BY <1>1, <1>2, <1>3 DEF Led, Staffed
    <2>2. link' \in [Crew -> [Places -> {"NONE", "ACTIVE", "INACTIVE"}]]
      BY <1>1, <1>2, <1>5 DEF Led, Staffed
    <2>3. Tasked'
      BY <1>1 DEF Tasked
    <2> QED
      BY <1>1, <2>1, <2>2, <2>3 DEF Led, Staffed
  <1>9. staff'[e] = row /\ \A x \in Crew \ {e} : staff'[x] = staff[x]
    BY <1>1, <1>2 DEF Led, Staffed
  <1>10. hand'.kind = "IDLE"
    BY <1>1 DEF E!Idle
  <1>11. Hired'
    <2>1. \A x \in Crew : staff[x].state # "ABSENT" => staff'[x].state # "ABSENT"
      BY <1>3, <1>9
    <2>2. hand.to # None => staff'[hand.to].state # "ABSENT"
      BY <1>1, <1>2, <2>1 DEF Led, Hired, Present
    <2>3. \A x \in Crew \ {e} : staff[x].manager # None => staff'[staff[x].manager].state # "ABSENT"
      BY <2>1 DEF Led, Hired, Present, Staffed, Person
    <2>4. \A x \in Crew : staff'[x].manager # None => staff'[staff'[x].manager].state # "ABSENT"
      BY <1>6, <1>9, <2>2, <2>3
    <2>5. \A x \in Crew : staff'[x].state = "ABSENT" => staff'[x].manager = None /\ ~staff'[x].linked
      BY <1>3, <1>9 DEF Led, Hired, Present
    <2>6. \A x \in Crew : staff'[x].state = "INACTIVE" => x \in left'
      BY <1>1, <1>3, <1>9 DEF Led, Hired
    <2>7. \A x \in left' : staff'[x].state # "ABSENT"
      BY <1>1, <2>1 DEF Led, Staffed, Hired, Present
    <2> QED
      BY <1>10, <2>4, <2>5, <2>6, <2>7 DEF Hired, Present
  <1>12. Placed'
    <2>1. ASSUME NEW x \in Crew, NEW s \in Places, link'[x][s] = "ACTIVE"
          PROVE  s \in staff'[x].cover /\ staff'[x].linked
      <3>1. CASE x = e
        BY <1>1, <1>2, <1>4, <1>9, <2>1, <3>1 DEF Led, Staffed, Placed
      <3>2. CASE x # e
        BY <1>1, <1>9, <2>1, <3>2 DEF Led, Staffed, Placed
      <3> QED
        BY <3>1, <3>2
    <2> QED
      BY <2>1 DEF Placed
  <1>13. Attended'
    <2> DEFINE Later(m) == m = None \/ staff'[m].state = "ACTIVE" \/ m \in open' \/ m \in gone'
    <2>1. \A x \in Crew \cup {None} : Attends(x) => Later(x)
      BY <1>1, <1>7, <1>9, CrewBounds DEF Attends
    <2>2. Attends(hand.to)
      BY <1>1 DEF Led, Attended
    <2>3. \A x \in Stayed : Later(staff'[x].manager)
      <3>1. \A x \in Stayed : staff[x].manager \in Crew \cup {None} /\ Attends(staff[x].manager)
        BY DEF Led, Attended, Staffed, Person, Stayed
      <3>2. \A x \in Stayed : staff'[x].manager = IF x = e THEN hand.to ELSE staff[x].manager
        BY <1>6, <1>9 DEF Stayed
      <3> HIDE DEF Later
      <3> QED
        BY <1>2, <2>1, <2>2, <3>1, <3>2
    <2>4. \A a \in Assignments : Later(assigned'[a])
      BY <1>1, <2>1 DEF Led, Attended, Staffed
    <2> QED
      BY <1>1, <1>10, <2>3, <2>4 DEF Attended, Attends, Stayed
  <1>14. Relieved'
    BY <1>10 DEF Relieved
  <1>15. Ordered'
    <2> DEFINE up == Leads
               to == Leads'
               S == Stayed
               D == Down(up, e, S)
               C == IF e \in S THEN D \cup {e} ELSE {}
               r == hand.to
    <2>1. D \subseteq S /\ IsGroup(up, e, S, D)
      BY DownIsGroup
    <2>2. Uncircled(up, S) /\ r # e /\ r \notin D
      BY <1>1 DEF Led, Ordered
    <2>3. \A x \in S : to[x] = up[x] \/ (to[x] = r /\ x = e)
      BY <1>6, <1>9 DEF Leads, Stayed
    <2> HIDE DEF up, to, S, D, r
    <2>4. C \in SUBSET S /\ r \notin C /\ \A y \in C : Under(up, y, S) \subseteq C
      BY <2>1, <2>2 DEF IsGroup
    <2>5. \A x \in S : to[x] = up[x] \/ (to[x] = r /\ x \in C)
      BY <2>3
    <2> HIDE DEF C
    <2>6. Uncircled(to, S)
      BY <2>2, <2>4, <2>5, Regrafted
    <2>7. Uncircled(Leads, Stayed)'
      BY <1>1, <2>6 DEF Uncircled, Down, IsGroup, Under, to, S, Stayed
    <2> QED
      BY <1>10, <2>7 DEF Ordered
  <1> QED
    BY <1>8, <1>11, <1>12, <1>13, <1>14, <1>15 DEF Led

LEMMA AssignStep ==
  ASSUME Led, E!Assign
  PROVE  Led'
  <1>1. /\ hand.kind = "ASSIGN" /\ assigned' = [assigned EXCEPT ![hand.assignment] = hand.to] /\ hand' = E!Idle
        /\ UNCHANGED <<staff, link, open, left, gone, unlocked>>
    BY DEF E!Assign
  <1>2. hand.to \in Crew /\ hand.assignment \in Assignments
    BY <1>1 DEF Led, Staffed, Tasked, E!Idle
  <1>3. Staffed'
    BY <1>1, <1>2 DEF Led, Staffed, Tasked
  <1>4. hand'.kind = "IDLE"
    BY <1>1 DEF E!Idle
  <1>5. Hired' /\ Placed' /\ Relieved'
    BY <1>1, <1>4 DEF Led, Hired, Present, Placed, Relieved
  <1>6. Attended'
    <2>1. Attends(hand.to)
      BY <1>1 DEF Led, Attended
    <2>2. \A a \in Assignments : Attends(assigned'[a])
      BY <1>1, <1>2, <2>1 DEF Led, Attended, Staffed
    <2> QED
      BY <1>1, <1>4, <2>2 DEF Led, Attended, Attends, Stayed
  <1>7. Leads' = Leads /\ Stayed' = Stayed
    BY <1>1 DEF Leads, Stayed
  <1>8. Ordered'
    BY <1>4, <1>7 DEF Led, Ordered
  <1> QED
    BY <1>3, <1>5, <1>6, <1>8 DEF Led

LEMMA ReassignStaffStep ==
  ASSUME Led, E!Reassign
  PROVE  Led'
  <1> DEFINE e == hand.e
             r == hand.to
             ended == E!endManagedEmployeeGrants(link[e])
             given == E!provisionManagedEmployeeGrants(link[r], staff[r].cover, staff[r].linked)
  <1>1. /\ hand.kind = "REASSIGN" /\ hand' = E!Idle
        /\ staff' = [x \in Crew |-> IF x = e THEN [staff[x] EXCEPT !.state = "INACTIVE"]
                       ELSE IF x \in hand.reports THEN [staff[x] EXCEPT !.manager = r] ELSE staff[x]]
        /\ assigned' = [a \in Assignments |-> IF assigned[a] = e THEN r ELSE assigned[a]]
        /\ left' = left \cup {e}
        /\ UNCHANGED <<open, gone, unlocked>>
    BY DEF E!Reassign, E!Moved
  <1>2. e \in Crew /\ r \in Crew /\ hand.reports \in SUBSET Crew
    BY <1>1 DEF Led, Staffed, Tasked, E!Idle
  <1>3. r # e /\ r \notin Down(Leads, e, Stayed)
    BY <1>1 DEF Led, Ordered
  <1>4. link' = [link EXCEPT ![e] = ended, ![r] = given]
    BY <1>3 DEF E!Reassign, Led, Staffed
  <1>5. \A x \in Crew : staff[x] \in Person
    BY DEF Led, Staffed
  <1>6. \A x \in Crew :
          /\ staff'[x] \in Person
          /\ staff'[x].cover = staff[x].cover /\ staff'[x].linked = staff[x].linked
          /\ staff'[x].state = IF x = e THEN "INACTIVE" ELSE staff[x].state
          /\ staff'[x].manager = IF x # e /\ x \in hand.reports THEN r ELSE staff[x].manager
    BY <1>1, <1>2, <1>5 DEF Person
  <1>7. /\ ended \in [Places -> {"NONE", "INACTIVE"}]
        /\ given \in [Places -> {"NONE", "ACTIVE", "INACTIVE"}]
        /\ \A s \in Places : given[s] = "ACTIVE" =>
             link[r][s] = "ACTIVE" \/ (s \in staff[r].cover /\ staff[r].linked)
    <2>1. /\ link[e] \in [Places -> {"NONE", "ACTIVE", "INACTIVE"}]
          /\ link[r] \in [Places -> {"NONE", "ACTIVE", "INACTIVE"}]
      BY <1>2 DEF Led, Staffed
    <2> QED
      BY <2>1 DEF E!endManagedEmployeeGrants, E!provisionManagedEmployeeGrants
  <1> HIDE DEF ended, given
  <1>8. /\ link'[e] = ended /\ link'[r] = given
        /\ \A x \in Crew \ {e, r} : link'[x] = link[x]
        /\ link' \in [Crew -> [Places -> {"NONE", "ACTIVE", "INACTIVE"}]]
    BY <1>2, <1>3, <1>4, <1>7 DEF Led, Staffed
  <1>9. hand'.kind = "IDLE"
    BY <1>1 DEF E!Idle
  <1>10. Staffed'
    <2>1. staff' \in [Crew -> Person]
      BY <1>1, <1>6
    <2>2. assigned' \in [Assignments -> Crew \cup {None}]
      BY <1>1, <1>2 DEF Led, Staffed
    <2>3. Tasked'
      BY <1>1 DEF Tasked
    <2> QED
      BY <1>1, <1>2, <1>8, <2>1, <2>2, <2>3 DEF Led, Staffed
  <1>11. \A x \in hand.reports : staff[x].manager = e /\ Present(x)
    BY <1>1, <1>2, CrewBounds DEF Led, Hired, Relieved
  <1>12. Hired'
    <2>1. \A x \in Crew : staff[x].state # "ABSENT" => staff'[x].state # "ABSENT"
      BY <1>6
    <2>2. staff'[r].state # "ABSENT"
      BY <1>1, <1>2, <2>1, CrewBounds DEF Led, Hired, Present
    <2>3. \A x \in Crew : staff[x].manager # None => staff'[staff[x].manager].state # "ABSENT"
      BY <1>5, <2>1 DEF Led, Hired, Present, Person
    <2>4. \A x \in Crew : staff'[x].manager # None => staff'[staff'[x].manager].state # "ABSENT"
      BY <1>6, <2>2, <2>3
    <2>5. \A x \in Crew : staff'[x].state = "ABSENT" => staff'[x].manager = None /\ ~staff'[x].linked
      BY <1>6, <1>11 DEF Led, Hired, Present
    <2>6. \A x \in Crew : staff'[x].state = "INACTIVE" => x \in left'
      BY <1>1, <1>6 DEF Led, Hired
    <2>7. \A x \in left' : staff'[x].state # "ABSENT"
      BY <1>1, <1>2, <1>6, <2>1 DEF Led, Staffed, Hired, Present
    <2> QED
      BY <1>9, <2>4, <2>5, <2>6, <2>7 DEF Hired, Present
  <1>13. Placed'
    <2>1. ASSUME NEW x \in Crew, NEW s \in Places, link'[x][s] = "ACTIVE"
          PROVE  s \in staff[x].cover /\ staff[x].linked
      <3>1. CASE x = e
        BY <1>7, <1>8, <2>1, <3>1
      <3>2. CASE x = r
        BY <1>2, <1>7, <1>8, <2>1, <3>2 DEF Led, Placed
      <3>3. CASE x \notin {e, r}
        BY <1>8, <2>1, <3>3 DEF Led, Placed
      <3> QED
        BY <3>1, <3>2, <3>3
    <2> QED
      BY <1>6, <2>1 DEF Placed
  <1>14. Attended'
    <2> DEFINE Later(m) == m = None \/ staff'[m].state = "ACTIVE" \/ m \in open' \/ m \in gone'
    <2>1. \A x \in Crew \cup {None} : x # e /\ Attends(x) => Later(x)
      BY <1>1, <1>6, CrewBounds DEF Attends
    <2>2. Later(r)
      BY <1>1, <1>2, <1>3, <2>1 DEF Led, Attended
    <2>3. ASSUME NEW x \in Stayed, x # e
          PROVE  Later(staff'[x].manager)
      <3>1. staff[x].manager \in Crew \cup {None} /\ Attends(staff[x].manager)
        BY <1>5 DEF Led, Attended, Person, Stayed
      <3>2. staff[x].manager = e => x \in hand.reports
        BY <1>1 DEF Led, Relieved
      <3>3. staff'[x].manager = IF x \in hand.reports THEN r ELSE staff[x].manager
        BY <1>6, <2>3 DEF Stayed
      <3> HIDE DEF Later
      <3> QED
        BY <2>1, <2>2, <3>1, <3>2, <3>3
    <2>4. ASSUME NEW a \in Assignments
          PROVE  Later(assigned'[a])
      <3>1. assigned[a] \in Crew \cup {None} /\ Attends(assigned[a])
        BY DEF Led, Attended, Staffed
      <3>2. assigned'[a] = IF assigned[a] = e THEN r ELSE assigned[a]
        BY <1>1
      <3> HIDE DEF Later
      <3> QED
        BY <2>1, <2>2, <3>1, <3>2
    <2> QED
      BY <1>1, <1>9, <2>3, <2>4 DEF Attended, Attends, Stayed
  <1>15. Relieved'
    BY <1>9 DEF Relieved
  <1>16. Ordered'
    <2> DEFINE up == Leads
               to == Leads'
               S == Stayed
               S2 == Stayed'
               C == Down(up, e, S)
    <2>1. C \subseteq S /\ IsGroup(up, e, S, C)
      BY DownIsGroup
    <2>2. Uncircled(up, S) /\ r \notin C
      BY <1>3 DEF Led, Ordered
    <2>3. \A x \in S2 : to[x] = up[x] \/ (to[x] = r /\ x \in Under(up, e, S))
      BY <1>1, <1>6, <1>11 DEF Leads, Stayed, Under
    <2>4. S2 \in SUBSET S
      BY <1>1 DEF Stayed
    <2> HIDE DEF up, to, S, S2, C
    <2>5. \A y \in C : Under(up, y, S) \subseteq C
      BY <2>1 DEF IsGroup
    <2>6. \A x \in S2 : to[x] = up[x] \/ (to[x] = r /\ x \in C)
      BY <2>1, <2>3 DEF IsGroup
    <2>7. Uncircled(to, S2)
      BY <2>1, <2>2, <2>4, <2>5, <2>6, Regrafted
    <2>8. Uncircled(Leads, Stayed)'
      BY <2>7 DEF Uncircled, Down, IsGroup, Under, to, S2
    <2> QED
      BY <1>9, <2>8 DEF Ordered
  <1> QED
    BY <1>10, <1>12, <1>13, <1>14, <1>15, <1>16 DEF Led

\* Somebody's state changes, or their grants, without the lock.
LEMMA StateOfStaff ==
  ASSUME Led, NEW e \in Crew, NEW s \in {"ACTIVE", "INACTIVE"}, Present(e),
         staff' = [staff EXCEPT ![e].state = s], left' \in {left, left \cup {e}},
         s = "INACTIVE" => e \in left', UNCHANGED hand
  PROVE  /\ \A x \in Crew : /\ staff'[x].cover = staff[x].cover /\ staff'[x].linked = staff[x].linked
                            /\ staff'[x].manager = staff[x].manager
                            /\ staff'[x].state = IF x = e THEN s ELSE staff[x].state
         /\ staff' \in [Crew -> Person] /\ left' \in SUBSET Crew
         /\ Hired' /\ Relieved' /\ Ordered'
  <1>1. \A x \in Crew : staff[x] \in Person
    BY DEF Led, Staffed
  <1>2. staff' = [x \in Crew |-> IF x = e THEN [staff[x] EXCEPT !.state = s] ELSE staff[x]]
    BY DEF Led, Staffed
  <1>3. \A x \in Crew : /\ staff'[x].cover = staff[x].cover /\ staff'[x].linked = staff[x].linked
                        /\ staff'[x].manager = staff[x].manager
                        /\ staff'[x].state = IF x = e THEN s ELSE staff[x].state
                        /\ staff'[x] \in Person
    BY <1>1, <1>2 DEF Person
  <1>4. staff' \in [Crew -> Person] /\ left' \in SUBSET Crew
    BY <1>2, <1>3 DEF Led, Staffed
  <1>5. \A x \in Crew : staff[x].state # "ABSENT" <=> staff'[x].state # "ABSENT"
    BY <1>3 DEF Present
  <1>6. Hired'
    <2>1. \A x \in Crew : staff'[x].manager # None => staff'[staff'[x].manager].state # "ABSENT"
      BY <1>1, <1>3, <1>5 DEF Led, Hired, Present, Person
    <2>2. \A x \in Crew : staff'[x].state = "ABSENT" => staff'[x].manager = None /\ ~staff'[x].linked
      BY <1>3, <1>5 DEF Led, Hired, Present
    <2>3. \A x \in Crew : staff'[x].state = "INACTIVE" => x \in left'
      BY <1>3 DEF Led, Hired
    <2>4. hand.kind # "IDLE" => hand.to = None \/ staff'[hand.to].state # "ABSENT"
      BY <1>3, <1>5 DEF Led, Staffed, Tasked, Hired, Present, E!Idle
    <2>5. hand.kind = "UPDATE" => staff'[hand.e].state # "ABSENT"
      BY <1>5 DEF Led, Staffed, Tasked, Hired, Present, E!Idle
    <2>6. \A x \in left' : staff'[x].state # "ABSENT"
      BY <1>3, <1>5 DEF Led, Staffed, Hired, Present
    <2> QED
      BY <2>1, <2>2, <2>3, <2>4, <2>5, <2>6 DEF Hired, Present
  <1>7. \A x \in Stayed' : x \in Stayed
    BY DEF Stayed
  <1>8. Relieved'
    BY <1>3, <1>7 DEF Led, Staffed, Tasked, Relieved, Stayed, E!Idle
  <1>9. Ordered'
    BY <1>3, <1>7, OrderNarrows DEF Stayed
  <1> QED
    BY <1>3, <1>4, <1>6, <1>8, <1>9

LEMMA TaskStays == Tasked /\ UNCHANGED hand => Tasked'
  BY DEF Tasked

LEMMA ExceptionStaffStep ==
  ASSUME Led, NEW e \in Crew, E!exceptionDeactivate(e)
  PROVE  Led'
  <1> DEFINE ended == E!endManagedEmployeeGrants(link[e])
  <1>1. /\ Present(e) /\ staff' = [staff EXCEPT ![e].state = "INACTIVE"]
        /\ link' = [link EXCEPT ![e] = ended]
        /\ open' = open \cup {e} /\ left' = left \cup {e}
        /\ gone' \in {gone, gone \cup {e}}
        /\ unlocked < MaxUnlocked /\ unlocked' = unlocked + 1
        /\ UNCHANGED <<assigned, hand>>
    BY DEF E!exceptionDeactivate, E!Overtakes, E!Unlocked, Present
  <1>2. ended \in [Places -> {"NONE", "INACTIVE"}]
    BY DEF Led, Staffed, E!endManagedEmployeeGrants
  <1> HIDE DEF ended
  <1>3. /\ \A x \in Crew : /\ staff'[x].cover = staff[x].cover /\ staff'[x].linked = staff[x].linked
                           /\ staff'[x].manager = staff[x].manager
                           /\ staff'[x].state = IF x = e THEN "INACTIVE" ELSE staff[x].state
        /\ staff' \in [Crew -> Person] /\ left' \in SUBSET Crew
        /\ Hired' /\ Relieved' /\ Ordered'
    BY <1>1, StateOfStaff
  <1>4. link' \in [Crew -> [Places -> {"NONE", "ACTIVE", "INACTIVE"}]]
    BY <1>1, <1>2 DEF Led, Staffed
  <1>5. Staffed'
    BY <1>1, <1>3, <1>4, TaskStays, CrewBounds DEF Led, Staffed
  <1>6. Placed'
    BY <1>1, <1>2, <1>3 DEF Led, Staffed, Placed
  <1>7. Attended'
    <2> DEFINE Later(m) == m = None \/ staff'[m].state = "ACTIVE" \/ m \in open' \/ m \in gone'
    <2>1. \A x \in Crew \cup {None} : Attends(x) => Later(x)
      BY <1>1, <1>3, CrewBounds DEF Attends
    <2>2. \A x \in Stayed' : Later(staff'[x].manager)
      BY <1>1, <1>3, <2>1 DEF Led, Attended, Staffed, Person, Stayed
    <2>3. \A a \in Assignments : Later(assigned'[a])
      BY <1>1, <2>1 DEF Led, Attended, Staffed
    <2>4. hand.kind # "IDLE" => Later(hand.to)
      BY <2>1 DEF Led, Attended, Staffed, Tasked, E!Idle
    <2> QED
      BY <1>1, <2>2, <2>3, <2>4 DEF Attended, Attends
  <1> QED
    BY <1>3, <1>5, <1>6, <1>7 DEF Led

LEMMA ReactivateStaffStep ==
  ASSUME Led, NEW e \in Crew, E!reactivateException(e)
  PROVE  Led'
  <1> DEFINE given == E!provisionManagedEmployeeGrants(link[e], staff[e].cover, staff[e].linked)
  <1>1. /\ e \in open /\ staff' = [staff EXCEPT ![e].state = "ACTIVE"]
        /\ link' = [link EXCEPT ![e] = given]
        /\ open' = open \ {e}
        /\ UNCHANGED <<assigned, hand, left, gone, unlocked>>
    BY DEF E!reactivateException
  <1>2. /\ given \in [Places -> {"NONE", "ACTIVE", "INACTIVE"}]
        /\ \A s \in Places : given[s] = "ACTIVE" =>
             link[e][s] = "ACTIVE" \/ (s \in staff[e].cover /\ staff[e].linked)
    <2>1. link[e] \in [Places -> {"NONE", "ACTIVE", "INACTIVE"}]
      BY DEF Led, Staffed
    <2> QED
      BY <2>1 DEF E!provisionManagedEmployeeGrants
  <1> HIDE DEF given
  <1>3. Present(e)
    BY <1>1 DEF Led, Staffed, Hired
  <1>4. /\ \A x \in Crew : /\ staff'[x].cover = staff[x].cover /\ staff'[x].linked = staff[x].linked
                           /\ staff'[x].manager = staff[x].manager
                           /\ staff'[x].state = IF x = e THEN "ACTIVE" ELSE staff[x].state
        /\ staff' \in [Crew -> Person] /\ left' \in SUBSET Crew
        /\ Hired' /\ Relieved' /\ Ordered'
    BY <1>1, <1>3, StateOfStaff
  <1>5. link' \in [Crew -> [Places -> {"NONE", "ACTIVE", "INACTIVE"}]]
    BY <1>1, <1>2 DEF Led, Staffed
  <1>6. Staffed'
    BY <1>1, <1>4, <1>5, TaskStays DEF Led, Staffed
  <1>7. Placed'
    <2>1. ASSUME NEW x \in Crew, NEW s \in Places, link'[x][s] = "ACTIVE"
          PROVE  s \in staff[x].cover /\ staff[x].linked
      BY <1>1, <1>2, <2>1 DEF Led, Staffed, Placed
    <2> QED
      BY <1>4, <2>1 DEF Placed
  <1>8. Attended'
    <2> DEFINE Later(m) == m = None \/ staff'[m].state = "ACTIVE" \/ m \in open' \/ m \in gone'
    <2>1. \A x \in Crew \cup {None} : Attends(x) => Later(x)
      BY <1>1, <1>4, CrewBounds DEF Attends
    <2>2. \A x \in Stayed' : Later(staff'[x].manager)
      BY <1>1, <1>4, <2>1 DEF Led, Attended, Staffed, Person, Stayed
    <2>3. \A a \in Assignments : Later(assigned'[a])
      BY <1>1, <2>1 DEF Led, Attended, Staffed
    <2>4. hand.kind # "IDLE" => Later(hand.to)
      BY <2>1 DEF Led, Attended, Staffed, Tasked, E!Idle
    <2> QED
      BY <1>1, <2>2, <2>3, <2>4 DEF Attended, Attends
  <1> QED
    BY <1>4, <1>6, <1>7, <1>8 DEF Led

LEMMA TransitionStaffStep ==
  ASSUME Led, NEW e \in Crew, E!transition(e)
  PROVE  Led'
  <1>1. /\ Present(e) /\ left' = left \cup {e} /\ gone' = E!Overtakes(e)
        /\ unlocked < MaxUnlocked /\ unlocked' = unlocked + 1
        /\ UNCHANGED <<link, assigned, open, hand>>
    BY DEF E!transition, E!Unlocked, Present
  <1>2. \/ E!FreeOfWork(e) /\ staff' = [staff EXCEPT ![e].state = "INACTIVE"]
        \/ staff' = [staff EXCEPT ![e].state = "ACTIVE"]
    BY DEF E!transition
  <1>3. PICK s \in {"ACTIVE", "INACTIVE"} :
          /\ staff' = [staff EXCEPT ![e].state = s]
          /\ s = "INACTIVE" => E!FreeOfWork(e)
    BY <1>2
  <1>4. /\ \A x \in Crew : /\ staff'[x].cover = staff[x].cover /\ staff'[x].linked = staff[x].linked
                           /\ staff'[x].manager = staff[x].manager
                           /\ staff'[x].state = IF x = e THEN s ELSE staff[x].state
        /\ staff' \in [Crew -> Person] /\ left' \in SUBSET Crew
        /\ Hired' /\ Relieved' /\ Ordered'
    <2>1. left' \in {left, left \cup {e}}
      BY <1>1
    <2>2. s = "INACTIVE" => e \in left'
      BY <1>1
    <2>3. Present(e) /\ UNCHANGED hand
      BY <1>1
    <2>4. staff' = [staff EXCEPT ![e].state = s]
      BY <1>3
    <2> QED
      BY ZenonT(40), <2>1, <2>2, <2>3, <2>4, StateOfStaff
  <1>5. /\ gone' = IF hand # E!Idle /\ hand.to = e THEN gone \cup {e} ELSE gone
        /\ gone' \in SUBSET Crew /\ gone \subseteq gone'
    BY <1>1 DEF E!Overtakes, Led, Staffed
  <1>6. Staffed'
    BY <1>1, <1>4, <1>5, TaskStays, CrewBounds DEF Led, Staffed
  <1>7. Placed'
    BY <1>1, <1>4 DEF Led, Placed
  <1>8. Attended'
    <2> DEFINE Later(m) == m = None \/ staff'[m].state = "ACTIVE" \/ m \in open' \/ m \in gone'
    <2>1. \A x \in Crew \cup {None} : Attends(x) /\ (x # e \/ s = "ACTIVE") => Later(x)
      BY <1>1, <1>4, <1>5, CrewBounds DEF Attends
    <2>2. s = "INACTIVE" => /\ \A x \in Crew : staff[x].manager = e => staff[x].state # "ACTIVE"
                            /\ \A a \in Assignments : assigned[a] # e
      BY <1>3, CrewBounds DEF E!FreeOfWork, E!Reports, E!Actives, E!Active
    <2>3. \A x \in Stayed : staff[x].manager = e => staff[x].state = "ACTIVE"
      BY CrewBounds DEF Led, Hired, Staffed, Person, Present, Stayed
    <2>4. \A x \in Stayed' : Later(staff'[x].manager)
      <3>1. \A x \in Stayed' : x \in Stayed /\ staff'[x].manager = staff[x].manager
        BY <1>1, <1>4 DEF Stayed
      <3>2. \A x \in Stayed : staff[x].manager \in Crew \cup {None} /\ Attends(staff[x].manager)
        BY DEF Led, Attended, Staffed, Person, Stayed
      <3>3. \A x \in Stayed : staff[x].manager # e \/ s = "ACTIVE"
        BY <2>2, <2>3 DEF Stayed
      <3> HIDE DEF Later
      <3> QED
        BY <2>1, <3>1, <3>2, <3>3
    <2>5. \A a \in Assignments : Later(assigned'[a])
      <3>1. \A a \in Assignments : assigned[a] \in Crew \cup {None} /\ Attends(assigned[a])
        BY DEF Led, Attended, Staffed
      <3> HIDE DEF Later
      <3> QED
        BY <1>1, <2>1, <2>2, <3>1
    <2>6. hand.kind # "IDLE" => Later(hand.to)
      <3>1. SUFFICES ASSUME hand.kind # "IDLE" PROVE Later(hand.to)
        OBVIOUS
      <3>2. Attends(hand.to) /\ hand.to \in Crew \cup {None} /\ hand # E!Idle
        BY <3>1 DEF Led, Attended, Staffed, Tasked, E!Idle
      <3>3. CASE hand.to = e
        BY <1>5, <3>2, <3>3
      <3>4. CASE hand.to # e
        BY <2>1, <3>2, <3>4
      <3> QED
        BY <3>3, <3>4
    <2> QED
      BY <1>1, <2>4, <2>5, <2>6 DEF Attended, Attends
  <1> QED
    BY <1>4, <1>6, <1>7, <1>8 DEF Led

LEMMA CreateRowStep ==
  ASSUME Led, NEW e \in Crew, NEW m \in Crew \cup {None}, NEW c \in Covers[e], E!createRow(e, m, c)
  PROVE  Led'
  <1> DEFINE row == [state |-> "ACTIVE", manager |-> m, cover |-> c, linked |-> FALSE]
  <1>1. /\ ~Present(e) /\ (m # None => Present(m))
        /\ staff' = [staff EXCEPT ![e] = row]
        /\ left' = left \cup {e} /\ unlocked < MaxUnlocked /\ unlocked' = unlocked + 1
        /\ UNCHANGED <<link, assigned, open, hand, gone>>
    BY DEF E!createRow, E!Unlocked, Present
  <1>2. row \in Person
    BY CrewBounds DEF Person
  <1>3. staff'[e] = row /\ \A x \in Crew \ {e} : staff'[x] = staff[x]
    BY <1>1 DEF Led, Staffed
  <1>4. Staffed'
    BY <1>1, <1>2, TaskStays, CrewBounds DEF Led, Staffed
  <1>5. \A x \in Crew : Present(x) => x # e /\ staff'[x].state # "ABSENT"
    BY <1>1, <1>3 DEF Present
  <1>6. Hired'
    <2>1. \A x \in Crew \ {e} : staff[x].manager # None => staff'[staff[x].manager].state # "ABSENT"
      BY <1>5 DEF Led, Hired, Staffed, Person
    <2>2. m # None => staff'[m].state # "ABSENT"
      BY <1>1, <1>5
    <2>3. \A x \in Crew : staff'[x].manager # None => staff'[staff'[x].manager].state # "ABSENT"
      BY <1>3, <2>1, <2>2
    <2>4. \A x \in Crew : staff'[x].state = "ABSENT" => staff'[x].manager = None /\ ~staff'[x].linked
      BY <1>3 DEF Led, Hired, Present
    <2>5. \A x \in Crew : staff'[x].state = "INACTIVE" => x \in left'
      BY <1>1, <1>3 DEF Led, Hired
    <2>6. hand.kind # "IDLE" => hand.to = None \/ staff'[hand.to].state # "ABSENT"
      BY <1>5 DEF Led, Staffed, Tasked, Hired, E!Idle
    <2>7. hand.kind = "UPDATE" => staff'[hand.e].state # "ABSENT"
      BY <1>5 DEF Led, Staffed, Tasked, Hired, E!Idle
    <2>8. \A x \in left' : staff'[x].state # "ABSENT"
      BY <1>1, <1>3, <1>5 DEF Led, Staffed, Hired
    <2> QED
      BY <1>1, <2>3, <2>4, <2>5, <2>6, <2>7, <2>8 DEF Hired, Present
  <1>7. Placed'
    <2>1. \A s \in Places : link[e][s] # "ACTIVE"
      BY <1>1 DEF Led, Hired, Placed
    <2> QED
      BY <1>1, <1>3, <2>1 DEF Led, Placed
  <1>8. Attended'
    <2> DEFINE Later(x) == x = None \/ staff'[x].state = "ACTIVE" \/ x \in open' \/ x \in gone'
    <2>1. \A x \in Crew \cup {None} : Attends(x) => Later(x)
      BY <1>1, <1>3, CrewBounds DEF Attends
    <2>2. \A x \in Stayed' : Later(staff'[x].manager)
      BY <1>1, <1>3, <2>1 DEF Led, Attended, Staffed, Person, Stayed
    <2>3. \A a \in Assignments : Later(assigned'[a])
      BY <1>1, <2>1 DEF Led, Attended, Staffed
    <2>4. hand.kind # "IDLE" => Later(hand.to)
      BY <2>1 DEF Led, Attended, Staffed, Tasked, E!Idle
    <2> QED
      BY <1>1, <2>2, <2>3, <2>4 DEF Attended, Attends
  <1>9. \A x \in Stayed' : x \in Stayed /\ staff'[x].manager = staff[x].manager
    BY <1>1, <1>3 DEF Stayed
  <1>10. Relieved'
    <2>1. SUFFICES ASSUME hand.kind = "REASSIGN"
                   PROVE  /\ \A x \in hand.reports : staff'[x].manager = hand.e
                          /\ \A x \in Stayed' : staff'[x].manager = hand.e => x \in hand.reports
      BY <1>1 DEF Relieved
    <2>2. hand.e \in Crew /\ hand.reports \in SUBSET Crew
      BY <2>1 DEF Led, Staffed, Tasked, E!Idle
    <2>3. \A x \in hand.reports : staff[x].manager = hand.e /\ x # e
      BY <1>1, <2>1, <2>2, CrewBounds DEF Led, Relieved, Hired
    <2> QED
      BY <1>3, <1>9, <2>1, <2>2, <2>3 DEF Led, Relieved
  <1>11. Ordered'
    BY <1>1, <1>9, OrderNarrows
  <1> QED
    BY <1>4, <1>6, <1>7, <1>8, <1>10, <1>11 DEF Led

LEMMA LedStep == Led /\ [E!Next]_employees => Led'
  <1> SUFFICES ASSUME Led, [E!Next]_employees PROVE Led'
    OBVIOUS
  <1>1. CASE \E e \in Crew, m \in Crew \cup {None} : \E c \in Covers[e], l \in {FALSE, (e \in Invitees)} :
               E!createEmployee(e, m, c, l) \/ E!updateEmployee(e, m, c, l)
    <2>1. \A e \in Crew : {FALSE, (e \in Invitees)} \subseteq BOOLEAN
      OBVIOUS
    <2> QED
      BY <1>1, <2>1, HireStep, PromoteStep
  <1>2. CASE E!Write \/ E!Assign \/ E!Reassign
    BY <1>2, WriteStaffStep, AssignStep, ReassignStaffStep
  <1>3. CASE \E e \in Crew, a \in Assignments : E!bulkAssignments(a, e)
    BY <1>3, BulkStep
  <1>4. CASE \E e, r \in Crew : E!reassignEmployee(e, r)
    BY <1>4, RelieveStep
  <1>5. CASE \E e \in Crew : E!exceptionDeactivate(e) \/ E!reactivateException(e) \/ E!transition(e)
    BY <1>5, ExceptionStaffStep, ReactivateStaffStep, TransitionStaffStep
  <1>6. CASE \E e \in Crew, m \in Crew \cup {None} : \E c \in Covers[e] : E!createRow(e, m, c)
    BY <1>6, CreateRowStep
  <1>7. CASE UNCHANGED employees
    <2>1. UNCHANGED <<staff, link, assigned, open, hand, left, gone, unlocked>>
      BY <1>7 DEF employees
    <2>2. Staffed' /\ Hired' /\ Placed' /\ Attended' /\ Relieved'
      BY <2>1 DEF Led, Staffed, Tasked, Hired, Present, Placed, Attended, Attends, Relieved, Stayed
    <2>3. Ordered'
      BY <2>1, OrderNarrows DEF Stayed
    <2> QED
      BY <2>2, <2>3 DEF Led
  <1> QED
    BY <1>1, <1>2, <1>3, <1>4, <1>5, <1>6, <1>7 DEF E!Next

LEMMA LedIsEnough == Led => E!TypeOK /\ E!NoCircle /\ E!NobodyLeftBehind /\ E!GrantsFollowCover
  <1> SUFFICES ASSUME Led
               PROVE  E!TypeOK /\ E!NoCircle /\ E!NobodyLeftBehind /\ E!GrantsFollowCover
    OBVIOUS
  <1>1. E!TypeOK
    BY CrewBounds DEF Led, Staffed, Person, E!TypeOK
  <1>2. E!NoCircle
    BY BelowIsDown DEF Led, Ordered, Uncircled, Stayed, E!NoCircle
  <1>3. E!NobodyLeftBehind
    BY CrewBounds DEF Led, Staffed, Person, Attended, Attends, Stayed, E!NobodyLeftBehind, E!Active
  <1>4. E!GrantsFollowCover
    BY DEF Led, Placed, E!GrantsFollowCover
  <1> QED
    BY <1>1, <1>2, <1>3, <1>4

-----------------------------------------------------------------------------
(***************************************************************************)
(* Imports: what the rows say, of jobs that were committed and of commits  *)
(* under way.                                                              *)
(***************************************************************************)
Entry == [value : Values, version : Nat]
Books == UNION {[S -> Entry] : S \in SUBSET Codes}

Work == [file : Files \cup {None}, via : Attachments \cup {None}, key : Keys \cup {None},
         missing : BOOLEAN, rows : Seq(I!Dispositions), records : Books]

Filed ==
  /\ job \in [Files -> [state : {"NONE", "VALIDATED", "FAILED", "COMMITTED"}, owner : Users \cup {None},
                        rows : Seq(I!Dispositions)]]
  /\ master \in [Codes -> Entry \cup {I!Absent}]
  /\ outbox \in SUBSET Files
  /\ handoff \in [Attachments -> [preview : Keys \cup {None}, commit : Keys \cup {None}]]
  /\ tx \in [Sessions -> Work]
  /\ edits \in [Codes -> Nat]

Said(c, d) ==
  {p \in UNION {{f} \X DOMAIN job[f].rows : f \in Files} :
     Rows[p[1]][p[2]].code = c /\ job[p[1]].rows[p[2]] = d}
Saying(s, c, d) ==
  {p \in {tx[s].file} \X DOMAIN tx[s].rows : Rows[p[1]][p[2]].code = c /\ tx[s].rows[p[2]] = d}

\* A file is handed over by one attachment, with its commit.
Announced ==
  /\ \A f \in Files : job[f].state = "COMMITTED" <=> f \in outbox
  /\ \A f \in Files : Len(job[f].rows) = IF f \in outbox THEN Len(Rows[f]) ELSE 0
  /\ \A a \in Attachments : FileOf[a] \notin outbox => handoff[a].commit = None
  /\ \A a, b \in Attachments :
       FileOf[a] = FileOf[b] /\ handoff[a].commit # None /\ handoff[b].commit # None => a = b

\* A commit under way has its file, and the records it holds, for itself.
Running ==
  /\ \A s \in Sessions : tx[s].file = None =>
       tx[s].rows = <<>> /\ DOMAIN tx[s].records = {} /\ ~tx[s].missing
  /\ \A s \in Sessions : tx[s].file # None =>
       /\ job[tx[s].file].state = "VALIDATED" /\ Len(tx[s].rows) <= Len(Rows[tx[s].file])
       /\ tx[s].via # None => FileOf[tx[s].via] = tx[s].file
  /\ \A s, t \in Sessions : tx[s].file # None /\ tx[s].file = tx[t].file => s = t
  /\ \A s, t \in Sessions : s # t => DOMAIN tx[s].records \cap DOMAIN tx[t].records = {}
  /\ \A s \in Sessions : tx[s].missing =>
       /\ I!AtRow(s) /\ I!Row(s).value \in Values
       /\ I!Row(s).code \notin DOMAIN tx[s].records

\* A record that a commit holds counts the rows that it says changed it.
Held(s, c) ==
  /\ tx[s].records[c].version =
       master[c].version + Cardinality(Saying(s, c, "CREATE")) + Cardinality(Saying(s, c, "UPDATE"))
  /\ Saying(s, c, "CREATE") # {} => Cardinality(Saying(s, c, "CREATE")) = 1 /\ master[c].version = 0

Reporting ==
  \A s \in Sessions, c \in Codes :
    /\ IsFiniteSet(Saying(s, c, "CREATE")) /\ IsFiniteSet(Saying(s, c, "UPDATE"))
    /\ IF c \in DOMAIN tx[s].records THEN Held(s, c)
       ELSE Saying(s, c, "CREATE") = {} /\ Saying(s, c, "UPDATE") = {}

Reported ==
  \A c \in Codes :
    /\ IsFiniteSet(Said(c, "CREATE")) /\ IsFiniteSet(Said(c, "UPDATE"))
    /\ Cardinality(Said(c, "CREATE")) <= 1
    /\ master[c].version = Cardinality(Said(c, "CREATE")) + Cardinality(Said(c, "UPDATE")) + edits[c]

Imported == Filed /\ Announced /\ Running /\ Reporting /\ Reported

LEMMA CardinalityOfRows == \A S : I!Cardinality(S) = Cardinality(S)
  BY DEF I!Cardinality, Cardinality

LEMMA ApartAddUp ==
  ASSUME NEW S, NEW T, IsFiniteSet(S), IsFiniteSet(T), S \cap T = {}
  PROVE  IsFiniteSet(S \cup T) /\ Cardinality(S \cup T) = Cardinality(S) + Cardinality(T)
  <1>1. IsFiniteSet(S \cup T) /\ Cardinality(S \cup T) = Cardinality(S) + Cardinality(T) - Cardinality(S \cap T)
    BY FS_Union
  <1>2. Cardinality(S \cap T) = 0
    BY FS_EmptySet
  <1>3. Cardinality(S) \in Nat /\ Cardinality(T) \in Nat
    BY FS_CardinalityType
  <1> QED
    BY <1>1, <1>2, <1>3

LEMMA FileBounds ==
  /\ Rows \in [Files -> Seq([code : Codes, value : Values \cup {"INVALID", "BROKEN"}])]
  /\ FileOf \in [Attachments -> Files] /\ Values \cap {"INVALID", "BROKEN"} = {}
  /\ None \notin Files /\ None \notin Attachments /\ None \notin Keys /\ None \notin Values
  BY MastersAssumption

LEMMA BookOpened ==
  ASSUME NEW b \in Books
  PROVE  /\ DOMAIN b \in SUBSET Codes
         /\ \A c \in DOMAIN b : b[c] \in Entry
  BY DEF Books

LEMMA BookKept ==
  ASSUME NEW b \in Books, NEW c \in Codes, NEW r \in Entry
  PROVE  /\ [x \in DOMAIN b \cup {c} |-> IF x = c THEN r ELSE b[x]] \in Books
         /\ [x \in {} |-> I!Absent] \in Books
  <1> DEFINE S == DOMAIN b \cup {c}
             g == [x \in S |-> IF x = c THEN r ELSE b[x]]
  <1>1. S \in SUBSET Codes /\ g \in [S -> Entry]
    BY BookOpened
  <1>2. g \in Books
    BY <1>1 DEF Books
  <1>3. [x \in {} |-> I!Absent] \in [{} -> Entry]
    OBVIOUS
  <1>4. [x \in {} |-> I!Absent] \in Books
    BY <1>3 DEF Books
  <1> QED
    BY <1>2, <1>4

\* A row that is done adds a place to what is said of its code.
LEMMA SayingGrows ==
  ASSUME Filed, NEW s \in Sessions, I!AtRow(s), NEW d \in I!Dispositions,
         tx'[s].file = tx[s].file, tx'[s].rows = Append(tx[s].rows, d),
         NEW c \in Codes, NEW e \in I!Dispositions
  PROVE  IF I!Row(s).code = c /\ d = e
         THEN /\ Saying(s, c, e)' = Saying(s, c, e) \cup {<<tx[s].file, Len(tx[s].rows) + 1>>}
              /\ <<tx[s].file, Len(tx[s].rows) + 1>> \notin Saying(s, c, e)
         ELSE Saying(s, c, e)' = Saying(s, c, e)
  <1> DEFINE f == tx[s].file
             R == tx[s].rows
             Q == Append(R, d)
             n == Len(R) + 1
  <1>1. R \in Seq(I!Dispositions)
    BY DEF Filed, Work
  <1>2. /\ DOMAIN R = 1 .. Len(R) /\ DOMAIN Q = 1 .. n /\ Len(R) \in Nat
        /\ \A i \in DOMAIN R : Q[i] = R[i]
        /\ Q[n] = d
    BY <1>1
  <1>3. DOMAIN Q = DOMAIN R \cup {n} /\ n \notin DOMAIN R
    BY <1>2
  <1>4. I!Row(s) = Rows[f][n]
    BY DEF I!Row
  <1>5. Saying(s, c, e) = {p \in {f} \X DOMAIN R : Rows[p[1]][p[2]].code = c /\ R[p[2]] = e}
    BY DEF Saying
  <1>6. Saying(s, c, e)' = {p \in {f} \X DOMAIN Q : Rows[p[1]][p[2]].code = c /\ Q[p[2]] = e}
    BY DEF Saying
  <1> HIDE DEF f, R, Q, n
  <1>7. \A p \in {f} \X DOMAIN R : p[2] \in DOMAIN R
    OBVIOUS
  <1>8. \A p : p \in {f} \X DOMAIN Q <=> p \in {f} \X DOMAIN R \/ p = <<f, n>>
    BY <1>3
  <1>9. \A p : p \in Saying(s, c, e)' <=>
          p \in Saying(s, c, e) \/ (p = <<f, n>> /\ Rows[f][n].code = c /\ d = e)
    BY <1>2, <1>5, <1>6, <1>7, <1>8
  <1>10. <<f, n>> \notin Saying(s, c, e)
    BY <1>3, <1>5
  <1>11. CASE I!Row(s).code = c /\ d = e
    BY <1>4, <1>9, <1>10, <1>11 DEF f, n, R
  <1>12. CASE ~(I!Row(s).code = c /\ d = e)
    <2>1. \A p : p \in Saying(s, c, e)' <=> p \in Saying(s, c, e)
      BY <1>4, <1>9, <1>12
    <2>2. Saying(s, c, e)' = Saying(s, c, e)
      BY <1>5, <1>6, <2>1
    <2> QED
      BY <1>12, <2>2
  <1> QED
    BY <1>11, <1>12

\* What is said by the commits, and of the records, does not change otherwise.
LEMMA SayingStays ==
  ASSUME NEW s, NEW c, NEW d, tx'[s].file = tx[s].file, tx'[s].rows = tx[s].rows
  PROVE  Saying(s, c, d)' = Saying(s, c, d)
  BY DEF Saying

LEMMA SaidStays ==
  ASSUME \A f \in Files : job'[f].rows = job[f].rows
  PROVE  \A c, d : Said(c, d)' = Said(c, d)
  BY DEF Said

LEMMA ImportedInit == I!Init => Imported
  <1> SUFFICES ASSUME I!Init PROVE Imported
    OBVIOUS
  <1>1. /\ job = [f \in Files |-> I!NoJob] /\ master = [c \in Codes |-> I!Absent] /\ outbox = {}
        /\ handoff = [a \in Attachments |-> [preview |-> None, commit |-> None]]
        /\ tx = [s \in Sessions |-> I!NoTx] /\ edits = [c \in Codes |-> 0]
    BY DEF I!Init
  <1>2. I!NoJob = [state |-> "NONE", owner |-> None, rows |-> <<>>]
    BY DEF I!NoJob
  <1>3. /\ I!NoTx = [file |-> None, via |-> None, key |-> None, missing |-> FALSE,
                     rows |-> <<>>, records |-> [c \in {} |-> I!Absent]]
        /\ DOMAIN I!NoTx.records = {}
    BY DEF I!NoTx
  <1>4. [x \in {} |-> I!Absent] \in Books
    <2>1. [x \in {} |-> I!Absent] \in [{} -> Entry]
      OBVIOUS
    <2> QED
      BY <2>1 DEF Books
  <1>5. I!NoTx \in Work
    BY <1>3, <1>4 DEF Work
  <1>6. Filed
    BY <1>1, <1>2, <1>5 DEF Filed
  <1>7. Announced
    BY <1>1, <1>2 DEF Announced
  <1>8. Running
    BY <1>1, <1>3 DEF Running
  <1>9. \A s \in Sessions, c \in Codes : \A d : Saying(s, c, d) = {}
    BY <1>1, <1>3 DEF Saying
  <1>10. \A c \in Codes : \A d : Said(c, d) = {}
    BY <1>1, <1>2 DEF Said
  <1>11. IsFiniteSet({}) /\ Cardinality({}) = 0
    BY FS_EmptySet
  <1>12. Reporting
    BY <1>1, <1>3, <1>9, <1>11 DEF Reporting
  <1>13. I!Absent.version = 0
    BY DEF I!Absent
  <1>14. Reported
    BY <1>1, <1>10, <1>11, <1>13 DEF Reported
  <1> QED
    BY <1>6, <1>7, <1>8, <1>12, <1>14 DEF Imported

\* Files are previewed and commits begun without a word on any record.
LEMMA PreviewedStep ==
  ASSUME Imported, NEW u \in Users, NEW f \in Files, I!previewInTransaction(u, f),
         handoff' \in [Attachments -> [preview : Keys \cup {None}, commit : Keys \cup {None}]],
         \A a \in Attachments : handoff'[a].commit = handoff[a].commit,
         UNCHANGED <<master, outbox, tx, edits>>
  PROVE  Imported'
  <1> DEFINE new == [state |-> IF f \in Headless THEN "FAILED" ELSE "VALIDATED", owner |-> u, rows |-> <<>>]
  <1>1. UNCHANGED job \/ (job[f] = I!NoJob /\ job' = [job EXCEPT ![f] = new])
    BY DEF I!previewInTransaction
  <1>2. I!NoJob.state = "NONE" /\ I!NoJob.rows = <<>>
    BY DEF I!NoJob
  <1>3. new.state \in {"FAILED", "VALIDATED"} /\ new.rows = <<>>
        /\ new \in [state : {"NONE", "VALIDATED", "FAILED", "COMMITTED"}, owner : Users \cup {None},
                    rows : Seq(I!Dispositions)]
    OBVIOUS
  <1> HIDE DEF new
  <1>4. \A g \in Files : job'[g].rows = job[g].rows
    BY <1>1, <1>2, <1>3 DEF Imported, Filed
  <1>5. \A g \in Files : job'[g].state = job[g].state
          \/ (job[g].state = "NONE" /\ job'[g].state \in {"FAILED", "VALIDATED"})
    BY <1>1, <1>2, <1>3 DEF Imported, Filed
  <1>6. Filed'
    <2>1. job' \in [Files -> [state : {"NONE", "VALIDATED", "FAILED", "COMMITTED"}, owner : Users \cup {None},
                             rows : Seq(I!Dispositions)]]
      BY <1>1, <1>3 DEF Imported, Filed
    <2> QED
      BY <2>1 DEF Imported, Filed
  <1>7. Announced'
    BY <1>4, <1>5 DEF Imported, Announced
  <1>8. \A s \in Sessions : tx[s].file # None => job'[tx[s].file].state = "VALIDATED"
    BY <1>5 DEF Imported, Filed, Work, Running
  <1>9. \A s : I!AtRow(s)' = I!AtRow(s) /\ I!Row(s)' = I!Row(s)
    BY DEF I!AtRow, I!Row
  <1>10. Running'
    BY <1>8, <1>9 DEF Imported, Running
  <1>11. \A s, c, d : Saying(s, c, d)' = Saying(s, c, d)
    BY DEF Saying
  <1>12. \A c, d : Said(c, d)' = Said(c, d)
    BY <1>4, SaidStays
  <1>13. Reporting'
    BY <1>11 DEF Imported, Reporting, Held
  <1>14. Reported'
    BY <1>12 DEF Imported, Reported
  <1> QED
    BY <1>6, <1>7, <1>10, <1>13, <1>14 DEF Imported

LEMMA BeginStep ==
  ASSUME Imported, NEW s \in Sessions, NEW f \in Files, NEW via \in Attachments \cup {None},
         NEW key \in Keys \cup {None}, NEW u, I!Committable(f, u), I!Begin(s, f, via, key),
         via # None => FileOf[via] = f
  PROVE  Imported'
  <1> DEFINE new == [I!NoTx EXCEPT !.file = f, !.via = via, !.key = key]
             blank == [x \in {} |-> I!Absent]
  <1>1. /\ tx[s] = I!NoTx /\ tx' = [tx EXCEPT ![s] = new]
        /\ UNCHANGED <<job, master, outbox, handoff, edits>>
        /\ job[f].state = "VALIDATED" /\ \A t \in Sessions : tx[t].file # f
    BY DEF I!Begin, I!Committable, I!Locked
  <1>2. I!NoTx = [file |-> None, via |-> None, key |-> None, missing |-> FALSE, rows |-> <<>>, records |-> blank]
    BY DEF I!NoTx
  <1>3. blank \in Books /\ DOMAIN blank = {}
    <2>1. blank \in [{} -> Entry]
      OBVIOUS
    <2> QED
      BY <2>1 DEF Books
  <1> HIDE DEF blank
  <1>15. ASSUME NEW q, q = [I!NoTx EXCEPT !.file = f, !.via = via, !.key = key]
         PROVE  q = [file |-> f, via |-> via, key |-> key, missing |-> FALSE, rows |-> <<>>, records |-> blank]
    BY <1>2, <1>15
  <1>16. new = [file |-> f, via |-> via, key |-> key, missing |-> FALSE, rows |-> <<>>, records |-> blank]
    BY <1>15
  <1> HIDE DEF new
  <1>4. new \in Work /\ new.file = f /\ new.via = via /\ ~new.missing /\ new.rows = <<>> /\ DOMAIN new.records = {}
    BY <1>3, <1>16 DEF Work
  <1>5. tx'[s] = new /\ \A t \in Sessions \ {s} : tx'[t] = tx[t]
    BY <1>1 DEF Imported, Filed
  <1>6. Filed'
    BY <1>1, <1>4 DEF Imported, Filed
  <1>7. Announced'
    BY <1>1 DEF Imported, Announced
  <1>8. Running'
    <2>1. \A t \in Sessions \ {s} : I!AtRow(t)' = I!AtRow(t) /\ I!Row(t)' = I!Row(t)
      BY <1>5 DEF I!AtRow, I!Row
    <2>2. Len(Rows[f]) \in Nat
      BY FileBounds
    <2>3. \A t \in Sessions : tx'[t].file # None =>
            /\ job'[tx'[t].file].state = "VALIDATED" /\ Len(tx'[t].rows) <= Len(Rows[tx'[t].file])
            /\ tx'[t].via # None => FileOf[tx'[t].via] = tx'[t].file
      BY <1>1, <1>4, <1>5, <2>2 DEF Imported, Running
    <2>4. \A t \in Sessions : tx'[t].missing => t # s /\ tx[t].missing
      BY <1>4, <1>5
    <2>5. \A t \in Sessions : tx'[t].missing =>
            /\ I!AtRow(t)' /\ I!Row(t)'.value \in Values
            /\ I!Row(t)'.code \notin DOMAIN tx'[t].records
      BY <1>5, <2>1, <2>4 DEF Imported, Running
    <2>6. \A t \in Sessions : tx'[t].file = None =>
            tx'[t].rows = <<>> /\ DOMAIN tx'[t].records = {} /\ ~tx'[t].missing
      BY <1>4, <1>5 DEF Imported, Running
    <2>7. \A t, v \in Sessions : tx'[t].file # None /\ tx'[t].file = tx'[v].file => t = v
      BY <1>1, <1>4, <1>5 DEF Imported, Running
    <2>8. \A t, v \in Sessions : t # v => DOMAIN tx'[t].records \cap DOMAIN tx'[v].records = {}
      BY <1>4, <1>5 DEF Imported, Running
    <2> QED
      BY <2>3, <2>5, <2>6, <2>7, <2>8 DEF Running
  <1>9. \A c, d : Said(c, d)' = Said(c, d)
    BY <1>1, SaidStays
  <1>10. Reported'
    BY <1>1, <1>9 DEF Imported, Reported
  <1>11. \A c, d : Saying(s, c, d)' = {}
    BY <1>4, <1>5 DEF Saying
  <1>12. \A t \in Sessions \ {s} : \A c, d : Saying(t, c, d)' = Saying(t, c, d)
    BY <1>5 DEF Saying
  <1>13. IsFiniteSet({})
    BY FS_EmptySet
  <1>14. Reporting'
    <2>1. ASSUME NEW t \in Sessions, NEW c \in Codes
          PROVE  (/\ IsFiniteSet(Saying(t, c, "CREATE")) /\ IsFiniteSet(Saying(t, c, "UPDATE"))
                  /\ IF c \in DOMAIN tx[t].records THEN Held(t, c)
                     ELSE Saying(t, c, "CREATE") = {} /\ Saying(t, c, "UPDATE") = {})'
      <3>1. CASE t = s
        BY <1>4, <1>5, <1>11, <1>13, <3>1
      <3>2. CASE t # s
        <4>1. t \in Sessions \ {s}
          BY <3>2
        <4> QED
          BY <1>1, <1>5, <1>12, <4>1 DEF Imported, Reporting, Held
      <3> QED
        BY <3>1, <3>2
    <2> QED
      BY <2>1 DEF Reporting
  <1> QED
    BY <1>6, <1>7, <1>8, <1>10, <1>14 DEF Imported

LEMMA AbortStep ==
  ASSUME Imported, NEW s \in Sessions, I!Abort(s)
  PROVE  Imported'
  <1>1. tx' = [tx EXCEPT ![s] = I!NoTx] /\ UNCHANGED <<job, master, outbox, handoff, edits>>
    BY DEF I!Abort
  <1>2. [x \in {} |-> I!Absent] \in Books
    <2>1. [x \in {} |-> I!Absent] \in [{} -> Entry]
      OBVIOUS
    <2> QED
      BY <2>1 DEF Books
  <1>3. /\ I!NoTx \in Work /\ I!NoTx.file = None /\ ~I!NoTx.missing /\ I!NoTx.rows = <<>>
        /\ DOMAIN I!NoTx.records = {}
    BY <1>2 DEF Work, I!NoTx
  <1>4. tx'[s] = I!NoTx /\ \A t \in Sessions \ {s} : tx'[t] = tx[t]
    BY <1>1 DEF Imported, Filed
  <1>5. Filed'
    BY <1>1, <1>3 DEF Imported, Filed
  <1>6. Announced'
    BY <1>1 DEF Imported, Announced
  <1>7. Running'
    <2>1. \A t \in Sessions \ {s} : I!AtRow(t)' = I!AtRow(t) /\ I!Row(t)' = I!Row(t)
      BY <1>4 DEF I!AtRow, I!Row
    <2> QED
      BY <1>1, <1>3, <1>4, <2>1 DEF Imported, Running
  <1>8. \A c, d : Said(c, d)' = Said(c, d)
    BY <1>1, SaidStays
  <1>9. Reported'
    BY <1>1, <1>8 DEF Imported, Reported
  <1>10. \A c, d : Saying(s, c, d)' = {}
    BY <1>3, <1>4 DEF Saying
  <1>11. \A t \in Sessions \ {s} : \A c, d : Saying(t, c, d)' = Saying(t, c, d)
    BY <1>4 DEF Saying
  <1>12. IsFiniteSet({})
    BY FS_EmptySet
  <1>13. Reporting'
    <2>1. ASSUME NEW t \in Sessions, NEW c \in Codes
          PROVE  (/\ IsFiniteSet(Saying(t, c, "CREATE")) /\ IsFiniteSet(Saying(t, c, "UPDATE"))
                  /\ IF c \in DOMAIN tx[t].records THEN Held(t, c)
                     ELSE Saying(t, c, "CREATE") = {} /\ Saying(t, c, "UPDATE") = {})'
      <3>1. CASE t = s
        BY <1>3, <1>4, <1>10, <1>12, <3>1
      <3>2. CASE t # s
        <4>1. t \in Sessions \ {s}
          BY <3>2
        <4> QED
          BY <1>1, <1>4, <1>11, <4>1 DEF Imported, Reporting, Held
      <3> QED
        BY <3>1, <3>2
    <2> QED
      BY <2>1 DEF Reporting
  <1> QED
    BY <1>5, <1>6, <1>7, <1>9, <1>13 DEF Imported

LEMMA WriteElsewhereStep ==
  ASSUME Imported, NEW c \in Codes, NEW v \in Values, I!WriteElsewhere(c, v)
  PROVE  Imported'
  <1> DEFINE new == [value |-> v, version |-> master[c].version + 1]
  <1>1. /\ \A s \in Sessions : c \notin DOMAIN tx[s].records
        /\ master' = [master EXCEPT ![c] = new] /\ edits' = [edits EXCEPT ![c] = edits[c] + 1]
        /\ UNCHANGED <<job, outbox, handoff, tx>>
    BY DEF I!WriteElsewhere
  <1>2. master[c].version \in Nat /\ edits[c] \in Nat
    BY DEF Imported, Filed, Entry, I!Absent
  <1>3. new \in Entry /\ new.version = master[c].version + 1
    BY <1>2 DEF Entry
  <1> HIDE DEF new
  <1>4. /\ master'[c].version = master[c].version + 1 /\ edits'[c] = edits[c] + 1
        /\ \A x \in Codes \ {c} : master'[x] = master[x] /\ edits'[x] = edits[x]
    BY <1>1, <1>3 DEF Imported, Filed
  <1>5. Filed'
    BY <1>1, <1>2, <1>3 DEF Imported, Filed
  <1>6. Announced'
    BY <1>1 DEF Imported, Announced
  <1>7. \A s : I!AtRow(s)' = I!AtRow(s) /\ I!Row(s)' = I!Row(s)
    BY <1>1 DEF I!AtRow, I!Row
  <1>8. Running'
    BY <1>1, <1>7 DEF Imported, Running
  <1>9. \A s, x, d : Saying(s, x, d)' = Saying(s, x, d)
    BY <1>1 DEF Saying
  <1>10. \A x, d : Said(x, d)' = Said(x, d)
    BY <1>1, SaidStays
  <1>11. Reporting'
    BY <1>1, <1>4, <1>9 DEF Imported, Reporting, Held
  <1>12. Reported'
    <2>1. /\ Cardinality(Said(c, "CREATE")) \in Nat /\ Cardinality(Said(c, "UPDATE")) \in Nat
          /\ master[c].version = Cardinality(Said(c, "CREATE")) + Cardinality(Said(c, "UPDATE")) + edits[c]
      BY FS_CardinalityType DEF Imported, Reported
    <2>2. master'[c].version = Cardinality(Said(c, "CREATE")) + Cardinality(Said(c, "UPDATE")) + edits'[c]
      BY <1>2, <1>4, <2>1
    <2> QED
      BY <1>4, <1>10, <2>2 DEF Imported, Reported
  <1> QED
    BY <1>5, <1>6, <1>8, <1>11, <1>12 DEF Imported

\* What a row says is kept with its record, or is nothing that counts.
LEMMA RowDone ==
  ASSUME Imported, NEW s \in Sessions, I!AtRow(s), NEW d \in I!Dispositions,
         tx' = [tx EXCEPT ![s] = tx'[s]], tx'[s] \in Work,
         tx'[s].file = tx[s].file, tx'[s].via = tx[s].via, ~tx'[s].missing,
         tx'[s].rows = Append(tx[s].rows, d),
         UNCHANGED <<job, master, outbox, handoff, edits>>,
         \/ d \in {"REJECT", "UNCHANGED"} /\ tx'[s].records = tx[s].records
         \/ /\ \A t \in Sessions \ {s} : I!Row(s).code \notin DOMAIN tx[t].records
            /\ DOMAIN tx'[s].records = DOMAIN tx[s].records \cup {I!Row(s).code}
            /\ \A x \in DOMAIN tx[s].records \ {I!Row(s).code} : tx'[s].records[x] = tx[s].records[x]
            /\ \/ /\ d = "UNCHANGED"
                  /\ tx'[s].records[I!Row(s).code].version = I!Record(s, I!Row(s).code).version
               \/ /\ d = "UPDATE"
                  /\ tx'[s].records[I!Row(s).code].version = I!Record(s, I!Row(s).code).version + 1
               \/ /\ d = "CREATE" /\ master[I!Row(s).code] = I!Absent
                  /\ I!Row(s).code \notin DOMAIN tx[s].records
                  /\ tx'[s].records[I!Row(s).code].version = 1
  PROVE  Imported'
  <1> DEFINE k == I!Row(s).code
             f == tx[s].file
  <1>1. \A t \in Sessions \ {s} : tx'[t] = tx[t]
    BY DEF Imported, Filed
  <1>2. Filed'
    BY DEF Imported, Filed
  <1>3. Announced'
    BY DEF Imported, Announced
  <1>4. Running'
    <2>1. \A t \in Sessions \ {s} : I!AtRow(t)' = I!AtRow(t) /\ I!Row(t)' = I!Row(t)
      BY <1>1 DEF I!AtRow, I!Row
    <2>2. f # None /\ Len(tx[s].rows) < Len(Rows[f]) /\ f \in Files
      BY DEF I!AtRow, Imported, Filed, Work
    <2>3. Len(tx'[s].rows) = Len(tx[s].rows) + 1 /\ Len(tx[s].rows) \in Nat /\ Len(Rows[f]) \in Nat
      BY <2>2, FileBounds DEF Imported, Filed, Work
    <2>4. Len(tx'[s].rows) <= Len(Rows[f])
      BY <2>2, <2>3
    <2>5. DOMAIN tx'[s].records \subseteq DOMAIN tx[s].records \cup {k}
      OBVIOUS
    <2>6. \A t \in Sessions \ {s} : DOMAIN tx'[s].records \cap DOMAIN tx[t].records = {}
      BY <2>5 DEF Imported, Running
    <2>7. \A t \in Sessions : tx'[t].file = tx[t].file /\ tx'[t].via = tx[t].via
      BY <1>1
    <2>8. \A t \in Sessions : tx'[t].file # None =>
            /\ job'[tx'[t].file].state = "VALIDATED" /\ Len(tx'[t].rows) <= Len(Rows[tx'[t].file])
            /\ tx'[t].via # None => FileOf[tx'[t].via] = tx'[t].file
      BY <1>1, <2>4, <2>7 DEF Imported, Running
    <2>9. \A t \in Sessions : tx'[t].missing =>
            /\ I!AtRow(t)' /\ I!Row(t)'.value \in Values
            /\ I!Row(t)'.code \notin DOMAIN tx'[t].records
      BY <1>1, <2>1 DEF Imported, Running
    <2>10. \A t \in Sessions : tx'[t].file = None =>
            tx'[t].rows = <<>> /\ DOMAIN tx'[t].records = {} /\ ~tx'[t].missing
      BY <1>1, <2>2 DEF Imported, Running
    <2>11. \A t, v \in Sessions : tx'[t].file # None /\ tx'[t].file = tx'[v].file => t = v
      BY <2>7 DEF Imported, Running
    <2>12. \A t, v \in Sessions : t # v => DOMAIN tx'[t].records \cap DOMAIN tx'[v].records = {}
      BY <1>1, <2>6 DEF Imported, Running
    <2> QED
      BY <2>8, <2>9, <2>10, <2>11, <2>12 DEF Running
  <1>5. \A c, e : Said(c, e)' = Said(c, e)
    BY SaidStays
  <1>6. Reported'
    BY <1>5 DEF Imported, Reported
  <1>7. ASSUME NEW c \in Codes, NEW e \in {"CREATE", "UPDATE"}
        PROVE  /\ IsFiniteSet(Saying(s, c, e)')
               /\ Cardinality(Saying(s, c, e)) \in Nat
               /\ IF k = c /\ d = e
                  THEN Cardinality(Saying(s, c, e)') = Cardinality(Saying(s, c, e)) + 1
                  ELSE Saying(s, c, e)' = Saying(s, c, e)
    <2>1. e \in I!Dispositions
      BY DEF I!Dispositions
    <2>2. IsFiniteSet(Saying(s, c, e))
      BY DEF Imported, Reporting
    <2>3. Cardinality(Saying(s, c, e)) \in Nat
      BY <2>2, FS_CardinalityType
    <2>4. CASE k = c /\ d = e
      <3>1. /\ Saying(s, c, e)' = Saying(s, c, e) \cup {<<f, Len(tx[s].rows) + 1>>}
            /\ <<f, Len(tx[s].rows) + 1>> \notin Saying(s, c, e)
        BY <2>1, <2>4, SayingGrows DEF Imported
      <3>2. /\ IsFiniteSet(Saying(s, c, e) \cup {<<f, Len(tx[s].rows) + 1>>})
            /\ Cardinality(Saying(s, c, e) \cup {<<f, Len(tx[s].rows) + 1>>}) = Cardinality(Saying(s, c, e)) + 1
        BY <2>2, <3>1, FS_AddElement
      <3> QED
        BY <2>3, <2>4, <3>1, <3>2
    <2>5. CASE ~(k = c /\ d = e)
      <3>1. IF I!Row(s).code = c /\ d = e
            THEN /\ Saying(s, c, e)' = Saying(s, c, e) \cup {<<f, Len(tx[s].rows) + 1>>}
                 /\ <<f, Len(tx[s].rows) + 1>> \notin Saying(s, c, e)
            ELSE Saying(s, c, e)' = Saying(s, c, e)
        BY <2>1, SayingGrows DEF Imported
      <3>2. Saying(s, c, e)' = Saying(s, c, e)
        BY <2>5, <3>1
      <3> QED
        BY <2>2, <2>3, <2>5, <3>2
    <2> QED
      BY <2>4, <2>5
  <1>8. ASSUME NEW c \in Codes
        PROVE  (IF c \in DOMAIN tx[s].records THEN Held(s, c)
                ELSE Saying(s, c, "CREATE") = {} /\ Saying(s, c, "UPDATE") = {})'
    <2> DEFINE A == Cardinality(Saying(s, c, "CREATE"))
               B == Cardinality(Saying(s, c, "UPDATE"))
    <2>1. A \in Nat /\ B \in Nat /\ master[c].version \in Nat
      BY <1>7 DEF Imported, Filed, Entry, I!Absent
    <2>2. IF c \in DOMAIN tx[s].records THEN Held(s, c)
          ELSE Saying(s, c, "CREATE") = {} /\ Saying(s, c, "UPDATE") = {}
      BY DEF Imported, Reporting
    <2> DEFINE quiet == c # k \/ (d \in {"REJECT", "UNCHANGED"} /\ tx'[s].records = tx[s].records)
    <2>3. CASE quiet
      <3>1. Saying(s, c, "CREATE")' = Saying(s, c, "CREATE") /\ Saying(s, c, "UPDATE")' = Saying(s, c, "UPDATE")
        BY <1>7, <2>3
      <3>2. c \in DOMAIN tx'[s].records <=> c \in DOMAIN tx[s].records
        BY <2>3
      <3>3. c \in DOMAIN tx[s].records => tx'[s].records[c] = tx[s].records[c]
        BY <2>3
      <3> QED
        BY <2>2, <3>1, <3>2, <3>3 DEF Held
    <2>4. CASE ~quiet
      <3> DEFINE A2 == Cardinality(Saying(s, c, "CREATE")')
                 B2 == Cardinality(Saying(s, c, "UPDATE")')
      <3>1. c \in DOMAIN tx'[s].records
        BY <2>4
      <3>2. I!Record(s, c).version = master[c].version + A + B
        <4>1. CASE c \in DOMAIN tx[s].records
          BY <2>2, <4>1 DEF I!Record, Held
        <4>2. CASE c \notin DOMAIN tx[s].records
          <5>1. A = 0 /\ B = 0
            BY <2>2, <4>2, FS_EmptySet
          <5> QED
            BY <2>1, <4>2, <5>1 DEF I!Record
        <4> QED
          BY <4>1, <4>2
      <3>3. Saying(s, c, "CREATE") # {} => A = 1 /\ master[c].version = 0
        BY <2>2 DEF Held
      <3>4. CASE d = "UNCHANGED"
        <4>1. tx'[s].records[c].version = I!Record(s, c).version
          BY <2>4, <3>4
        <4>2. Saying(s, c, "CREATE")' = Saying(s, c, "CREATE") /\ Saying(s, c, "UPDATE")' = Saying(s, c, "UPDATE")
          BY <1>7, <3>4
        <4> QED
          BY <3>1, <3>2, <3>3, <4>1, <4>2 DEF Held
      <3>5. CASE d = "UPDATE"
        <4>1. tx'[s].records[c].version = I!Record(s, c).version + 1
          BY <2>4, <3>5
        <4>2. Saying(s, c, "CREATE")' = Saying(s, c, "CREATE") /\ B2 = B + 1
          BY <1>7, <2>4, <3>5
        <4>3. tx'[s].records[c].version = master[c].version + A + B2
          <5> DEFINE x == master[c].version
                     y == I!Record(s, c).version
                     z == tx'[s].records[c].version
          <5>1. y = x + A + B /\ z = y + 1 /\ B2 = B + 1 /\ x \in Nat /\ A \in Nat /\ B \in Nat
            BY <2>1, <3>2, <4>1, <4>2
          <5> HIDE DEF A, B, B2, x, y, z
          <5>2. z = x + A + B2
            BY <5>1
          <5> QED
            BY <5>2 DEF x, z
        <4> QED
          BY <3>1, <3>3, <4>2, <4>3 DEF Held
      <3>6. CASE d = "CREATE"
        <4>1. master[c] = I!Absent /\ c \notin DOMAIN tx[s].records /\ tx'[s].records[c].version = 1
          BY <2>4, <3>6
        <4>2. Saying(s, c, "UPDATE")' = Saying(s, c, "UPDATE") /\ A2 = A + 1
          BY <1>7, <2>4, <3>6
        <4>3. A = 0 /\ B = 0
          BY <2>2, <4>1, FS_EmptySet
        <4>4. master[c].version = 0
          BY <4>1 DEF I!Absent
        <4>5. A2 = 1 /\ tx'[s].records[c].version = master[c].version + A2 + B
          BY <4>1, <4>2, <4>3, <4>4
        <4> QED
          BY <3>1, <4>2, <4>4, <4>5 DEF Held
      <3> QED
        BY <2>4, <3>4, <3>5, <3>6
    <2> HIDE DEF quiet
    <2> QED
      BY <2>3, <2>4
  <1>9. Reporting'
    <2>1. ASSUME NEW t \in Sessions, NEW c \in Codes
          PROVE  (/\ IsFiniteSet(Saying(t, c, "CREATE")) /\ IsFiniteSet(Saying(t, c, "UPDATE"))
                  /\ IF c \in DOMAIN tx[t].records THEN Held(t, c)
                     ELSE Saying(t, c, "CREATE") = {} /\ Saying(t, c, "UPDATE") = {})'
      <3>1. CASE t = s
        BY <1>7, <1>8, <3>1
      <3>2. CASE t # s
        <4>1. t \in Sessions \ {s}
          BY <3>2
        <4>2. tx'[t] = tx[t] /\ \A x : Saying(t, c, x)' = Saying(t, c, x)
          BY <1>1, <4>1 DEF Saying
        <4> QED
          BY <4>2 DEF Imported, Reporting, Held
      <3> QED
        BY <3>1, <3>2
    <2> QED
      BY <2>1 DEF Reporting
  <1> QED
    BY <1>2, <1>3, <1>4, <1>6, <1>9 DEF Imported

LEMMA RowOfFile ==
  ASSUME Imported, NEW s \in Sessions, I!AtRow(s)
  PROVE  /\ I!Row(s).code \in Codes
         /\ tx[s].file \in Files
  <1>1. tx[s].file \in Files /\ Len(tx[s].rows) \in Nat /\ Len(tx[s].rows) < Len(Rows[tx[s].file])
    BY DEF I!AtRow, Imported, Filed, Work
  <1>2. Rows[tx[s].file] \in Seq([code : Codes, value : Values \cup {"INVALID", "BROKEN"}])
    BY <1>1, FileBounds
  <1>3. Len(tx[s].rows) + 1 \in DOMAIN Rows[tx[s].file]
    BY <1>1, <1>2
  <1>4. \A S : \A q \in Seq(S) : \A i \in DOMAIN q : q[i] \in S
    OBVIOUS
  <1>5. I!Row(s) \in [code : Codes, value : Values \cup {"INVALID", "BROKEN"}]
    BY <1>2, <1>3, <1>4 DEF I!Row
  <1> QED
    BY <1>1, <1>5

\* The work after a row, whatever it keeps.
LEMMA WorkAfterRow ==
  ASSUME NEW r \in Work, NEW d \in I!Dispositions, NEW b \in Books
  PROVE  /\ [r EXCEPT !.rows = Append(r.rows, d)] \in Work
         /\ [[[r EXCEPT !.rows = Append(r.rows, d)] EXCEPT !.missing = FALSE] EXCEPT !.records = b] \in Work
         /\ [r EXCEPT !.missing = TRUE] \in Work
  <1>1. Append(r.rows, d) \in Seq(I!Dispositions)
    BY DEF Work
  <1>2. [r EXCEPT !.rows = Append(r.rows, d)] \in Work
    BY <1>1 DEF Work
  <1>3. \A q \in Work : [[q EXCEPT !.missing = FALSE] EXCEPT !.records = b] \in Work
    BY DEF Work
  <1>4. [r EXCEPT !.missing = TRUE] \in Work
    BY DEF Work
  <1> QED
    BY <1>2, <1>3, <1>4

LEMMA QuietRowStep ==
  ASSUME Imported, NEW s \in Sessions, I!Reject(s) \/ I!KeepRow(s)
  PROVE  Imported'
  <1>1. PICK d \in {"REJECT", "UNCHANGED"} :
          /\ I!AtRow(s) /\ ~tx[s].missing
          /\ tx' = [tx EXCEPT ![s].rows = Append(@, d)]
          /\ UNCHANGED <<job, master, outbox, handoff, edits>>
    <2>1. CASE I!Reject(s)
      <3>1. ~tx[s].missing
        BY <2>1, FileBounds DEF I!Reject, I!Invalid, Imported, Running
      <3> QED
        BY <2>1, <3>1 DEF I!Reject
    <2>2. CASE I!KeepRow(s)
      BY <2>2 DEF I!KeepRow
    <2> QED
      BY <2>1, <2>2
  <1>2. d \in I!Dispositions
    BY DEF I!Dispositions
  <1>3. tx[s] \in Work
    BY DEF Imported, Filed
  <1> DEFINE new == [tx[s] EXCEPT !.rows = Append(tx[s].rows, d)]
  <1>4. tx' = [tx EXCEPT ![s] = new]
    BY <1>1 DEF Imported, Filed
  <1>5. [x \in {} |-> I!Absent] \in Books
    <2>1. [x \in {} |-> I!Absent] \in [{} -> Entry]
      OBVIOUS
    <2> QED
      BY <2>1 DEF Books
  <1>6. new \in Work
    BY <1>2, <1>3, <1>5, WorkAfterRow
  <1>7. /\ new.file = tx[s].file /\ new.via = tx[s].via /\ new.missing = tx[s].missing
        /\ new.rows = Append(tx[s].rows, d) /\ new.records = tx[s].records
    BY <1>3 DEF Work
  <1> HIDE DEF new
  <1>8. tx'[s] = new
    BY <1>4 DEF Imported, Filed
  <1> QED
    BY <1>1, <1>2, <1>4, <1>6, <1>7, <1>8, RowDone

LEMMA MissRowStep ==
  ASSUME Imported, NEW s \in Sessions, I!MissRow(s)
  PROVE  Imported'
  <1>1. /\ I!AtRow(s) /\ I!Row(s).value \in Values /\ I!Record(s, I!Row(s).code) = I!Absent
        /\ tx' = [tx EXCEPT ![s].missing = TRUE]
        /\ UNCHANGED <<job, master, outbox, handoff, edits>>
    BY DEF I!MissRow
  <1>2. tx[s] \in Work
    BY DEF Imported, Filed
  <1> DEFINE new == [tx[s] EXCEPT !.missing = TRUE]
  <1>3. tx' = [tx EXCEPT ![s] = new]
    BY <1>1 DEF Imported, Filed
  <1>4. /\ new \in Work /\ new.file = tx[s].file /\ new.via = tx[s].via
        /\ new.rows = tx[s].rows /\ new.records = tx[s].records
    BY <1>2 DEF Work
  <1> HIDE DEF new
  <1>5. tx'[s] = new /\ \A t \in Sessions \ {s} : tx'[t] = tx[t]
    BY <1>3 DEF Imported, Filed
  <1>6. \A t \in Sessions : /\ tx'[t].file = tx[t].file /\ tx'[t].via = tx[t].via
                            /\ tx'[t].rows = tx[t].rows /\ tx'[t].records = tx[t].records
                            /\ t # s => tx'[t].missing = tx[t].missing
    BY <1>4, <1>5
  <1>7. \A t \in Sessions : I!AtRow(t)' = I!AtRow(t) /\ I!Row(t)' = I!Row(t)
    BY <1>6 DEF I!AtRow, I!Row
  <1>8. I!Row(s).code \notin DOMAIN tx[s].records
    <2>1. tx[s].records \in Books
      BY <1>2 DEF Work
    <2>2. \A c \in DOMAIN tx[s].records : tx[s].records[c].value # None
      BY <2>1, BookOpened, FileBounds DEF Entry
    <2> QED
      BY <1>1, <2>2 DEF I!Record, I!Absent
  <1>9. Filed'
    BY <1>1, <1>3, <1>4 DEF Imported, Filed
  <1>10. Announced'
    BY <1>1 DEF Imported, Announced
  <1>11. Running'
    <2>1. \A t \in Sessions : tx'[t].missing =>
            /\ I!AtRow(t)' /\ I!Row(t)'.value \in Values
            /\ I!Row(t)'.code \notin DOMAIN tx'[t].records
      BY <1>1, <1>6, <1>7, <1>8 DEF Imported, Running
    <2>2. tx[s].file # None
      BY <1>1 DEF I!AtRow
    <2>3. \A t \in Sessions : tx'[t].file = None =>
            tx'[t].rows = <<>> /\ DOMAIN tx'[t].records = {} /\ ~tx'[t].missing
      BY <1>6, <2>2 DEF Imported, Running
    <2> QED
      BY <1>1, <1>6, <2>1, <2>3 DEF Imported, Running
  <1>12. \A c, d : Said(c, d)' = Said(c, d)
    BY <1>1, SaidStays
  <1>13. Reported'
    BY <1>1, <1>12 DEF Imported, Reported
  <1>14. \A t \in Sessions : \A c, d : Saying(t, c, d)' = Saying(t, c, d)
    BY <1>6 DEF Saying
  <1>15. Reporting'
    BY <1>1, <1>6, <1>14 DEF Imported, Reporting, Held
  <1> QED
    BY <1>9, <1>10, <1>11, <1>13, <1>15 DEF Imported

LEMMA KeepsRow ==
  ASSUME Imported, NEW s \in Sessions, I!AtRow(s), NEW d \in I!Dispositions, NEW r \in Entry,
         I!Keeps(s, I!Row(s).code, r, d), I!Free(s, I!Row(s).code),
         UNCHANGED <<job, master, outbox, handoff, edits>>,
         \/ d = "UNCHANGED" /\ r.version = I!Record(s, I!Row(s).code).version
         \/ d = "UPDATE" /\ r.version = I!Record(s, I!Row(s).code).version + 1
         \/ /\ d = "CREATE" /\ master[I!Row(s).code] = I!Absent
            /\ I!Row(s).code \notin DOMAIN tx[s].records /\ r.version = 1
  PROVE  Imported'
  <1> DEFINE c == I!Row(s).code
             old == tx[s].records
             book == [x \in DOMAIN old \cup {c} |-> IF x = c THEN r ELSE old[x]]
             done == [tx[s] EXCEPT !.rows = Append(tx[s].rows, d)]
             new == [[done EXCEPT !.missing = FALSE] EXCEPT !.records = book]
  <1>1. tx[s] \in Work /\ old \in Books
    BY DEF Imported, Filed, Work
  <1>2. c \in Codes
    BY RowOfFile
  <1>3. book \in Books
    BY <1>1, <1>2, BookKept
  <1>4. /\ DOMAIN book = DOMAIN old \cup {c} /\ book[c] = r
        /\ \A x \in DOMAIN old \ {c} : book[x] = old[x]
    OBVIOUS
  <1>5. new \in Work
    <2> HIDE DEF book
    <2> QED
      BY <1>1, <1>3, WorkAfterRow
  <1>6. tx' = [tx EXCEPT ![s] = new]
    <2>1. tx' = [tx EXCEPT ![s].rows = Append(@, d), ![s].missing = FALSE, ![s].records = book]
      BY <1>1 DEF I!Keeps, Imported, Filed
    <2> HIDE DEF book
    <2>2. tx' = [tx EXCEPT ![s] = [[[tx[s] EXCEPT !.rows = Append(tx[s].rows, d)] EXCEPT !.missing = FALSE]
                                   EXCEPT !.records = book]]
      BY <2>1 DEF Imported, Filed
    <2> QED
      BY <2>2
  <1>7. /\ new.file = tx[s].file /\ new.via = tx[s].via /\ ~new.missing
        /\ new.rows = Append(tx[s].rows, d) /\ new.records = book
    <2> HIDE DEF book
    <2>1. done \in Work /\ done.file = tx[s].file /\ done.via = tx[s].via /\ done.rows = Append(tx[s].rows, d)
      <3>1. Append(tx[s].rows, d) \in Seq(I!Dispositions)
        BY <1>1 DEF Work
      <3> QED
        BY <1>1, <3>1 DEF Work
    <2> HIDE DEF done
    <2> QED
      BY <2>1 DEF Work
  <1>8. \A t \in Sessions \ {s} : c \notin DOMAIN tx[t].records
    BY DEF I!Free
  <1> HIDE DEF new, book
  <1>9. tx'[s] = new
    BY <1>6 DEF Imported, Filed
  <1>10. tx' = [tx EXCEPT ![s] = tx'[s]] /\ tx'[s] \in Work
    BY <1>5, <1>6, <1>9
  <1>11. /\ tx'[s].file = tx[s].file /\ tx'[s].via = tx[s].via /\ ~tx'[s].missing
         /\ tx'[s].rows = Append(tx[s].rows, d)
    BY <1>7, <1>9
  <1>12. /\ DOMAIN tx'[s].records = DOMAIN tx[s].records \cup {I!Row(s).code}
         /\ \A x \in DOMAIN tx[s].records \ {I!Row(s).code} : tx'[s].records[x] = tx[s].records[x]
         /\ tx'[s].records[I!Row(s).code].version = r.version
    BY <1>4, <1>7, <1>9
  <1>13. \A t \in Sessions \ {s} : I!Row(s).code \notin DOMAIN tx[t].records
    BY <1>8
  <1>14. \/ d = "UNCHANGED" /\ tx'[s].records[I!Row(s).code].version = I!Record(s, I!Row(s).code).version
         \/ d = "UPDATE" /\ tx'[s].records[I!Row(s).code].version = I!Record(s, I!Row(s).code).version + 1
         \/ /\ d = "CREATE" /\ master[I!Row(s).code] = I!Absent
            /\ I!Row(s).code \notin DOMAIN tx[s].records
            /\ tx'[s].records[I!Row(s).code].version = 1
    BY <1>12
  <1> HIDE DEF c, old, done
  <1> QED
    BY <1>10, <1>11, <1>12, <1>13, <1>14, RowDone

LEMMA RecordIsKnown ==
  ASSUME Imported, NEW s \in Sessions, NEW c \in Codes, I!Record(s, c) # I!Absent
  PROVE  I!Record(s, c) \in Entry
  <1>1. tx[s].records \in Books /\ master[c] \in Entry \cup {I!Absent}
    BY DEF Imported, Filed, Work
  <1>2. c \in DOMAIN tx[s].records => tx[s].records[c] \in Entry
    BY <1>1, BookOpened
  <1> QED
    BY <1>1, <1>2 DEF I!Record

LEMMA UpsertRowStep ==
  ASSUME Imported, NEW s \in Sessions, I!UpsertRow(s)
  PROVE  Imported'
  <1> DEFINE c == I!Row(s).code
             r == I!Record(s, c)
             new == [value |-> I!Row(s).value, version |-> r.version + 1]
  <1>1. /\ I!AtRow(s) /\ I!Row(s).value \in Values /\ r # I!Absent /\ I!Free(s, c)
        /\ I!Keeps(s, c, r, "UNCHANGED") \/ I!Keeps(s, c, new, "UPDATE")
        /\ UNCHANGED <<job, master, outbox, handoff, edits>>
    BY DEF I!UpsertRow
  <1>2. c \in Codes
    BY <1>1, RowOfFile
  <1>3. r \in Entry
    BY <1>1, <1>2, RecordIsKnown
  <1>4. new \in Entry /\ new.version = r.version + 1
    BY <1>1, <1>3 DEF Entry
  <1>5. "UNCHANGED" \in I!Dispositions /\ "UPDATE" \in I!Dispositions
    BY DEF I!Dispositions
  <1> HIDE DEF new
  <1>6. CASE I!Keeps(s, c, r, "UNCHANGED")
    BY <1>1, <1>3, <1>5, <1>6, KeepsRow
  <1>7. CASE I!Keeps(s, c, new, "UPDATE")
    BY <1>1, <1>4, <1>5, <1>7, KeepsRow
  <1> QED
    BY <1>1, <1>6, <1>7

LEMMA InsertRowStep ==
  ASSUME Imported, NEW s \in Sessions, I!InsertRow(s)
  PROVE  Imported'
  <1> DEFINE c == I!Row(s).code
             new == [value |-> I!Row(s).value, version |-> 1]
  <1>1. /\ I!AtRow(s) /\ tx[s].missing /\ I!Free(s, c) /\ master[c] = I!Absent
        /\ I!Keeps(s, c, new, "CREATE")
        /\ UNCHANGED <<job, master, outbox, handoff, edits>>
    BY DEF I!InsertRow
  <1>2. I!Row(s).value \in Values /\ c \notin DOMAIN tx[s].records
    BY <1>1 DEF Imported, Running
  <1>3. new \in Entry /\ new.version = 1
    BY <1>2 DEF Entry
  <1>4. "CREATE" \in I!Dispositions
    BY DEF I!Dispositions
  <1> HIDE DEF new
  <1> QED
    BY <1>1, <1>2, <1>3, <1>4, KeepsRow

LEMMA CommitFileStep ==
  ASSUME Imported, NEW s \in Sessions, I!Commit(s)
  PROVE  Imported'
  <1> DEFINE t == tx[s]
             f == tx[s].file
  <1>1. /\ f # None /\ ~I!AtRow(s)
        /\ master' = [c \in Codes |-> I!Record(s, c)]
        /\ job' = [job EXCEPT ![f].state = "COMMITTED", ![f].rows = t.rows]
        /\ outbox' = outbox \cup {f}
        /\ handoff' = IF t.via = None THEN handoff ELSE [handoff EXCEPT ![t.via].commit = t.key]
        /\ tx' = [tx EXCEPT ![s] = I!NoTx]
        /\ UNCHANGED edits
    BY DEF I!Commit
  <1>2. t \in Work /\ f \in Files /\ job[f].state = "VALIDATED" /\ f \notin outbox
    BY <1>1 DEF Imported, Filed, Work, Running, Announced
  <1>3. t.rows \in Seq(I!Dispositions) /\ Len(t.rows) = Len(Rows[f])
    <2>1. t.rows \in Seq(I!Dispositions) /\ Len(Rows[f]) \in Nat /\ Len(t.rows) \in Nat
      BY <1>2, FileBounds DEF Work
    <2>2. Len(t.rows) <= Len(Rows[f]) /\ ~(Len(t.rows) < Len(Rows[f]))
      BY <1>1 DEF Imported, Running, I!AtRow
    <2> QED
      BY <2>1, <2>2
  <1>4. /\ job'[f].state = "COMMITTED" /\ job'[f].rows = t.rows
        /\ \A g \in Files \ {f} : job'[g] = job[g]
        /\ job' \in [Files -> [state : {"NONE", "VALIDATED", "FAILED", "COMMITTED"}, owner : Users \cup {None},
                               rows : Seq(I!Dispositions)]]
    <2> DEFINE done == [[job[f] EXCEPT !.state = "COMMITTED"] EXCEPT !.rows = t.rows]
    <2>1. job[f] \in [state : {"NONE", "VALIDATED", "FAILED", "COMMITTED"}, owner : Users \cup {None},
                      rows : Seq(I!Dispositions)]
      BY <1>2 DEF Imported, Filed
    <2>2. /\ done.state = "COMMITTED" /\ done.rows = t.rows
          /\ done \in [state : {"NONE", "VALIDATED", "FAILED", "COMMITTED"}, owner : Users \cup {None},
                       rows : Seq(I!Dispositions)]
      BY <1>3, <2>1
    <2>3. job' = [job EXCEPT ![f] = done]
      BY <1>1, <1>2 DEF Imported, Filed
    <2> HIDE DEF done
    <2> QED
      BY <1>2, <2>2, <2>3 DEF Imported, Filed
  <1>5. /\ DOMAIN I!NoTx.records = {} /\ I!NoTx.rows = <<>> /\ I!NoTx.file = None /\ ~I!NoTx.missing
        /\ I!NoTx \in Work
    <2>1. [x \in {} |-> I!Absent] \in [{} -> Entry]
      OBVIOUS
    <2>2. [x \in {} |-> I!Absent] \in Books
      BY <2>1 DEF Books
    <2> QED
      BY <2>2 DEF Work, I!NoTx
  <1>6. tx'[s] = I!NoTx /\ \A v \in Sessions \ {s} : tx'[v] = tx[v]
    BY <1>1 DEF Imported, Filed
  <1>7. \A c \in Codes : master'[c] = I!Record(s, c) /\ master'[c] \in Entry \cup {I!Absent}
    BY <1>1, RecordIsKnown
  <1>8. /\ handoff' \in [Attachments -> [preview : Keys \cup {None}, commit : Keys \cup {None}]]
        /\ \A a \in Attachments : handoff'[a].commit # handoff[a].commit => a = t.via /\ FileOf[a] = f
    <2>1. t.via # None => t.via \in Attachments /\ FileOf[t.via] = f /\ t.key \in Keys \cup {None}
      BY <1>1, <1>2 DEF Imported, Running, Work
    <2> QED
      BY <1>1, <2>1 DEF Imported, Filed
  <1>9. Filed'
    BY <1>1, <1>2, <1>4, <1>5, <1>7, <1>8 DEF Imported, Filed
  <1>10. Announced'
    <2>1. \A g \in Files : job'[g].state = "COMMITTED" <=> g \in outbox'
      BY <1>1, <1>2, <1>4 DEF Imported, Announced
    <2>2. \A g \in Files : Len(job'[g].rows) = IF g \in outbox' THEN Len(Rows[g]) ELSE 0
      BY <1>1, <1>2, <1>3, <1>4 DEF Imported, Announced
    <2>3. \A a \in Attachments : FileOf[a] \notin outbox' => handoff'[a].commit = None
      BY <1>1, <1>8 DEF Imported, Announced
    <2>4. \A a, b \in Attachments :
            FileOf[a] = FileOf[b] /\ handoff'[a].commit # None /\ handoff'[b].commit # None => a = b
      BY <1>2, <1>8 DEF Imported, Announced
    <2> QED
      BY <2>1, <2>2, <2>3, <2>4 DEF Announced
  <1>11. Running'
    <2>1. \A v \in Sessions \ {s} : I!AtRow(v)' = I!AtRow(v) /\ I!Row(v)' = I!Row(v)
      BY <1>6 DEF I!AtRow, I!Row
    <2>2. \A v \in Sessions \ {s} : tx[v].file # None => tx[v].file \in Files \ {f}
      BY <1>1 DEF Imported, Filed, Work, Running
    <2>3. \A v \in Sessions : tx'[v].file # None =>
            /\ job'[tx'[v].file].state = "VALIDATED" /\ Len(tx'[v].rows) <= Len(Rows[tx'[v].file])
            /\ tx'[v].via # None => FileOf[tx'[v].via] = tx'[v].file
      BY <1>4, <1>5, <1>6, <2>2 DEF Imported, Running
    <2>4. \A v \in Sessions : tx'[v].missing =>
            /\ I!AtRow(v)' /\ I!Row(v)'.value \in Values
            /\ I!Row(v)'.code \notin DOMAIN tx'[v].records
      BY <1>5, <1>6, <2>1 DEF Imported, Running
    <2>5. \A v \in Sessions : tx'[v].file = None =>
            tx'[v].rows = <<>> /\ DOMAIN tx'[v].records = {} /\ ~tx'[v].missing
      BY <1>5, <1>6 DEF Imported, Running
    <2>6. \A v, w \in Sessions : tx'[v].file # None /\ tx'[v].file = tx'[w].file => v = w
      BY <1>5, <1>6 DEF Imported, Running
    <2>7. \A v, w \in Sessions : v # w => DOMAIN tx'[v].records \cap DOMAIN tx'[w].records = {}
      BY <1>5, <1>6 DEF Imported, Running
    <2> QED
      BY <2>3, <2>4, <2>5, <2>6, <2>7 DEF Running
  <1>12. \A c, d : Saying(s, c, d)' = {}
    BY <1>5, <1>6 DEF Saying
  <1>13. Reporting'
    <2>1. ASSUME NEW v \in Sessions, NEW c \in Codes
          PROVE  (/\ IsFiniteSet(Saying(v, c, "CREATE")) /\ IsFiniteSet(Saying(v, c, "UPDATE"))
                  /\ IF c \in DOMAIN tx[v].records THEN Held(v, c)
                     ELSE Saying(v, c, "CREATE") = {} /\ Saying(v, c, "UPDATE") = {})'
      <3>1. CASE v = s
        BY <1>5, <1>6, <1>12, <3>1, FS_EmptySet
      <3>2. CASE v # s
        <4>1. v \in Sessions \ {s}
          BY <3>2
        <4>2. tx'[v] = tx[v] /\ \A x : Saying(v, c, x)' = Saying(v, c, x)
          BY <1>6, <4>1 DEF Saying
        <4>3. c \in DOMAIN tx[v].records => master'[c] = master[c]
          BY <1>7, <3>2 DEF Imported, Running, I!Record
        <4> QED
          BY <4>2, <4>3 DEF Imported, Reporting, Held
      <3> QED
        BY <3>1, <3>2
    <2> QED
      BY <2>1 DEF Reporting
  <1>14. ASSUME NEW c \in Codes, NEW d
         PROVE  /\ Said(c, d)' = Said(c, d) \cup Saying(s, c, d)
                /\ Said(c, d) \cap Saying(s, c, d) = {}
    <2>1. job[f].rows = <<>>
      BY <1>2 DEF Imported, Filed, Announced
    <2>2. \A p : p \in Said(c, d) <=>
            \E g \in Files : \E i \in DOMAIN job[g].rows : p = <<g, i>> /\ Rows[g][i].code = c /\ job[g].rows[i] = d
      BY DEF Said
    <2>3. \A p : p \in Said(c, d)' <=>
            \E g \in Files : \E i \in DOMAIN job'[g].rows : p = <<g, i>> /\ Rows[g][i].code = c /\ job'[g].rows[i] = d
      BY DEF Said
    <2>4. \A p : p \in Saying(s, c, d) <=>
            \E i \in DOMAIN t.rows : p = <<f, i>> /\ Rows[f][i].code = c /\ t.rows[i] = d
      BY DEF Saying
    <2>5. \A p : p \in Said(c, d) => p[1] # f
      BY <2>1, <2>2
    <2>6. \A p : p \in Saying(s, c, d) => p[1] = f
      BY <2>4
    <2>7. ASSUME NEW p, p \in Said(c, d)'
          PROVE  p \in Said(c, d) \/ p \in Saying(s, c, d)
      <3>1. PICK g \in Files : \E i \in DOMAIN job'[g].rows :
              p = <<g, i>> /\ Rows[g][i].code = c /\ job'[g].rows[i] = d
        BY <2>3, <2>7
      <3>2. CASE g = f
        BY <1>4, <2>4, <3>1, <3>2
      <3>3. CASE g # f
        <4>1. job'[g] = job[g]
          BY <1>4, <3>3
        <4> QED
          BY <2>2, <3>1, <4>1
      <3> QED
        BY <3>2, <3>3
    <2>8. ASSUME NEW p, p \in Said(c, d)
          PROVE  p \in Said(c, d)'
      <3>1. PICK g \in Files : \E i \in DOMAIN job[g].rows :
              p = <<g, i>> /\ Rows[g][i].code = c /\ job[g].rows[i] = d
        BY <2>2, <2>8
      <3>2. g # f
        BY <2>1, <3>1
      <3>3. job'[g] = job[g]
        BY <1>4, <3>2
      <3> QED
        BY <2>3, <3>1, <3>3
    <2>9. ASSUME NEW p, p \in Saying(s, c, d)
          PROVE  p \in Said(c, d)'
      BY <1>2, <1>4, <2>3, <2>4, <2>9
    <2> QED
      BY <2>5, <2>6, <2>7, <2>8, <2>9
  <1>15. Reported'
    <2> SUFFICES ASSUME NEW c \in Codes
                 PROVE  (/\ IsFiniteSet(Said(c, "CREATE")) /\ IsFiniteSet(Said(c, "UPDATE"))
                         /\ Cardinality(Said(c, "CREATE")) <= 1
                         /\ master[c].version = Cardinality(Said(c, "CREATE")) + Cardinality(Said(c, "UPDATE")) + edits[c])'
      BY DEF Reported
    <2> DEFINE A == Cardinality(Said(c, "CREATE"))
               B == Cardinality(Said(c, "UPDATE"))
               G == Cardinality(Saying(s, c, "CREATE"))
               H == Cardinality(Saying(s, c, "UPDATE"))
               A2 == Cardinality(Said(c, "CREATE")')
               B2 == Cardinality(Said(c, "UPDATE")')
               x == master[c].version
               x2 == master'[c].version
    <2>1. /\ IsFiniteSet(Said(c, "CREATE")) /\ IsFiniteSet(Said(c, "UPDATE"))
          /\ IsFiniteSet(Saying(s, c, "CREATE")) /\ IsFiniteSet(Saying(s, c, "UPDATE"))
          /\ A <= 1 /\ x = A + B + edits[c] /\ edits[c] \in Nat
      BY DEF Imported, Filed, Reporting, Reported
    <2>2. A \in Nat /\ B \in Nat /\ G \in Nat /\ H \in Nat
      BY <2>1, FS_CardinalityType
    <2>3. IsFiniteSet(Said(c, "CREATE")') /\ A2 = A + G
      <3>1. /\ Said(c, "CREATE")' = Said(c, "CREATE") \cup Saying(s, c, "CREATE")
            /\ Said(c, "CREATE") \cap Saying(s, c, "CREATE") = {}
        BY <1>14
      <3> QED
        BY <2>1, <3>1, ApartAddUp
    <2>4. IsFiniteSet(Said(c, "UPDATE")') /\ B2 = B + H
      <3>1. /\ Said(c, "UPDATE")' = Said(c, "UPDATE") \cup Saying(s, c, "UPDATE")
            /\ Said(c, "UPDATE") \cap Saying(s, c, "UPDATE") = {}
        BY <1>14
      <3> QED
        BY <2>1, <3>1, ApartAddUp
    <2>5. x2 = x + G + H /\ (G = 0 \/ (G = 1 /\ x = 0))
      <3>1. CASE c \in DOMAIN tx[s].records
        <4>1. Held(s, c) /\ master'[c] = tx[s].records[c]
          BY <1>7, <3>1 DEF Imported, Reporting, I!Record
        <4>2. Saying(s, c, "CREATE") = {} => G = 0
          BY FS_EmptySet
        <4> QED
          BY <4>1, <4>2 DEF Held
      <3>2. CASE c \notin DOMAIN tx[s].records
        <4>1. Saying(s, c, "CREATE") = {} /\ Saying(s, c, "UPDATE") = {} /\ master'[c] = master[c]
          BY <1>7, <3>2 DEF Imported, Reporting, I!Record
        <4>2. G = 0 /\ H = 0
          BY <4>1, FS_EmptySet
        <4>3. x \in Nat
          BY <2>1, <2>2
        <4> QED
          BY <4>1, <4>2, <4>3
      <3> QED
        BY <3>1, <3>2
    <2>6. A2 <= 1 /\ x2 = A2 + B2 + edits[c]
      <3> DEFINE n == edits[c]
      <3>1. A <= 1 /\ x = A + B + n /\ n \in Nat /\ A2 = A + G /\ B2 = B + H
        BY <2>1, <2>3, <2>4
      <3> HIDE DEF A, B, G, H, A2, B2, x, x2, n
      <3>2. A2 <= 1 /\ x2 = A2 + B2 + n
        BY <2>2, <2>5, <3>1
      <3> QED
        BY <3>2 DEF n
    <2> QED
      BY <1>1, <2>3, <2>4, <2>6
  <1> QED
    BY <1>9, <1>10, <1>11, <1>13, <1>15 DEF Imported

LEMMA PreviewSteps ==
  ASSUME Imported,
         \/ \E u \in Users, f \in Files : I!preview(u, f)
         \/ \E a \in Attachments, k \in Keys : I!previewImport(a, k)
  PROVE  Imported'
  <1>1. ASSUME NEW u \in Users, NEW f \in Files, I!preview(u, f)
        PROVE  Imported'
    <2>1. handoff' \in [Attachments -> [preview : Keys \cup {None}, commit : Keys \cup {None}]]
          /\ \A a \in Attachments : handoff'[a].commit = handoff[a].commit
      BY <1>1 DEF I!preview, Imported, Filed
    <2> QED
      BY <1>1, <2>1, PreviewedStep DEF I!preview
  <1>2. ASSUME NEW a \in Attachments, NEW k \in Keys, I!previewImport(a, k)
        PROVE  Imported'
    <2> DEFINE new == [handoff[a] EXCEPT !.preview = k]
    <2>1. handoff[a] \in [preview : Keys \cup {None}, commit : Keys \cup {None}]
      BY DEF Imported, Filed
    <2>2. new \in [preview : Keys \cup {None}, commit : Keys \cup {None}] /\ new.commit = handoff[a].commit
      BY <2>1
    <2>3. handoff' = [handoff EXCEPT ![a] = new]
      BY <1>2 DEF I!previewImport, Imported, Filed
    <2> HIDE DEF new
    <2>4. handoff' \in [Attachments -> [preview : Keys \cup {None}, commit : Keys \cup {None}]]
          /\ \A b \in Attachments : handoff'[b].commit = handoff[b].commit
      BY <2>2, <2>3 DEF Imported, Filed
    <2>5. Sender \in Users /\ FileOf[a] \in Files
      BY FileBounds, MastersAssumption
    <2> QED
      BY <1>2, <2>4, <2>5, PreviewedStep DEF I!previewImport
  <1> QED
    BY <1>1, <1>2

LEMMA BeginSteps ==
  ASSUME Imported, NEW s \in Sessions,
         \/ \E u \in Users, f \in Files : I!commit(s, u, f)
         \/ \E a \in Attachments, k \in Keys : I!commitImport(s, a, k)
  PROVE  Imported'
  <1>1. ASSUME NEW u \in Users, NEW f \in Files, I!commit(s, u, f)
        PROVE  Imported'
    BY <1>1, BeginStep DEF I!commit
  <1>2. ASSUME NEW a \in Attachments, NEW k \in Keys, I!commitImport(s, a, k)
        PROVE  Imported'
    <2>1. FileOf[a] \in Files
      BY FileBounds
    <2> QED
      BY <1>2, <2>1, BeginStep DEF I!commitImport
  <1> QED
    BY <1>1, <1>2

LEMMA ImportedStep == Imported /\ [I!Next]_imports => Imported'
  <1> SUFFICES ASSUME Imported, [I!Next]_imports PROVE Imported'
    OBVIOUS
  <1>1. CASE \/ \E u \in Users, f \in Files : I!preview(u, f)
             \/ \E a \in Attachments, k \in Keys : I!previewImport(a, k)
    BY <1>1, PreviewSteps
  <1>2. CASE \E s \in Sessions : \/ \E u \in Users, f \in Files : I!commit(s, u, f)
                                 \/ \E a \in Attachments, k \in Keys : I!commitImport(s, a, k)
    BY <1>2, BeginSteps
  <1>3. CASE \E s \in Sessions : I!Reject(s) \/ I!KeepRow(s)
    BY <1>3, QuietRowStep
  <1>4. CASE \E s \in Sessions : I!MissRow(s)
    BY <1>4, MissRowStep
  <1>5. CASE \E s \in Sessions : I!UpsertRow(s)
    BY <1>5, UpsertRowStep
  <1>6. CASE \E s \in Sessions : I!InsertRow(s)
    BY <1>6, InsertRowStep
  <1>7. CASE \E s \in Sessions : I!Commit(s)
    BY <1>7, CommitFileStep
  <1>8. CASE \E s \in Sessions : I!Abort(s)
    BY <1>8, AbortStep
  <1>9. CASE \E c \in Codes, v \in Values : I!WriteElsewhere(c, v)
    BY <1>9, WriteElsewhereStep
  <1>10. CASE UNCHANGED imports
    <2>1. UNCHANGED <<job, master, outbox, handoff, tx, edits>>
      BY <1>10 DEF imports
    <2>2. Filed' /\ Announced'
      BY <2>1 DEF Imported, Filed, Announced
    <2>3. Running'
      BY <2>1 DEF Imported, Running, I!AtRow, I!Row
    <2>4. Reporting'
      <3>1. \A s \in Sessions : \A c, d : Saying(s, c, d)' = Saying(s, c, d)
        BY <2>1 DEF Saying
      <3>2. \A s \in Sessions, c \in Codes : Held(s, c) => Held(s, c)'
        BY <2>1, <3>1 DEF Held
      <3> QED
        BY <2>1, <3>1, <3>2 DEF Imported, Reporting
    <2>5. Reported'
      BY <2>1 DEF Imported, Reported, Said
    <2> QED
      BY <2>2, <2>3, <2>4, <2>5 DEF Imported
  <1> QED
    BY <1>1, <1>2, <1>3, <1>4, <1>5, <1>6, <1>7, <1>8, <1>9, <1>10 DEF I!Next

LEMMA HandedOverOnce ==
  ASSUME Imported, NEW f \in Files
  PROVE  Cardinality({a \in Attachments : FileOf[a] = f /\ handoff[a].commit # None})
           <= IF f \in outbox THEN 1 ELSE 0
  <1> DEFINE H == {a \in Attachments : FileOf[a] = f /\ handoff[a].commit # None}
  <1>1. \A a, b \in H : a = b
    BY DEF Imported, Announced
  <1>2. f \notin outbox => H = {}
    BY DEF Imported, Announced
  <1> SUFFICES Cardinality(H) <= IF f \in outbox THEN 1 ELSE 0
    OBVIOUS
  <1> HIDE DEF H
  <1>3. CASE H = {}
    BY <1>3, FS_EmptySet
  <1>4. CASE H # {}
    <2>1. PICK a : a \in H
      BY <1>4
    <2>2. H = {a}
      BY <1>1, <2>1
    <2>3. Cardinality(H) = 1
      BY <2>2, FS_Singleton
    <2> QED
      BY <1>2, <1>4, <2>3
  <1> QED
    BY <1>3, <1>4

LEMMA ImportedIsEnough == Imported => I!TypeOK /\ I!ReportsMatch /\ I!JobsAreWhole
  <1> SUFFICES ASSUME Imported PROVE I!TypeOK /\ I!ReportsMatch /\ I!JobsAreWhole
    OBVIOUS
  <1>1. I!TypeOK
    <2>1. \A c \in Codes : master[c].value \in Values \cup {None} /\ master[c].version \in Nat
      <3>1. I!Absent.value = None /\ I!Absent.version = 0
        BY DEF I!Absent
      <3> QED
        BY <3>1 DEF Imported, Filed, Entry
    <2>2. \A s \in Sessions : DOMAIN tx[s].records \subseteq Codes
      BY BookOpened DEF Imported, Filed, Work
    <2> QED
      BY <2>1, <2>2 DEF Imported, Filed, Work, I!TypeOK
  <1>2. I!ReportsMatch
    <2>1. \A c, d : I!Reported(c, d) = Cardinality(Said(c, d))
      BY CardinalityOfRows DEF I!Reported, Said
    <2> QED
      BY <2>1 DEF Imported, Reported, I!ReportsMatch
  <1>3. I!JobsAreWhole
    <2>1. \A f \in Files : I!Cardinality({a \in Attachments : FileOf[a] = f /\ handoff[a].commit # None})
                             <= IF f \in outbox THEN 1 ELSE 0
      BY HandedOverOnce, CardinalityOfRows
    <2>2. \A f \in Files : (job[f].state = "COMMITTED") = (f \in outbox)
      BY DEF Imported, Announced
    <2> QED
      BY <2>1, <2>2 DEF Imported, Announced, I!JobsAreWhole
  <1> QED
    BY <1>1, <1>2, <1>3

-----------------------------------------------------------------------------
(***************************************************************************)
(* Passwords: what a link may still be used for.                           *)
(***************************************************************************)
Ticket == [state : {"ABSENT", "LIVE", "USED", "REVOKED"}, source : {None, "SELF_SERVICE", "TENANT_ADMIN"},
           tenant : Tenants \cup {None}, counter : Nat, at : Nat, after : Nat]

Asking == [tenant : Tenants, counter : Nat, at : Nat]

Issuing ==
  /\ resets \in [Links -> Ticket]
  /\ spending \in Links \cup {None}
  /\ DOMAIN request \subseteq Requests /\ \A r \in DOMAIN request : request[r] \in Asking
  /\ member \in [Tenants -> {"NONE", "ACTIVE", "SUSPENDED"}] /\ opened \subseteq Tenants
  /\ counter \in Nat /\ passwords \in Nat /\ clock \in 0 .. MaxTime /\ changes \in 0 .. MaxChanges

\* Links that are good are of the time since the last password; an
\* administrator's is alone, and of an earlier count than now once a
\* membership changed.
Outlived ==
  /\ \A l \in Links : resets[l].state = "LIVE" => resets[l].after = passwords
  /\ \A l, m \in Links : resets[l].state = "LIVE" /\ resets[l].source = "TENANT_ADMIN"
                           /\ resets[m].state = "LIVE" /\ resets[m].source = "TENANT_ADMIN" => l = m
  /\ \A l \in Links : resets[l].state = "LIVE" /\ resets[l].source = "TENANT_ADMIN" =>
       resets[l].counter <= counter /\ (l \in broken => resets[l].counter # counter)
  /\ \A l \in Links : resets[l].state = "USED" /\ resets[l].source = "TENANT_ADMIN" => l \notin broken
  /\ \A l \in Links : resets[l].state = "ABSENT" => l \notin broken

Spending ==
  spending # None =>
    /\ resets[spending].state = "LIVE"
    /\ resets[spending].source = "TENANT_ADMIN" => spending \notin broken

Rationed ==
  \A t \in 0 .. MaxTime :
    Cardinality({l \in Links : resets[l].source = "SELF_SERVICE" /\ resets[l].at \in t .. (t + Window - 1)}) <= PerUser

Remembered == Issuing /\ Outlived /\ Spending /\ Rationed

LEMMA CardinalityOfLinks == \A S : W!Cardinality(S) = Cardinality(S)
  BY DEF W!Cardinality, Cardinality

LEMMA MastersBounds ==
  /\ PerUser \in Nat /\ MaxTime \in Nat /\ MaxChanges \in Nat /\ Window \in Nat \ {0}
  /\ IsFiniteSet(Links) /\ None \notin Links
  /\ None # "SELF_SERVICE" /\ None # "TENANT_ADMIN"
  BY MastersAssumption

LEMMA RememberedInit == W!Init => Remembered
  <1> SUFFICES ASSUME W!Init PROVE Remembered
    OBVIOUS
  <1>1. \A l \in Links : resets[l] = W!NoLink
    BY DEF W!Init
  <1>2. W!NoLink \in Ticket /\ W!NoLink.state = "ABSENT" /\ W!NoLink.source = None
    BY DEF W!NoLink, Ticket
  <1>3. Issuing
    BY <1>2, MastersBounds DEF Issuing, W!Init
  <1>4. \A l \in Links : resets[l].state = "ABSENT"
    BY <1>1, <1>2
  <1>5. broken = {} /\ spending = None
    BY DEF W!Init
  <1>6. Outlived
    BY <1>4, <1>5 DEF Outlived
  <1>7. Spending
    BY <1>5 DEF Spending
  <1>8. ASSUME NEW t \in 0 .. MaxTime
        PROVE  Cardinality({l \in Links : resets[l].source = "SELF_SERVICE"
                              /\ resets[l].at \in t .. (t + Window - 1)}) <= PerUser
    <2>1. {l \in Links : resets[l].source = "SELF_SERVICE" /\ resets[l].at \in t .. (t + Window - 1)} = {}
      BY <1>1, <1>2, MastersBounds
    <2>2. Cardinality({}) <= PerUser
      BY FS_EmptySet, MastersBounds
    <2> QED
      BY <2>1, <2>2
  <1>9. Rationed
    BY <1>8 DEF Rationed
  <1> QED
    BY <1>3, <1>6, <1>7, <1>9 DEF Remembered

LEMMA RationedStays ==
  ASSUME Rationed,
         \A l \in Links : resets'[l].source = "SELF_SERVICE" =>
           resets[l].source = "SELF_SERVICE" /\ resets'[l].at = resets[l].at
  PROVE  Rationed'
  <1> SUFFICES ASSUME NEW t \in 0 .. MaxTime
               PROVE  Cardinality({l \in Links : resets'[l].source = "SELF_SERVICE"
                                     /\ resets'[l].at \in t .. (t + Window - 1)}) <= PerUser
    BY DEF Rationed
  <1> DEFINE A == {l \in Links : resets[l].source = "SELF_SERVICE" /\ resets[l].at \in t .. (t + Window - 1)}
             B == {l \in Links : resets'[l].source = "SELF_SERVICE" /\ resets'[l].at \in t .. (t + Window - 1)}
  <1>1. B \subseteq A
    OBVIOUS
  <1>2. IsFiniteSet(A)
    BY FS_Subset, MastersBounds
  <1>3. Cardinality(A) <= PerUser
    BY DEF Rationed
  <1> HIDE DEF A, B
  <1>4. Cardinality(B) <= Cardinality(A) /\ IsFiniteSet(B)
    BY <1>1, <1>2, FS_Subset
  <1>5. Cardinality(A) \in Nat /\ Cardinality(B) \in Nat
    BY <1>2, <1>4, FS_CardinalityType
  <1>6. Cardinality(B) <= PerUser
    BY <1>3, <1>4, <1>5, MastersBounds
  <1> QED
    BY <1>6 DEF B

LEMMA LinksStay ==
  ASSUME Remembered, Issuing',
         UNCHANGED <<resets, counter, passwords, broken, spending>>
  PROVE  Remembered'
  <1>1. Outlived' /\ Spending' /\ Rationed'
    BY DEF Remembered, Outlived, Spending, Rationed
  <1> QED
    BY <1>1 DEF Remembered

LEMMA ChangeStep ==
  ASSUME Remembered, NEW t \in Tenants, NEW s \in {"ACTIVE", "SUSPENDED"}, W!MembershipChanges(t, s)
  PROVE  Remembered'
  <1>1. /\ changes < MaxChanges /\ changes' = changes + 1 /\ spending = None /\ s # member[t]
        /\ member' = [member EXCEPT ![t] = s]
        /\ broken' = broken \cup {l \in Links : resets[l].state = "LIVE"}
        /\ UNCHANGED <<opened, resets, request, spending, passwords, clock>>
    BY DEF W!MembershipChanges
  <1>2. counter' = counter + 1
    BY <1>1 DEF W!MembershipChanges, W!Counted
  <1>3. Issuing'
    BY <1>1, <1>2, MastersBounds DEF Remembered, Issuing
  <1>4. ASSUME NEW l \in Links, resets[l].state = "LIVE", resets[l].source = "TENANT_ADMIN"
        PROVE  resets[l].counter <= counter' /\ resets[l].counter # counter'
    <2>1. resets[l].counter \in Nat /\ resets[l].counter <= counter /\ counter \in Nat
      BY <1>4 DEF Remembered, Issuing, Outlived, Ticket
    <2> QED
      BY <1>2, <2>1
  <1>5. Outlived'
    BY <1>1, <1>4 DEF Remembered, Outlived
  <1>6. Spending'
    BY <1>1 DEF Spending
  <1>7. Rationed'
    BY <1>1, RationedStays DEF Remembered
  <1> QED
    BY <1>3, <1>5, <1>6, <1>7 DEF Remembered

LEMMA QuietSteps ==
  ASSUME Remembered,
         \/ \E t \in Tenants : W!TenantChanges(t)
         \/ W!Tick
         \/ \E r \in Requests : W!requestPasswordReset(r)
         \/ \E k \in ResetKeys, t \in Tenants : W!RefusePlatform(k, t)
  PROVE  Remembered'
  <1>1. UNCHANGED <<resets, counter, passwords, broken, spending, member>>
    BY DEF W!TenantChanges, W!Tick, W!requestPasswordReset, W!RefusePlatform, W!people
  <1>2. CASE \E t \in Tenants : W!TenantChanges(t)
    <2>1. PICK t \in Tenants : W!TenantChanges(t)
      BY <1>2
    <2>2. Issuing'
      BY <1>1, <2>1, MastersBounds DEF W!TenantChanges, Remembered, Issuing
    <2> QED
      BY <1>1, <2>2, LinksStay
  <1>3. CASE W!Tick
    <2>1. Issuing'
      BY <1>1, <1>3, MastersBounds DEF W!Tick, W!people, Remembered, Issuing
    <2> QED
      BY <1>1, <2>1, LinksStay
  <1>4. CASE \E r \in Requests : W!requestPasswordReset(r)
    <2>1. PICK r \in Requests : W!requestPasswordReset(r)
      BY <1>4
    <2>2. UNCHANGED <<opened, clock, changes>>
      BY <2>1 DEF W!requestPasswordReset, W!people
    <2>3. request' = request \/ \E t \in W!Belongs : request' = [x \in DOMAIN request \cup {r} |->
               IF x = r THEN [tenant |-> t, counter |-> counter, at |-> clock] ELSE request[x]]
      BY <2>1 DEF W!requestPasswordReset
    <2>4. W!Belongs \subseteq Tenants /\ clock \in Nat /\ counter \in Nat
      BY MastersBounds DEF W!Belongs, Remembered, Issuing
    <2>5. DOMAIN request' \subseteq Requests /\ \A x \in DOMAIN request' : request'[x] \in Asking
      BY <2>3, <2>4 DEF Remembered, Issuing, Asking
    <2>6. Issuing'
      BY <1>1, <2>2, <2>5 DEF Remembered, Issuing
    <2> QED
      BY <1>1, <2>6, LinksStay
  <1>5. CASE \E k \in ResetKeys, t \in Tenants : W!RefusePlatform(k, t)
    <2>1. Issuing'
      BY <1>1, <1>5 DEF W!RefusePlatform, W!people, Remembered, Issuing
    <2> QED
      BY <1>1, <2>1, LinksStay
  <1> QED
    BY <1>2, <1>3, <1>4, <1>5

\* The links of a window were all counted when one more is recorded in it.
LEMMA RecordStep ==
  ASSUME Remembered, NEW r \in Requests, NEW l \in Links, W!RecordRequest(r, l)
  PROVE  Remembered'
  <1> DEFINE q == request[r]
             new == [state |-> "LIVE", source |-> "SELF_SERVICE", tenant |-> q.tenant,
                     counter |-> q.counter, at |-> q.at, after |-> passwords]
             counted == {x \in Links : resets[x].source = "SELF_SERVICE" /\ resets[x].at + Window > q.at}
  <1>1. /\ r \in DOMAIN request /\ spending = None
        /\ request' = [x \in DOMAIN request \ {r} |-> request[x]]
        /\ UNCHANGED <<counter, passwords, broken, spending, member, opened, changes, clock>>
    BY DEF W!RecordRequest, W!people
  <1>2. \/ UNCHANGED resets
        \/ /\ Cardinality(counted) < PerUser
           /\ resets[l] = W!NoLink
           /\ resets' = [resets EXCEPT ![l] = new]
    BY CardinalityOfLinks DEF W!RecordRequest, W!Self
  <1>3. q \in Asking
    BY <1>1 DEF Remembered, Issuing
  <1>4. new \in Ticket
    BY <1>3 DEF Asking, Ticket, Remembered, Issuing
  <1>5. resets' \in [Links -> Ticket]
    BY <1>2, <1>4 DEF Remembered, Issuing
  <1>6. Issuing'
    BY <1>1, <1>5 DEF Remembered, Issuing
  <1>7. CASE UNCHANGED resets
    BY <1>1, <1>6, <1>7, LinksStay
  <1>8. CASE /\ Cardinality(counted) < PerUser
             /\ resets[l] = W!NoLink
             /\ resets' = [resets EXCEPT ![l] = new]
    <2>1. resets[l].state = "ABSENT" /\ resets[l].source = None
      BY <1>8 DEF W!NoLink
    <2>2. /\ resets'[l].state = "LIVE" /\ resets'[l].source = "SELF_SERVICE"
          /\ resets'[l].at = q.at /\ resets'[l].after = passwords
      BY <1>8 DEF Remembered, Issuing
    <2>3. \A x \in Links : x # l => resets'[x] = resets[x]
      BY <1>8 DEF Remembered, Issuing
    <2>4. Outlived'
      BY <1>1, <2>1, <2>2, <2>3 DEF Remembered, Outlived
    <2>5. Spending'
      BY <1>1 DEF Spending
    <2>6. ASSUME NEW t \in 0 .. MaxTime
          PROVE  Cardinality({x \in Links : resets'[x].source = "SELF_SERVICE"
                                /\ resets'[x].at \in t .. (t + Window - 1)}) <= PerUser
      <3> DEFINE A == {x \in Links : resets[x].source = "SELF_SERVICE" /\ resets[x].at \in t .. (t + Window - 1)}
                 B == {x \in Links : resets'[x].source = "SELF_SERVICE" /\ resets'[x].at \in t .. (t + Window - 1)}
      <3>1. Cardinality(A) <= PerUser
        BY DEF Remembered, Rationed
      <3>2. IsFiniteSet(A) /\ IsFiniteSet(counted)
        BY FS_Subset, MastersBounds
      <3>3. CASE q.at \in t .. (t + Window - 1)
        <4>1. q.at \in Nat /\ t \in Nat /\ \A x \in Links : resets[x].at \in Nat
          BY <1>3, MastersBounds DEF Asking, Remembered, Issuing, Ticket
        <4>2. A \subseteq counted
          BY <3>3, <4>1, MastersBounds
        <4>3. B = A \cup {l} /\ l \notin A
          BY <2>1, <2>2, <2>3, <3>3, MastersBounds
        <4> HIDE DEF A, B, counted
        <4>4. Cardinality(A) <= Cardinality(counted)
          BY <3>2, <4>2, FS_Subset
        <4>5. Cardinality(B) = Cardinality(A) + 1
          BY <3>2, <4>3, FS_AddElement
        <4>6. Cardinality(A) \in Nat /\ Cardinality(counted) \in Nat
          BY <3>2, FS_CardinalityType
        <4>7. Cardinality(B) <= PerUser
          BY <1>8, <4>4, <4>5, <4>6, MastersBounds
        <4> QED
          BY <4>7 DEF B
      <3>4. CASE q.at \notin t .. (t + Window - 1)
        <4>1. B = A
          BY <2>1, <2>2, <2>3, <3>4, MastersBounds
        <4> QED
          BY <3>1, <4>1
      <3> QED
        BY <3>3, <3>4
    <2>7. Rationed'
      BY <2>6 DEF Rationed
    <2> QED
      BY <1>6, <2>4, <2>5, <2>7 DEF Remembered
  <1> QED
    BY <1>2, <1>7, <1>8

LEMMA IssuedStep ==
  ASSUME Remembered, NEW l \in Links, NEW t \in Tenants, W!Issued(l, t),
         UNCHANGED <<member, opened, counter, changes, broken, request, spending, passwords, clock>>
  PROVE  Remembered'
  <1> DEFINE new == [state |-> "LIVE", source |-> "TENANT_ADMIN", tenant |-> t,
                     counter |-> counter, at |-> clock, after |-> passwords]
  <1>1. spending = None /\ resets[l] = W!NoLink /\ resets' = [W!Revoked EXCEPT ![l] = new]
    BY DEF W!Issued
  <1>2. resets[l].state = "ABSENT"
    BY <1>1 DEF W!NoLink
  <1>3. resets' = [x \in Links |-> IF x = l THEN new
                     ELSE IF resets[x].state = "LIVE" THEN [resets[x] EXCEPT !.state = "REVOKED"] ELSE resets[x]]
    BY <1>1 DEF W!Revoked
  <1>4. new \in Ticket
    BY MastersBounds DEF Ticket, Remembered, Issuing
  <1>5. \A x \in Links : resets[x] \in Ticket /\ [resets[x] EXCEPT !.state = "REVOKED"] \in Ticket
    BY DEF Remembered, Issuing, Ticket
  <1>6. Issuing'
    BY <1>3, <1>4, <1>5 DEF Remembered, Issuing
  <1>7. /\ resets'[l].state = "LIVE" /\ resets'[l].source = "TENANT_ADMIN"
        /\ resets'[l].counter = counter /\ resets'[l].after = passwords
    BY <1>3
  <1>8. \A x \in Links : x # l => /\ resets'[x].state # "LIVE"
                                  /\ resets'[x].state \in {resets[x].state, "REVOKED"}
                                  /\ resets'[x].source = resets[x].source /\ resets'[x].at = resets[x].at
    BY <1>3, <1>5 DEF Ticket
  <1>9. Outlived'
    BY <1>2, <1>7, <1>8 DEF Remembered, Issuing, Outlived
  <1>10. Spending'
    BY <1>1 DEF Spending
  <1>11. Rationed'
    BY <1>7, <1>8, RationedStays DEF Remembered
  <1> QED
    BY <1>6, <1>9, <1>10, <1>11 DEF Remembered

LEMMA CompleteStep ==
  ASSUME Remembered, NEW l \in Links, W!completePasswordReset(l)
  PROVE  Remembered'
  <1>1. /\ resets[l].state = "LIVE"
        /\ resets[l].source = "SELF_SERVICE" \/ resets[l].counter = counter
        /\ spending' = l
        /\ UNCHANGED <<member, opened, counter, changes, broken, resets, request, passwords, clock>>
    BY DEF W!completePasswordReset, W!Good, W!Self, W!people
  <1>2. Issuing'
    BY <1>1 DEF Remembered, Issuing
  <1>3. Outlived' /\ Rationed'
    BY <1>1 DEF Remembered, Outlived, Rationed
  <1>4. resets[l].state = "LIVE"
    BY DEF W!completePasswordReset, W!Good
  <1>5. Spending'
    BY <1>1, <1>4 DEF Remembered, Outlived, Spending
  <1> QED
    BY <1>2, <1>3, <1>5 DEF Remembered

LEMMA SetStep ==
  ASSUME Remembered, W!SetPassword
  PROVE  Remembered'
  <1>1. /\ spending # None /\ spending' = None /\ passwords' = passwords + 1
        /\ resets' = [W!Revoked EXCEPT ![spending] = [resets[spending] EXCEPT !.state = "USED"]]
        /\ UNCHANGED <<member, opened, counter, changes, broken, request, clock>>
    BY DEF W!SetPassword, W!people
  <1>2. spending \in Links
    BY <1>1 DEF Remembered, Issuing
  <1>3. resets' = [x \in Links |-> IF x = spending THEN [resets[x] EXCEPT !.state = "USED"]
                     ELSE IF resets[x].state = "LIVE" THEN [resets[x] EXCEPT !.state = "REVOKED"] ELSE resets[x]]
    BY <1>1, <1>2 DEF W!Revoked
  <1>4. \A x \in Links : /\ resets[x] \in Ticket /\ [resets[x] EXCEPT !.state = "REVOKED"] \in Ticket
                         /\ [resets[x] EXCEPT !.state = "USED"] \in Ticket
    BY DEF Remembered, Issuing, Ticket
  <1>5. Issuing'
    <2>1. resets' \in [Links -> Ticket]
      BY <1>3, <1>4
    <2>2. passwords' \in Nat /\ spending' = None
      BY <1>1 DEF Remembered, Issuing
    <2> QED
      BY <1>1, <2>1, <2>2 DEF Remembered, Issuing
  <1>6. \A x \in Links : /\ resets'[x].state # "LIVE"
                         /\ x # spending => resets'[x].state \in {resets[x].state, "REVOKED"}
                         /\ resets'[x].source = resets[x].source /\ resets'[x].at = resets[x].at
    BY <1>3, <1>4 DEF Ticket
  <1>7. resets'[spending].state = "USED"
    BY <1>2, <1>3, <1>4 DEF Ticket
  <1>8. Outlived'
    <2>1. \A x \in Links : resets'[x].state = "USED" =>
            x = spending \/ resets[x].state = "USED"
      BY <1>6
    <2>2. \A x \in Links : resets'[x].state = "ABSENT" => resets[x].state = "ABSENT"
      BY <1>6, <1>7
    <2>3. resets[spending].source = "TENANT_ADMIN" => spending \notin broken
      BY <1>1 DEF Remembered, Spending
    <2> QED
      BY <1>1, <1>6, <2>1, <2>2, <2>3 DEF Remembered, Outlived
  <1>9. Spending'
    BY <1>1 DEF Spending
  <1>10. Rationed'
    BY <1>6, RationedStays DEF Remembered
  <1> QED
    BY <1>5, <1>8, <1>9, <1>10 DEF Remembered

LEMMA RememberedStep == Remembered /\ [W!Next]_identity => Remembered'
  <1> SUFFICES ASSUME Remembered, [W!Next]_identity PROVE Remembered'
    OBVIOUS
  <1>1. CASE \E t \in Tenants, s \in {"ACTIVE", "SUSPENDED"} : W!MembershipChanges(t, s)
    BY <1>1, ChangeStep
  <1>2. CASE \/ \E t \in Tenants : W!TenantChanges(t)
             \/ W!Tick
             \/ \E r \in Requests : W!requestPasswordReset(r)
             \/ \E k \in ResetKeys, t \in Tenants : W!RefusePlatform(k, t)
    BY <1>2, QuietSteps
  <1>3. CASE \E r \in Requests, l \in Links : W!RecordRequest(r, l)
    BY <1>3, RecordStep
  <1>4. CASE \E l \in Links, t \in Tenants : W!issuePasswordReset(l, t)
    BY <1>4, IssuedStep DEF W!issuePasswordReset, W!people
  <1>5. CASE \E l \in Links, t \in Tenants, k \in ResetKeys : W!issuePlatformTenantUserPasswordReset(k, l, t)
    BY <1>5, IssuedStep DEF W!issuePlatformTenantUserPasswordReset, W!people
  <1>6. CASE \E l \in Links : W!completePasswordReset(l)
    BY <1>6, CompleteStep
  <1>7. CASE W!SetPassword
    BY <1>7, SetStep
  <1>8. CASE UNCHANGED identity
    <2>1. Issuing'
      BY <1>8 DEF identity, Remembered, Issuing
    <2> QED
      BY <1>8, <2>1, LinksStay DEF identity
  <1> QED
    BY <1>1, <1>2, <1>3, <1>4, <1>5, <1>6, <1>7, <1>8 DEF W!Next

LEMMA RememberedIsEnough == Remembered => W!TypeOK /\ W!OldLinksEnd /\ W!LinksAreRationed
  <1> SUFFICES ASSUME Remembered PROVE W!TypeOK /\ W!OldLinksEnd /\ W!LinksAreRationed
    OBVIOUS
  <1>1. W!TypeOK
    BY MastersBounds DEF Remembered, Issuing, Ticket, W!TypeOK
  <1>2. W!OldLinksEnd
    BY DEF Remembered, Outlived, W!OldLinksEnd, W!Administered
  <1>3. W!LinksAreRationed
    BY CardinalityOfLinks DEF Remembered, Rationed, W!LinksAreRationed, W!Self
  <1> QED
    BY <1>1, <1>2, <1>3

-----------------------------------------------------------------------------
(* OwnerInvitation                                                         *)

\* Those who may yet mail a token, or put it back into the queue.
Carries(w) ==
  \/ work[w].step \in {"leased", "sending"}
  \/ work[w].step = "recording" /\ work[w].outcome = "RETRY" /\ attempt.holder = w
Carriers(t) == {w \in Workers : work[w].token = t /\ Carries(w)}
Due(t) == IF attempt.state = "PENDING" /\ attempt.envelope = t THEN 1 ELSE 0

\* What was mailed, what the queue holds and what instances carry.
Counted == \A t \in O!Tokens : mails[t] + Due(t) + Cardinality(Carriers(t)) <= 1 + overtaken[t]

\* A lease is somebody's, and its holder still works on what the row is for.
Leased ==
  /\ attempt.state = "LEASED" <=> attempt.holder # None
  /\ \A w \in Workers : attempt.holder = w /\ work[w].step # "idle" => work[w].token = attempt.envelope
  /\ attempt.state \in O!Open => attempt.envelope \in {0, issue}

\* Nobody is ahead of the last token.
Issued ==
  /\ \A w \in Workers : work[w].token <= issue
  /\ \A t \in O!Tokens : t > issue => mails[t] = 0

Posted == O!TypeOK /\ Leased /\ Issued /\ Counted /\ O!QueueAgrees

LEMMA InviteBounds ==
  /\ MaxIssues \in Nat /\ MaxIssues > 0 /\ MaxAttempts \in Nat /\ MaxFaults \in Nat /\ MaxClosings \in Nat
  /\ IsFiniteSet(Workers) /\ None \notin Workers
  BY MastersAssumption

LEMMA CarriersAreFew ==
  /\ \A t : Carriers(t) \in SUBSET Workers /\ IsFiniteSet(Carriers(t)) /\ Cardinality(Carriers(t)) \in Nat
  /\ \A t : Carriers(t)' \in SUBSET Workers /\ IsFiniteSet(Carriers(t)') /\ Cardinality(Carriers(t)') \in Nat
  <1>1. \A S \in SUBSET Workers : IsFiniteSet(S) /\ Cardinality(S) \in Nat
    BY InviteBounds, FS_Subset, FS_CardinalityType
  <1>2. \A t : Carriers(t) \in SUBSET Workers /\ Carriers(t)' \in SUBSET Workers
    BY DEF Carriers
  <1> QED
    BY <1>1, <1>2

\* What the parts of a mail under way come to.
LEMMA CarriersCount ==
  ASSUME NEW t, NEW w \in Workers
  PROVE  /\ Carriers(t)' \subseteq Carriers(t) => Cardinality(Carriers(t)') <= Cardinality(Carriers(t))
         /\ Carriers(t)' \subseteq Carriers(t) \cup {w} => Cardinality(Carriers(t)') <= Cardinality(Carriers(t)) + 1
         /\ w \in Carriers(t) /\ Carriers(t)' \subseteq Carriers(t) \ {w} =>
              Cardinality(Carriers(t)') + 1 <= Cardinality(Carriers(t))
  <1> DEFINE S == Carriers(t)
             T == Carriers(t)'
  <1>1. IsFiniteSet(S) /\ Cardinality(S) \in Nat /\ IsFiniteSet(T) /\ Cardinality(T) \in Nat
    BY CarriersAreFew
  <1> HIDE DEF S, T
  <1>2. T \subseteq S => Cardinality(T) <= Cardinality(S)
    BY <1>1, FS_Subset
  <1>3. ASSUME T \subseteq S \cup {w} PROVE Cardinality(T) <= Cardinality(S) + 1
    <2>1. /\ IsFiniteSet(S \cup {w})
          /\ Cardinality(S \cup {w}) = IF w \in S THEN Cardinality(S) ELSE Cardinality(S) + 1
      BY <1>1, FS_AddElement
    <2>2. Cardinality(T) <= Cardinality(S \cup {w})
      BY <1>3, <2>1, FS_Subset
    <2> QED
      BY <1>1, <2>1, <2>2
  <1>4. ASSUME w \in S, T \subseteq S \ {w} PROVE Cardinality(T) + 1 <= Cardinality(S)
    <2>1. /\ IsFiniteSet(S \ {w})
          /\ Cardinality(S \ {w}) = IF w \in S THEN Cardinality(S) - 1 ELSE Cardinality(S)
      BY <1>1, FS_RemoveElement
    <2>2. Cardinality(T) <= Cardinality(S \ {w})
      BY <1>4, <2>1, FS_Subset
    <2> QED
      BY <1>1, <1>4, <2>1, <2>2
  <1> QED
    BY <1>2, <1>3, <1>4 DEF S, T

\* A step that mails nothing, puts nothing into the queue and gives nobody work.
LEMMA QuietCounts ==
  ASSUME Posted, UNCHANGED mails, overtaken' \in [O!Tokens -> Nat],
         \A t \in O!Tokens : /\ overtaken[t] <= overtaken'[t]
                             /\ Due(t)' = 1 => Due(t) = 1
                             /\ Carriers(t)' \subseteq Carriers(t)
  PROVE  Counted'
  <1> SUFFICES ASSUME NEW t \in O!Tokens
               PROVE  mails'[t] + Due(t)' + Cardinality(Carriers(t)') <= 1 + overtaken'[t]
    BY DEF Counted, O!Tokens
  <1>1. Cardinality(Carriers(t)') <= Cardinality(Carriers(t))
    <2>1. CASE Workers = {}
      BY <2>1, CarriersAreFew
    <2>2. CASE Workers # {}
      BY <2>2, CarriersCount
    <2> QED
      BY <2>1, <2>2
  <1>2. Due(t) \in {0, 1} /\ Due(t)' \in {0, 1}
    BY DEF Due
  <1>3. mails[t] \in Nat /\ overtaken[t] \in Nat /\ overtaken'[t] \in Nat
    BY DEF Posted, O!TypeOK
  <1>4. mails[t] + Due(t) + Cardinality(Carriers(t)) <= 1 + overtaken[t]
    BY DEF Posted, Counted
  <1>5. Cardinality(Carriers(t)) \in Nat /\ Cardinality(Carriers(t)') \in Nat
    BY CarriersAreFew
  <1> QED
    BY <1>1, <1>2, <1>3, <1>4, <1>5

\* What an attempt is made of, and its given up form.
LEMMA AttemptParts ==
  ASSUME Posted
  PROVE  /\ attempt = [state |-> attempt.state, tries |-> attempt.tries, envelope |-> attempt.envelope,
                       holder |-> attempt.holder, age |-> attempt.age]
         /\ attempt.state \in {"PENDING", "LEASED", "DELIVERED", "FAILED"}
         /\ attempt.tries \in Nat /\ attempt.envelope \in 0 .. MaxIssues
         /\ attempt.holder \in Workers \cup {None} /\ attempt.age \in {"fresh", "late"}
  BY DEF Posted, O!TypeOK, O!Attempt, O!Open, O!Sealed

LEMMA GivenUpIs ==
  ASSUME Posted
  PROVE  /\ O!GivenUp \in O!Attempt /\ O!GivenUp.state = "FAILED"
         /\ O!GivenUp.envelope = 0 /\ O!GivenUp.holder = None
         /\ [O!GivenUp EXCEPT !.state = "DELIVERED"] \in O!Attempt
         /\ [O!GivenUp EXCEPT !.state = "DELIVERED"].state = "DELIVERED"
         /\ [O!GivenUp EXCEPT !.state = "DELIVERED"].envelope = 0
         /\ [O!GivenUp EXCEPT !.state = "DELIVERED"].holder = None
  <1>1. attempt \in O!Attempt /\ 0 \in O!Sealed
    BY InviteBounds DEF Posted, O!TypeOK, O!Sealed
  <1>2. /\ O!GivenUp \in O!Attempt /\ O!GivenUp.state = "FAILED"
        /\ O!GivenUp.envelope = 0 /\ O!GivenUp.holder = None
    BY <1>1 DEF O!GivenUp, O!Attempt
  <1> QED
    BY <1>2 DEF O!Attempt

\* What an instance holds, and what it holds when it goes to record.
LEMMA WorkParts ==
  ASSUME Posted, NEW w \in Workers
  PROVE  /\ work[w] = [step |-> work[w].step, token |-> work[w].token, tries |-> work[w].tries, outcome |-> work[w].outcome]
         /\ work[w].step \in {"idle", "leased", "sending", "recording"} /\ work[w].token \in 0 .. MaxIssues
         /\ work[w].tries \in Nat /\ work[w].outcome \in {"DELIVERED", "RETRY", "FAILED"} \cup {None}
         /\ work = [v \in Workers |-> work[v]]
  BY DEF Posted, O!TypeOK, O!Work, O!Sealed, O!Outcome

LEMMA WorkMoves ==
  ASSUME Posted, NEW w \in Workers, NEW row \in O!Work, work' = [work EXCEPT ![w] = row]
  PROVE  /\ work' \in [Workers -> O!Work] /\ work'[w] = row
         /\ \A v \in Workers \ {w} : work'[v] = work[v]
  BY DEF Posted, O!TypeOK

LEMMA IdleIs ==
  O!Idle \in O!Work /\ O!Idle.step = "idle" /\ O!Idle.token = 0
  BY InviteBounds DEF O!Idle, O!Work, O!Sealed

LEMMA Recording ==
  ASSUME Posted, NEW w \in Workers, NEW outcome \in O!Outcome, O!ToRecord(w, outcome)
  PROVE  /\ work' \in [Workers -> O!Work]
         /\ work'[w].step = "recording" /\ work'[w].token = work[w].token /\ work'[w].outcome = outcome
         /\ \A v \in Workers \ {w} : work'[v] = work[v]
  <1> DEFINE row == [[work[w] EXCEPT !.step = "recording"] EXCEPT !.outcome = outcome]
  <1>1. work[w] \in O!Work
    BY DEF Posted, O!TypeOK
  <1>2. work' = [work EXCEPT ![w] = row]
    BY DEF O!ToRecord, Posted, O!TypeOK
  <1>3. row \in O!Work /\ row.step = "recording" /\ row.token = work[w].token /\ row.outcome = outcome
    BY <1>1 DEF O!Work
  <1> HIDE DEF row
  <1> QED
    BY <1>2, <1>3, WorkMoves

\* A step that mails nothing, puts nothing into the queue and gives nobody
\* work, and leaves the row as it was or ends what it was for.
LEMMA QuietStep ==
  ASSUME Posted, O!TypeOK', O!QueueAgrees', UNCHANGED <<issue, mails>>,
         \A t \in O!Tokens : overtaken[t] <= overtaken'[t],
         \A v \in Workers :
           /\ work'[v].token \in {work[v].token, 0}
           /\ work'[v].step # "idle" => work[v].step # "idle" /\ work'[v].token = work[v].token
           /\ Carries(v)' => Carries(v),
         \/ /\ attempt'.state = attempt.state /\ attempt'.envelope = attempt.envelope
            /\ attempt'.holder = attempt.holder
         \/ attempt'.state \in {"DELIVERED", "FAILED"} /\ attempt'.holder = None
  PROVE  Posted'
  <1>1. issue \in Nat /\ \A v \in Workers : work[v].token \in Nat
    BY InviteBounds DEF Posted, O!TypeOK, O!Tokens, O!Work, O!Sealed
  <1>2. \A v \in Workers : work'[v].token <= issue'
    BY <1>1 DEF Posted, Issued
  <1>3. Issued'
    BY <1>2 DEF Posted, Issued, O!Tokens
  <1>4. Leased'
    BY InviteBounds DEF Posted, Leased, O!Open
  <1>5. \A t \in O!Tokens : Carriers(t)' \subseteq Carriers(t)
    BY DEF Carriers, Carries
  <1>6. \A t \in O!Tokens : Due(t)' = 1 => Due(t) = 1
    BY DEF Due
  <1>7. overtaken' \in [O!Tokens -> Nat]
    BY DEF O!TypeOK, O!Tokens
  <1>8. Counted'
    BY <1>5, <1>6, <1>7, QuietCounts
  <1> QED
    BY <1>3, <1>4, <1>8 DEF Posted

\* Steps of the owner, the administrator and time.
LEMMA WorldStep ==
  ASSUME Posted, O!Lifecycle \/ O!TokenExpires \/ \E t \in O!Tokens : O!Accept(t)
  PROVE  Posted'
  <1>1. UNCHANGED <<issue, delivery, attempt, event, work, faults, mails, overtaken>>
    BY DEF O!Lifecycle, O!TokenExpires, O!Accept
  <1>2. /\ tenant' \in {"ACTIVE", "INACTIVE"} /\ closings' \in 0 .. MaxClosings
        /\ expiry' \in {"ahead", "passed"} /\ invited' \in {"INVITED", "ACTIVE"} /\ accepted' \in O!Sealed
    <2>1. /\ tenant \in {"ACTIVE", "INACTIVE"} /\ closings \in 0 .. MaxClosings
          /\ expiry \in {"ahead", "passed"} /\ invited \in {"INVITED", "ACTIVE"} /\ accepted \in O!Sealed
      BY DEF Posted, O!TypeOK
    <2>2. CASE O!Lifecycle
      BY <2>1, <2>2, InviteBounds DEF O!Lifecycle
    <2>3. CASE O!TokenExpires
      BY <2>1, <2>3 DEF O!TokenExpires
    <2>4. CASE \E t \in O!Tokens : O!Accept(t)
      BY <2>1, <2>4 DEF O!Accept, O!Tokens, O!Sealed
    <2> QED
      BY <2>2, <2>3, <2>4
  <1>3. O!TypeOK'
    BY <1>1, <1>2 DEF Posted, O!TypeOK, O!Tokens, O!Sealed
  <1>4. O!QueueAgrees'
    BY <1>1 DEF Posted, O!QueueAgrees, O!Open
  <1>5. /\ \A t \in O!Tokens : overtaken[t] <= overtaken'[t]
        /\ \A v \in Workers : Carries(v)' => Carries(v)
    BY <1>1 DEF Posted, O!TypeOK, Carries
  <1> QED
    BY <1>1, <1>3, <1>4, <1>5, QuietStep

\* A new token replaces the one before.
LEMMA ReissueStep ==
  ASSUME Posted, O!Reissue
  PROVE  Posted'
  <1>1. /\ issue < MaxIssues /\ issue' = issue + 1 /\ expiry' = "ahead" /\ delivery' = "PENDING_DELIVERY"
        /\ attempt' = O!Queued(issue + 1) /\ event' = [event EXCEPT ![issue + 1] = "PENDING"]
        /\ UNCHANGED <<accepted, invited, tenant, closings, work, faults, mails, overtaken>>
    BY DEF O!Reissue, O!AfterReissue
  <1>2. issue \in O!Tokens /\ issue \in Nat /\ issue + 1 \in O!Tokens
    BY <1>1, InviteBounds DEF Posted, O!TypeOK, O!Tokens
  <1>3. /\ attempt' \in O!Attempt /\ attempt'.state = "PENDING" /\ attempt'.envelope = issue + 1
        /\ attempt'.holder = None
    BY <1>1, <1>2 DEF O!Queued, O!Attempt, O!Open, O!Sealed, O!Tokens
  <1>4. event' \in [O!Tokens -> {"NONE", "PENDING", "PROCESSED", "FAILED"}] /\ event'[issue + 1] = "PENDING"
    BY <1>1, <1>2 DEF Posted, O!TypeOK
  <1>5. O!TypeOK'
    BY <1>1, <1>2, <1>3, <1>4 DEF Posted, O!TypeOK, O!Tokens, O!Sealed
  <1>6. \A v \in Workers : work[v].token \in Nat /\ work[v].token <= issue
    BY InviteBounds DEF Posted, Issued, O!TypeOK, O!Work, O!Sealed
  <1>7. Leased'
    BY <1>1, <1>3, InviteBounds DEF Leased, O!Open
  <1>8. Issued'
    <2>1. \A v \in Workers : work'[v].token <= issue'
      BY <1>1, <1>2, <1>6
    <2>2. \A t \in O!Tokens : t > issue + 1 => t > issue
      BY <1>2 DEF O!Tokens
    <2> QED
      BY <1>1, <2>1, <2>2 DEF Posted, Issued, O!Tokens
  <1>9. O!QueueAgrees'
    BY <1>1, <1>3, <1>4 DEF O!QueueAgrees, O!Open
  <1>10. ASSUME NEW t \in O!Tokens
         PROVE  mails'[t] + Due(t)' + Cardinality(Carriers(t)') <= 1 + overtaken'[t]
    <2>1. mails[t] \in Nat /\ overtaken[t] \in Nat /\ t \in Nat /\ UNCHANGED <<mails, overtaken, work>>
      BY <1>1 DEF Posted, O!TypeOK, O!Tokens
    <2>2. CASE t = issue + 1
      <3>1. mails[t] = 0
        BY <1>2, <2>2 DEF Posted, Issued
      <3>2. Carriers(t)' = {}
        BY <1>2, <1>6, <2>1, <2>2 DEF Carriers
      <3>3. Cardinality(Carriers(t)') = 0
        BY <3>2, FS_EmptySet
      <3> QED
        BY <2>1, <3>1, <3>3 DEF Due
    <2>3. CASE t # issue + 1
      <3>1. Due(t)' = 0
        BY <1>3, <2>3 DEF Due
      <3>2. Carriers(t)' \subseteq Carriers(t)
        BY <1>3, <2>1, InviteBounds DEF Carriers, Carries
      <3>3. Cardinality(Carriers(t)') <= Cardinality(Carriers(t))
        BY <3>2, CarriersAreFew, FS_Subset
      <3>4. mails[t] + Due(t) + Cardinality(Carriers(t)) <= 1 + overtaken[t]
        BY DEF Posted, Counted
      <3>5. Due(t) \in {0, 1} /\ Cardinality(Carriers(t)) \in Nat /\ Cardinality(Carriers(t)') \in Nat
        BY CarriersAreFew DEF Due
      <3> QED
        BY <2>1, <3>1, <3>3, <3>4, <3>5
    <2> QED
      BY <2>2, <2>3
  <1> QED
    BY <1>5, <1>7, <1>8, <1>9, <1>10 DEF Posted, Counted, O!Tokens

\* The events of the tokens come to an end.
LEMMA EventsEnded ==
  ASSUME Posted, NEW end \in {"PROCESSED", "FAILED"}, event' = O!EventsEnd(end)
  PROVE  /\ event' \in [O!Tokens -> {"NONE", "PENDING", "PROCESSED", "FAILED"}]
         /\ event'[issue] = IF event[issue] = "PENDING" THEN end ELSE event[issue]
  BY DEF Posted, O!TypeOK, O!EventsEnd

\* Where the queue agrees and a mail is due, giving it up agrees as well.
LEMMA GiveUpAgrees ==
  ASSUME Posted, attempt.state \in O!Open, overtaken[issue] = 0, UNCHANGED issue,
         attempt'.state = "FAILED", event' = O!EventsEnd("FAILED"), delivery' \in {delivery, "FAILED"}
  PROVE  O!QueueAgrees'
  <1>1. event'[issue] = IF event[issue] = "PENDING" THEN "FAILED" ELSE event[issue]
    BY EventsEnded
  <1>2. event[issue] = "PENDING" /\ delivery = "PENDING_DELIVERY"
    BY DEF Posted, O!QueueAgrees
  <1> QED
    BY <1>1, <1>2 DEF O!QueueAgrees, O!Open

\* The row is given up by the poll.
LEMMA GiveUpStep ==
  ASSUME Posted, O!RejectLegacy \/ O!ReapLease \/ O!DropIneligible
  PROVE  Posted'
  <1>1. /\ attempt.state \in O!Open /\ attempt' = O!GivenUp /\ event' = O!EventsEnd("FAILED")
        /\ delivery' \in {delivery, "FAILED"}
        /\ UNCHANGED <<issue, accepted, expiry, invited, tenant, closings, work, faults, mails, overtaken>>
    BY DEF O!RejectLegacy, O!ReapLease, O!DropIneligible, O!LeaseRunsOut, O!DeliveryFailed, O!world, O!Open
  <1>2. attempt' \in O!Attempt /\ attempt'.state = "FAILED" /\ attempt'.holder = None
    BY <1>1, GivenUpIs
  <1>3. event' \in [O!Tokens -> {"NONE", "PENDING", "PROCESSED", "FAILED"}]
    BY <1>1, EventsEnded
  <1>4. O!TypeOK'
    BY <1>1, <1>2, <1>3 DEF Posted, O!TypeOK, O!Tokens, O!Sealed
  <1>5. O!QueueAgrees'
    <2>1. CASE overtaken[issue] = 0
      BY <1>1, <1>2, <2>1, GiveUpAgrees
    <2>2. CASE overtaken[issue] # 0
      BY <1>1, <2>2 DEF O!QueueAgrees
    <2> QED
      BY <2>1, <2>2
  <1>6. /\ \A t \in O!Tokens : overtaken[t] <= overtaken'[t]
        /\ \A v \in Workers : Carries(v)' => Carries(v)
    BY <1>1, <1>2, InviteBounds DEF Posted, O!TypeOK, Carries
  <1> QED
    BY <1>1, <1>2, <1>4, <1>5, <1>6, QuietStep

\* The mail leaves the queue with the instance that leases it.
LEMMA LeaseStep ==
  ASSUME Posted, NEW w \in Workers, O!Lease(w)
  PROVE  Posted'
  <1> DEFINE row == [attempt EXCEPT !.state = "LEASED", !.tries = @ + 1, !.holder = w, !.age = "fresh"]
             task == [step |-> "leased", token |-> attempt.envelope, tries |-> attempt.tries + 1, outcome |-> None]
  <1>1. /\ work[w].step = "idle" /\ attempt.state = "PENDING" /\ attempt.envelope # 0
        /\ attempt' = row /\ work' = [work EXCEPT ![w] = task]
        /\ UNCHANGED <<issue, accepted, expiry, invited, tenant, closings, delivery, event, faults, mails, overtaken>>
    BY DEF O!Lease, O!world
  <1>2. attempt.envelope = issue /\ attempt.holder = None /\ issue \in O!Tokens /\ issue \in Nat
    BY <1>1 DEF Posted, Leased, O!Open, O!TypeOK, O!Tokens
  <1>3. row \in O!Attempt /\ row.state = "LEASED" /\ row.envelope = attempt.envelope /\ row.holder = w
    <2>1. attempt \in O!Attempt /\ attempt.tries + 1 \in Nat
      BY DEF Posted, O!TypeOK, O!Attempt
    <2> QED
      BY <2>1 DEF O!Attempt, O!Open
  <1>4. task \in O!Work /\ task.step = "leased" /\ task.token = issue
    BY <1>2, AttemptParts, InviteBounds DEF O!Work, O!Sealed, O!Tokens
  <1> HIDE DEF row, task
  <1>5. /\ work' \in [Workers -> O!Work] /\ work'[w] = task
        /\ \A v \in Workers \ {w} : work'[v] = work[v]
    BY <1>1, <1>4, WorkMoves
  <1>6. O!TypeOK'
    BY <1>1, <1>3, <1>5 DEF Posted, O!TypeOK, O!Tokens, O!Sealed
  <1>7. Leased'
    BY <1>1, <1>2, <1>3, <1>4, <1>5, InviteBounds DEF Leased, O!Open
  <1>8. Issued'
    <2>1. \A v \in Workers : work'[v].token <= issue
      BY <1>2, <1>4, <1>5 DEF Posted, Issued
    <2> QED
      BY <1>1, <2>1 DEF Posted, Issued, O!Tokens
  <1>9. O!QueueAgrees'
    BY <1>1, <1>3 DEF Posted, O!QueueAgrees, O!Open
  <1>10. ASSUME NEW t \in O!Tokens
         PROVE  mails'[t] + Due(t)' + Cardinality(Carriers(t)') <= 1 + overtaken'[t]
    <2>1. mails[t] \in Nat /\ overtaken[t] \in Nat /\ UNCHANGED <<mails, overtaken>>
      BY <1>1 DEF Posted, O!TypeOK
    <2>2. mails[t] + Due(t) + Cardinality(Carriers(t)) <= 1 + overtaken[t]
      BY DEF Posted, Counted
    <2>3. Due(t) \in {0, 1} /\ Cardinality(Carriers(t)) \in Nat /\ Cardinality(Carriers(t)') \in Nat
      BY CarriersAreFew DEF Due
    <2>4. Due(t)' = 0
      BY <1>1, <1>3 DEF Due
    <2>5. \A v \in Workers \ {w} : v \in Carriers(t)' => v \in Carriers(t)
      BY <1>1, <1>3, <1>5, InviteBounds DEF Carriers, Carries
    <2>6. CASE t = issue
      <3>1. Carriers(t)' \subseteq Carriers(t) \cup {w}
        BY <2>5 DEF Carriers
      <3>2. Due(t) = 1
        BY <1>1, <1>2, <2>6 DEF Due
      <3>3. Cardinality(Carriers(t)') <= Cardinality(Carriers(t)) + 1
        BY <3>1, CarriersCount
      <3> QED
        BY <2>1, <2>2, <2>3, <2>4, <3>2, <3>3
    <2>7. CASE t # issue
      <3>1. w \notin Carriers(t)'
        BY <1>4, <1>5, <2>7 DEF Carriers
      <3>2. Carriers(t)' \subseteq Carriers(t)
        BY <2>5, <3>1, CarriersAreFew
      <3>3. Cardinality(Carriers(t)') <= Cardinality(Carriers(t))
        BY <3>2, CarriersCount
      <3> QED
        BY <2>1, <2>2, <2>3, <2>4, <3>3
    <2> QED
      BY <2>6, <2>7
  <1> QED
    BY <1>6, <1>7, <1>8, <1>9, <1>10 DEF Posted, Counted, O!Tokens

\* A step that changes nothing but what one instance does.
LEMMA OwnStep ==
  ASSUME Posted, NEW w \in Workers, work' \in [Workers -> O!Work],
         \A v \in Workers \ {w} : work'[v] = work[v],
         work'[w].token \in {work[w].token, 0},
         work'[w].step # "idle" => work[w].step # "idle" /\ work'[w].token = work[w].token,
         Carries(w)' => Carries(w), faults' \in 0 .. MaxFaults,
         UNCHANGED <<issue, accepted, expiry, delivery, invited, attempt, event, tenant, closings, mails, overtaken>>
  PROVE  Posted'
  <1>1. O!TypeOK'
    BY DEF Posted, O!TypeOK, O!Tokens, O!Sealed
  <1>2. O!QueueAgrees'
    BY DEF Posted, O!QueueAgrees, O!Open
  <1>3. \A t \in O!Tokens : overtaken[t] <= overtaken'[t]
    BY DEF Posted, O!TypeOK
  <1>4. ASSUME NEW v \in Workers
        PROVE  /\ work'[v].token \in {work[v].token, 0}
               /\ work'[v].step # "idle" => work[v].step # "idle" /\ work'[v].token = work[v].token
               /\ Carries(v)' => Carries(v)
    BY DEF Carries
  <1> QED
    BY <1>1, <1>2, <1>3, <1>4, QuietStep

\* The instance looks once more before it sends.
LEMMA CheckStep ==
  ASSUME Posted, NEW w \in Workers, O!CheckEligible(w)
  PROVE  Posted'
  <1>1. /\ work[w].step = "leased" /\ faults' \in 0 .. MaxFaults
        /\ UNCHANGED <<issue, accepted, expiry, delivery, invited, attempt, event, tenant, closings, mails, overtaken>>
    BY DEF O!CheckEligible, O!world, Posted, O!TypeOK
  <1>2. Carries(w)
    BY <1>1 DEF Carries
  <1>3. CASE O!ToRecord(w, "FAILED")
    <2>1. /\ work' \in [Workers -> O!Work] /\ work'[w].token = work[w].token
          /\ \A v \in Workers \ {w} : work'[v] = work[v]
      BY <1>3, Recording DEF O!Outcome
    <2> QED
      BY <1>1, <1>2, <2>1, OwnStep
  <1>4. CASE work' = [work EXCEPT ![w].step = "sending"]
    <2> DEFINE row == [work[w] EXCEPT !.step = "sending"]
    <2>1. row \in O!Work /\ row.token = work[w].token
      BY DEF Posted, O!TypeOK, O!Work
    <2>2. work' = [work EXCEPT ![w] = row]
      BY <1>4
    <2> HIDE DEF row
    <2>3. /\ work' \in [Workers -> O!Work] /\ work'[w].token = work[w].token
          /\ \A v \in Workers \ {w} : work'[v] = work[v]
      BY <2>1, <2>2, WorkMoves
    <2> QED
      BY <1>1, <1>2, <2>3, OwnStep
  <1> QED
    BY <1>3, <1>4 DEF O!CheckEligible

\* SES took the mail or it did not: the instance that sent carries it no more,
\* unless it is to be put back.
LEMMA SendStep ==
  ASSUME Posted, NEW w \in Workers, O!Send(w)
  PROVE  Posted'
  <1> DEFINE k == work[w].token
  <1>1. /\ work[w].step = "sending"
        /\ UNCHANGED <<issue, accepted, expiry, invited, tenant, closings, delivery, attempt, event, faults, overtaken>>
    BY DEF O!Send, O!world
  <1>2. PICK outcome \in O!Outcome : O!ToRecord(w, outcome)
    BY DEF O!Send, O!AfterTimeout, O!Outcome
  <1>3. /\ mails' \in [O!Tokens -> Nat]
        /\ \A t \in O!Tokens : t # k => mails'[t] = mails[t]
        /\ \A t \in O!Tokens : mails'[t] # mails[t] =>
             mails'[t] = mails[t] + 1 /\ \E end \in {"DELIVERED", "FAILED"} : O!ToRecord(w, end)
    BY DEF O!Send, O!AfterTimeout, Posted, O!TypeOK
  <1>4. /\ work' \in [Workers -> O!Work] /\ work'[w].step = "recording" /\ work'[w].token = k
        /\ \A v \in Workers \ {w} : work'[v] = work[v]
    BY <1>2, Recording
  <1> HIDE DEF k
  <1>5. O!TypeOK'
    BY <1>1, <1>3, <1>4 DEF Posted, O!TypeOK, O!Tokens, O!Sealed
  <1>6. Leased'
    BY <1>1, <1>4 DEF Posted, Leased, O!Open, k
  <1>7. Issued'
    <2>1. \A v \in Workers : work'[v].token <= issue
      BY <1>4 DEF Posted, Issued, k
    <2>2. k <= issue /\ k \in Nat /\ issue \in Nat
      BY InviteBounds DEF Posted, Issued, O!TypeOK, O!Work, O!Sealed, O!Tokens, k
    <2>3. \A t \in O!Tokens : t > issue => t # k
      BY <2>2
    <2> QED
      BY <1>1, <1>3, <2>1, <2>3 DEF Posted, Issued, O!Tokens
  <1>8. O!QueueAgrees'
    BY <1>1 DEF Posted, O!QueueAgrees, O!Open
  <1>9. ASSUME NEW t \in O!Tokens
        PROVE  mails'[t] + Due(t)' + Cardinality(Carriers(t)') <= 1 + overtaken'[t]
    <2>1. mails[t] \in Nat /\ overtaken[t] \in Nat /\ mails'[t] \in Nat /\ overtaken'[t] = overtaken[t]
      BY <1>1, <1>3 DEF Posted, O!TypeOK
    <2>2. mails[t] + Due(t) + Cardinality(Carriers(t)) <= 1 + overtaken[t]
      BY DEF Posted, Counted
    <2>3. /\ Due(t) \in {0, 1} /\ Due(t)' = Due(t)
          /\ Cardinality(Carriers(t)) \in Nat /\ Cardinality(Carriers(t)') \in Nat
      BY <1>1, CarriersAreFew DEF Due
    <2>4. \A v \in Workers \ {w} : v \in Carriers(t)' => v \in Carriers(t)
      BY <1>1, <1>4 DEF Carriers, Carries
    <2>5. w \in Carriers(t)' => w \in Carriers(t)
      BY <1>1, <1>4 DEF Carriers, Carries, k
    <2>6. CASE mails'[t] = mails[t]
      <3>1. Carriers(t)' \subseteq Carriers(t)
        BY <2>4, <2>5, CarriersAreFew
      <3>2. Cardinality(Carriers(t)') <= Cardinality(Carriers(t))
        BY <3>1, CarriersCount
      <3> QED
        BY <2>1, <2>2, <2>3, <2>6, <3>2
    <2>7. CASE mails'[t] # mails[t]
      <3>1. PICK end \in {"DELIVERED", "FAILED"} : O!ToRecord(w, end)
        BY <1>3, <2>7
      <3>2. mails'[t] = mails[t] + 1 /\ t = k
        BY <1>3, <2>7
      <3>3. work'[w].outcome = end
        BY <3>1, Recording DEF O!Outcome
      <3>4. w \notin Carriers(t)'
        BY <1>4, <3>3 DEF Carriers, Carries
      <3>5. w \in Carriers(t)
        BY <1>1, <3>2 DEF Carriers, Carries, k
      <3>6. Carriers(t)' \subseteq Carriers(t) \ {w}
        BY <2>4, <3>4, CarriersAreFew
      <3>7. Cardinality(Carriers(t)') + 1 <= Cardinality(Carriers(t))
        BY <3>5, <3>6, CarriersCount
      <3> QED
        BY <2>1, <2>2, <2>3, <3>2, <3>7
    <2> QED
      BY <2>6, <2>7
  <1> QED
    BY <1>5, <1>6, <1>7, <1>8, <1>9 DEF Posted, Counted, O!Tokens

\* What an instance leaves behind when it is done with the row.
LEMMA Released ==
  ASSUME Posted, NEW w \in Workers, O!Release(w)
  PROVE  /\ work' \in [Workers -> O!Work] /\ work'[w] = O!Idle
         /\ \A v \in Workers \ {w} : work'[v] = work[v]
         /\ overtaken' \in [O!Tokens -> Nat]
         /\ \A t \in O!Tokens : overtaken[t] <= overtaken'[t]
         /\ attempt.holder # w => overtaken'[issue] = overtaken[issue] + 1
         /\ attempt.holder = w => overtaken' = overtaken
         /\ UNCHANGED <<issue, accepted, expiry, invited, tenant, closings, faults, mails>>
  <1>1. /\ work' = [work EXCEPT ![w] = O!Idle]
        /\ UNCHANGED <<issue, accepted, expiry, invited, tenant, closings, faults, mails>>
    BY DEF O!Release, O!world
  <1>2. /\ work' \in [Workers -> O!Work] /\ work'[w] = O!Idle
        /\ \A v \in Workers \ {w} : work'[v] = work[v]
    BY <1>1, IdleIs, WorkMoves
  <1>3. issue \in O!Tokens /\ overtaken \in [O!Tokens -> Nat]
    BY DEF Posted, O!TypeOK
  <1>4. /\ overtaken' \in [O!Tokens -> Nat]
        /\ \A t \in O!Tokens : overtaken[t] <= overtaken'[t]
        /\ attempt.holder # w => overtaken'[issue] = overtaken[issue] + 1
        /\ attempt.holder = w => overtaken' = overtaken
    BY <1>3 DEF O!Release
  <1> QED
    BY <1>1, <1>2, <1>4

\* A record that ends the row, or comes too late to touch it.
LEMMA EndedStep ==
  ASSUME Posted, NEW w \in Workers, O!Release(w), O!QueueAgrees', attempt' \in O!Attempt,
         event' \in [O!Tokens -> {"NONE", "PENDING", "PROCESSED", "FAILED"}],
         delivery' \in {"PENDING_DELIVERY", "DELIVERED", "FAILED"},
         \/ /\ attempt'.state = attempt.state /\ attempt'.envelope = attempt.envelope
            /\ attempt'.holder = attempt.holder
         \/ attempt'.state \in {"DELIVERED", "FAILED"} /\ attempt'.holder = None
  PROVE  Posted'
  <1>1. O!TypeOK'
    BY Released DEF Posted, O!TypeOK, O!Tokens, O!Sealed
  <1>2. ASSUME NEW v \in Workers
        PROVE  /\ work'[v].token \in {work[v].token, 0}
               /\ work'[v].step # "idle" => work[v].step # "idle" /\ work'[v].token = work[v].token
               /\ Carries(v)' => Carries(v)
    <2>1. CASE v = w
      BY <2>1, Released, IdleIs DEF Carries
    <2>2. CASE v # w
      BY <2>2, Released, InviteBounds DEF Carries
    <2> QED
      BY <2>1, <2>2
  <1> QED
    BY <1>1, <1>2, Released, QuietStep

\* The success is recorded, or the failure to record it.
LEMMA DeliveredStep ==
  ASSUME Posted, NEW w \in Workers, O!Complete(w)
  PROVE  Posted'
  <1>1. /\ O!Release(w) /\ UNCHANGED issue
        /\ overtaken'[issue] = 0 => attempt.state = "LEASED" /\ overtaken[issue] = 0
    <2>1. O!Release(w)
      BY DEF O!Complete
    <2>2. overtaken[issue] \in Nat
      BY DEF Posted, O!TypeOK
    <2>3. attempt.holder = w => attempt.state = "LEASED"
      BY InviteBounds DEF Posted, Leased
    <2> QED
      BY <2>1, <2>2, <2>3, Released
  <1>2. CASE O!Acknowledged
    <2>1. /\ attempt' = [O!GivenUp EXCEPT !.state = "DELIVERED"] /\ delivery' = "DELIVERED"
          /\ event' = O!EventsEnd("PROCESSED")
      BY <1>2 DEF O!Complete
    <2>2. attempt' \in O!Attempt /\ attempt'.state = "DELIVERED" /\ attempt'.holder = None
      BY <2>1, GivenUpIs
    <2>3. /\ event' \in [O!Tokens -> {"NONE", "PENDING", "PROCESSED", "FAILED"}]
          /\ event'[issue] = IF event[issue] = "PENDING" THEN "PROCESSED" ELSE event[issue]
      BY <2>1, EventsEnded
    <2>4. overtaken'[issue] = 0 => event[issue] = "PENDING"
      BY <1>1 DEF Posted, O!QueueAgrees, O!Open
    <2>5. O!QueueAgrees'
      BY <1>1, <2>1, <2>2, <2>3, <2>4 DEF O!QueueAgrees, O!Open
    <2> QED
      BY <1>1, <2>1, <2>2, <2>3, <2>5, EndedStep
  <1>3. CASE ~O!Acknowledged
    <2>1. /\ attempt' = IF attempt.state = "LEASED" THEN O!GivenUp ELSE attempt
          /\ delivery' \in {delivery, "FAILED"}
          /\ event' = O!EventsEnd("FAILED")
      BY <1>3 DEF O!Complete, O!DeliveryFailed
    <2>2. /\ attempt' \in O!Attempt
          /\ attempt.state = "LEASED" => attempt'.state = "FAILED" /\ attempt'.holder = None
      BY <2>1, GivenUpIs DEF Posted, O!TypeOK
    <2>3. event' \in [O!Tokens -> {"NONE", "PENDING", "PROCESSED", "FAILED"}]
      BY <2>1, EventsEnded
    <2>4. O!QueueAgrees'
      <3>1. CASE overtaken'[issue] = 0
        BY <1>1, <2>1, <2>2, <3>1, GiveUpAgrees DEF O!Open
      <3>2. CASE overtaken'[issue] # 0
        BY <1>1, <3>2 DEF O!QueueAgrees
      <3> QED
        BY <3>1, <3>2
    <2>5. delivery' \in {"PENDING_DELIVERY", "DELIVERED", "FAILED"}
      BY <2>1 DEF Posted, O!TypeOK
    <2>6. attempt.state # "LEASED" => attempt' = attempt
      BY <2>1
    <2> QED
      BY <1>1, <2>2, <2>3, <2>4, <2>5, <2>6, EndedStep
  <1> QED
    BY <1>2, <1>3

\* The row goes back into the queue.
LEMMA RequeueStep ==
  ASSUME Posted, NEW w \in Workers, O!Release(w), attempt.state = "LEASED",
         work[w].step = "recording", work[w].outcome = "RETRY",
         attempt' = [attempt EXCEPT !.state = "PENDING", !.holder = None, !.age = "fresh"],
         UNCHANGED <<delivery, event>>
  PROVE  Posted'
  <1>1. /\ attempt' \in O!Attempt /\ attempt'.state = "PENDING" /\ attempt'.holder = None
        /\ attempt'.envelope = attempt.envelope
    BY DEF Posted, O!TypeOK, O!Attempt, O!Open
  <1>2. O!TypeOK'
    BY <1>1, Released DEF Posted, O!TypeOK, O!Tokens, O!Sealed
  <1>3. attempt.envelope \in {0, issue} /\ issue \in O!Tokens /\ issue \in Nat
    BY DEF Posted, Leased, O!Open, O!TypeOK, O!Tokens
  <1>4. Leased'
    BY <1>1, <1>3, Released, InviteBounds DEF Leased, O!Open
  <1>5. Issued'
    <2>1. \A v \in Workers : work'[v].token <= issue
      BY <1>3, Released, IdleIs DEF Posted, Issued
    <2> QED
      BY <2>1, Released DEF Posted, Issued, O!Tokens
  <1>6. O!QueueAgrees'
    <2>1. overtaken[issue] \in Nat /\ overtaken'[issue] \in Nat /\ overtaken[issue] <= overtaken'[issue] /\ issue' = issue
      BY <1>3, Released DEF Posted, O!TypeOK
    <2>2. overtaken'[issue] = 0 => overtaken[issue] = 0
      BY <2>1
    <2> QED
      BY <1>1, <2>1, <2>2 DEF Posted, O!QueueAgrees, O!Open
  <1>7. ASSUME NEW t \in O!Tokens
        PROVE  mails'[t] + Due(t)' + Cardinality(Carriers(t)') <= 1 + overtaken'[t]
    <2>1. /\ mails[t] \in Nat /\ overtaken[t] \in Nat /\ overtaken'[t] \in Nat /\ overtaken[t] <= overtaken'[t]
          /\ mails' = mails
      BY Released DEF Posted, O!TypeOK
    <2>2. mails[t] + Due(t) + Cardinality(Carriers(t)) <= 1 + overtaken[t]
      BY DEF Posted, Counted
    <2>3. /\ Due(t) = 0 /\ Due(t)' \in {0, 1}
          /\ Cardinality(Carriers(t)) \in Nat /\ Cardinality(Carriers(t)') \in Nat
      BY CarriersAreFew DEF Due
    <2>4. Carriers(t)' \subseteq Carriers(t) \ {w}
      <3>1. w \notin Carriers(t)'
        BY Released, IdleIs DEF Carriers, Carries
      <3>2. \A v \in Workers \ {w} : v \in Carriers(t)' => v \in Carriers(t)
        BY <1>1, Released, InviteBounds DEF Carriers, Carries
      <3> QED
        BY <3>1, <3>2, CarriersAreFew
    <2>5. Cardinality(Carriers(t)') <= Cardinality(Carriers(t))
      <3>1. Carriers(t)' \subseteq Carriers(t)
        BY <2>4
      <3> QED
        BY <3>1, CarriersCount
    <2>6. CASE Due(t)' = 0
      BY <2>1, <2>2, <2>3, <2>5, <2>6
    <2>7. CASE Due(t)' # 0
      <3>1. t = issue /\ attempt.envelope = t
        BY <1>1, <1>3, <2>7 DEF Due, O!Tokens
      <3>2. CASE attempt.holder = w
        <4>1. w \in Carriers(t)
          BY <3>1, <3>2 DEF Carriers, Carries, Posted, Leased
        <4>2. Cardinality(Carriers(t)') + 1 <= Cardinality(Carriers(t))
          BY <2>4, <4>1, CarriersCount
        <4> QED
          BY <2>1, <2>2, <2>3, <4>2
      <3>3. CASE attempt.holder # w
        <4>1. overtaken'[t] = overtaken[t] + 1
          BY <3>1, <3>3, Released
        <4> QED
          BY <2>1, <2>2, <2>3, <2>5, <4>1
      <3> QED
        BY <3>2, <3>3
    <2> QED
      BY <2>6, <2>7
  <1> QED
    BY <1>2, <1>4, <1>5, <1>6, <1>7 DEF Posted, Counted, O!Tokens

\* The failure is recorded.
LEMMA UndeliveredStep ==
  ASSUME Posted, NEW w \in Workers, O!Fail(w)
  PROVE  Posted'
  <1> DEFINE again == work[w].outcome = "RETRY" /\ work[w].tries < MaxAttempts
  <1>1. /\ work[w].step = "recording" /\ O!Release(w)
        /\ IF attempt.state # "LEASED"
             THEN UNCHANGED <<attempt, delivery, event>>
             ELSE IF again
               THEN /\ attempt' = [attempt EXCEPT !.state = "PENDING", !.holder = None, !.age = "fresh"]
                    /\ UNCHANGED <<delivery, event>>
               ELSE /\ attempt' = O!GivenUp
                    /\ delivery' = O!DeliveryFailed
                    /\ event' = O!EventsEnd("FAILED")
    BY DEF O!Fail
  <1>2. again => work[w].outcome = "RETRY"
    OBVIOUS
  <1> HIDE DEF again
  <1>3. UNCHANGED issue /\ (overtaken'[issue] = 0 => overtaken[issue] = 0)
    <2>1. /\ overtaken[issue] \in Nat /\ overtaken'[issue] \in Nat
          /\ overtaken[issue] <= overtaken'[issue] /\ issue' = issue
      BY <1>1, Released DEF Posted, O!TypeOK
    <2> QED
      BY <2>1
  <1>4. CASE attempt.state # "LEASED"
    <2>1. UNCHANGED <<attempt, delivery, event>>
      BY <1>1, <1>4
    <2>2. O!QueueAgrees'
      BY <1>3, <2>1 DEF Posted, O!QueueAgrees, O!Open
    <2>3. /\ attempt' \in O!Attempt /\ delivery' \in {"PENDING_DELIVERY", "DELIVERED", "FAILED"}
          /\ event' \in [O!Tokens -> {"NONE", "PENDING", "PROCESSED", "FAILED"}]
      BY <2>1 DEF Posted, O!TypeOK
    <2> QED
      BY <1>1, <2>1, <2>2, <2>3, EndedStep
  <1>5. CASE attempt.state = "LEASED" /\ again
    BY <1>1, <1>2, <1>5, RequeueStep
  <1>6. CASE attempt.state = "LEASED" /\ ~again
    <2>1. attempt' = O!GivenUp /\ delivery' \in {delivery, "FAILED"} /\ event' = O!EventsEnd("FAILED")
      BY <1>1, <1>6 DEF O!DeliveryFailed
    <2>2. attempt' \in O!Attempt /\ attempt'.state = "FAILED" /\ attempt'.holder = None
      BY <2>1, GivenUpIs
    <2>3. event' \in [O!Tokens -> {"NONE", "PENDING", "PROCESSED", "FAILED"}]
      BY <2>1, EventsEnded
    <2>4. O!QueueAgrees'
      <3>1. CASE overtaken[issue] = 0
        BY <1>3, <1>6, <2>1, <2>2, <3>1, GiveUpAgrees DEF O!Open
      <3>2. CASE overtaken[issue] # 0
        BY <1>3, <3>2 DEF O!QueueAgrees
      <3> QED
        BY <3>1, <3>2
    <2>5. delivery' \in {"PENDING_DELIVERY", "DELIVERED", "FAILED"}
      BY <2>1 DEF Posted, O!TypeOK
    <2> QED
      BY <1>1, <2>2, <2>3, <2>4, <2>5, EndedStep
  <1> QED
    BY <1>4, <1>5, <1>6

\* Faults: a record that is rolled back, an instance that stops, a lease that
\* grows old.
LEMMA FaultStep ==
  ASSUME Posted, O!LeaseAges \/ \E w \in Workers : O!RecordAborts(w) \/ O!Crash(w)
  PROVE  Posted'
  <1>1. \A n \in 0 .. MaxFaults : n < MaxFaults => n + 1 \in 0 .. MaxFaults
    BY InviteBounds
  <1>2. ASSUME NEW w \in Workers, O!RecordAborts(w) \/ O!Crash(w)
        PROVE  Posted'
    <2>1. /\ faults' \in 0 .. MaxFaults
          /\ UNCHANGED <<issue, accepted, expiry, delivery, invited, attempt, event, tenant, closings, mails, overtaken>>
      BY <1>1, <1>2 DEF O!RecordAborts, O!Crash, O!Fault, O!world, Posted, O!TypeOK
    <2>2. CASE O!ToRecord(w, "FAILED") /\ work[w].step = "recording"
      <3>1. /\ work' \in [Workers -> O!Work] /\ work'[w].token = work[w].token
            /\ work'[w].step = "recording" /\ work'[w].outcome = "FAILED"
            /\ \A v \in Workers \ {w} : work'[v] = work[v]
        BY <2>2, Recording DEF O!Outcome
      <3>2. ~Carries(w)'
        BY <3>1 DEF Carries
      <3> QED
        BY <2>1, <2>2, <3>1, <3>2, OwnStep
    <2>3. CASE work' = [work EXCEPT ![w] = O!Idle]
      <3>1. /\ work' \in [Workers -> O!Work] /\ work'[w] = O!Idle
            /\ \A v \in Workers \ {w} : work'[v] = work[v]
        BY <2>3, IdleIs, WorkMoves
      <3>2. ~Carries(w)'
        BY <3>1, IdleIs DEF Carries
      <3> QED
        BY <2>1, <3>1, <3>2, IdleIs, OwnStep
    <2> QED
      BY <1>2, <2>2, <2>3 DEF O!RecordAborts, O!Crash
  <1>3. ASSUME O!LeaseAges PROVE Posted'
    <2>1. /\ faults' \in 0 .. MaxFaults /\ attempt' = [attempt EXCEPT !.age = "late"]
          /\ UNCHANGED <<issue, accepted, expiry, delivery, invited, event, tenant, closings, work, mails, overtaken>>
      BY <1>1, <1>3 DEF O!LeaseAges, O!Fault, O!world, Posted, O!TypeOK
    <2>2. /\ attempt' \in O!Attempt /\ attempt'.state = attempt.state
          /\ attempt'.envelope = attempt.envelope /\ attempt'.holder = attempt.holder
      BY <2>1 DEF Posted, O!TypeOK, O!Attempt
    <2>3. O!TypeOK'
      BY <2>1, <2>2 DEF Posted, O!TypeOK, O!Tokens, O!Sealed
    <2>4. O!QueueAgrees'
      BY <2>1, <2>2 DEF Posted, O!QueueAgrees, O!Open
    <2>5. /\ \A t \in O!Tokens : overtaken[t] <= overtaken'[t]
          /\ \A v \in Workers : Carries(v)' => Carries(v)
      BY <2>1, <2>2 DEF Posted, O!TypeOK, Carries
    <2> QED
      BY <2>1, <2>2, <2>3, <2>4, <2>5, QuietStep
  <1> QED
    BY <1>2, <1>3

LEMMA PostedInit == O!Init => Posted
  <1> SUFFICES ASSUME O!Init PROVE Posted
    OBVIOUS
  <1>1. /\ issue = 1 /\ accepted = 0 /\ expiry = "ahead" /\ delivery = "PENDING_DELIVERY" /\ invited = "INVITED"
        /\ event = [t \in O!Tokens |-> IF t = 1 THEN "PENDING" ELSE "NONE"]
        /\ tenant \in {"ACTIVE", "INACTIVE"} /\ closings = 0 /\ faults = 0
        /\ work = [w \in Workers |-> O!Idle]
        /\ mails = [t \in O!Tokens |-> 0] /\ overtaken = [t \in O!Tokens |-> 0]
    BY DEF O!Init
  <1>2. PICK envelope \in {0, 1} : attempt = O!Queued(envelope)
    BY DEF O!Init
  <1>3. 1 \in O!Tokens /\ 0 \in O!Sealed /\ 1 \in O!Sealed
    BY InviteBounds DEF O!Tokens, O!Sealed
  <1>4. /\ attempt \in O!Attempt /\ attempt.state = "PENDING" /\ attempt.envelope \in {0, 1}
        /\ attempt.holder = None
    BY <1>2, <1>3 DEF O!Queued, O!Attempt, O!Open
  <1>5. O!TypeOK
    BY <1>1, <1>3, <1>4, IdleIs, InviteBounds DEF O!TypeOK
  <1>6. Leased
    BY <1>1, <1>4, InviteBounds DEF Leased, O!Open
  <1>7. Issued
    BY <1>1, IdleIs DEF Issued
  <1>8. O!QueueAgrees
    BY <1>1, <1>3, <1>4 DEF O!QueueAgrees, O!Open
  <1>9. ASSUME NEW t \in O!Tokens
        PROVE  mails[t] + Due(t) + Cardinality(Carriers(t)) <= 1 + overtaken[t]
    <2>1. Carriers(t) = {}
      BY <1>1, IdleIs DEF Carriers, Carries
    <2>2. Cardinality(Carriers(t)) = 0 /\ mails[t] = 0 /\ overtaken[t] = 0
      BY <1>1, <2>1, FS_EmptySet
    <2> QED
      BY <2>2 DEF Due
  <1> QED
    BY <1>5, <1>6, <1>7, <1>8, <1>9 DEF Posted, Counted

LEMMA PostedStep == Posted /\ [O!Next]_invitation => Posted'
  <1> SUFFICES ASSUME Posted, [O!Next]_invitation PROVE Posted'
    OBVIOUS
  <1>1. CASE O!Reissue
    BY <1>1, ReissueStep
  <1>2. CASE O!Lifecycle \/ O!TokenExpires \/ \E t \in O!Tokens : O!Accept(t)
    BY <1>2, WorldStep
  <1>3. CASE O!RejectLegacy \/ O!ReapLease \/ O!DropIneligible
    BY <1>3, GiveUpStep
  <1>4. CASE O!LeaseAges \/ \E w \in Workers : O!RecordAborts(w) \/ O!Crash(w)
    BY <1>4, FaultStep
  <1>5. ASSUME NEW w \in Workers,
               O!Lease(w) \/ O!CheckEligible(w) \/ O!Send(w) \/ O!Complete(w) \/ O!Fail(w)
        PROVE  Posted'
    BY <1>5, LeaseStep, CheckStep, SendStep, DeliveredStep, UndeliveredStep
  <1>6. CASE UNCHANGED invitation
    <2>1. UNCHANGED <<issue, accepted, expiry, delivery, invited, attempt, event, tenant, closings,
                      work, faults, mails, overtaken>>
      BY <1>6 DEF invitation
    <2>2. O!TypeOK' /\ O!QueueAgrees' /\ \A v \in Workers : Carries(v)' => Carries(v)
      BY <2>1 DEF Posted, O!TypeOK, O!Tokens, O!Sealed, O!QueueAgrees, O!Open, Carries
    <2>3. \A t \in O!Tokens : overtaken[t] <= overtaken'[t]
      BY <2>1 DEF Posted, O!TypeOK
    <2> QED
      BY <2>1, <2>2, <2>3, QuietStep
  <1> QED
    BY <1>1, <1>2, <1>3, <1>4, <1>5, <1>6 DEF O!Next

LEMMA PostedIsEnough == Posted => O!TypeOK /\ O!MailsAreBounded /\ O!QueueAgrees
  <1> SUFFICES ASSUME Posted, NEW t \in O!Tokens PROVE mails[t] <= 1 + overtaken[t]
    BY DEF Posted, O!MailsAreBounded
  <1>1. mails[t] + Due(t) + Cardinality(Carriers(t)) <= 1 + overtaken[t]
    BY DEF Posted, Counted
  <1>2. mails[t] \in Nat /\ overtaken[t] \in Nat /\ Due(t) \in {0, 1} /\ Cardinality(Carriers(t)) \in Nat
    BY CarriersAreFew DEF Posted, O!TypeOK, Due
  <1> QED
    BY <1>1, <1>2

-----------------------------------------------------------------------------
(* Together                                                                *)

LEMMA FocusSteps ==
  ASSUME [MCNext]_<<focus, hierarchy, employees, imports, identity, invitation>>
  PROVE  /\ focus' = focus
         /\ [Next]_vars /\ [E!Next]_employees /\ [I!Next]_imports /\ [W!Next]_identity
         /\ [O!Next]_invitation
  BY DEF MCNext, hierarchy, vars

\* Managers form no circle, nobody who stayed is left with a superior who is
\* gone, and managed grants follow the home and the regions, whatever the
\* requests of master administrators do to each other (mst01.service.ts).
THEOREM StaffStaysLed == MCSpec => []StaffIsLedAndPlaced
<1>1. MCInit => Led
  BY LedInit DEF MCInit
<1>2. Led /\ [MCNext]_<<focus, hierarchy, employees, imports, identity, invitation>> => Led'
  BY FocusSteps, LedStep
<1>3. Led => StaffIsLedAndPlaced
  BY LedIsEnough DEF StaffIsLedAndPlaced
<1> QED
  BY <1>1, <1>2, <1>3, PTL DEF MCSpec

\* What the jobs report is what was done to the records, however commits
\* overlap, and a file is committed whole, announced once and handed over
\* once (import-commit and the handoff of a conversation's file).
THEOREM ImportsStayAccounted == MCSpec => []ImportsAreAccounted
<1>1. MCInit => Imported
  BY ImportedInit DEF MCInit
<1>2. Imported /\ [MCNext]_<<focus, hierarchy, employees, imports, identity, invitation>> => Imported'
  BY FocusSteps, ImportedStep
<1>3. Imported => ImportsAreAccounted
  BY ImportedIsEnough DEF ImportsAreAccounted
<1> QED
  BY <1>1, <1>2, <1>3, PTL DEF MCSpec

\* A link for a new password does not outlive another password of its user,
\* and the links asked for in a window are rationed (password resets).
THEOREM PasswordsStayReset == MCSpec => []PasswordsAreReset
<1>1. MCInit => Remembered
  BY RememberedInit DEF MCInit
<1>2. Remembered /\ [MCNext]_<<focus, hierarchy, employees, imports, identity, invitation>> => Remembered'
  BY FocusSteps, RememberedStep
<1>3. Remembered => PasswordsAreReset
  BY RememberedIsEnough DEF PasswordsAreReset
<1> QED
  BY <1>1, <1>2, <1>3, PTL DEF MCSpec

\* An owner gets each link at most once, through retries, crashes and answers
\* that never came, except once more for each record an instance made under a
\* lease that was no longer its own (invitation-email.service.ts).
THEOREM LinksStayMailedOnce == MCSpec => []LinksAreMailedOnce
<1>1. MCInit => Posted
  BY PostedInit DEF MCInit
<1>2. Posted /\ [MCNext]_<<focus, hierarchy, employees, imports, identity, invitation>> => Posted'
  BY FocusSteps, PostedStep
<1>3. Posted => LinksAreMailedOnce
  BY PostedIsEnough DEF LinksAreMailedOnce
<1> QED
  BY <1>1, <1>2, <1>3, PTL DEF MCSpec

\* As long as nobody recorded under another's lease, the attempt, the
\* invitation and the outbox event tell the same story.
THEOREM InvitationsStayAgreed == MCSpec => []InvitationsAgree
<1>1. MCInit => Posted
  BY PostedInit DEF MCInit
<1>2. Posted /\ [MCNext]_<<focus, hierarchy, employees, imports, identity, invitation>> => Posted'
  BY FocusSteps, PostedStep
<1>3. Posted => InvitationsAgree
  BY PostedIsEnough DEF InvitationsAgree
<1> QED
  BY <1>1, <1>2, <1>3, PTL DEF MCSpec
==============================================================================
