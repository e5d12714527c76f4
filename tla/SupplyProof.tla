------------------------------- MODULE SupplyProof -------------------------------
(***************************************************************************)
(* Proofs about the way from the contract to the trip, for any constants.  *)
(*                                                                         *)
(* Placement: the invariants of the assignments rest on what an open       *)
(* assignAllocation holds: its allocation, the indent of that, and so the  *)
(* truth of the vehicle check it made among the allocations of the indent. *)
(*                                                                         *)
(* Contracts: a rate is superseded only by a later publication, so what an *)
(* indent was priced by is in force until then.  VendorStanding: what a    *)
(* verification that is alone has read is still what is in force when it   *)
(* commits.  RuleExecution: what is offered is counted as a set of         *)
(* vehicles, so no sum is evaluated, and whatever a request says it made   *)
(* is there under its key.  Idempotency: locks exclude each other, and two *)
(* requests with equal hashes compete for one lock; so what a request did  *)
(* not see while it holds its lock stays unseen, and what it then finds in *)
(* the way is another tenant's.                                            *)
(***************************************************************************)
EXTENDS MCSupply, Sequences, FiniteSetTheorems, TLAPS

\* n numbers in a row are n.
LEMMA StripCounts ==
  ASSUME NEW a, NEW n \in Nat
  PROVE  IsFiniteSet({a} \X (1 .. n)) /\ Cardinality({a} \X (1 .. n)) = n
  <1>1. IsFiniteSet({a}) /\ Cardinality({a}) = 1
    BY FS_Singleton
  <1>2. IsFiniteSet(1 .. n) /\ Cardinality(1 .. n) = n
    BY FS_Interval
  <1>3. /\ IsFiniteSet({a} \X (1 .. n))
        /\ Cardinality({a} \X (1 .. n)) = Cardinality({a}) * Cardinality(1 .. n)
    <2>1. IsFiniteSet({a}) /\ IsFiniteSet(1 .. n)
      BY <1>1, <1>2
    <2> QED
      BY <2>1, FS_Product, ZenonT(30)
  <1>4. Cardinality({a} \X (1 .. n)) = 1 * n
    BY <1>1, <1>2, <1>3
  <1> QED
    BY <1>3, <1>4

-----------------------------------------------------------------------------
(* Placement                                                               *)

\* An id no allocation was created under has no vehicle.
UnusedServeNone == \A a \in Allocation : alloc[a].state = "NONE" => serving[a] = Null

\* What an open assignAllocation found out about its vehicle is still true of
\* the allocations of its own indent.
VehicleStillFree ==
    \A a \in Allocation : assign[a] # Null =>
        \A o \in Active \ {a} : alloc[o].indent = alloc[a].indent => serving[o] # assign[a]

Assignments ==
    /\ AssignmentHoldsRows
    /\ VehiclesDifferWithinIndent
    /\ UnusedServeNone
    /\ VehicleStillFree

\* The vehicles an allocation has had.
History(a) == former[a] \cup ({serving[a]} \ {Null})

\* A trip, inserted or about to be, carries a vehicle its allocation has had.
FromHistory(f) ==
    \A t \in Trip : f[t] # NoTrip =>
        f[t].allocation \in Allocation /\ f[t].vehicle \in History(f[t].allocation)

IInv == TypeOK /\ Assignments /\ FromHistory(trip) /\ FromHistory(create)

-----------------------------------------------------------------------------
\* The states the tables of transitions name.
LEMMA Tables ==
    /\ IndentState = {"DRAFT", "OPEN", "PARTIALLY_ALLOCATED", "FULFILLED", "CANCELLED", "CLOSED"}
    /\ AllocationState = {"OFFERED", "ACCEPTED", "VEHICLE_ASSIGNED", "NTP_RELEASED", "PLACED",
                          "REJECTED", "EXPIRED", "CANCELLED"}
    /\ \A s \in IndentState : IndentMoves[s] \subseteq IndentState
    /\ \A s \in AllocationState : AllocationMoves[s] \subseteq AllocationState
    /\ \A s \in Released \cup {"PLACED"} : AllocationMoves[s] = {}
  BY DEF IndentState, AllocationState, IndentMoves, AllocationMoves, Released

\* The vehicles active allocations hold can be counted.
LEMMA UnitsAreFinite ==
    ASSUME NEW i
    PROVE  IsFiniteSet(Units(i)) /\ Allotted(i) \in Nat
<1>1. IsFiniteSet(Active)
  BY PlacementAssumption, FS_Subset DEF Active
<1>2. IsFiniteSet(1..MaxVehicles)
  BY PlacementAssumption, FS_Interval
<1>3. IsFiniteSet(Active \X (1..MaxVehicles))
  BY <1>1, <1>2, FS_Product
<1>4. Units(i) \subseteq Active \X (1..MaxVehicles)
  BY DEF Units
<1>5. IsFiniteSet(Units(i))
  BY <1>3, <1>4, FS_Subset
<1>6. QED
  BY <1>5, FS_CardinalityType DEF Allotted

-----------------------------------------------------------------------------
(* Type correctness                                                        *)

\* Rows of the tables.
IndentRow == [state: IndentState \cup {"NONE"}, requested: 0..MaxVehicles, cancelled: Nat]
OfferRow == [state: AllocationState \cup {"NONE"}, indent: Indent \cup {Null},
             vehicles: 0..MaxVehicles, lapsed: BOOLEAN]
TripRow == [allocation: Allocation \cup {Null}, vehicle: Vehicle \cup {Null}]

\* A row with a changed field is a row.
LEMMA OfferRows ==
    ASSUME NEW old \in OfferRow, NEW state \in AllocationState \cup {"NONE"},
           NEW lapsed \in BOOLEAN
    PROVE  /\ [old EXCEPT !.state = state] \in OfferRow
           /\ [old EXCEPT !.lapsed = lapsed] \in OfferRow
<1>1. /\ old = [state |-> old.state, indent |-> old.indent, vehicles |-> old.vehicles,
               lapsed |-> old.lapsed]
      /\ old.indent \in Indent \cup {Null} /\ old.vehicles \in 0..MaxVehicles
      /\ old.lapsed \in BOOLEAN /\ old.state \in AllocationState \cup {"NONE"}
  BY DEF OfferRow
<1>2. [old EXCEPT !.state = state] = [state |-> state, indent |-> old.indent,
                                      vehicles |-> old.vehicles, lapsed |-> old.lapsed]
  BY <1>1
<1>3. [old EXCEPT !.lapsed = lapsed] = [state |-> old.state, indent |-> old.indent,
                                        vehicles |-> old.vehicles, lapsed |-> lapsed]
  BY <1>1
<1>4. QED
  BY <1>1, <1>2, <1>3 DEF OfferRow

\* So is one of an indent.
LEMMA IndentRows ==
    ASSUME NEW old \in IndentRow, NEW cancelled \in Nat, NEW state \in IndentState \cup {"NONE"}
    PROVE  [old EXCEPT !.cancelled = cancelled, !.state = state] \in IndentRow
<1> DEFINE mid == [old EXCEPT !.cancelled = cancelled]
<1>1. old = [state |-> old.state, requested |-> old.requested, cancelled |-> old.cancelled]
      /\ old.requested \in 0..MaxVehicles
  BY DEF IndentRow
<1>2. mid = [state |-> old.state, requested |-> old.requested, cancelled |-> cancelled]
  BY <1>1
<1>3. [old EXCEPT !.cancelled = cancelled, !.state = state] = [mid EXCEPT !.state = state]
  OBVIOUS
<1> HIDE DEF mid
<1>4. [mid EXCEPT !.state = state] = [state |-> state, requested |-> old.requested, cancelled |-> cancelled]
  BY <1>2
<1>5. QED
  BY <1>1, <1>3, <1>4 DEF IndentRow

\* Writing a row of an indent keeps the types.
LEMMA WriteKeepsType ==
    ASSUME TypeOK, NEW i \in Indent, NEW new \in IndentRow, WriteIndent(i, new)
    PROVE  TypeOK'
  BY DEF TypeOK, WriteIndent, IndentRow

\* Moving an allocation to a state of the table keeps the types.
LEMMA MoveKeepsType ==
    ASSUME TypeOK, NEW a \in Allocation, NEW to \in AllocationState, MoveAllocation(a, to)
    PROVE  TypeOK'
<1>1. [alloc[a] EXCEPT !.state = to] \in OfferRow
  <2>1. alloc[a] \in OfferRow
    BY DEF TypeOK, OfferRow
  <2>2. QED
    BY <2>1, OfferRows
<1>2. alloc' = [alloc EXCEPT ![a] = [alloc[a] EXCEPT !.state = to]]
  BY DEF MoveAllocation, TypeOK
<1>3. QED
  BY <1>1, <1>2 DEF TypeOK, MoveAllocation, OfferRow

\* The type of every variable is kept by every step.
LEMMA TypeStep == TypeOK /\ [Next]_vars => TypeOK'
<1> SUFFICES ASSUME TypeOK, [Next]_vars PROVE TypeOK'
  OBVIOUS
<1> USE DEF TypeOK
<1>1. /\ indent \in [Indent -> IndentRow] /\ alloc \in [Allocation -> OfferRow]
      /\ \A n \in 1..MaxVehicles : n \in 0..MaxVehicles /\ n \in Nat
  BY PlacementAssumption DEF IndentRow, OfferRow
<1>2. ASSUME NEW i \in Indent, NEW n \in 1..MaxVehicles, CreateIndent(i, n) PROVE TypeOK'
  <2>1. [NewIndent EXCEPT !.state = "DRAFT", !.requested = n] \in IndentRow
    BY <1>1, Tables DEF NewIndent, IndentRow
  <2>2. QED
    BY <1>2, <2>1, WriteKeepsType DEF CreateIndent
<1>3. ASSUME NEW i \in Indent, NEW n \in 1..MaxVehicles, CancelIndent(i, n) PROVE TypeOK'
  <2> DEFINE remaining == indent[i].requested - Allotted(i) - indent[i].cancelled
             cancelled == indent[i].cancelled + n
             state == IF n = remaining THEN "CANCELLED" ELSE indent[i].state
             new == [indent[i] EXCEPT !.cancelled = cancelled, !.state = state]
  <2>1. WriteIndent(i, new)
    BY <1>3, Zenon DEF CancelIndent
  <2>2. cancelled \in Nat /\ state \in IndentState \cup {"NONE"}
    BY <1>1, Tables DEF IndentRow
  <2> HIDE DEF cancelled, state
  <2>3. new \in IndentRow
    <3>1. indent[i] \in IndentRow
      BY <1>1
    <3>2. QED
      BY <2>2, <3>1, IndentRows
  <2> HIDE DEF new
  <2>4. QED
    BY <2>1, <2>3, WriteKeepsType
<1>4. ASSUME NEW i \in Indent, NEW to \in IndentState, TransitionIndent(i, to) PROVE TypeOK'
  <2>1. [indent[i] EXCEPT !.state = to] \in IndentRow
    BY <1>1 DEF IndentRow
  <2>2. QED
    BY <1>4, <2>1, WriteKeepsType DEF TransitionIndent
<1>5. ASSUME NEW i \in Indent, NEW a \in Allocation, NEW n \in 1..MaxVehicles,
             CreateAllocation(i, a, n)
      PROVE TypeOK'
  <2>1. [state |-> "OFFERED", indent |-> i, vehicles |-> n, lapsed |-> FALSE] \in OfferRow
    BY <1>1, Tables DEF OfferRow
  <2>2. QED
    BY <1>5, <2>1 DEF CreateAllocation, OfferRow
<1>6. ASSUME NEW a \in Allocation, NEW to \in AllocationState,
             TransitionAllocation(a, to) \/ RespondOffer(a, to)
      PROVE TypeOK'
  BY <1>6, MoveKeepsType DEF TransitionAllocation, RespondOffer
<1>7. ASSUME NEW a \in Allocation, Lapse(a) PROVE TypeOK'
  <2>1. [alloc[a] EXCEPT !.lapsed = TRUE] \in OfferRow
    BY <1>1, OfferRows
  <2>2. alloc' = [alloc EXCEPT ![a] = [alloc[a] EXCEPT !.lapsed = TRUE]]
    BY <1>7 DEF Lapse
  <2>3. QED
    BY <1>7, <2>1, <2>2 DEF Lapse, OfferRow
<1>8. CASE ExpireOffers
  <2>1. \A a \in Allocation : [alloc[a] EXCEPT !.state = "EXPIRED"] \in OfferRow
    BY <1>1, Tables, OfferRows
  <2>2. alloc' \in [Allocation -> OfferRow]
    BY <1>1, <1>8, <2>1 DEF ExpireOffers
  <2>3. QED
    BY <1>8, <2>2 DEF ExpireOffers, OfferRow
<1>9. ASSUME NEW i \in Indent, BeginEditIndent(i) \/ RollbackEdit(i) PROVE TypeOK'
  BY <1>9, UnitsAreFinite DEF BeginEditIndent, RollbackEdit
<1>10. ASSUME NEW i \in Indent, NEW n \in 1..MaxVehicles, FinishEditIndent(i, n) PROVE TypeOK'
  <2>1. [indent[i] EXCEPT !.requested = n] \in IndentRow
    BY <1>1 DEF IndentRow
  <2>2. QED
    BY <1>10, <2>1, WriteKeepsType DEF FinishEditIndent
<1>11. ASSUME NEW a \in Allocation, NEW v \in Vehicle, BeginAssign(a, v) PROVE TypeOK'
  BY <1>11 DEF BeginAssign
<1>12. ASSUME NEW a \in Allocation, FinishAssign(a) PROVE TypeOK'
  <2>1. [alloc[a] EXCEPT !.state = IF @ = "ACCEPTED" THEN "VEHICLE_ASSIGNED" ELSE @] \in OfferRow
    <3>1. (IF alloc[a].state = "ACCEPTED" THEN "VEHICLE_ASSIGNED" ELSE alloc[a].state)
            \in AllocationState \cup {"NONE"}
      BY <1>1, Tables DEF OfferRow
    <3>2. QED
      BY <1>1, <3>1, OfferRows
  <2>2. alloc' \in [Allocation -> OfferRow]
    BY <1>1, <1>12, <2>1 DEF FinishAssign
  <2>3. QED
    BY <1>12, <2>2 DEF FinishAssign, OfferRow
<1>13. ASSUME NEW a \in Allocation, RollbackAssign(a) PROVE TypeOK'
  BY <1>13 DEF RollbackAssign
<1>14. ASSUME NEW t \in Trip, NEW a \in Allocation, BeginTrip(t, a) PROVE TypeOK'
  BY <1>14 DEF BeginTrip
<1>15. ASSUME NEW t \in Trip, FinishTrip(t) PROVE TypeOK'
  BY <1>15 DEF FinishTrip, NoTrip
<1>16. ASSUME NEW t \in Trip, RollbackTrip(t) PROVE TypeOK'
  BY <1>16 DEF RollbackTrip, NoTrip
<1>17. CASE UNCHANGED vars
  BY <1>17 DEF vars
<1>18. QED
  BY <1>2, <1>3, <1>4, <1>5, <1>6, <1>7, <1>8, <1>9, <1>10, <1>11, <1>12, <1>13, <1>14,
     <1>15, <1>16, <1>17 DEF Next, DemandNext, EditNext, AssignNext

-----------------------------------------------------------------------------
(* What a step does to the allocations                                     *)

\* Allocations no request holds move on within the table; none comes back.
Eased ==
    /\ \A a \in Allocation :
          /\ alloc'[a].indent = alloc[a].indent
          /\ alloc'[a].vehicles = alloc[a].vehicles
          /\ \/ alloc'[a].state = alloc[a].state
             \/ /\ assign[a] = Null
                /\ alloc[a].state \in AllocationState \ (Released \cup {"PLACED"})
                /\ alloc'[a].state \in AllocationState
    /\ UNCHANGED <<serving, former, assign>>

\* Every step is of one of five kinds.
LEMMA StepKinds ==
    ASSUME TypeOK, Assignments, [Next]_vars
    PROVE  \/ Eased
           \/ \E i \in Indent, a \in Allocation, n \in 1..MaxVehicles : CreateAllocation(i, a, n)
           \/ \E a \in Allocation, v \in Vehicle : BeginAssign(a, v)
           \/ \E a \in Allocation : FinishAssign(a)
           \/ \E a \in Allocation : RollbackAssign(a)
<1> USE DEF TypeOK
<1>1. ASSUME UNCHANGED <<alloc, serving, former, assign>> PROVE Eased
  BY <1>1 DEF Eased
<1>2. ASSUME NEW i \in Indent, NEW new, WriteIndent(i, new) PROVE Eased
  BY <1>1, <1>2 DEF WriteIndent
<1>3. ASSUME NEW a \in Allocation, NEW to \in AllocationState, MoveAllocation(a, to),
             alloc[a].state \in AllocationState \ (Released \cup {"PLACED"})
      PROVE Eased
  BY <1>3 DEF MoveAllocation, AllocationFree, Eased
<1>4. ASSUME NEW a \in Allocation, NEW to \in AllocationState,
             TransitionAllocation(a, to) \/ RespondOffer(a, to)
      PROVE Eased
  <2>1. alloc[a].state \in AllocationState \ (Released \cup {"PLACED"})
    BY <1>4, Tables DEF TransitionAllocation, RespondOffer, Released
  <2>2. QED
    BY <1>3, <1>4, <2>1 DEF TransitionAllocation, RespondOffer
<1>5. ASSUME NEW a \in Allocation, Lapse(a) PROVE Eased
  BY <1>5 DEF Lapse, Eased
<1>6. CASE ExpireOffers
  <2>1. \A a \in Allocation : alloc[a].state = "OFFERED" => assign[a] = Null
    BY DEF Assignments, AssignmentHoldsRows
  <2>2. "OFFERED" \in AllocationState \ (Released \cup {"PLACED"}) /\ "EXPIRED" \in AllocationState
    BY Tables DEF Released
  <2>3. QED
    BY <1>6, <2>1, <2>2 DEF ExpireOffers, Eased
<1>7. CASE UNCHANGED vars
  BY <1>1, <1>7 DEF vars
<1>8. ASSUME EditNext PROVE Eased
  BY <1>1, <1>2, <1>8 DEF EditNext, BeginEditIndent, FinishEditIndent, RollbackEdit
<1>9. ASSUME NEW i \in Indent, NEW n, CreateIndent(i, n) \/ CancelIndent(i, n) PROVE Eased
  BY <1>2, <1>9 DEF CreateIndent, CancelIndent
<1>10. ASSUME NEW i \in Indent, NEW to, TransitionIndent(i, to) PROVE Eased
  BY <1>2, <1>10 DEF TransitionIndent
<1>11. ASSUME NEW t \in Trip, FinishTrip(t) \/ RollbackTrip(t) PROVE Eased
  BY <1>1, <1>11 DEF FinishTrip, RollbackTrip
<1>12. ASSUME NEW t \in Trip, NEW a \in Allocation, BeginTrip(t, a) PROVE Eased
  BY <1>1, <1>12 DEF BeginTrip
<1>13. QED
  BY <1>4, <1>5, <1>6, <1>7, <1>8, <1>9, <1>10, <1>11, <1>12
     DEF Next, DemandNext, AssignNext

\* The active allocations after a step that eases allocations.
LEMMA EasedActive ==
    ASSUME TypeOK, Eased
    PROVE  Active' \subseteq Active
<1>1. \A a \in Allocation : alloc'[a].state \in AllocationState \ Released =>
                              alloc[a].state \in AllocationState \ Released
  BY DEF Eased
<1>2. QED
  BY <1>1 DEF Active

\* Moves of allocations that are not held keep what assignments rely on.
LEMMA EasedKeepsAssignments ==
    ASSUME TypeOK, Assignments, Eased
    PROVE  Assignments'
<1> USE DEF Assignments
<1>1. Active' \subseteq Active
  BY EasedActive
<1>2. /\ \A a \in Allocation : alloc'[a].indent = alloc[a].indent
      /\ assign' = assign /\ serving' = serving
      /\ \A a \in Allocation : assign[a] # Null => alloc'[a].state = alloc[a].state
      /\ \A a \in Allocation : alloc'[a].state = "NONE" => alloc[a].state = "NONE"
  BY Tables DEF Eased
<1>3. Active \subseteq Allocation
  BY DEF Active
<1>4. AssignmentHoldsRows'
  BY <1>2 DEF AssignmentHoldsRows
<1>5. VehiclesDifferWithinIndent'
  BY <1>1, <1>2, <1>3 DEF VehiclesDifferWithinIndent
<1>6. UnusedServeNone'
  BY <1>2 DEF UnusedServeNone
<1>7. VehicleStillFree'
  BY <1>1, <1>2, <1>3 DEF VehicleStillFree
<1>8. QED
  BY <1>4, <1>5, <1>6, <1>7

\* A new offer has no vehicle, and its indent is not held.
LEMMA CreationKeepsAssignments ==
    ASSUME TypeOK, Assignments, NEW i \in Indent, NEW a \in Allocation,
           NEW n \in 1..MaxVehicles, CreateAllocation(i, a, n)
    PROVE  Assignments'
<1> USE DEF Assignments
<1>1. /\ assign' = assign /\ serving' = serving
      /\ \A o \in Allocation \ {a} : alloc'[o] = alloc[o]
      /\ alloc'[a].indent = i /\ alloc'[a].state = "OFFERED"
      /\ alloc[a].state = "NONE"
      /\ \A o \in Allocation : alloc[o].indent = i => assign[o] = Null
  BY DEF CreateAllocation, TypeOK, IndentFree
<1>2. serving[a] = Null /\ assign[a] = Null
  BY <1>1 DEF UnusedServeNone, AssignmentHoldsRows
<1>3. /\ \A o \in Active' : o \in Active \/ o = a
      /\ Active \subseteq Allocation /\ Active' \subseteq Allocation
  BY <1>1 DEF Active
<1>4. AssignmentHoldsRows'
  BY <1>1, <1>2 DEF AssignmentHoldsRows
<1>5. VehiclesDifferWithinIndent'
  BY <1>1, <1>2, <1>3 DEF VehiclesDifferWithinIndent
<1>6. UnusedServeNone'
  BY <1>1, <1>2 DEF UnusedServeNone
<1>7. VehicleStillFree'
  BY <1>1, <1>2, <1>3 DEF VehicleStillFree
<1>8. QED
  BY <1>4, <1>5, <1>6, <1>7

\* A new assignAllocation finds the indent free and the vehicle idle.
LEMMA BeginKeepsAssignments ==
    ASSUME TypeOK, Assignments, NEW a \in Allocation, NEW v \in Vehicle, BeginAssign(a, v)
    PROVE  Assignments'
<1> USE DEF Assignments
<1>1. /\ alloc' = alloc /\ serving' = serving
      /\ \A o \in Allocation \ {a} : assign'[o] = assign[o]
      /\ assign'[a] = v
      /\ alloc[a].state \in {"ACCEPTED", "VEHICLE_ASSIGNED", "NTP_RELEASED"}
      /\ \A o \in Allocation : alloc[o].indent = alloc[a].indent => assign[o] = Null
      /\ \A o \in Active \ {a} : serving[o] # v
  BY DEF BeginAssign, TypeOK, IndentFree, Engaged
<1>2. Active' = Active /\ Active \subseteq Allocation
  BY <1>1 DEF Active
<1>3. AssignmentHoldsRows'
  BY <1>1 DEF AssignmentHoldsRows
<1>4. VehiclesDifferWithinIndent'
  BY <1>1, <1>2 DEF VehiclesDifferWithinIndent
<1>5. UnusedServeNone'
  BY <1>1 DEF UnusedServeNone
<1>6. VehicleStillFree'
  BY <1>1, <1>2 DEF VehicleStillFree
<1>7. QED
  BY <1>3, <1>4, <1>5, <1>6

\* The vehicle that is assigned is one no allocation of the indent has.
LEMMA FinishKeepsAssignments ==
    ASSUME TypeOK, Assignments, NEW a \in Allocation, FinishAssign(a)
    PROVE  Assignments'
<1> USE DEF Assignments
<1>1. /\ assign[a] # Null
      /\ \A o \in Allocation \ {a} :
            alloc'[o] = alloc[o] /\ serving'[o] = serving[o] /\ assign'[o] = assign[o]
      /\ serving'[a] = assign[a] /\ assign'[a] = Null
      /\ alloc'[a].indent = alloc[a].indent
      /\ alloc'[a].state \in {alloc[a].state, "VEHICLE_ASSIGNED"}
  BY DEF FinishAssign, TypeOK
<1>2. alloc[a].state \in {"ACCEPTED", "VEHICLE_ASSIGNED", "NTP_RELEASED"}
  BY <1>1 DEF AssignmentHoldsRows
<1>3. /\ a \in Active /\ Active' = Active /\ Active \subseteq Allocation
      /\ alloc'[a].state # "NONE"
  <2>1. {"ACCEPTED", "VEHICLE_ASSIGNED", "NTP_RELEASED"} \subseteq AllocationState \ Released
    BY Tables DEF Released
  <2>2. QED
    BY <1>1, <1>2, <2>1 DEF Active
<1>4. \A o \in Allocation \ {a} : alloc[o].indent = alloc[a].indent => assign[o] = Null
  BY <1>1 DEF AssignmentHoldsRows
<1>5. \A o \in Active \ {a} : alloc[o].indent = alloc[a].indent => serving[o] # assign[a]
  BY <1>1 DEF VehicleStillFree
<1>6. AssignmentHoldsRows'
  BY <1>1 DEF AssignmentHoldsRows
<1>7. VehiclesDifferWithinIndent'
  BY <1>1, <1>3, <1>5 DEF VehiclesDifferWithinIndent
<1>8. UnusedServeNone'
  BY <1>1, <1>3 DEF UnusedServeNone
<1>9. VehicleStillFree'
  BY <1>1, <1>3, <1>4 DEF VehicleStillFree
<1>10. QED
  BY <1>6, <1>7, <1>8, <1>9

\* Giving up an assignment keeps what the others rely on.
LEMMA RollbackKeepsAssignments ==
    ASSUME TypeOK, Assignments, NEW a \in Allocation, RollbackAssign(a)
    PROVE  Assignments'
<1>1. /\ alloc' = alloc /\ serving' = serving /\ assign'[a] = Null
      /\ \A o \in Allocation \ {a} : assign'[o] = assign[o]
  BY DEF RollbackAssign, TypeOK
<1>2. Active' = Active /\ Active \subseteq Allocation
  BY <1>1 DEF Active
<1>3. QED
  BY <1>1, <1>2 DEF Assignments, AssignmentHoldsRows, VehiclesDifferWithinIndent,
                    UnusedServeNone, VehicleStillFree

-----------------------------------------------------------------------------
(* Trips and the history of assignments                                    *)

\* No step takes a vehicle out of the history of an allocation.
LEMMA HistoryGrows ==
    ASSUME TypeOK, Assignments, [Next]_vars, NEW a \in Allocation
    PROVE  History(a) \subseteq History(a)'
<1>1. CASE UNCHANGED <<serving, former>>
  BY <1>1 DEF History
<1>2. ASSUME NEW o \in Allocation, FinishAssign(o) PROVE History(a) \subseteq History(a)'
  <2>1. CASE a = o
    BY <1>2, <2>1 DEF FinishAssign, History, TypeOK
  <2>2. CASE a # o
    BY <1>2, <2>2 DEF FinishAssign, History, TypeOK
  <2>3. QED
    BY <2>1, <2>2
<1>3. QED
  BY <1>1, <1>2, StepKinds DEF Eased, CreateAllocation, BeginAssign, RollbackAssign

\* Only three steps write trips or the requests that create them.
LEMMA TripsStep ==
    ASSUME TypeOK, Assignments, FromHistory(trip), FromHistory(create), [Next]_vars
    PROVE  FromHistory(trip)' /\ FromHistory(create)'
<1> DEFINE Goal == FromHistory(trip)' /\ FromHistory(create)'
<1>1. \A a \in Allocation : History(a) \subseteq History(a)'
  BY HistoryGrows
<1>2. ASSUME UNCHANGED <<trip, create>> PROVE Goal
  BY <1>1, <1>2 DEF FromHistory
<1>3. ASSUME NEW t \in Trip, NEW a \in Allocation, BeginTrip(t, a) PROVE Goal
  <2>1. /\ trip' = trip /\ \A r \in Trip \ {t} : create'[r] = create[r]
        /\ create'[t].allocation = a /\ create'[t].vehicle = serving[a]
        /\ serving[a] # Null /\ former' = former /\ serving' = serving
    BY <1>3 DEF BeginTrip, TypeOK
  <2>2. serving[a] \in History(a)'
    BY <2>1 DEF History
  <2>3. FromHistory(trip)'
    BY <1>1, <2>1 DEF FromHistory
  <2>4. FromHistory(create)'
    BY <1>1, <2>1, <2>2 DEF FromHistory
  <2>5. QED
    BY <2>3, <2>4
<1>4. ASSUME NEW t \in Trip, FinishTrip(t) PROVE Goal
  <2>1. /\ create[t] # NoTrip /\ trip'[t] = create[t] /\ create'[t] = NoTrip
        /\ \A r \in Trip \ {t} : create'[r] = create[r] /\ trip'[r] = trip[r]
    BY <1>4 DEF FinishTrip, TypeOK
  <2>2. QED
    BY <1>1, <2>1 DEF FromHistory
<1>5. ASSUME NEW t \in Trip, RollbackTrip(t) PROVE Goal
  <2>1. /\ trip' = trip /\ create'[t] = NoTrip
        /\ \A r \in Trip \ {t} : create'[r] = create[r]
    BY <1>5 DEF RollbackTrip, TypeOK
  <2>2. QED
    BY <1>1, <2>1 DEF FromHistory
<1>6. CASE DemandNext
  BY <1>2, <1>6
     DEF DemandNext, CreateIndent, CancelIndent, TransitionIndent, WriteIndent, CreateAllocation,
         TransitionAllocation, RespondOffer, MoveAllocation, Lapse, ExpireOffers
<1>7. CASE EditNext
  BY <1>2, <1>7 DEF EditNext, BeginEditIndent, FinishEditIndent, RollbackEdit, WriteIndent
<1>8. CASE AssignNext
  BY <1>2, <1>3, <1>4, <1>5, <1>8 DEF AssignNext, BeginAssign, FinishAssign, RollbackAssign
<1>9. CASE UNCHANGED vars
  BY <1>2, <1>9 DEF vars
<1>10. QED
  BY <1>6, <1>7, <1>8, <1>9 DEF Next

-----------------------------------------------------------------------------
(* Vehicles on offer                                                       *)

\* Moves of allocations never take up more of the demand.
LEMMA EasedAllotted ==
    ASSUME TypeOK, Eased, NEW i \in Indent
    PROVE  Allotted(i)' \in Nat /\ Allotted(i)' <= Allotted(i)
<1>1. Active' \subseteq Active /\ Active \subseteq Allocation
  BY EasedActive DEF Active
<1>2. \A a \in Allocation : /\ alloc'[a].indent = alloc[a].indent
                            /\ alloc'[a].vehicles = alloc[a].vehicles
  BY DEF Eased
<1>3. Units(i)' \subseteq Units(i)
  BY <1>1, <1>2 DEF Units
<1>4. QED
  BY <1>3, UnitsAreFinite, FS_Subset, FS_CardinalityType DEF Allotted

\* A new offer of n vehicles takes up n.
LEMMA CreationAllotted ==
    ASSUME TypeOK, NEW i \in Indent, NEW a \in Allocation, NEW n \in 1..MaxVehicles,
           CreateAllocation(i, a, n), NEW j \in Indent
    PROVE  Allotted(j)' = Allotted(j) + IF j = i THEN n ELSE 0
<1>1. /\ \A o \in Allocation \ {a} : alloc'[o] = alloc[o]
      /\ alloc'[a].indent = i /\ alloc'[a].vehicles = n /\ alloc'[a].state = "OFFERED"
      /\ alloc[a].state = "NONE"
  BY DEF CreateAllocation, TypeOK
<1>2. Active' = Active \cup {a} /\ a \notin Active /\ Active \subseteq Allocation
  BY <1>1, Tables DEF Active, Released
<1>3. \A k \in 1..MaxVehicles : k <= n <=> k \in 1..n
  BY PlacementAssumption
<1>4. CASE j # i
  <2>1. \A u : u \in Units(j)' <=> u \in Units(j)
    BY <1>1, <1>2, <1>4 DEF Units
  <2>2. Units(j)' = Units(j)
    BY <2>1
  <2>3. QED
    BY <1>4, <2>2, UnitsAreFinite DEF Allotted
<1>5. CASE j = i
  <2> DEFINE offer == {a} \X (1..n)
  <2>1. \A u : u \in Units(i)' <=> u \in Units(i) \/ u \in offer
    <3>2. \A o, k : <<o, k>> \in Units(i)' <=>
                      /\ o \in Active \cup {a} /\ k \in 1..MaxVehicles
                      /\ alloc'[o].indent = i /\ k <= alloc'[o].vehicles
      BY <1>2 DEF Units
    <3>3. \A o, k : <<o, k>> \in Units(i) <=>
                      /\ o \in Active /\ k \in 1..MaxVehicles
                      /\ alloc[o].indent = i /\ k <= alloc[o].vehicles
      BY DEF Units
    <3>4. \A o, k : <<o, k>> \in offer <=> o = a /\ k \in 1..MaxVehicles /\ k <= n
      BY <1>3, PlacementAssumption
    <3> HIDE DEF offer
    <3>7. \A o, k : <<o, k>> \in Units(i)' <=> <<o, k>> \in Units(i) \/ <<o, k>> \in offer
      <4>1. ASSUME NEW k PROVE <<a, k>> \in Units(i)' <=> <<a, k>> \in Units(i) \/ <<a, k>> \in offer
        BY <1>1, <1>2, <3>2, <3>3, <3>4
      <4>2. ASSUME NEW o, NEW k, o # a
            PROVE  <<o, k>> \in Units(i)' <=> <<o, k>> \in Units(i) \/ <<o, k>> \in offer
        <5>1. o \in Active => alloc'[o] = alloc[o]
          BY <1>1, <1>2, <4>2
        <5>2. QED
          BY <1>2, <3>2, <3>3, <3>4, <4>2, <5>1
      <4>3. QED
        BY <4>1, <4>2, Zenon
    <3>5. \A u : u \in Units(i)' \/ u \in Units(i) \/ u \in offer => u = <<u[1], u[2]>>
      BY DEF Units, offer
    <3>6. QED
      BY <3>5, <3>7
  <2>2. Units(i)' = Units(i) \cup offer
    BY <2>1
  <2>3. Units(i) \cap offer = {}
    BY <1>2 DEF Units
  <2>4. n \in Nat
    BY PlacementAssumption
  <2>5. IsFiniteSet(offer) /\ Cardinality(offer) = n
    BY <2>4, StripCounts
  <2>7. Cardinality(Units(i) \cup offer) = Allotted(i) + n - Cardinality({})
    BY <2>3, <2>5, UnitsAreFinite, FS_Union DEF Allotted
  <2>8. QED
    BY <1>5, <2>2, <2>4, <2>7, UnitsAreFinite, FS_EmptySet DEF Allotted
<1>6. QED
  BY <1>4, <1>5

\* A step that leaves an indent with more on offer than it asks for is one
\* that lowers what it asks for.
LEMMA OverallotStep ==
    ASSUME TypeOK, TypeOK', Assignments, [Next]_vars, NEW j \in Indent,
           Allotted(j) <= indent[j].requested
    PROVE  \/ Allotted(j)' <= indent'[j].requested
           \/ indent'[j].requested < indent[j].requested
<1>1. /\ indent[j].requested \in Nat /\ indent'[j].requested \in Nat
      /\ Allotted(j) \in Nat
  BY UnitsAreFinite DEF TypeOK
<1> DEFINE Fewer == Allotted(j)' \in Nat /\ Allotted(j)' <= Allotted(j)
<1>2. \A m \in Nat : m <= Allotted(j) => m <= indent'[j].requested
                                         \/ indent'[j].requested < indent[j].requested
  BY <1>1
<1>3. CASE Fewer
  BY <1>2, <1>3
<1>4. ASSUME NEW i \in Indent, NEW a \in Allocation, NEW n \in 1..MaxVehicles,
             CreateAllocation(i, a, n)
      PROVE  Allotted(j)' <= indent'[j].requested
  <2>1. indent' = indent /\ n <= indent[i].requested - Allotted(i) /\ n \in Nat
    BY <1>4, PlacementAssumption DEF CreateAllocation
  <2>2. Allotted(j)' = Allotted(j) + IF j = i THEN n ELSE 0
    BY <1>4, CreationAllotted
  <2>3. QED
    BY <1>1, <2>1, <2>2
<1>5. CASE Eased
  BY <1>3, <1>5, EasedAllotted
<1>6. ASSUME alloc' = alloc \/ \E a \in Allocation : FinishAssign(a)
      PROVE  Fewer
  <2>1. CASE alloc' = alloc
    <3>1. Allotted(j)' = Allotted(j)
      BY <2>1 DEF Allotted, Units, Active
    <3>2. QED
      BY <1>1, <3>1
  <2>2. ASSUME NEW a \in Allocation, FinishAssign(a) PROVE Fewer
    <3>1. /\ \A o \in Allocation \ {a} : alloc'[o] = alloc[o]
          /\ alloc'[a].indent = alloc[a].indent /\ alloc'[a].vehicles = alloc[a].vehicles
          /\ assign[a] # Null
      BY <2>2 DEF FinishAssign, TypeOK
    <3>2. a \in Active
      BY <3>1, Tables DEF Assignments, AssignmentHoldsRows, Active, Released
    <3>3. Active' \subseteq Active /\ Active \subseteq Allocation
      BY <3>1, <3>2 DEF Active
    <3>4. Units(j)' \subseteq Units(j)
      BY <3>1, <3>3 DEF Units
    <3>5. QED
      BY <3>4, UnitsAreFinite, FS_Subset, FS_CardinalityType DEF Allotted
  <2>3. QED
    BY <1>6, <2>1, <2>2
<1>7. QED
  BY <1>3, <1>4, <1>5, <1>6, StepKinds DEF BeginAssign, RollbackAssign

\* A placed allocation keeps its state and its vehicle in every step.
LEMMA PlacedStep ==
    ASSUME TypeOK, Assignments, [Next]_vars, NEW a \in Allocation, alloc[a].state = "PLACED"
    PROVE  alloc'[a].state = "PLACED" /\ serving'[a] = serving[a]
<1>1. assign[a] = Null
  BY DEF Assignments, AssignmentHoldsRows
<1>2. CASE Eased
  BY <1>2 DEF Eased
<1>3. ASSUME NEW i \in Indent, NEW o \in Allocation, NEW n, CreateAllocation(i, o, n)
      PROVE alloc'[a].state = "PLACED" /\ serving'[a] = serving[a]
  BY <1>3 DEF CreateAllocation, TypeOK
<1>4. ASSUME NEW o \in Allocation, FinishAssign(o)
      PROVE alloc'[a].state = "PLACED" /\ serving'[a] = serving[a]
  BY <1>1, <1>4 DEF FinishAssign, TypeOK
<1>5. QED
  BY <1>2, <1>3, <1>4, StepKinds DEF BeginAssign, RollbackAssign

-----------------------------------------------------------------------------
(* The theorems                                                            *)

\* The empty tables satisfy the inductive invariant.
LEMMA InitIInv == Init => IInv
<1> SUFFICES ASSUME Init PROVE IInv
  OBVIOUS
<1>1. 0 \in 0..MaxVehicles /\ NoEdit \in Nat \cup {NoEdit}
  BY PlacementAssumption
<1>2. TypeOK
  BY <1>1 DEF Init, TypeOK, NewIndent, NewOffer, NoTrip
<1>3. Active = {}
  BY Tables DEF Init, NewOffer, Active
<1>4. Assignments
  BY <1>3 DEF Init, Assignments, AssignmentHoldsRows, VehiclesDifferWithinIndent,
              UnusedServeNone, VehicleStillFree
<1>5. FromHistory(trip) /\ FromHistory(create)
  BY DEF Init, FromHistory
<1>6. QED
  BY <1>2, <1>4, <1>5 DEF IInv

\* Every step keeps the inductive invariant.
LEMMA NextIInv == IInv /\ [Next]_vars => IInv'
<1> SUFFICES ASSUME IInv, [Next]_vars PROVE IInv'
  OBVIOUS
<1> USE DEF IInv
<1>1. TypeOK'
  BY TypeStep
<1>2. Assignments'
  BY StepKinds, EasedKeepsAssignments, CreationKeepsAssignments, BeginKeepsAssignments,
     FinishKeepsAssignments, RollbackKeepsAssignments
<1>3. FromHistory(trip)' /\ FromHistory(create)'
  BY TripsStep
<1>4. QED
  BY <1>1, <1>2, <1>3

\* IInv is an invariant of the specification.
LEMMA Invariance == Spec => []IInv
  BY InitIInv, NextIInv, PTL DEF Spec

\* Every row of the tables and every open request keeps its type.
THEOREM TypeCorrect == Spec => []TypeOK
<1>1. IInv => TypeOK
  BY DEF IInv
<1>2. QED
  BY <1>1, Invariance, PTL

\* An assignAllocation that is under way holds its allocation and its indent.
THEOREM AssignmentsHoldTheirRows == Spec => []AssignmentHoldsRows
<1>1. IInv => AssignmentHoldsRows
  BY DEF IInv, Assignments
<1>2. QED
  BY <1>1, Invariance, PTL

\* No two active allocations of one indent get the same vehicle, although the
\* check of the vehicle reads an old snapshot.
THEOREM IndentsShareNoVehicle == Spec => []VehiclesDifferWithinIndent
<1>1. IInv => VehiclesDifferWithinIndent
  BY DEF IInv, Assignments
<1>2. QED
  BY <1>1, Invariance, PTL

\* The vehicle of a trip is one the history of its allocation shows.
THEOREM TripsFollowAssignments == Spec => []TripVehicleWasAssigned
<1>1. IInv => TripVehicleWasAssigned
  BY DEF IInv, FromHistory, History, TripVehicleWasAssigned
<1>2. QED
  BY <1>1, Invariance, PTL

\* Offers outgrow the demand only in a step that lowers the demand.
THEOREM EditsAloneOverallot == Spec => OnlyEditsOverallot
<1> DEFINE Kept == \A i \in Indent :
                      Allotted(i) <= indent[i].requested =>
                          \/ Allotted(i)' <= indent'[i].requested
                          \/ indent'[i].requested < indent[i].requested
<1>1. IInv /\ IInv' /\ [Next]_vars => [Kept]_vars
  BY OverallotStep DEF IInv
<1>2. Spec => [][Kept]_vars
  BY <1>1, Invariance, PTL DEF Spec
<1>3. QED
  BY <1>2 DEF OnlyEditsOverallot

\* A placed allocation keeps its state and its vehicle.
THEOREM PlacementsAreFinal == Spec => PlacedIsFinal
<1> DEFINE Kept == \A a \in Allocation : alloc[a].state = "PLACED" =>
                      alloc'[a].state = "PLACED" /\ serving'[a] = serving[a]
<1>1. IInv /\ [Next]_vars => [Kept]_vars
  BY PlacedStep DEF IInv
<1>2. Spec => [][Kept]_vars
  BY <1>1, Invariance, PTL DEF Spec
<1>3. QED
  BY <1>2 DEF PlacedIsFinal

-----------------------------------------------------------------------------
(* What the components beside it have in common                            *)

LEMMA SupplyBounds ==
  /\ MaxVersions \in Nat /\ MaxVersions # 0 /\ MaxEdits \in Nat /\ MaxEdits # 0
  /\ MaxAccounts \in Nat /\ MaxPapers \in Nat /\ Demand \in Nat /\ MaxAllocations \in Nat
  /\ Nobody \notin Users /\ "none" \notin RuleKeys /\ "manual" \notin RuleKeys
  BY SupplyAssumption

\* tlapm tells the operators of an instance from those they are.
LEMMA OneCardinality ==
  \A S : V!Cardinality(S) = Cardinality(S) /\ R!Cardinality(S) = Cardinality(S) /\ K!Cardinality(S) = Cardinality(S)
  BY DEF V!Cardinality, R!Cardinality, K!Cardinality, Cardinality


-----------------------------------------------------------------------------
(* Contracts                                                               *)

LaneRow == [of : 0 .. MaxVersions, rate : {"none", "DRAFT", "PUBLISHED", "SUPERSEDED"},
            window : Windows \cup {{}}]
OrderRow == [state : {"none", "resolved", "OPEN", "BILLED"}, lane : Lanes \cup {"none"},
             version : 0 .. MaxVersions, current : 0 .. MaxVersions]

ContractShapes ==
  /\ contract \in [state : DOMAIN C!Moves, current : 1 .. MaxVersions, published : 0 .. MaxVersions]
  /\ contract.published <= contract.current
  /\ lane \in [Lanes -> LaneRow] /\ creating \in [Lanes -> LaneRow]
  /\ order \in [Indents -> OrderRow]

\* A lane is checked, then there; its rate is superseded once a later version
\* is published.
LanesAge ==
  \A l \in Lanes :
    /\ lane[l] # C!NoLane => lane[l].of \in 1 .. contract.current /\ lane[l].rate # "none"
    /\ lane[l].rate = "PUBLISHED" => lane[l].of = contract.published
    /\ lane[l].rate = "SUPERSEDED" => lane[l].of < contract.published
    /\ creating[l] # C!NoLane =>
         lane[l] = C!NoLane /\ creating[l].of \in 1 .. contract.current /\ creating[l].rate = "DRAFT"

\* The lane of an indent has been published, in the version it was found in.
OrdersHaveLanes ==
  \A i \in Indents :
    IF order[i].state = "none" THEN order[i] = C!NoIndent
    ELSE /\ order[i].lane \in Lanes /\ order[i].version = order[i].current
         /\ lane[order[i].lane].of = order[i].version
         /\ lane[order[i].lane].rate \in {"PUBLISHED", "SUPERSEDED"}

\* What is being created fits what is there, and what else is being created.
LanesFit ==
  \/ raced
  \/ /\ C!WaysHaveOneRate
     /\ \A l, m \in Lanes : creating[l] # C!NoLane =>
          /\ ~C!Overlaps(m, creating[l].of, creating[l].window)
          /\ l # m => creating[m].of # creating[l].of

CurrentIsPublished == contract.state = "PUBLISHED" => contract.published = contract.current

CInv == ContractShapes /\ LanesAge /\ OrdersHaveLanes /\ LanesFit /\ CurrentIsPublished

LEMMA ContractsInit == C!Init => CInv
  <1> SUFFICES ASSUME C!Init PROVE CInv
    OBVIOUS
  <1>1. ContractShapes
    BY SupplyBounds DEF C!Init, ContractShapes, C!Moves, C!NoLane, C!NoIndent, LaneRow, OrderRow
  <1>2. LanesAge /\ OrdersHaveLanes /\ LanesFit /\ CurrentIsPublished
    BY DEF C!Init, LanesAge, OrdersHaveLanes, LanesFit, CurrentIsPublished, C!NoLane, C!NoIndent,
           C!WaysHaveOneRate, C!Overlaps
  <1> QED
    BY <1>1, <1>2 DEF CInv

LEMMA ContractStates ==
  DOMAIN C!Moves = {"DRAFT", "PENDING_APPROVAL", "APPROVED", "PUBLISHED", "SUPERSEDED", "INACTIVE"}
  BY DEF C!Moves

\* A contract is drafted anew, or moves on without being published.
LEMMA ContractMoves ==
  ASSUME CInv, C!CreateContractVersion \/ \E state \in DOMAIN C!Moves : C!Transition(state)
  PROVE  CInv'
  <1>1. /\ contract'.current \in 1 .. MaxVersions /\ contract.current <= contract'.current
        /\ contract'.published = contract.published /\ contract'.state \in DOMAIN C!Moves \ {"PUBLISHED"}
        /\ contract' \in [state : DOMAIN C!Moves, current : 1 .. MaxVersions, published : 0 .. MaxVersions]
        /\ UNCHANGED <<lane, creating, order, raced>>
    <2>1. CASE C!CreateContractVersion
      <3>1. contract' = [state |-> "DRAFT", current |-> contract.current + 1, published |-> contract.published]
        BY <2>1 DEF C!CreateContractVersion, C!NextVersion, CInv, ContractShapes
      <3>2. contract.current \in 1 .. MaxVersions /\ contract.current < MaxVersions
            /\ contract.published \in 0 .. MaxVersions /\ UNCHANGED <<lane, creating, order, raced>>
        BY <2>1 DEF C!CreateContractVersion, CInv, ContractShapes
      <3> QED
        BY <3>1, <3>2, SupplyBounds, ContractStates
    <2>2. ASSUME NEW state \in DOMAIN C!Moves, C!Transition(state)
          PROVE  /\ contract'.current \in 1 .. MaxVersions /\ contract.current <= contract'.current
                 /\ contract'.published = contract.published /\ contract'.state \in DOMAIN C!Moves \ {"PUBLISHED"}
                 /\ contract' \in [state : DOMAIN C!Moves, current : 1 .. MaxVersions, published : 0 .. MaxVersions]
                 /\ UNCHANGED <<lane, creating, order, raced>>
      BY <2>2 DEF C!Transition, CInv, ContractShapes, C!Moves
    <2> QED
      BY <2>1, <2>2
  <1>2. ContractShapes' /\ CurrentIsPublished'
    BY <1>1, SupplyBounds DEF CInv, ContractShapes, CurrentIsPublished
  <1>3. LanesAge'
    BY <1>1, SupplyBounds DEF CInv, ContractShapes, LanesAge
  <1>4. OrdersHaveLanes'
    BY <1>1 DEF CInv, OrdersHaveLanes
  <1>5. LanesFit'
    BY <1>1 DEF CInv, LanesFit, C!WaysHaveOneRate, C!Overlaps
  <1> QED
    BY <1>2, <1>3, <1>4, <1>5 DEF CInv

LEMMA PublishStep ==
  ASSUME CInv, C!Publish
  PROVE  CInv'
  <1>1. /\ contract' = [contract EXCEPT !.state = "PUBLISHED", !.published = contract.current]
        /\ UNCHANGED <<creating, order, raced>>
        /\ contract'.published = contract.current /\ contract'.current = contract.current
        /\ contract.current \in 1 .. MaxVersions /\ contract.published \in Nat
        /\ contract.published <= contract.current
    BY SupplyBounds DEF C!Publish, CInv, ContractShapes
  <1>2. lane \in [Lanes -> LaneRow]
    BY DEF CInv, ContractShapes
  <1>3. ASSUME NEW l \in Lanes
        PROVE  /\ lane'[l] \in LaneRow
               /\ lane'[l].of = lane[l].of /\ lane'[l].window = lane[l].window
               /\ lane'[l].rate = IF lane[l].rate \notin {"DRAFT", "PUBLISHED"} THEN lane[l].rate
                                  ELSE IF lane[l].of = contract.current THEN "PUBLISHED" ELSE "SUPERSEDED"
               /\ lane[l] = C!NoLane => lane'[l] = lane[l]
    BY <1>2 DEF C!Publish, LaneRow, C!NoLane
  <1>4. DOMAIN lane' = Lanes /\ lane' = [l \in Lanes |-> lane'[l]]
    BY DEF C!Publish
  <1>5. ContractShapes'
    <2>1. lane' \in [Lanes -> LaneRow]
      BY <1>3, <1>4
    <2>2. contract' = [state |-> "PUBLISHED", current |-> contract.current, published |-> contract.current]
      BY <1>1 DEF CInv, ContractShapes
    <2>3. contract' \in [state : DOMAIN C!Moves, current : 1 .. MaxVersions, published : 0 .. MaxVersions]
      BY <1>1, <2>2, SupplyBounds, ContractStates
    <2> QED
      BY <1>1, <2>1, <2>3 DEF CInv, ContractShapes
  <1>6. LanesAge'
    <2> SUFFICES ASSUME NEW l \in Lanes
                 PROVE  /\ lane'[l] # C!NoLane => lane'[l].of \in 1 .. contract'.current /\ lane'[l].rate # "none"
                        /\ lane'[l].rate = "PUBLISHED" => lane'[l].of = contract'.published
                        /\ lane'[l].rate = "SUPERSEDED" => lane'[l].of < contract'.published
                        /\ creating[l] # C!NoLane =>
                             /\ lane'[l] = C!NoLane /\ creating[l].of \in 1 .. contract'.current
                             /\ creating[l].rate = "DRAFT"
      BY <1>1 DEF LanesAge
    <2>1. lane[l] # C!NoLane => lane[l].of \in 1 .. contract.current /\ lane[l].rate # "none"
      BY DEF CInv, LanesAge
    <2>2. lane[l].rate \in {"DRAFT", "PUBLISHED"} => lane[l].of \in Nat /\ lane[l].of <= contract.current
      BY <1>1, <1>2, <2>1 DEF C!NoLane, LaneRow
    <2>3. lane[l].rate = "SUPERSEDED" => lane[l].of \in Nat /\ lane[l].of < contract.current
      BY <1>1, <1>2, <2>1 DEF CInv, LanesAge, LaneRow, C!NoLane
    <2>4. lane[l].rate \in {"none", "DRAFT", "PUBLISHED", "SUPERSEDED"}
      BY <1>2 DEF LaneRow
    <2>5. creating[l] # C!NoLane =>
            lane[l] = C!NoLane /\ creating[l].of \in 1 .. contract.current /\ creating[l].rate = "DRAFT"
      BY DEF CInv, LanesAge
    <2> QED
      BY <1>1, <1>3, <2>1, <2>2, <2>3, <2>4, <2>5
  <1>7. OrdersHaveLanes'
    BY <1>1, <1>3 DEF CInv, OrdersHaveLanes
  <1>8. LanesFit'
    <2>1. \A l \in Lanes : lane'[l] # C!NoLane => lane[l] # C!NoLane
      BY <1>3
    <2> QED
      BY <1>1, <1>3, <2>1 DEF CInv, LanesFit, C!WaysHaveOneRate, C!Overlaps
  <1>9. CurrentIsPublished'
    BY <1>1 DEF CurrentIsPublished
  <1> QED
    BY <1>5, <1>6, <1>7, <1>8, <1>9 DEF CInv

LEMMA BeginLaneStep ==
  ASSUME CInv, NEW l \in Lanes, NEW version \in C!Versions, NEW window \in Windows,
         C!BeginLane(l, version, window)
  PROVE  CInv'
  <1> DEFINE new == [of |-> version, rate |-> "DRAFT", window |-> window]
  <1>1. /\ lane[l] = C!NoLane /\ creating[l] = C!NoLane /\ version <= contract.current
        /\ \A other \in Lanes : ~C!Overlaps(other, version, window)
        /\ creating' = [creating EXCEPT ![l] = new]
        /\ raced' = (raced \/ \E other \in Lanes : creating[other].of = version)
        /\ UNCHANGED <<contract, lane, order>>
    BY DEF C!BeginLane
  <1>2. creating \in [Lanes -> LaneRow] /\ new \in LaneRow
    BY DEF CInv, ContractShapes, LaneRow, C!Versions
  <1>3. new.of = version /\ new.rate = "DRAFT" /\ new.window = window
    OBVIOUS
  <1> HIDE DEF new
  <1>4. creating'[l] = new /\ \A m \in Lanes \ {l} : creating'[m] = creating[m]
    BY <1>1, <1>2
  <1>5. ContractShapes'
    BY <1>1, <1>2 DEF CInv, ContractShapes
  <1>6. LanesAge'
    <2>1. version \in 1 .. contract.current
      BY <1>1, SupplyBounds DEF C!Versions, CInv, ContractShapes
    <2> QED
      BY <1>1, <1>3, <1>4, <2>1 DEF CInv, LanesAge
  <1>7. OrdersHaveLanes' /\ CurrentIsPublished'
    BY <1>1 DEF CInv, OrdersHaveLanes, CurrentIsPublished
  <1>8. LanesFit'
    <2> SUFFICES ASSUME ~raced' PROVE LanesFit'
      BY DEF LanesFit
    <2>1. ~raced /\ \A other \in Lanes : creating[other].of # version
      BY <1>1
    <2>2. C!WaysHaveOneRate'
      BY <1>1, <2>1 DEF CInv, LanesFit, C!WaysHaveOneRate, C!Overlaps
    <2>3. ASSUME NEW k \in Lanes, NEW m \in Lanes, creating'[k] # C!NoLane
          PROVE  /\ ~C!Overlaps(m, creating'[k].of, creating'[k].window)
                 /\ k # m => creating'[m].of # creating'[k].of
      <3>1. CASE k = l
        BY <1>1, <1>3, <1>4, <2>1, <3>1
      <3>2. CASE k # l
        <4>1. /\ ~C!Overlaps(m, creating[k].of, creating[k].window)
              /\ k # m => creating[m].of # creating[k].of
          BY <1>4, <2>1, <2>3, <3>2 DEF CInv, LanesFit
        <4> QED
          BY <1>3, <1>4, <2>1, <3>2, <4>1
      <3> QED
        BY <3>1, <3>2
    <2> QED
      BY <1>1, <2>2, <2>3 DEF LanesFit, C!Overlaps
  <1> QED
    BY <1>5, <1>6, <1>7, <1>8 DEF CInv

LEMMA CommitLaneStep ==
  ASSUME CInv, NEW l \in Lanes, C!CommitLane(l)
  PROVE  CInv'
  <1>1. /\ creating[l] # C!NoLane
        /\ lane' = [lane EXCEPT ![l] = creating[l]]
        /\ creating' = [creating EXCEPT ![l] = C!NoLane]
        /\ UNCHANGED <<contract, order, raced>>
    BY DEF C!CommitLane
  <1>2. lane \in [Lanes -> LaneRow] /\ creating \in [Lanes -> LaneRow] /\ C!NoLane \in LaneRow
    BY SupplyBounds DEF CInv, ContractShapes, LaneRow, C!NoLane
  <1>3. /\ lane'[l] = creating[l] /\ creating'[l] = C!NoLane
        /\ \A m \in Lanes \ {l} : lane'[m] = lane[m] /\ creating'[m] = creating[m]
    BY <1>1, <1>2
  <1>4. lane[l] = C!NoLane /\ creating[l].of \in 1 .. contract.current /\ creating[l].rate = "DRAFT"
    BY <1>1 DEF CInv, LanesAge
  <1>5. ContractShapes'
    BY <1>1, <1>2 DEF CInv, ContractShapes
  <1>6. LanesAge'
    BY <1>1, <1>3, <1>4 DEF CInv, LanesAge
  <1>7. OrdersHaveLanes'
    <2>1. \A i \in Indents : order[i].state # "none" => order[i].lane # l
      BY <1>4 DEF CInv, OrdersHaveLanes, C!NoLane
    <2> QED
      BY <1>1, <1>3, <2>1 DEF CInv, OrdersHaveLanes
  <1>8. CurrentIsPublished'
    BY <1>1 DEF CInv, CurrentIsPublished
  <1>9. LanesFit'
    <2> SUFFICES ASSUME ~raced' PROVE LanesFit'
      BY DEF LanesFit
    <2>1. /\ C!WaysHaveOneRate /\ ~raced
          /\ \A k, m \in Lanes : creating[k] # C!NoLane =>
               /\ ~C!Overlaps(m, creating[k].of, creating[k].window)
               /\ k # m => creating[m].of # creating[k].of
      BY <1>1 DEF CInv, LanesFit
    <2>2. ASSUME NEW k \in Lanes, NEW m \in Lanes, k # m, lane'[k] # C!NoLane
          PROVE  ~(lane'[m].of = lane'[k].of /\ lane'[m].window \cap lane'[k].window # {})
      <3>1. CASE k = l
        BY <1>1, <1>3, <2>1, <2>2, <3>1 DEF C!Overlaps
      <3>2. CASE m = l
        BY <1>1, <1>3, <2>1, <2>2, <3>2 DEF C!Overlaps
      <3>3. CASE k # l /\ m # l
        BY <1>3, <2>1, <2>2, <3>3 DEF C!WaysHaveOneRate, C!Overlaps
      <3> QED
        BY <3>1, <3>2, <3>3
    <2>3. ASSUME NEW k \in Lanes, NEW m \in Lanes, creating'[k] # C!NoLane
          PROVE  /\ ~(lane'[m].of = creating'[k].of /\ lane'[m].window \cap creating'[k].window # {})
                 /\ k # m => creating'[m].of # creating'[k].of
      <3>1. k # l /\ creating'[k] = creating[k] /\ creating[k] # C!NoLane
        BY <1>3, <2>3
      <3>2. creating[k].of # creating[l].of /\ creating[k].of # 0
        BY <1>4, <2>1, <3>1 DEF CInv, LanesAge
      <3>3. CASE m = l
        BY <1>3, <3>1, <3>2, <3>3 DEF C!NoLane
      <3>4. CASE m # l
        BY <1>3, <2>1, <3>1, <3>4 DEF C!Overlaps
      <3> QED
        BY <3>3, <3>4
    <2> QED
      BY <2>2, <2>3 DEF LanesFit, C!WaysHaveOneRate, C!Overlaps
  <1> QED
    BY <1>5, <1>6, <1>7, <1>8, <1>9 DEF CInv

\* An indent is looked up, inserted or billed.
LEMMA OrderMoves ==
  ASSUME CInv, NEW i \in Indents, NEW new \in OrderRow, order' = [order EXCEPT ![i] = new],
         UNCHANGED <<contract, lane, creating, raced>>,
         new.state # "none", new.lane \in Lanes, new.version = new.current,
         lane[new.lane].of = new.version, lane[new.lane].rate \in {"PUBLISHED", "SUPERSEDED"}
  PROVE  CInv'
  <1>1. ContractShapes'
    BY DEF CInv, ContractShapes
  <1>2. OrdersHaveLanes'
    BY DEF CInv, OrdersHaveLanes, ContractShapes
  <1>3. LanesAge' /\ CurrentIsPublished'
    BY DEF CInv, LanesAge, CurrentIsPublished
  <1>4. LanesFit'
    BY DEF CInv, LanesFit, C!WaysHaveOneRate, C!Overlaps
  <1> QED
    BY <1>1, <1>2, <1>3, <1>4 DEF CInv

LEMMA OrderStep ==
  ASSUME CInv, NEW i \in Indents,
         \/ \E l \in Lanes : C!ResolveImport(i, l) \/ \E day \in Days : C!ResolveIndent(i, l, day)
         \/ C!InsertIndent(i) \/ \E day \in Days : C!Bill(i, day)
  PROVE  CInv'
  <1>0. order \in [Indents -> OrderRow] /\ order[i] \in OrderRow
    BY DEF CInv, ContractShapes
  <1>1. ASSUME NEW l \in Lanes, C!Resolved(i, l) PROVE CInv'
    <2> DEFINE new == [state |-> "resolved", lane |-> l, version |-> lane[l].of, current |-> contract.current]
    <2>1. contract.state = "PUBLISHED" /\ lane[l].rate = "PUBLISHED"
      BY <1>1 DEF C!Resolved
    <2>2. order' = [order EXCEPT ![i] = new] /\ UNCHANGED <<contract, lane, creating, raced>>
      BY <1>1 DEF C!Resolved
    <2>3. lane[l].of = contract.published /\ contract.published = contract.current
      BY <2>1 DEF CInv, LanesAge, CurrentIsPublished
    <2>4. new \in OrderRow
      BY <2>3, SupplyBounds DEF OrderRow, CInv, ContractShapes
    <2>5. /\ new.state # "none" /\ new.lane = l /\ new.version = new.current
          /\ lane[l].of = new.version
      BY <2>3
    <2> HIDE DEF new
    <2> QED
      BY <2>1, <2>2, <2>4, <2>5, OrderMoves
  <1>2. ASSUME NEW state \in {"OPEN", "BILLED"}, order[i].state # "none",
               order' = [order EXCEPT ![i].state = state], UNCHANGED <<contract, lane, creating, raced>>
        PROVE  CInv'
    <2> DEFINE new == [order[i] EXCEPT !.state = state]
    <2>1. order' = [order EXCEPT ![i] = new]
      BY <1>2
    <2>2. new \in OrderRow /\ new.state = state /\ new.lane = order[i].lane
          /\ new.version = order[i].version /\ new.current = order[i].current
      BY <1>0, <1>2 DEF OrderRow
    <2> HIDE DEF new
    <2>3. /\ order[i].lane \in Lanes /\ order[i].version = order[i].current
          /\ lane[order[i].lane].of = order[i].version
          /\ lane[order[i].lane].rate \in {"PUBLISHED", "SUPERSEDED"}
      BY <1>2 DEF CInv, OrdersHaveLanes
    <2>4. /\ new \in OrderRow /\ new.state # "none" /\ new.lane \in Lanes /\ new.version = new.current
          /\ lane[new.lane].of = new.version /\ lane[new.lane].rate \in {"PUBLISHED", "SUPERSEDED"}
      BY <2>2, <2>3
    <2>5. UNCHANGED <<contract, lane, creating, raced>>
      BY <1>2
    <2> QED
      BY <2>1, <2>4, <2>5, OrderMoves
  <1>3. CASE C!InsertIndent(i)
    BY <1>2, <1>3 DEF C!InsertIndent
  <1>4. ASSUME NEW day \in Days, C!Bill(i, day) PROVE CInv'
    BY <1>2, <1>4 DEF C!Bill, C!Billable
  <1> QED
    BY <1>1, <1>3, <1>4 DEF C!ResolveIndent, C!ResolveImport

LEMMA ContractsStep == CInv /\ [C!Next]_contracts => CInv'
  <1> SUFFICES ASSUME CInv, [C!Next]_contracts PROVE CInv'
    OBVIOUS
  <1>1. CASE UNCHANGED contracts
    <2>1. UNCHANGED <<contract, lane, creating, order, raced>>
      BY <1>1 DEF contracts
    <2>2. ContractShapes' /\ LanesAge' /\ OrdersHaveLanes' /\ CurrentIsPublished'
      BY <2>1 DEF CInv, ContractShapes, LanesAge, OrdersHaveLanes, CurrentIsPublished
    <2>3. LanesFit'
      BY <2>1 DEF CInv, LanesFit, C!WaysHaveOneRate, C!Overlaps
    <2> QED
      BY <2>2, <2>3 DEF CInv
  <1>2. CASE C!Next
    BY <1>2, ContractMoves, PublishStep, BeginLaneStep, CommitLaneStep, OrderStep DEF C!Next
  <1> QED
    BY <1>1, <1>2

\* What the run checks follows.
LEMMA ContractsAgree ==
  ASSUME CInv
  PROVE  C!TypeOK /\ C!RatesFollowVersions /\ C!IndentsAreCurrent /\ C!PricedUntilSuperseded /\ C!WaysHaveOneRate
  <1>1. C!TypeOK
    BY DEF CInv, ContractShapes, LanesAge, C!TypeOK, C!Versions, C!NoLane, LaneRow, OrderRow
  <1>2. C!RatesFollowVersions
    BY DEF CInv, LanesAge, CurrentIsPublished, C!RatesFollowVersions
  <1>3. C!IndentsAreCurrent
    BY DEF CInv, OrdersHaveLanes, C!IndentsAreCurrent, C!NoIndent
  <1>4. C!PricedUntilSuperseded
    <2> SUFFICES ASSUME NEW i \in Indents, order[i].state = "OPEN", NEW day \in lane[order[i].lane].window
                 PROVE  C!Billable(i, day) = (order[i].version = contract.published)
      BY DEF C!PricedUntilSuperseded
    <2>1. /\ order[i].lane \in Lanes /\ lane[order[i].lane].of = order[i].version
          /\ lane[order[i].lane].rate \in {"PUBLISHED", "SUPERSEDED"}
      BY DEF CInv, OrdersHaveLanes
    <2>2. lane[order[i].lane].rate = "PUBLISHED" <=> order[i].version = contract.published
      <3>1. contract.published \in Nat /\ lane[order[i].lane].of \in Nat
        BY <2>1 DEF CInv, ContractShapes, LaneRow
      <3> QED
        BY <2>1, <3>1 DEF CInv, LanesAge
    <2> QED
      BY <2>2 DEF C!Billable
  <1>5. C!WaysHaveOneRate
    BY DEF CInv, LanesFit, C!WaysHaveOneRate
  <1> QED
    BY <1>1, <1>2, <1>3, <1>4, <1>5

-----------------------------------------------------------------------------
(* VendorStanding                                                          *)

Accounts == 1 .. MaxAccounts
AccountRow == [state : {"none", "PENDING_VERIFICATION", "locked", "VERIFIED", "REJECTED", "SUPERSEDED"},
               maker : Users \cup {Nobody}]
PaperRow == [no : 0 .. MaxPapers, state : {"none", "PENDING", "VERIFIED", "REJECTED"},
             verdictOn : 0 .. MaxPapers]

VendorShapes ==
  /\ account \in [Accounts -> AccountRow]
  /\ \A v \in Accounts : IF account[v].state = "none" THEN account[v] = V!NoAccount ELSE account[v].maker \in Users
  /\ verifying \in [Accounts -> SUBSET Accounts]
  /\ paper \in [Requirements -> PaperRow]
  /\ batch \in [Batches -> [state : {"none", "checked", "created"}, account : 0 .. MaxAccounts]]

Once == {"VERIFIED", "SUPERSEDED"}

\* Money goes to an account that was verified once.
BatchesArePayable ==
  \A b \in Batches : batch[b].state # "none" => batch[b].account \in Accounts /\ account[batch[b].account].state \in Once

\* So was any that is to be superseded.
SupersededWereVerified == \A v \in Accounts : \A w \in verifying[v] : account[w].state \in Once

\* Where an account gave way, another is in force.
Succeeded == (\E v \in Accounts : account[v].state = "SUPERSEDED") => \E v \in Accounts : account[v].state = "VERIFIED"

\* One that is being verified alone knows of the one that is in force.
OneAtATime ==
  \/ crowded
  \/ /\ \A v, w \in Accounts : account[v].state = "locked" /\ account[w].state = "locked" => v = w
     /\ \A v, w \in Accounts : account[v].state = "VERIFIED" /\ account[w].state = "VERIFIED" => v = w
     /\ \A v, w \in Accounts : account[v].state = "locked" /\ account[w].state = "VERIFIED" => w \in verifying[v]

\* A verdict is on the last paper.
VerdictsAreLatest ==
  \A r \in Requirements : paper[r].state \in {"VERIFIED", "REJECTED"} => paper[r].verdictOn = paper[r].no

VInv == VendorShapes /\ BatchesArePayable /\ SupersededWereVerified /\ Succeeded /\ OneAtATime /\ VerdictsAreLatest

LEMMA VendorsInit == V!Init => VInv
  <1> SUFFICES ASSUME V!Init PROVE VInv
    OBVIOUS
  <1>1. VendorShapes
    BY SupplyBounds DEF V!Init, VendorShapes, V!NoAccount, V!NoPaper, Accounts, AccountRow, PaperRow
  <1>2. BatchesArePayable /\ SupersededWereVerified /\ Succeeded /\ OneAtATime /\ VerdictsAreLatest
    BY DEF V!Init, BatchesArePayable, SupersededWereVerified, Succeeded, OneAtATime, VerdictsAreLatest, V!NoAccount, V!NoPaper, Accounts
  <1> QED
    BY <1>1, <1>2 DEF VInv

\* An account that nobody was paid to, and that is not in force, moves on.
LEMMA AccountMoves ==
  ASSUME VInv, NEW v \in Accounts, NEW new \in AccountRow, NEW known \in SUBSET Accounts,
         account' = [account EXCEPT ![v] = new], verifying' = [verifying EXCEPT ![v] = known],
         UNCHANGED <<batch, paper>>, \A w \in known : account[w].state \in Once,
         account[v].state \notin Once, new.state \notin Once,
         new.state # "none", new.maker \in Users,
         \/ UNCHANGED crowded /\ new.state # "locked"
         \/ /\ crowded' = (crowded \/ \E w \in Accounts : account[w].state = "locked")
            /\ \A w \in Accounts : account[w].state = "VERIFIED" => w \in known
  PROVE  VInv'
  <1>1. /\ account \in [Accounts -> AccountRow] /\ verifying \in [Accounts -> SUBSET Accounts]
        /\ account'[v] = new /\ verifying'[v] = known
        /\ \A w \in Accounts \ {v} : account'[w] = account[w] /\ verifying'[w] = verifying[w]
    BY DEF VInv, VendorShapes
  <1>2. VendorShapes'
    BY <1>1 DEF VInv, VendorShapes
  <1>3. BatchesArePayable' /\ SupersededWereVerified' /\ Succeeded'
    BY <1>1 DEF VInv, BatchesArePayable, SupersededWereVerified, Succeeded, Once
  <1>4. OneAtATime'
    <2> SUFFICES ASSUME ~crowded' PROVE OneAtATime'
      BY DEF OneAtATime
    <2>1. ~crowded
      OBVIOUS
    <2>2. CASE new.state # "locked"
      BY <1>1, <2>1, <2>2 DEF VInv, OneAtATime, Once
    <2>3. CASE new.state = "locked"
      <3>1. \A w \in Accounts : account[w].state # "locked" /\ (account[w].state = "VERIFIED" => w \in known)
        BY <2>3
      <3> QED
        BY <1>1, <2>1, <2>3, <3>1 DEF VInv, OneAtATime, Once
    <2> QED
      BY <2>2, <2>3
  <1>5. VerdictsAreLatest'
    BY DEF VInv, VerdictsAreLatest
  <1> QED
    BY <1>2, <1>3, <1>4, <1>5 DEF VInv

LEMMA CommitVerifyStep ==
  ASSUME VInv, NEW v \in Accounts, V!CommitVerify(v)
  PROVE  VInv'
  <1>1. /\ account[v].state = "locked" /\ UNCHANGED <<crowded, batch, paper>>
        /\ verifying' = [verifying EXCEPT ![v] = {}]
    BY DEF V!CommitVerify, V!Open, V!compliance
  <1>2. account \in [Accounts -> AccountRow] /\ verifying \in [Accounts -> SUBSET Accounts]
    BY DEF VInv, VendorShapes
  <1>3. /\ DOMAIN account' = Accounts /\ account' = [w \in Accounts |-> account'[w]]
        /\ \A w \in Accounts : account'[w] = IF w = v THEN [account[w] EXCEPT !.state = "VERIFIED"]
                                            ELSE IF w \in verifying[v] THEN [account[w] EXCEPT !.state = "SUPERSEDED"]
                                            ELSE account[w]
    BY DEF V!CommitVerify, Accounts
  <1>4. ASSUME NEW w \in Accounts
        PROVE  /\ account'[w] \in AccountRow
               /\ account'[w].maker = account[w].maker
               /\ account'[w].state = IF w = v THEN "VERIFIED" ELSE IF w \in verifying[v] THEN "SUPERSEDED" ELSE account[w].state
    BY <1>2, <1>3 DEF AccountRow
  <1>5. \A w \in verifying[v] : account[w].state \in Once /\ w # v
    BY <1>1 DEF VInv, SupersededWereVerified, Once
  <1>6. verifying'[v] = {} /\ \A w \in Accounts \ {v} : verifying'[w] = verifying[w]
    BY <1>1, <1>2
  <1>7. VendorShapes'
    <2>1. account' \in [Accounts -> AccountRow]
      BY <1>3, <1>4
    <2>2. \A w \in Accounts : (account'[w].state # "none" /\ account'[w].maker \in Users) \/ account'[w] = account[w]
      BY <1>1, <1>3, <1>4, <1>5 DEF VInv, VendorShapes, Once, V!NoAccount
    <2>3. \A w \in Accounts :
            IF account'[w].state = "none" THEN account'[w] = V!NoAccount ELSE account'[w].maker \in Users
      BY <2>2 DEF VInv, VendorShapes
    <2>4. verifying' \in [Accounts -> SUBSET Accounts]
      BY <1>1, <1>2
    <2> QED
      BY <1>1, <2>1, <2>3, <2>4 DEF VInv, VendorShapes
  <1>8. \A w \in Accounts : account[w].state \in Once => account'[w].state \in Once
    BY <1>1, <1>4 DEF Once
  <1>9. BatchesArePayable' /\ SupersededWereVerified'
    BY <1>1, <1>2, <1>6, <1>8 DEF VInv, BatchesArePayable, SupersededWereVerified, VendorShapes
  <1>10. Succeeded'
    BY <1>4 DEF Succeeded
  <1>11. OneAtATime'
    <2> SUFFICES ASSUME ~crowded PROVE OneAtATime'
      BY <1>1 DEF OneAtATime
    <2>1. \A w \in Accounts : account'[w].state = "VERIFIED" => w = v
      BY <1>1, <1>4 DEF VInv, OneAtATime
    <2>2. \A w \in Accounts : account'[w].state # "locked"
      BY <1>1, <1>4 DEF VInv, OneAtATime
    <2> QED
      BY <2>1, <2>2 DEF OneAtATime
  <1>12. VerdictsAreLatest'
    BY <1>1 DEF VInv, VerdictsAreLatest
  <1> QED
    BY <1>7, <1>9, <1>10, <1>11, <1>12 DEF VInv

\* A payment is checked and made.
LEMMA PaymentMoves ==
  ASSUME VInv, NEW b \in Batches, (\E v \in Accounts : V!CheckAccount(b, v)) \/ V!CreatePayment(b)
  PROVE  VInv'
  <1>0. batch \in [Batches -> [state : {"none", "checked", "created"}, account : 0 .. MaxAccounts]]
    BY DEF VInv, VendorShapes
  <1>1. /\ UNCHANGED <<account, verifying, crowded, paper>>
        /\ \A o \in Batches \ {b} : batch'[o] = batch[o]
        /\ batch' \in [Batches -> [state : {"none", "checked", "created"}, account : 0 .. MaxAccounts]]
        /\ batch'[b].account \in Accounts /\ account[batch'[b].account].state \in Once
    <2>1. ASSUME NEW v \in Accounts, V!CheckAccount(b, v)
          PROVE  /\ account[v].state = "VERIFIED" /\ UNCHANGED <<account, verifying, crowded, paper>>
                 /\ batch' = [batch EXCEPT ![b] = [state |-> "checked", account |-> v]]
      BY <2>1 DEF V!CheckAccount, V!Verified, V!compliance
    <2>2. CASE V!CreatePayment(b)
      <3>1. /\ batch[b].state = "checked" /\ UNCHANGED <<account, verifying, crowded, paper>>
            /\ batch' = [batch EXCEPT ![b] = [batch[b] EXCEPT !.state = "created"]]
        BY <2>2 DEF V!CreatePayment, V!compliance
      <3>2. batch[b].account \in Accounts /\ account[batch[b].account].state \in Once
        BY <3>1 DEF VInv, BatchesArePayable
      <3> QED
        BY <1>0, <3>1, <3>2
    <2> QED
      BY <1>0, <2>1, <2>2, SupplyBounds DEF Once, Accounts
  <1>2. VendorShapes' /\ BatchesArePayable'
    BY <1>1 DEF VInv, VendorShapes, BatchesArePayable
  <1>3. SupersededWereVerified' /\ Succeeded' /\ OneAtATime' /\ VerdictsAreLatest'
    BY <1>1 DEF VInv, SupersededWereVerified, Succeeded, OneAtATime, VerdictsAreLatest
  <1> QED
    BY <1>2, <1>3 DEF VInv

LEMMA AccountStep ==
  ASSUME VInv, V!AccountNext
  PROVE  VInv'
  <1>0. account \in [Accounts -> AccountRow] /\ verifying \in [Accounts -> SUBSET Accounts]
    BY DEF VInv, VendorShapes
  <1>1. ASSUME NEW u \in Users, V!AddVendorBank(u) PROVE VInv'
    <2>1. PICK v \in Accounts : /\ account[v] = V!NoAccount
                                /\ account' = [account EXCEPT ![v] = [state |-> "PENDING_VERIFICATION", maker |-> u]]
                                /\ UNCHANGED <<verifying, crowded, batch, paper>>
      BY <1>1 DEF V!AddVendorBank, V!compliance, Accounts
    <2> DEFINE new == [state |-> "PENDING_VERIFICATION", maker |-> u]
    <2>2. new \in AccountRow /\ new.state = "PENDING_VERIFICATION" /\ new.maker = u
      BY DEF AccountRow
    <2>3. verifying' = [verifying EXCEPT ![v] = verifying[v]]
      BY <1>0, <2>1
    <2>4. account' = [account EXCEPT ![v] = new] /\ account[v].state = "none"
      BY <2>1 DEF V!NoAccount
    <2>5. verifying[v] \in SUBSET Accounts /\ \A w \in verifying[v] : account[w].state \in Once
      BY <1>0 DEF VInv, SupersededWereVerified
    <2> HIDE DEF new
    <2> QED
      BY <2>1, <2>2, <2>3, <2>4, <2>5, AccountMoves DEF Once
  \* To refuse, to lock and to let go change the state alone.
  <1>2. ASSUME NEW v \in Accounts, NEW state \in {"PENDING_VERIFICATION", "locked", "REJECTED"},
               account' = [account EXCEPT ![v].state = state], account[v].state \in {"PENDING_VERIFICATION", "locked"}
        PROVE  \E new \in AccountRow :
                 /\ account' = [account EXCEPT ![v] = new] /\ new.state = state /\ new.maker \in Users
                 /\ account[v].state \notin Once /\ new.state \notin Once
    <2> DEFINE new == [account[v] EXCEPT !.state = state]
    <2>1. new \in AccountRow /\ new.state = state /\ new.maker = account[v].maker
      BY <1>0, <1>2 DEF AccountRow
    <2>2. account' = [account EXCEPT ![v] = new]
      BY <1>2
    <2>3. new.maker \in Users
      BY <1>2, <2>1 DEF VInv, VendorShapes
    <2> HIDE DEF new
    <2> QED
      BY <1>2, <2>1, <2>2, <2>3 DEF Once
  <1>3. ASSUME NEW u \in Users, NEW v \in Accounts, V!RejectVendorBank(u, v) PROVE VInv'
    <2>1. /\ account[v].state = "PENDING_VERIFICATION" /\ account' = [account EXCEPT ![v].state = "REJECTED"]
          /\ UNCHANGED <<verifying, crowded, batch, paper>>
      BY <1>3 DEF V!RejectVendorBank, V!MayDecide, V!compliance
    <2>2. PICK new \in AccountRow :
            /\ account' = [account EXCEPT ![v] = new] /\ new.state = "REJECTED" /\ new.maker \in Users
            /\ account[v].state \notin Once /\ new.state \notin Once
      BY <1>2, <2>1
    <2>3. verifying' = [verifying EXCEPT ![v] = verifying[v]] /\ verifying[v] \in SUBSET Accounts
          /\ \A w \in verifying[v] : account[w].state \in Once
      BY <1>0, <2>1 DEF VInv, SupersededWereVerified
    <2>4. UNCHANGED crowded /\ new.state # "locked" /\ new.state # "none" /\ UNCHANGED <<batch, paper>>
      BY <2>1, <2>2
    <2> QED
      BY <2>2, <2>3, <2>4, AccountMoves
  <1>4. ASSUME NEW u \in Users, NEW v \in Accounts, V!BeginVerify(u, v) PROVE VInv'
    <2>1. /\ account[v].state = "PENDING_VERIFICATION" /\ account' = [account EXCEPT ![v].state = "locked"]
          /\ verifying' = [verifying EXCEPT ![v] = {w \in Accounts : account[w].state = "VERIFIED"}]
          /\ crowded' = (crowded \/ \E w \in Accounts : account[w].state = "locked")
          /\ UNCHANGED <<batch, paper>>
      BY <1>4 DEF V!BeginVerify, V!MayDecide, V!Superseded, V!Verified, V!Open, V!compliance, Accounts
    <2>2. PICK new \in AccountRow :
            /\ account' = [account EXCEPT ![v] = new] /\ new.state = "locked" /\ new.maker \in Users
            /\ account[v].state \notin Once /\ new.state \notin Once
      BY <1>2, <2>1
    <2>3. \A w \in {x \in Accounts : account[x].state = "VERIFIED"} : account[w].state \in Once
      BY DEF Once
    <2> QED
      BY <2>1, <2>2, <2>3, AccountMoves
  <1>5. ASSUME NEW v \in Accounts, V!RollbackVerify(v) PROVE VInv'
    <2>1. /\ account[v].state = "locked" /\ account' = [account EXCEPT ![v].state = "PENDING_VERIFICATION"]
          /\ verifying' = [verifying EXCEPT ![v] = {}] /\ UNCHANGED <<crowded, batch, paper>>
      BY <1>5 DEF V!RollbackVerify, V!Open, V!compliance
    <2>2. PICK new \in AccountRow :
            /\ account' = [account EXCEPT ![v] = new] /\ new.state = "PENDING_VERIFICATION" /\ new.maker \in Users
            /\ account[v].state \notin Once /\ new.state \notin Once
      BY <1>2, <2>1
    <2>3. {} \in SUBSET Accounts /\ \A w \in {} : account[w].state \in Once
      OBVIOUS
    <2> QED
      BY <2>1, <2>2, <2>3, AccountMoves
  <1> QED
    BY <1>1, <1>3, <1>4, <1>5, CommitVerifyStep, PaymentMoves DEF V!AccountNext, Accounts

\* Nothing about papers touches an account.
LEMMA ComplianceStep ==
  ASSUME VInv, V!ComplianceNext
  PROVE  VInv'
  <1>0. paper \in [Requirements -> PaperRow]
    BY DEF VInv, VendorShapes
  <1>1. /\ UNCHANGED <<account, verifying, crowded, batch>>
        /\ \/ UNCHANGED paper
           \/ \E r \in Requirements, new \in PaperRow :
                /\ paper' = [paper EXCEPT ![r] = new]
                /\ new.state \in {"VERIFIED", "REJECTED"} => new.verdictOn = new.no
    <2>1. ASSUME NEW r \in Requirements, V!UpsertCompliance(r)
          PROVE  /\ UNCHANGED <<account, verifying, crowded, batch>>
                 /\ \E new \in PaperRow : paper' = [paper EXCEPT ![r] = new] /\ new.state = "PENDING"
      <3> DEFINE new == [no |-> paper[r].no + 1, state |-> "PENDING", verdictOn |-> 0]
      <3>1. /\ paper[r].no < MaxPapers /\ paper' = [paper EXCEPT ![r] = new]
            /\ UNCHANGED <<account, verifying, crowded, batch>>
        BY <2>1 DEF V!UpsertCompliance, V!accounts
      <3>2. new \in PaperRow /\ new.state = "PENDING"
        BY <1>0, <3>1, SupplyBounds DEF PaperRow
      <3> HIDE DEF new
      <3> QED
        BY <3>1, <3>2
    <2>2. ASSUME NEW r \in Requirements, NEW verdict \in {"VERIFIED", "REJECTED"}, V!DecideCompliance(r, verdict)
          PROVE  /\ UNCHANGED <<account, verifying, crowded, batch>>
                 /\ \E new \in PaperRow : paper' = [paper EXCEPT ![r] = new] /\ new.verdictOn = new.no
      <3> DEFINE new == [no |-> paper[r].no, state |-> verdict, verdictOn |-> paper[r].no]
      <3>1. UNCHANGED <<account, verifying, crowded, batch>>
            /\ paper' = [paper EXCEPT ![r] = [[paper[r] EXCEPT !.state = verdict] EXCEPT !.verdictOn = paper[r].no]]
        BY <1>0, <2>2 DEF V!DecideCompliance, V!accounts
      <3>2. [[paper[r] EXCEPT !.state = verdict] EXCEPT !.verdictOn = paper[r].no] = new
        <4>1. paper[r] = [no |-> paper[r].no, state |-> paper[r].state, verdictOn |-> paper[r].verdictOn]
          BY <1>0 DEF PaperRow
        <4> DEFINE q == [paper[r] EXCEPT !.state = verdict]
        <4>2. q = [no |-> paper[r].no, state |-> verdict, verdictOn |-> paper[r].verdictOn]
          BY <4>1
        <4> HIDE DEF q
        <4>3. [q EXCEPT !.verdictOn = paper[r].no] = new
          BY <4>2
        <4> QED
          BY <4>3 DEF q
      <3>3. new \in PaperRow /\ new.verdictOn = new.no
        BY <1>0 DEF PaperRow
      <3>4. paper' = [paper EXCEPT ![r] = new]
        BY <3>1, <3>2
      <3> HIDE DEF new
      <3> QED
        BY <3>1, <3>3, <3>4
    <2>3. ASSUME NEW r \in Requirements, V!Expire(r)
          PROVE  UNCHANGED <<account, verifying, crowded, batch, paper>>
      BY <2>3 DEF V!Expire, V!accounts
    <2>4. ASSUME NEW d \in Decisions, V!OverrideEligibility(d) \/ V!ExpireOverride(d)
          PROVE  UNCHANGED <<account, verifying, crowded, batch, paper>>
      BY <2>4 DEF V!OverrideEligibility, V!ExpireOverride, V!accounts
    <2> QED
      BY <2>1, <2>2, <2>3, <2>4 DEF V!ComplianceNext
  <1>2. VendorShapes' /\ VerdictsAreLatest'
    BY <1>0, <1>1 DEF VInv, VendorShapes, VerdictsAreLatest
  <1>3. BatchesArePayable' /\ SupersededWereVerified' /\ Succeeded' /\ OneAtATime'
    BY <1>1 DEF VInv, BatchesArePayable, SupersededWereVerified, Succeeded, OneAtATime
  <1> QED
    BY <1>2, <1>3 DEF VInv

LEMMA VendorsStep == VInv /\ [V!Next]_standing => VInv'
  <1>1. ASSUME VInv, UNCHANGED standing PROVE VInv'
    BY <1>1 DEF standing, VInv, VendorShapes, BatchesArePayable, SupersededWereVerified, Succeeded, OneAtATime,
                VerdictsAreLatest
  <1> QED
    BY <1>1, AccountStep, ComplianceStep DEF V!Next

LEMMA VendorsVetted ==
  ASSUME VInv
  PROVE  V!TypeOK /\ V!AccountsAreInForce /\ V!PapersAreDecided
  <1>1. V!TypeOK
    BY DEF VInv, VendorShapes, V!TypeOK, Accounts, AccountRow, PaperRow
  <1>2. V!AccountsAreInForce
    <2>1. crowded \/ Cardinality(V!Verified) <= 1
      <3> SUFFICES ASSUME ~crowded PROVE Cardinality(V!Verified) <= 1
        OBVIOUS
      <3>1. \A v, w \in V!Verified : v = w
        BY DEF VInv, OneAtATime, V!Verified, Accounts
      <3>2. CASE V!Verified = {}
        BY <3>2, FS_EmptySet
      <3>3. ASSUME NEW v \in V!Verified PROVE Cardinality(V!Verified) <= 1
        <4>1. V!Verified = {v}
          BY <3>1, <3>3
        <4> QED
          BY <4>1, FS_Singleton
      <3> QED
        BY <3>2, <3>3
    <2>2. (\E v \in 1 .. MaxAccounts : account[v].state = "SUPERSEDED") => V!Verified # {}
      BY DEF VInv, Succeeded, V!Verified, Accounts
    <2>3. \A b \in Batches : batch[b].state # "none" => account[batch[b].account].state \in {"VERIFIED", "SUPERSEDED"}
      BY DEF VInv, BatchesArePayable, Once
    <2> QED
      BY <2>1, <2>2, <2>3, OneCardinality, Zenon DEF V!AccountsAreInForce
  <1>3. V!PapersAreDecided
    BY DEF VInv, VerdictsAreLatest, V!PapersAreDecided, V!Eligible, V!Met, V!Held
  <1> QED
    BY <1>1, <1>2, <1>3

-----------------------------------------------------------------------------
(* RuleExecution                                                           *)

Offered == 1 .. MaxAllocations
OfferedRow == [state : {"none", "OFFERED", "REJECTED"}, key : RuleKeys \cup {"none", "manual"},
               vendor : Vendors \cup {AnyVendor}, vehicles : 0 .. Demand, terms : 0 .. MaxEdits]
RequestRow == [phase : {"idle", "begun", "ruled", "proposed", "allocated", "recorded"}, key : RuleKeys \cup {"none"},
               vendor : Vendors \cup {AnyVendor}, vehicles : 0 .. Demand, max : 0 .. Demand,
               terms : 0 .. MaxEdits, made : 0 .. MaxAllocations]

RuleShapes ==
  /\ rule.version \in 1 .. MaxEdits /\ rule.max \in 1 .. Demand
  /\ offered \in [Offered -> OfferedRow]
  /\ request \in [RuleRequests -> RequestRow]
  /\ envelope \in [RuleKeys -> [state : {"none", "PENDING", "COMPLETE"}, told : 0 .. MaxAllocations]]
  /\ executed \subseteq Offered

\* Who serves a request has its record, and what it says it made is there.
RequestsAreRecorded ==
  \A r \in RuleRequests : request[r].phase # "idle" =>
    /\ request[r].key \in RuleKeys /\ envelope[request[r].key].state # "none"
    /\ request[r].phase \in {"allocated", "recorded"} =>
         request[r].made \in Offered /\ offered[request[r].made].key = request[r].key
    /\ request[r].phase = "recorded" => request[r].made \in executed

ToldWasMade ==
  \A k \in RuleKeys : envelope[k].state = "COMPLETE" =>
    envelope[k].told \in executed /\ offered[envelope[k].told].key = k

ExecutedWasAsked == \A a \in executed : offered[a].key \in RuleKeys /\ envelope[offered[a].key].state # "none"

OneEach == \A a, o \in Offered : offered[a].key \in RuleKeys /\ offered[a].key = offered[o].key => a = o

RInv == RuleShapes /\ RequestsAreRecorded /\ ToldWasMade /\ ExecutedWasAsked /\ OneEach /\ R!DemandIsKept

-----------------------------------------------------------------------------
\* What is allotted can be counted.
LEMMA AllottedCounts ==
  IsFiniteSet(R!Units) /\ R!Allotted = Cardinality(R!Units) /\ R!Allotted \in Nat
  <1>1. IsFiniteSet(Offered) /\ IsFiniteSet(1 .. Demand)
    BY SupplyBounds, FS_Interval DEF Offered
  <1>2. IsFiniteSet(R!Standing)
    <2>1. R!Standing \subseteq Offered
      BY DEF R!Standing, R!Allocations, Offered
    <2> QED
      BY <1>1, <2>1, FS_Subset
  <1>3. IsFiniteSet(R!Standing \X (1 .. Demand))
    BY <1>1, <1>2, FS_Product
  <1>4. R!Units \subseteq R!Standing \X (1 .. Demand)
    BY DEF R!Units
  <1>5. IsFiniteSet(R!Units)
    BY <1>3, <1>4, FS_Subset
  <1>6. R!Allotted = Cardinality(R!Units)
    BY OneCardinality, Zenon DEF R!Allotted
  <1> QED
    BY <1>5, <1>6, FS_CardinalityType

\* An offer of n vehicles takes up n of the demand.
LEMMA OfferAllotted ==
  ASSUME offered \in [Offered -> OfferedRow], NEW a \in Offered, NEW new \in OfferedRow,
         offered' = [offered EXCEPT ![a] = new], offered[a].state # "OFFERED", new.state = "OFFERED"
  PROVE  R!Allotted' = R!Allotted + new.vehicles
  <1>1. offered'[a] = new /\ \A o \in Offered \ {a} : offered'[o] = offered[o]
    OBVIOUS
  <1>2. new.vehicles \in Nat /\ new.vehicles <= Demand /\ Demand \in Nat
    BY SupplyBounds DEF OfferedRow
  <1> DEFINE n == new.vehicles
             strip == {a} \X (1 .. n)
  <1>3. R!Standing' = R!Standing \cup {a} /\ a \notin R!Standing /\ R!Standing \subseteq Offered
    BY <1>1 DEF R!Standing, R!Allocations, Offered
  <1>4. \A o, k : <<o, k>> \in R!Units' <=> o \in R!Standing' /\ k \in 1 .. Demand /\ k <= offered'[o].vehicles
    BY DEF R!Units
  <1>5. \A o, k : <<o, k>> \in R!Units <=> o \in R!Standing /\ k \in 1 .. Demand /\ k <= offered[o].vehicles
    BY DEF R!Units
  <1>6. \A o, k : <<o, k>> \in strip <=> o = a /\ k \in 1 .. Demand /\ k <= n
    BY <1>2
  <1> HIDE DEF strip
  <1>7. \A o, k : <<o, k>> \in R!Units' <=> <<o, k>> \in R!Units \/ <<o, k>> \in strip
    <2>1. ASSUME NEW k PROVE <<a, k>> \in R!Units' <=> <<a, k>> \in R!Units \/ <<a, k>> \in strip
      BY <1>1, <1>3, <1>4, <1>5, <1>6
    <2>2. ASSUME NEW o, NEW k, o # a PROVE <<o, k>> \in R!Units' <=> <<o, k>> \in R!Units \/ <<o, k>> \in strip
      <3>1. o \in R!Standing => offered'[o] = offered[o]
        BY <1>1, <1>3, <2>2
      <3> QED
        BY <1>3, <1>4, <1>5, <1>6, <2>2, <3>1
    <2> QED
      BY <2>1, <2>2, Zenon
  <1>8. \A u : u \in R!Units' \/ u \in R!Units \/ u \in strip => u = <<u[1], u[2]>>
    BY DEF R!Units, strip
  <1>9. R!Units' = R!Units \cup strip
    BY <1>7, <1>8
  <1>10. R!Units \cap strip = {}
    BY <1>3, <1>5, <1>6, <1>8
  <1>11. IsFiniteSet(strip) /\ Cardinality(strip) = n
    BY <1>2, StripCounts DEF strip
  <1>12. Cardinality(R!Units \cup strip) = Cardinality(R!Units) + n - Cardinality({})
    BY <1>10, <1>11, AllottedCounts, FS_Union
  <1>13. R!Allotted' = Cardinality(R!Units')
    BY OneCardinality, Zenon DEF R!Allotted
  <1> QED
    BY <1>2, <1>9, <1>12, <1>13, AllottedCounts, FS_EmptySet

\* What is refused takes up nothing any more.
LEMMA RefusalAllotted ==
  ASSUME offered \in [Offered -> OfferedRow], NEW a \in Offered, offered' = [offered EXCEPT ![a].state = "REJECTED"]
  PROVE  R!Allotted' \in Nat /\ R!Allotted' <= R!Allotted
  <1>1. \A o \in Offered : /\ offered'[o].vehicles = offered[o].vehicles
                           /\ offered'[o].state = "OFFERED" => offered[o].state = "OFFERED"
    BY DEF OfferedRow
  <1>2. R!Units' \subseteq R!Units
    BY <1>1 DEF R!Units, R!Standing, R!Allocations, Offered
  <1>3. R!Allotted' = Cardinality(R!Units')
    BY OneCardinality, Zenon DEF R!Allotted
  <1> QED
    BY <1>2, <1>3, AllottedCounts, FS_Subset, FS_CardinalityType

LEMMA IdleIsRequest == R!Idle \in RequestRow /\ R!Idle.phase = "idle"
  BY SupplyBounds DEF R!Idle, RequestRow

\* A step of a request that allocates nothing.
LEMMA RequestMoves ==
  ASSUME RInv, NEW r \in RuleRequests, NEW q \in RequestRow, request' = [request EXCEPT ![r] = q],
         UNCHANGED <<rule, envelope, offered>>, executed \subseteq executed', executed' \subseteq Offered,
         \A a \in executed' : offered[a].key \in RuleKeys /\ envelope[offered[a].key].state # "none",
         q.phase # "idle" =>
           /\ q.key \in RuleKeys /\ envelope[q.key].state # "none"
           /\ q.phase \in {"allocated", "recorded"} => q.made \in Offered /\ offered[q.made].key = q.key
           /\ q.phase = "recorded" => q.made \in executed'
  PROVE  RInv'
  <1>1. request \in [RuleRequests -> RequestRow] /\ request'[r] = q
        /\ \A o \in RuleRequests \ {r} : request'[o] = request[o]
    BY DEF RInv, RuleShapes
  <1>2. RuleShapes'
    BY <1>1 DEF RInv, RuleShapes
  <1>3. RequestsAreRecorded'
    BY <1>1 DEF RInv, RequestsAreRecorded
  <1>4. ToldWasMade' /\ ExecutedWasAsked' /\ OneEach'
    BY DEF RInv, ToldWasMade, ExecutedWasAsked, OneEach
  <1>5. R!DemandIsKept'
    BY DEF RInv, R!DemandIsKept, R!Allotted, R!Units, R!Standing
  <1> QED
    BY <1>2, <1>3, <1>4, <1>5 DEF RInv

\* The record of a request is begun or completed.
LEMMA EnvelopeMoves ==
  ASSUME RInv, NEW r \in RuleRequests, NEW q \in RequestRow, request' = [request EXCEPT ![r] = q],
         NEW k \in RuleKeys, NEW e \in [state : {"PENDING", "COMPLETE"}, told : 0 .. MaxAllocations],
         envelope' = [envelope EXCEPT ![k] = e],
         UNCHANGED <<rule, offered, executed>>,
         q.phase = "idle" \/ (q.phase = "begun" /\ q.key = k),
         e.state = "COMPLETE" => e.told \in executed /\ offered[e.told].key = k
  PROVE  RInv'
  <1>1. request \in [RuleRequests -> RequestRow] /\ request'[r] = q
        /\ \A o \in RuleRequests \ {r} : request'[o] = request[o]
    BY DEF RInv, RuleShapes
  <1>2. envelope'[k] = e /\ e.state # "none" /\ \A j \in RuleKeys \ {k} : envelope'[j] = envelope[j]
    BY DEF RInv, RuleShapes
  <1>3. RuleShapes'
    BY <1>1 DEF RInv, RuleShapes
  <1>4. RequestsAreRecorded'
    BY <1>1, <1>2 DEF RInv, RequestsAreRecorded
  <1>5. ToldWasMade' /\ ExecutedWasAsked' /\ OneEach'
    BY <1>2 DEF RInv, ToldWasMade, ExecutedWasAsked, OneEach
  <1>6. R!DemandIsKept'
    BY DEF RInv, R!DemandIsKept, R!Allotted, R!Units, R!Standing
  <1> QED
    BY <1>3, <1>4, <1>5, <1>6 DEF RInv

\* A new offer, under a key that has none.
LEMMA OfferMoves ==
  ASSUME RInv, NEW a \in Offered, NEW new \in OfferedRow, offered' = [offered EXCEPT ![a] = new],
         offered[a].key = "none", offered[a].state # "OFFERED", new.state = "OFFERED", new.key # "none",
         new.key \in RuleKeys => \A o \in Offered : offered[o].key # new.key,
         R!Remaining >= new.vehicles,
         UNCHANGED <<rule, envelope, executed>>,
         request' \in [RuleRequests -> RequestRow],
         \A r \in RuleRequests : request'[r] = request[r]
           \/ /\ request'[r].phase = "allocated" /\ request'[r].key = new.key /\ request'[r].made = a
              /\ new.key \in RuleKeys /\ envelope[new.key].state # "none"
  PROVE  RInv'
  <1>1. offered \in [Offered -> OfferedRow] /\ offered'[a] = new
        /\ \A o \in Offered \ {a} : offered'[o] = offered[o]
    BY DEF RInv, RuleShapes
  <1>2. RuleShapes'
    BY <1>1 DEF RInv, RuleShapes
  <1>3. \A r \in RuleRequests : request[r].phase \in {"allocated", "recorded"} => request[r].made # a
    BY SupplyBounds DEF RInv, RequestsAreRecorded
  <1>4. a \notin executed
    BY SupplyBounds DEF RInv, ExecutedWasAsked
  <1>5. RequestsAreRecorded'
    BY <1>1, <1>3 DEF RInv, RequestsAreRecorded
  <1>6. ToldWasMade' /\ ExecutedWasAsked'
    BY <1>1, <1>4 DEF RInv, RuleShapes, ToldWasMade, ExecutedWasAsked
  <1>7. OneEach'
    BY <1>1 DEF RInv, OneEach
  <1>8. R!DemandIsKept'
    <2>1. R!Allotted' = R!Allotted + new.vehicles
      BY <1>1, OfferAllotted
    <2>2. R!Remaining = Demand - R!Allotted /\ new.vehicles \in Nat
      BY DEF R!Remaining, OfferedRow
    <2> QED
      BY <2>1, <2>2, AllottedCounts, SupplyBounds DEF R!DemandIsKept
  <1> QED
    BY <1>2, <1>5, <1>6, <1>7, <1>8 DEF RInv

LEMMA CreateStep ==
  ASSUME RInv, NEW r \in RuleRequests, R!CreateAllocation(r)
  PROVE  RInv'
  <1> DEFINE q == request[r]
  <1>1. /\ offered \in [Offered -> OfferedRow] /\ request \in [RuleRequests -> RequestRow] /\ q \in RequestRow
        /\ q.phase = "proposed" /\ q.key \in RuleKeys /\ envelope[q.key].state # "none"
    BY DEF R!CreateAllocation, R!At, RInv, RuleShapes, RequestsAreRecorded
  <1>2. PICK a \in Offered :
          /\ IF R!Earlier(q.key) # {}
               THEN /\ a \in R!Earlier(q.key)
                    /\ R!Offer(q.key, q) = [offered[a] EXCEPT !.state = "OFFERED"]
                    /\ UNCHANGED offered
               ELSE /\ offered[a] = R!Unused /\ R!Remaining >= q.vehicles
                    /\ offered' = [offered EXCEPT ![a] = R!Offer(q.key, q)]
          /\ R!Goes(r, [R!Idle EXCEPT !.phase = "allocated", !.key = q.key, !.made = a])
    BY Zenon DEF R!CreateAllocation, R!Allocations, Offered
  <1>u. UNCHANGED <<rule, envelope, executed>>
    BY DEF R!CreateAllocation
  <1> DEFINE new == [R!Idle EXCEPT !.phase = "allocated", !.key = q.key, !.made = a]
  <1>4. request' = [request EXCEPT ![r] = new]
    BY <1>2, Zenon DEF R!Goes
  <1>3. new \in RequestRow /\ new.phase = "allocated" /\ new.key = q.key /\ new.made = a
    <2> DEFINE y == [R!Idle EXCEPT !.phase = "allocated"]
               z == [y EXCEPT !.key = q.key]
    <2>1. new = [z EXCEPT !.made = a]
      OBVIOUS
    <2>2. y \in RequestRow /\ y.phase = "allocated"
      BY IdleIsRequest DEF RequestRow
    <2> HIDE DEF new, y
    <2>3. z \in RequestRow /\ z.phase = "allocated" /\ z.key = q.key
      BY <1>1, <2>2 DEF RequestRow
    <2> HIDE DEF z
    <2> QED
      BY <2>1, <2>3, SupplyBounds DEF RequestRow, Offered
  <1> HIDE DEF new
  <1>5. CASE R!Earlier(q.key) # {}
    <2>1. offered[a].key = q.key /\ UNCHANGED offered
      BY <1>2, <1>5 DEF R!Earlier, R!Made
    <2>2. \A o \in executed : offered[o].key \in RuleKeys /\ envelope[offered[o].key].state # "none"
      BY DEF RInv, ExecutedWasAsked
    <2>3. executed \subseteq Offered
      BY DEF RInv, RuleShapes
    <2> HIDE DEF q
    <2> QED
      BY <1>1, <1>u, <1>3, <1>4, <2>1, <2>2, <2>3, RequestMoves
  <1>6. CASE R!Earlier(q.key) = {}
    <2> DEFINE offer == R!Offer(q.key, q)
    <2>1. offer \in OfferedRow /\ offer.state = "OFFERED" /\ offer.key = q.key /\ offer.vehicles = q.vehicles
      BY <1>1 DEF R!Offer, OfferedRow, RequestRow
    <2>2. /\ offered[a].key = "none" /\ offered[a].state # "OFFERED"
          /\ R!Remaining >= q.vehicles /\ offered' = [offered EXCEPT ![a] = offer]
      BY <1>2, <1>6 DEF R!Unused
    <2>3. \A o \in Offered : offered[o].key # q.key
      BY <1>6 DEF R!Earlier, R!Made, R!Allocations, Offered
    <2>4. /\ request' \in [RuleRequests -> RequestRow]
          /\ \A o \in RuleRequests : o # r => request'[o] = request[o]
          /\ request'[r].phase = "allocated" /\ request'[r].key = q.key /\ request'[r].made = a
      BY <1>1, <1>3, <1>4
    <2>5. q.key # "none"
      BY <1>1, SupplyBounds
    <2> HIDE DEF offer, q
    <2> QED
      BY <1>1, <1>u, <1>3, <2>1, <2>2, <2>3, <2>4, <2>5, OfferMoves
  <1> QED
    BY <1>5, <1>6

LEMMA HandStep ==
  ASSUME RInv, NEW vendor \in Vendors, NEW vehicles \in 1 .. Demand, R!AllocateByHand(vendor, vehicles)
  PROVE  RInv'
  <1> DEFINE new == R!Offer("manual", [[R!Idle EXCEPT !.vendor = vendor] EXCEPT !.vehicles = vehicles])
  <1>1. PICK a \in Offered : /\ offered[a] = R!Unused /\ R!Remaining >= vehicles
                             /\ offered' = [offered EXCEPT ![a] = new]
                             /\ UNCHANGED <<rule, envelope, executed, request>>
    BY DEF R!AllocateByHand, R!Allocations, Offered
  <1>2. new \in OfferedRow /\ new.state = "OFFERED" /\ new.key = "manual" /\ new.vehicles = vehicles
    BY SupplyBounds DEF R!Offer, R!Idle, OfferedRow
  <1> HIDE DEF new
  <1>3. offered[a].key = "none" /\ offered[a].state # "OFFERED"
    BY <1>1 DEF R!Unused
  <1>4. request' \in [RuleRequests -> RequestRow] /\ \A r \in RuleRequests : request'[r] = request[r]
    BY <1>1 DEF RInv, RuleShapes
  <1>5. new.key \notin RuleKeys
    BY <1>2, SupplyBounds
  <1> QED
    BY <1>1, <1>2, <1>3, <1>4, <1>5, OfferMoves

LEMMA RefuseStep ==
  ASSUME RInv, NEW a \in Offered, R!Refuse(a)
  PROVE  RInv'
  <1>1. /\ offered' = [offered EXCEPT ![a].state = "REJECTED"] /\ UNCHANGED <<rule, envelope, executed, request>>
        /\ offered \in [Offered -> OfferedRow]
    BY DEF R!Refuse, RInv, RuleShapes
  <1>2. offered' \in [Offered -> OfferedRow] /\ \A o \in Offered : offered'[o].key = offered[o].key
    BY <1>1 DEF OfferedRow
  <1>3. RuleShapes'
    BY <1>1, <1>2 DEF RInv, RuleShapes
  <1>4. RequestsAreRecorded' /\ ToldWasMade' /\ ExecutedWasAsked' /\ OneEach'
    BY <1>1, <1>2 DEF RInv, RuleShapes, RequestsAreRecorded, ToldWasMade, ExecutedWasAsked, OneEach
  <1>5. R!DemandIsKept'
    <2>1. R!Allotted' <= R!Allotted /\ R!Allotted \in Nat /\ R!Allotted' \in Nat
      BY <1>1, RefusalAllotted, AllottedCounts
    <2> QED
      BY <2>1, SupplyBounds DEF RInv, R!DemandIsKept
  <1> QED
    BY <1>3, <1>4, <1>5 DEF RInv

\* A request that reads, records or stops.
LEMMA ServeStep ==
  ASSUME RInv, NEW r \in RuleRequests,
         \/ R!ExecutionRule(r) \/ R!RecordExecution(r) \/ R!Stop(r)
         \/ \E vendor \in Vendors, available \in 1 .. Demand : R!PreviewRule(r, vendor, available)
  PROVE  RInv'
  <1> DEFINE q == request[r]
  <1>1. request \in [RuleRequests -> RequestRow] /\ q \in RequestRow
    BY DEF RInv, RuleShapes
  <1>2. /\ q.phase # "idle" => q.key \in RuleKeys /\ envelope[q.key].state # "none"
        /\ q.phase \in {"allocated", "recorded"} => q.made \in Offered /\ offered[q.made].key = q.key
    BY DEF RInv, RequestsAreRecorded
  <1>3. executed \subseteq Offered /\ \A a \in executed : offered[a].key \in RuleKeys /\ envelope[offered[a].key].state # "none"
    BY DEF RInv, RuleShapes, ExecutedWasAsked
  <1>4. CASE R!ExecutionRule(r)
    <2> DEFINE y == [q EXCEPT !.phase = "ruled"]
               z == [y EXCEPT !.max = rule.max]
               new == [z EXCEPT !.terms = rule.version]
    <2>1. /\ request' = [request EXCEPT ![r] = new] /\ UNCHANGED <<rule, envelope, offered, executed>>
          /\ q.phase = "begun"
      BY <1>4 DEF R!ExecutionRule, R!Goes, R!At
    <2>2. rule.max \in 0 .. Demand /\ rule.version \in 0 .. MaxEdits
      BY SupplyBounds DEF RInv, RuleShapes
    <2> HIDE DEF q
    <2>3. y \in RequestRow /\ y.phase = "ruled" /\ y.key = q.key
      BY <1>1 DEF RequestRow
    <2> HIDE DEF y
    <2>4. z \in RequestRow /\ z.phase = "ruled" /\ z.key = q.key
      BY <2>2, <2>3 DEF RequestRow
    <2> HIDE DEF z
    <2>5. new \in RequestRow /\ new.phase = "ruled" /\ new.key = q.key
      BY <2>2, <2>4 DEF RequestRow
    <2> HIDE DEF new
    <2> QED
      BY <1>2, <1>3, <2>1, <2>5, RequestMoves
  <1>5. ASSUME NEW vendor \in Vendors, NEW available \in 1 .. Demand, R!PreviewRule(r, vendor, available)
        PROVE  RInv'
    <2> DEFINE few == R!Min({R!Remaining, q.max, available})
               y == [q EXCEPT !.phase = "proposed"]
               z == [y EXCEPT !.vendor = vendor]
               new == [z EXCEPT !.vehicles = few]
    <2>1. /\ request' = [request EXCEPT ![r] = new] /\ UNCHANGED <<rule, envelope, offered, executed>>
          /\ q.phase = "ruled" /\ R!Remaining >= 1
      BY <1>5, Zenon DEF R!PreviewRule, R!Goes, R!At
    <2>2. few \in 0 .. Demand
      <3>1. R!Remaining \in Nat /\ q.max \in Nat /\ available \in Nat /\ available <= Demand
        BY <1>1, <2>1, AllottedCounts, SupplyBounds DEF R!Remaining, RequestRow
      <3>2. \E x \in {R!Remaining, q.max, available} : \A y1 \in {R!Remaining, q.max, available} : x <= y1
        BY <3>1
      <3>3. few \in {R!Remaining, q.max, available} /\ few <= available
        <4>1. few = CHOOSE x \in {R!Remaining, q.max, available} :
                      \A y1 \in {R!Remaining, q.max, available} : x <= y1
          BY DEF R!Min
        <4> QED
          BY <3>2, <4>1
      <3> QED
        BY <3>1, <3>3, SupplyBounds
    <2> HIDE DEF q, few
    <2>3. y \in RequestRow /\ y.phase = "proposed" /\ y.key = q.key
      BY <1>1 DEF RequestRow
    <2> HIDE DEF y
    <2>4. z \in RequestRow /\ z.phase = "proposed" /\ z.key = q.key
      BY <2>3 DEF RequestRow
    <2> HIDE DEF z
    <2>5. new \in RequestRow /\ new.phase = "proposed" /\ new.key = q.key
      BY <2>2, <2>4 DEF RequestRow
    <2> HIDE DEF new
    <2> QED
      BY <1>2, <1>3, <2>1, <2>5, RequestMoves
  <1>6. CASE R!RecordExecution(r)
    <2> DEFINE new == [q EXCEPT !.phase = "recorded"]
    <2>1. /\ request' = [request EXCEPT ![r] = new] /\ UNCHANGED <<rule, envelope, offered>>
          /\ executed' = executed \cup {q.made} /\ q.phase = "allocated"
      BY <1>6 DEF R!RecordExecution, R!Goes, R!At
    <2> HIDE DEF q
    <2>2. new \in RequestRow /\ new.phase = "recorded" /\ new.key = q.key /\ new.made = q.made
      BY <1>1 DEF RequestRow
    <2> HIDE DEF new
    <2> QED
      BY <1>2, <1>3, <2>1, <2>2, RequestMoves
  <1>7. CASE R!Stop(r)
    <2>1. request' = [request EXCEPT ![r] = R!Idle] /\ UNCHANGED <<rule, envelope, offered, executed>>
      BY <1>7 DEF R!Stop, R!Goes
    <2> QED
      BY <1>3, <2>1, IdleIsRequest, RequestMoves
  <1> QED
    BY <1>4, <1>5, <1>6, <1>7

LEMMA BeginExecuteStep ==
  ASSUME RInv, NEW r \in RuleRequests, NEW k \in RuleKeys, R!BeginExecute(r, k)
  PROVE  RInv'
  <1> DEFINE y == [R!Idle EXCEPT !.phase = "begun"]
             new == [y EXCEPT !.key = k]
             e == [envelope[k] EXCEPT !.state = "PENDING"]
  <1>1. /\ request' = [request EXCEPT ![r] = new] /\ envelope' = [envelope EXCEPT ![k] = e]
        /\ UNCHANGED <<rule, offered, executed>>
    BY DEF R!BeginExecute, R!Goes
  <1>2. envelope[k] \in [state : {"none", "PENDING", "COMPLETE"}, told : 0 .. MaxAllocations]
    BY DEF RInv, RuleShapes
  <1>3. e \in [state : {"PENDING", "COMPLETE"}, told : 0 .. MaxAllocations] /\ e.state = "PENDING"
    BY <1>2
  <1>4. y \in RequestRow /\ y.phase = "begun"
    BY IdleIsRequest DEF RequestRow
  <1> HIDE DEF y, e
  <1>5. new \in RequestRow /\ new.phase = "begun" /\ new.key = k
    BY <1>4 DEF RequestRow
  <1> HIDE DEF new
  <1> QED
    BY <1>1, <1>3, <1>5, EnvelopeMoves

LEMMA CompleteStep ==
  ASSUME RInv, NEW r \in RuleRequests, R!Complete(r)
  PROVE  RInv'
  <1> DEFINE e == [state |-> "COMPLETE", told |-> request[r].made]
  <1>1. /\ request' = [request EXCEPT ![r] = R!Idle] /\ envelope' = [envelope EXCEPT ![request[r].key] = e]
        /\ UNCHANGED <<rule, offered, executed>> /\ request[r].phase = "recorded"
    BY DEF R!Complete, R!Goes, R!At
  <1>2. request[r].key \in RuleKeys /\ request[r].made \in executed
        /\ offered[request[r].made].key = request[r].key
    BY <1>1 DEF RInv, RequestsAreRecorded
  <1>3. /\ e \in [state : {"PENDING", "COMPLETE"}, told : 0 .. MaxAllocations]
        /\ e.told = request[r].made
    <2>1. request[r].made \in 1 .. MaxAllocations
      BY <1>2 DEF RInv, RuleShapes, Offered
    <2> QED
      BY <2>1, SupplyBounds
  <1> HIDE DEF e
  <1> QED
    BY <1>1, <1>2, <1>3, IdleIsRequest, EnvelopeMoves

LEMMA SaveRuleStep ==
  ASSUME RInv, NEW active, NEW vendor, NEW max \in 1 .. Demand, R!SaveRule(active, vendor, max)
  PROVE  RInv'
  <1>1. /\ rule'.version = rule.version + 1 /\ rule.version < MaxEdits /\ rule'.max = max
        /\ UNCHANGED <<envelope, offered, executed, request>>
    BY DEF R!SaveRule
  <1>2. RuleShapes'
    BY <1>1, SupplyBounds DEF RInv, RuleShapes
  <1>3. RequestsAreRecorded' /\ ToldWasMade' /\ ExecutedWasAsked' /\ OneEach' /\ R!DemandIsKept'
    BY <1>1 DEF RInv, RequestsAreRecorded, ToldWasMade, ExecutedWasAsked, OneEach, R!DemandIsKept, R!Allotted,
           R!Units, R!Standing
  <1> QED
    BY <1>2, <1>3 DEF RInv

LEMMA RulesStep == RInv /\ [R!Next]_rules => RInv'
  <1> SUFFICES ASSUME RInv, [R!Next]_rules PROVE RInv'
    OBVIOUS
  <1>1. CASE UNCHANGED rules
    BY <1>1 DEF rules, RInv, RuleShapes, RequestsAreRecorded, ToldWasMade, ExecutedWasAsked, OneEach,
                R!DemandIsKept, R!Allotted, R!Units, R!Standing
  <1>2. ASSUME NEW r \in RuleRequests,
               \/ \E k \in RuleKeys : R!BeginExecute(r, k)
               \/ R!ExecutionRule(r)
               \/ \E vendor \in Vendors, available \in 1 .. Demand : R!PreviewRule(r, vendor, available)
               \/ R!CreateAllocation(r) \/ R!RecordExecution(r) \/ R!Complete(r) \/ R!Stop(r)
        PROVE  RInv'
    BY <1>2, BeginExecuteStep, ServeStep, CreateStep, CompleteStep
  <1>3. ASSUME NEW active, NEW vendor, NEW max \in 1 .. Demand, R!SaveRule(active, vendor, max)
        PROVE  RInv'
    BY <1>3, SaveRuleStep
  <1>4. ASSUME NEW vendor \in Vendors, NEW vehicles \in 1 .. Demand, R!AllocateByHand(vendor, vehicles)
        PROVE  RInv'
    BY <1>4, HandStep
  <1>5. ASSUME NEW a \in 1 .. MaxAllocations, R!Refuse(a) PROVE RInv'
    BY <1>5, RefuseStep DEF Offered
  <1> QED
    BY <1>1, <1>2, <1>3, <1>4, <1>5 DEF R!Next, R!Allocations

LEMMA RulesInit == R!Init => RInv
  <1> SUFFICES ASSUME R!Init PROVE RInv
    OBVIOUS
  <1>1. R!Unused \in OfferedRow /\ R!Unused.key = "none" /\ R!Unused.state = "none"
    BY SupplyBounds DEF R!Unused, OfferedRow
  <1>2. RuleShapes
    BY <1>1, IdleIsRequest, SupplyBounds DEF R!Init, RuleShapes, R!Allocations, Offered
  <1>3. \A r \in RuleRequests : request[r].phase = "idle"
    BY IdleIsRequest DEF R!Init
  <1>4. \A k \in RuleKeys : envelope[k].state = "none"
    BY DEF R!Init
  <1>5. \A a \in Offered : offered[a].key = "none" /\ offered[a].state = "none"
    BY <1>1 DEF R!Init, R!Allocations, Offered
  <1>6. RequestsAreRecorded /\ ToldWasMade /\ ExecutedWasAsked /\ OneEach
    BY <1>3, <1>4, <1>5, SupplyBounds DEF R!Init, RequestsAreRecorded, ToldWasMade, ExecutedWasAsked, OneEach
  <1>7. R!DemandIsKept
    <2>1. R!Units = {}
      BY <1>5 DEF R!Units, R!Standing, R!Allocations, Offered
    <2> QED
      BY <2>1, AllottedCounts, FS_EmptySet, SupplyBounds DEF R!DemandIsKept
  <1> QED
    BY <1>2, <1>6, <1>7 DEF RInv

LEMMA RulesRunOnce ==
  ASSUME RInv
  PROVE  R!TypeOK /\ R!AllocatedOnce /\ R!ToldIsDone /\ R!DemandIsKept
  <1>1. R!TypeOK
    BY DEF RInv, RuleShapes, R!TypeOK, R!Allocations, Offered, RequestRow
  <1>2. R!AllocatedOnce
    <2> SUFFICES ASSUME NEW k \in RuleKeys PROVE R!Cardinality(R!Made(k)) <= 1
      BY DEF R!AllocatedOnce
    <2>1. \A a, o \in R!Made(k) : a = o
      BY DEF RInv, OneEach, R!Made, R!Allocations, Offered
    <2>2. CASE R!Made(k) = {}
      BY <2>2, FS_EmptySet, OneCardinality
    <2>3. ASSUME NEW a \in R!Made(k) PROVE Cardinality(R!Made(k)) <= 1
      <3>1. R!Made(k) = {a}
        BY <2>1, <2>3
      <3> QED
        BY <3>1, FS_Singleton
    <2> QED
      BY <2>2, <2>3, OneCardinality
  <1>3. R!ToldIsDone
    BY DEF RInv, RuleShapes, ToldWasMade, ExecutedWasAsked, R!ToldIsDone, R!Made, R!Allocations, Offered
  <1> QED
    BY <1>1, <1>2, <1>3 DEF RInv

-----------------------------------------------------------------------------
(* Idempotency                                                             *)

KeyPhases == {"idle", "begun", "locked", "working", "worked"}
KeyPost == [phase : KeyPhases, tenant : Tenants \cup {Anybody}, key : Keys \cup {0},
         input : Inputs \cup {0}, inserted : {"yes", "no"}]
KeyRequest == [tenant : Tenants, key : Keys, input : Inputs]
KeyRecord == [hash : [tenant : Tenants \cup {Anybody}, key : Keys \cup {0}],
           input : [tenant : Tenants \cup {Anybody}, input : Inputs \cup {0}],
           tenant : Tenants, row : Nat]

KeyShapes ==
  /\ helper \in K!Helpers
  /\ row \in Seq(KeyRequest)
  /\ record \in SUBSET KeyRecord
  /\ post \in [Posts -> KeyPost]
  /\ \A p \in Posts : post[p].phase # "idle" =>
       post[p].tenant \in Tenants /\ post[p].key \in Keys /\ post[p].input \in Inputs

\* A record is of the row it names, a row has a record, and a hash has one.
Recorded ==
  /\ \A r \in record : r.row \in 1 .. Len(row) /\ r.hash = K!HashOf(row[r.row])
                       /\ r.input = K!InputOf(row[r.row]) /\ r.tenant = row[r.row].tenant
  /\ \A n \in 1 .. Len(row) : \E r \in record : r.row = n
  /\ \A r, s \in record : r.hash = s.hash => r = s

\* Locks exclude each other.
Exclusive ==
  \A p, o \in Posts : p # o /\ K!Holds(p) /\ K!Holds(o) => K!LockOf(p) # K!LockOf(o)

\* What is inserted and not committed is alone, in the table and beside it.
Alone ==
  /\ \A p \in Posts : post[p].inserted = "yes" => post[p].phase \in {"working", "worked"} /\ K!InTheWay(p) = {}
  /\ \A p, o \in Posts : p # o /\ post[p].inserted = "yes" /\ post[o].inserted = "yes" =>
       K!HashOf(post[p]) # K!HashOf(post[o])

\* Nobody works who could have been answered.
Unseen == \A p \in Posts : post[p].phase \in {"working", "worked"} => K!Seen(p) = {}

Answered ==
  \A a \in answers : a.row \in 1 .. Len(row)
                     /\ row[a.row] = [tenant |-> a.tenant, key |-> a.key, input |-> a.input]

KInv == KeyShapes /\ Recorded /\ Exclusive /\ Alone /\ Unseen /\ Answered /\ K!RepetitionsAreAnswered

-----------------------------------------------------------------------------
(* What the helpers have in common                                         *)

Holding == {"locked", "working", "worked"}
LockFor(q) == [lock |-> IF helper.lock = "key" THEN K!HashOf(q) ELSE [tenant |-> q.tenant, key |-> 0]]
Serving(q) == q.phase # "idle" => q.tenant \in Tenants /\ q.key \in Keys /\ q.input \in Inputs

LEMMA HelpersDiffer ==
  ASSUME helper \in K!Helpers
  PROVE  /\ helper.hash \in {"tenant", "key"} /\ helper.sees \in {"tenant", "all"}
         /\ helper.lock = "key" \/ helper.hash = "tenant"
  <1>1. K!Canonical.hash = "tenant" /\ K!Canonical.lock = "key" /\ K!Canonical.sees = "tenant"
    BY DEF K!Canonical
  <1>2. K!Access.hash = "key" /\ K!Access.lock = "key" /\ K!Access.sees = "tenant"
    BY DEF K!Access, K!Canonical
  <1>3. K!Console.hash = "key" /\ K!Console.lock = "key" /\ K!Console.sees = "all"
    BY DEF K!Console, K!Access, K!Canonical
  <1>4. K!Bulk.hash = "tenant" /\ K!Bulk.lock = "tenant" /\ K!Bulk.sees = "tenant"
    BY DEF K!Bulk, K!Canonical
  <1>5. helper \in {K!Canonical, K!Access, K!Console, K!Bulk}
    BY DEF K!Helpers, K!Advanced, K!Organization, K!Operations, K!Finance, K!Governance, K!Calls, K!Alerts,
           K!Whatsapp, K!Masters, K!Probes, K!Provisioning
  <1> QED
    BY <1>1, <1>2, <1>3, <1>4, <1>5

\* Requests of one hash compete for one lock.
LEMMA EqualHashes ==
  ASSUME helper \in K!Helpers, NEW q, NEW r, K!HashOf(q) = K!HashOf(r)
  PROVE  LockFor(q) = LockFor(r)
  <1>1. CASE helper.lock = "key"
    BY <1>1 DEF LockFor
  <1>2. CASE helper.lock # "key"
    <2>1. helper.hash = "tenant"
      BY <1>2, HelpersDiffer
    <2>2. q.tenant = r.tenant
      BY <2>1 DEF K!HashOf
    <2> QED
      BY <1>2, <2>2 DEF LockFor
  <1> QED
    BY <1>1, <1>2

LEMMA Hashes ==
  ASSUME NEW q, q.tenant \in Tenants, q.key \in Keys
  PROVE  K!HashOf(q) \in [tenant : Tenants \cup {Anybody}, key : Keys \cup {0}]
  BY DEF K!HashOf

LEMMA IdleIsPost == K!Idle \in KeyPost
  BY DEF K!Idle, KeyPost, KeyPhases

LEMMA KeysInit == K!Init => KInv
  <1> SUFFICES ASSUME K!Init PROVE KInv
    OBVIOUS
  <1>1. KeyShapes
    BY IdleIsPost DEF K!Init, KeyShapes, K!Idle
  <1>2. Recorded /\ Answered /\ K!RepetitionsAreAnswered
    BY DEF K!Init, Recorded, Answered, K!RepetitionsAreAnswered
  <1>3. Exclusive /\ Alone /\ Unseen
    BY DEF K!Init, Exclusive, Alone, Unseen, K!Holds, K!Idle
  <1> QED
    BY <1>1, <1>2, <1>3 DEF KInv

-----------------------------------------------------------------------------
(* A request moves on, and nothing is committed                            *)

LEMMA Moving ==
  ASSUME KInv, NEW p \in Posts, NEW q \in KeyPost, K!Moves(p, q), UNCHANGED <<helper, record, row>>,
         Serving(q),
         q.phase \in Holding => \A o \in Posts \ {p} : K!Holds(o) => K!LockOf(o) # LockFor(q),
         q.inserted = "yes" => /\ q.phase \in {"working", "worked"}
                               /\ \A r \in record : r.hash # K!HashOf(q)
                               /\ \A o \in Posts \ {p} : post[o].inserted = "yes" => K!HashOf(post[o]) # K!HashOf(q),
         q.phase \in {"working", "worked"} =>
           \A r \in record : r.hash = K!HashOf(q) => helper.sees # "all" /\ r.tenant # q.tenant
  PROVE  KeyShapes' /\ Recorded' /\ Exclusive' /\ Alone' /\ Unseen'
  <1>0. post \in [Posts -> KeyPost]
    BY DEF KInv, KeyShapes
  <1>1. post'[p] = q /\ \A o \in Posts \ {p} : post'[o] = post[o]
    BY <1>0 DEF K!Moves
  <1>2. KeyShapes'
    <2>1. post' \in [Posts -> KeyPost]
      BY <1>0 DEF K!Moves
    <2>2. \A o \in Posts : Serving(post'[o])
      BY <1>1 DEF KInv, KeyShapes, Serving
    <2> QED
      BY <2>1, <2>2 DEF KInv, KeyShapes, Serving
  <1>3. Recorded'
    BY DEF KInv, Recorded, K!HashOf, K!InputOf
  <1>4. \A o \in Posts : K!LockOf(o)' = LockFor(post'[o])
    BY DEF K!LockOf, LockFor, K!HashOf
  <1>5. \A o \in Posts : K!LockOf(o) = LockFor(post[o])
    BY DEF K!LockOf, LockFor
  <1>6. \A o \in Posts : K!HashOf(post[o])' = K!HashOf(post'[o])
    BY DEF K!HashOf
  <1>7. Exclusive'
    BY <1>1, <1>4, <1>5 DEF KInv, Exclusive, K!Holds, Holding
  <1>8. Alone'
    BY <1>1, <1>6 DEF KInv, Alone, K!InTheWay
  <1>9. Unseen'
    BY <1>1, <1>6 DEF KInv, Unseen, K!Seen
  <1> QED
    BY <1>2, <1>3, <1>7, <1>8, <1>9

\* A request that ends without a commit holds nothing any more.
LEMMA Ending ==
  ASSUME KInv, NEW p \in Posts, K!Moves(p, K!Idle), UNCHANGED <<helper, record, row>>
  PROVE  KeyShapes' /\ Recorded' /\ Exclusive' /\ Alone' /\ Unseen'
  <1>1. /\ Serving(K!Idle) /\ K!Idle.phase \notin Holding
        /\ K!Idle.inserted # "yes" /\ K!Idle.phase \notin {"working", "worked"}
    BY DEF Serving, K!Idle, Holding
  <1> QED
    BY <1>1, IdleIsPost, Moving

\* A request that keeps its lock, its tenant and its key.
LEMMA Advancing ==
  ASSUME KInv, NEW p \in Posts, NEW q \in KeyPost, K!Moves(p, q), UNCHANGED <<helper, record, row>>,
         q.tenant = post[p].tenant, q.key = post[p].key, q.input = post[p].input,
         q.phase \in {"working", "worked"}, K!Holds(p), K!Seen(p) = {},
         q.inserted = "yes" => \/ post[p].inserted = "yes"
                               \/ K!InTheWay(p) = {} /\ K!Awaited(p) = {}
  PROVE  KeyShapes' /\ Recorded' /\ Exclusive' /\ Alone' /\ Unseen'
  <1>1. post[p] \in KeyPost /\ post[p].phase # "idle"
    BY DEF KInv, KeyShapes, K!Holds
  <1>3. Serving(q)
    BY <1>1 DEF Serving, KInv, KeyShapes
  <1>4. K!HashOf(q) = K!HashOf(post[p]) /\ LockFor(q) = K!LockOf(p)
    BY DEF K!HashOf, LockFor, K!LockOf
  <1>5. q.phase \in Holding => \A o \in Posts \ {p} : K!Holds(o) => K!LockOf(o) # LockFor(q)
    BY <1>4 DEF KInv, Exclusive
  <1>6. q.inserted = "yes" =>
          /\ q.phase \in {"working", "worked"}
          /\ \A r \in record : r.hash # K!HashOf(q)
          /\ \A o \in Posts \ {p} : post[o].inserted = "yes" => K!HashOf(post[o]) # K!HashOf(q)
    BY <1>4 DEF KInv, Alone, K!InTheWay, K!Awaited
  <1>7. \A r \in record : r.hash = K!HashOf(q) => helper.sees # "all" /\ r.tenant # q.tenant
    BY <1>4 DEF K!Seen
  <1> QED
    BY <1>3, <1>5, <1>6, <1>7, Moving

\* What is answered stays true while no row is added.
LEMMA AnsweredStays ==
  ASSUME Answered, UNCHANGED <<row, answers>>
  PROVE  Answered'
  <1>1. row' = row /\ answers' = answers
    OBVIOUS
  <1> QED
    BY <1>1, Zenon DEF Answered

LEMMA AnsweredGrows ==
  ASSUME Answered, NEW a, answers' = answers \cup {a}, UNCHANGED row,
         a.row \in 1 .. Len(row), row[a.row] = [tenant |-> a.tenant, key |-> a.key, input |-> a.input]
  PROVE  Answered'
  <1>1. ASSUME NEW b \in answers'
        PROVE  b.row \in 1 .. Len(row) /\ row[b.row] = [tenant |-> b.tenant, key |-> b.key, input |-> b.input]
    <2>1. CASE b = a
      BY <2>1, Zenon
    <2>2. CASE b \in answers
      BY <2>2, Zenon DEF Answered
    <2> QED
      BY <2>1, <2>2
  <1>2. row' = row
    OBVIOUS
  <1> QED
    BY <1>1, <1>2, Zenon DEF Answered

LEMMA ClashesStay ==
  ASSUME K!RepetitionsAreAnswered, UNCHANGED <<helper, clashes>>
  PROVE  K!RepetitionsAreAnswered'
  BY DEF K!RepetitionsAreAnswered

-----------------------------------------------------------------------------
(* One step per action                                                     *)

LEMMA BeginStep ==
  ASSUME KInv, NEW p \in Posts, NEW tenant \in Tenants, NEW key \in Keys, NEW input \in Inputs,
         K!Begin(p, tenant, key, input)
  PROVE  KInv'
  <1> DEFINE q == [K!Idle EXCEPT !.phase = "begun", !.tenant = tenant, !.key = key, !.input = input]
  <1>1. /\ q \in KeyPost /\ Serving(q) /\ q.phase = "begun" /\ q.inserted = "no"
    BY DEF K!Idle, KeyPost, KeyPhases, Serving
  <1>2. K!Moves(p, q) /\ UNCHANGED <<helper, record, row>>
    BY DEF K!Begin
  <1> HIDE DEF q
  <1>3. q.phase \notin Holding
    BY <1>1 DEF Holding
  <1>4. KeyShapes' /\ Recorded' /\ Exclusive' /\ Alone' /\ Unseen'
    BY <1>1, <1>2, <1>3, Moving
  <1> QED
    BY <1>4, AnsweredStays, ClashesStay DEF KInv, K!Begin

LEMMA LockStep ==
  ASSUME KInv, NEW p \in Posts, K!Lock(p)
  PROVE  KInv'
  <1> DEFINE q == [post[p] EXCEPT !.phase = "locked"]
  <1>1. post[p] \in KeyPost /\ post[p].phase = "begun" /\ post[p].inserted # "yes"
    BY DEF K!Lock, KInv, KeyShapes, Alone
  <1>2. /\ q \in KeyPost /\ Serving(q) /\ q.phase = "locked" /\ q.inserted # "yes"
        /\ q.tenant = post[p].tenant /\ q.key = post[p].key
    BY <1>1 DEF KeyPost, KeyPhases, Serving, KInv, KeyShapes
  <1>3. K!Moves(p, q) /\ UNCHANGED <<helper, record, row>>
    BY DEF K!Lock, K!Enters
  <1>4. LockFor(q) = K!LockOf(p)
    BY <1>2 DEF K!HashOf, LockFor, K!LockOf
  <1>5. \A o \in Posts \ {p} : K!Holds(o) => K!LockOf(o) # LockFor(q)
    BY <1>4 DEF K!Lock
  <1> HIDE DEF q
  <1>6. KeyShapes' /\ Recorded' /\ Exclusive' /\ Alone' /\ Unseen'
    BY <1>2, <1>3, <1>5, Moving
  <1> QED
    BY <1>6, AnsweredStays, ClashesStay DEF KInv, K!Lock

\* Who is answered from a record asked for what its row was made for.
LEMMA ReplayStep ==
  ASSUME KInv, NEW p \in Posts, K!Replay(p)
  PROVE  KInv'
  <1>1. KeyShapes' /\ Recorded' /\ Exclusive' /\ Alone' /\ Unseen'
    BY Ending DEF K!Replay
  <1>2. K!RepetitionsAreAnswered'
    BY ClashesStay DEF KInv, K!Replay
  <1>3. PICK r \in K!Seen(p) :
          answers' = IF r.input = K!InputOf(post[p]) THEN answers \cup {K!Answer(p, r.row)} ELSE answers
    BY DEF K!Replay
  <1>4. CASE r.input = K!InputOf(post[p])
    <2>1. /\ r \in record /\ r.hash = K!HashOf(post[p])
          /\ helper.sees = "all" \/ r.tenant = post[p].tenant
      BY <1>3 DEF K!Seen
    <2>2. /\ r.row \in 1 .. Len(row) /\ r.hash = K!HashOf(row[r.row])
          /\ r.input = K!InputOf(row[r.row]) /\ r.tenant = row[r.row].tenant
      BY <2>1 DEF KInv, Recorded
    <2>3. row[r.row].tenant = post[p].tenant
      BY <1>4, <2>1, <2>2 DEF K!InputOf
    <2>4. row[r.row].key = post[p].key
      BY <2>1, <2>2 DEF K!HashOf
    <2>5. row[r.row].input = post[p].input
      BY <1>4, <2>2 DEF K!InputOf
    <2>6. row[r.row] \in KeyRequest
      BY <2>2 DEF KInv, KeyShapes
    <2>7. row[r.row] = [tenant |-> post[p].tenant, key |-> post[p].key, input |-> post[p].input]
      BY <2>3, <2>4, <2>5, <2>6 DEF KeyRequest
    <2>8. answers' = answers \cup {K!Answer(p, r.row)} /\ UNCHANGED row
      BY <1>3, <1>4 DEF K!Replay
    <2>9. /\ K!Answer(p, r.row).row = r.row /\ K!Answer(p, r.row).tenant = post[p].tenant
          /\ K!Answer(p, r.row).key = post[p].key /\ K!Answer(p, r.row).input = post[p].input
      BY DEF K!Answer
    <2>10. Answered'
      BY <2>2, <2>7, <2>8, <2>9, AnsweredGrows DEF KInv
    <2> QED
      BY <1>1, <1>2, <2>10 DEF KInv
  <1>5. CASE r.input # K!InputOf(post[p])
    BY <1>1, <1>2, <1>3, <1>5, AnsweredStays DEF KInv, K!Replay
  <1> QED
    BY <1>4, <1>5

LEMMA MissStep ==
  ASSUME KInv, NEW p \in Posts, K!Miss(p)
  PROVE  KInv'
  <1> DEFINE q == [post[p] EXCEPT !.phase = "working"]
  <1>1. post[p] \in KeyPost /\ K!Holds(p) /\ K!Seen(p) = {}
    BY DEF K!Miss, K!Holds, KInv, KeyShapes
  <1>2. /\ q \in KeyPost /\ q.phase = "working" /\ q.inserted = post[p].inserted
        /\ q.tenant = post[p].tenant /\ q.key = post[p].key /\ q.input = post[p].input
    BY <1>1 DEF KeyPost, KeyPhases
  <1>3. K!Moves(p, q) /\ UNCHANGED <<helper, record, row>>
    BY DEF K!Miss, K!Enters
  <1> HIDE DEF q
  <1>4. KeyShapes' /\ Recorded' /\ Exclusive' /\ Alone' /\ Unseen'
    BY <1>1, <1>2, <1>3, Advancing
  <1> QED
    BY <1>4, AnsweredStays, ClashesStay DEF KInv, K!Miss

LEMMA ClaimStep ==
  ASSUME KInv, NEW p \in Posts, K!Claim(p)
  PROVE  KInv'
  <1> DEFINE q == [post[p] EXCEPT !.phase = "working", !.inserted = "yes"]
  <1>1. post[p] \in KeyPost /\ K!Holds(p) /\ K!InTheWay(p) = {} /\ K!Awaited(p) = {}
    BY DEF K!Claim, K!Holds, KInv, KeyShapes
  <1>2. K!Seen(p) = {}
    BY <1>1 DEF K!Seen, K!InTheWay
  <1>3. /\ q \in KeyPost /\ q.phase = "working"
        /\ q.tenant = post[p].tenant /\ q.key = post[p].key /\ q.input = post[p].input
    BY <1>1 DEF KeyPost, KeyPhases
  <1>4. K!Moves(p, q) /\ UNCHANGED <<helper, record, row>>
    BY DEF K!Claim
  <1> HIDE DEF q
  <1>5. KeyShapes' /\ Recorded' /\ Exclusive' /\ Alone' /\ Unseen'
    BY <1>1, <1>2, <1>3, <1>4, Advancing
  <1> QED
    BY <1>5, AnsweredStays, ClashesStay DEF KInv, K!Claim

LEMMA WorkStep ==
  ASSUME KInv, NEW p \in Posts, K!Work(p)
  PROVE  KInv'
  <1> DEFINE q == [post[p] EXCEPT !.phase = "worked"]
  <1>1. post[p] \in KeyPost /\ K!Holds(p) /\ K!Seen(p) = {}
    BY DEF K!Work, K!Holds, KInv, KeyShapes, Unseen
  <1>2. /\ q \in KeyPost /\ q.phase = "worked" /\ q.inserted = post[p].inserted
        /\ q.tenant = post[p].tenant /\ q.key = post[p].key /\ q.input = post[p].input
    BY <1>1 DEF KeyPost, KeyPhases
  <1>3. K!Moves(p, q) /\ UNCHANGED <<helper, record, row>>
    BY DEF K!Work, K!Enters
  <1> HIDE DEF q
  <1>4. KeyShapes' /\ Recorded' /\ Exclusive' /\ Alone' /\ Unseen'
    BY <1>1, <1>2, <1>3, Advancing
  <1> QED
    BY <1>4, AnsweredStays, ClashesStay DEF KInv, K!Work

\* What is in the way of an insert was not seen: it is another tenant's, under
\* a hash that does not tell tenants apart, and it is one record.
LEMMA Clash ==
  ASSUME KInv, NEW p \in Posts, post[p].phase = "worked", K!InTheWay(p) # {}
  PROVE  /\ helper.hash = "key" /\ helper.sees = "tenant"
         /\ K!Cardinality({r.tenant : r \in K!InTheWay(p)} \cup {post[p].tenant}) = 2
  <1>1. PICK r \in K!InTheWay(p) : TRUE
    OBVIOUS
  <1>2. K!InTheWay(p) = {r}
    BY <1>1 DEF KInv, Recorded, K!InTheWay
  <1>3. helper.sees # "all" /\ r.tenant # post[p].tenant
    BY <1>1 DEF KInv, Unseen, K!Seen, K!InTheWay
  <1>4. helper.hash # "tenant"
    <2>1. K!HashOf(row[r.row]) = K!HashOf(post[p]) /\ r.tenant = row[r.row].tenant
      BY <1>1 DEF KInv, Recorded, K!InTheWay
    <2> QED
      BY <1>3, <2>1 DEF K!HashOf
  <1>5. helper.hash = "key" /\ helper.sees = "tenant"
    BY <1>3, <1>4, HelpersDiffer DEF KInv, KeyShapes
  <1>6. {s.tenant : s \in K!InTheWay(p)} \cup {post[p].tenant} = {r.tenant} \cup {post[p].tenant}
    BY <1>2
  <1>7. K!Cardinality({r.tenant} \cup {post[p].tenant}) = 2
    <2>1. IsFiniteSet({r.tenant}) /\ Cardinality({r.tenant}) = 1
      BY FS_Singleton
    <2>2. Cardinality({r.tenant} \cup {post[p].tenant}) = Cardinality({r.tenant}) + 1
      BY <1>3, <2>1, FS_AddElement
    <2> QED
      BY <2>1, <2>2, OneCardinality
  <1> QED
    BY <1>5, <1>6, <1>7

LEMMA InsertStep ==
  ASSUME KInv, NEW p \in Posts, K!Insert(p)
  PROVE  KInv'
  <1>1. Answered'
    BY AnsweredStays DEF KInv, K!Insert
  <1>2. CASE K!InTheWay(p) = {}
    <2> DEFINE q == [post[p] EXCEPT !.inserted = "yes"]
    <2>1. post[p] \in KeyPost /\ K!Holds(p) /\ K!Seen(p) = {} /\ K!Awaited(p) = {} /\ post[p].phase = "worked"
      BY DEF K!Insert, K!Holds, KInv, KeyShapes, Unseen
    <2>2. /\ q \in KeyPost /\ q.phase = "worked"
          /\ q.tenant = post[p].tenant /\ q.key = post[p].key /\ q.input = post[p].input
      BY <2>1 DEF KeyPost
    <2>3. K!Moves(p, q) /\ UNCHANGED <<helper, record, row, clashes>>
      BY <1>2 DEF K!Insert
    <2> HIDE DEF q
    <2>4. KeyShapes' /\ Recorded' /\ Exclusive' /\ Alone' /\ Unseen'
      BY <1>2, <2>1, <2>2, <2>3, Advancing
    <2> QED
      BY <1>1, <2>3, <2>4, ClashesStay DEF KInv
  <1>3. CASE K!InTheWay(p) # {}
    <2>1. KeyShapes' /\ Recorded' /\ Exclusive' /\ Alone' /\ Unseen'
      BY <1>3, Ending DEF K!Insert
    <2>2. clashes' = clashes \cup {{r.tenant : r \in K!InTheWay(p)} \cup {post[p].tenant}} /\ UNCHANGED helper
      BY <1>3 DEF K!Insert
    <2>3. post[p].phase = "worked"
      BY DEF K!Insert
    <2>4. K!RepetitionsAreAnswered'
      BY <1>3, <2>2, <2>3, Clash DEF KInv, K!RepetitionsAreAnswered
    <2> QED
      BY <1>1, <2>1, <2>4 DEF KInv
  <1> QED
    BY <1>2, <1>3

\* Two requests that hold their locks have different hashes.
LEMMA LocksTellHashesApart ==
  ASSUME KInv, NEW p \in Posts, NEW o \in Posts \ {p}, K!Holds(p), K!Holds(o)
  PROVE  K!HashOf(post[o]) # K!HashOf(post[p])
  <1>1. K!LockOf(p) # K!LockOf(o)
    BY DEF KInv, Exclusive
  <1>2. K!LockOf(p) = LockFor(post[p]) /\ K!LockOf(o) = LockFor(post[o])
    BY DEF K!LockOf, LockFor
  <1> QED
    BY <1>1, <1>2, EqualHashes DEF KInv, KeyShapes

LEMMA CommitStep ==
  ASSUME KInv, NEW p \in Posts, K!Commit(p)
  PROVE  KInv'
  <1> DEFINE q == post[p]
             n == Len(row) + 1
             w == [tenant |-> q.tenant, key |-> q.key, input |-> q.input]
             c == [hash |-> K!HashOf(q), input |-> K!InputOf(q), tenant |-> q.tenant, row |-> n]
  <1>1. /\ q \in KeyPost /\ q.phase = "worked" /\ q.inserted = "yes" /\ K!Holds(p)
        /\ q.tenant \in Tenants /\ q.key \in Keys /\ q.input \in Inputs
    BY DEF K!Commit, K!Holds, KInv, KeyShapes
  <1>2. /\ row' = Append(row, w) /\ record' = record \cup {c} /\ answers' = answers \cup {K!Answer(p, n)}
        /\ UNCHANGED <<helper, clashes>> /\ K!Moves(p, K!Idle)
    BY DEF K!Commit
  <1>3. row \in Seq(KeyRequest) /\ w \in KeyRequest /\ n \in Nat /\ Len(row) \in Nat
    BY <1>1 DEF KInv, KeyShapes, KeyRequest
  <1>4. /\ row' \in Seq(KeyRequest) /\ Len(row') = n /\ row'[n] = w
        /\ \A m \in 1 .. Len(row) : row'[m] = row[m]
    BY <1>2, <1>3
  <1>5. c \in KeyRecord
    BY <1>1, <1>3, Hashes DEF KeyRecord, K!InputOf
  <1>6. post \in [Posts -> KeyPost] /\ post'[p] = K!Idle /\ \A o \in Posts \ {p} : post'[o] = post[o]
    BY <1>2 DEF KInv, KeyShapes, K!Moves
  <1>7. \A r \in record : r.hash # K!HashOf(q)
    BY <1>1 DEF KInv, Alone, K!InTheWay
  <1>8. K!HashOf(w) = K!HashOf(q) /\ K!InputOf(w) = K!InputOf(q)
    BY DEF K!HashOf, K!InputOf
  <1>10. c.hash = K!HashOf(q) /\ c.input = K!InputOf(q) /\ c.tenant = q.tenant /\ c.row = n /\ w.tenant = q.tenant
    OBVIOUS
  <1> HIDE DEF w, c
  <1>11. KeyShapes'
    <2>1. post' \in [Posts -> KeyPost]
      BY <1>2, <1>6, IdleIsPost DEF K!Moves
    <2>2. \A o \in Posts : post'[o].phase # "idle" =>
            post'[o].tenant \in Tenants /\ post'[o].key \in Keys /\ post'[o].input \in Inputs
      BY <1>6 DEF KInv, KeyShapes, K!Idle
    <2>3. record' \in SUBSET KeyRecord /\ helper' \in K!Helpers
      BY <1>2, <1>5 DEF KInv, KeyShapes
    <2> QED
      BY <1>4, <2>1, <2>2, <2>3 DEF KeyShapes
  <1>12. Recorded'
    <2>1. \A r \in record' : /\ r.row \in 1 .. Len(row') /\ r.hash = K!HashOf(row'[r.row])
                             /\ r.input = K!InputOf(row'[r.row]) /\ r.tenant = row'[r.row].tenant
      <3>1. ASSUME NEW r \in record
            PROVE  /\ r.row \in 1 .. Len(row') /\ r.hash = K!HashOf(row'[r.row])
                   /\ r.input = K!InputOf(row'[r.row]) /\ r.tenant = row'[r.row].tenant
        <4>1. /\ r.row \in 1 .. Len(row) /\ r.hash = K!HashOf(row[r.row])
              /\ r.input = K!InputOf(row[r.row]) /\ r.tenant = row[r.row].tenant
          BY DEF KInv, Recorded
        <4> QED
          BY <1>3, <1>4, <4>1
      <3>2. /\ c.row \in 1 .. Len(row') /\ c.hash = K!HashOf(row'[c.row])
            /\ c.input = K!InputOf(row'[c.row]) /\ c.tenant = row'[c.row].tenant
        BY <1>3, <1>4, <1>8, <1>10
      <3> QED
        BY <1>2, <3>1, <3>2
    <2>2. \A m \in 1 .. Len(row') : \E r \in record' : r.row = m
      <3>1. ASSUME NEW m \in 1 .. Len(row') PROVE \E r \in record' : r.row = m
        <4>1. CASE m = n
          BY <1>2, <1>10, <4>1
        <4>2. CASE m # n
          <5>1. m \in 1 .. Len(row)
            BY <1>3, <1>4, <4>2
          <5> QED
            BY <1>2, <5>1 DEF KInv, Recorded
        <4> QED
          BY <4>1, <4>2
      <3> QED
        BY <3>1
    <2>3. \A r, s \in record' : r.hash = s.hash => r = s
      BY <1>2, <1>7, <1>10 DEF KInv, Recorded
    <2>4. \A m : K!HashOf(row[m])' = K!HashOf(row'[m]) /\ K!InputOf(row[m])' = K!InputOf(row'[m])
      BY <1>2 DEF K!HashOf, K!InputOf
    <2> QED
      BY <2>1, <2>2, <2>3, <2>4 DEF Recorded
  <1>13. \A o \in Posts : K!HashOf(post[o])' = K!HashOf(post'[o]) /\ K!LockOf(o)' = LockFor(post'[o])
    BY <1>2 DEF K!HashOf, K!LockOf, LockFor
  <1>14. ~K!Holds(p)' /\ \A o \in Posts \ {p} : K!Holds(o)' = K!Holds(o) /\ K!LockOf(o)' = K!LockOf(o)
    BY <1>2, <1>6 DEF K!Holds, K!Idle, K!HashOf, K!LockOf
  <1>15. Exclusive'
    BY <1>14 DEF KInv, Exclusive
  <1>16. \A o \in Posts \ {p} : K!Holds(o) => K!HashOf(post[o]) # c.hash
    BY <1>1, <1>10, LocksTellHashesApart
  <1>17. Alone'
    <2>1. ASSUME NEW o \in Posts, post'[o].inserted = "yes"
          PROVE  /\ o # p /\ post'[o] = post[o] /\ post'[o].phase \in {"working", "worked"}
                 /\ \A r \in record' : r.hash # K!HashOf(post'[o])
      <3>1. o # p
        BY <1>6, <2>1 DEF K!Idle
      <3>2. post'[o] = post[o] /\ post[o].phase \in {"working", "worked"} /\ K!Holds(o)
        BY <1>6, <2>1, <3>1 DEF KInv, Alone, K!Holds
      <3>3. \A r \in record : r.hash # K!HashOf(post[o])
        BY <2>1, <3>2 DEF KInv, Alone, K!InTheWay
      <3> QED
        BY <1>2, <1>16, <3>1, <3>2, <3>3
    <2>2. \A o, x \in Posts : o # x /\ post'[o].inserted = "yes" /\ post'[x].inserted = "yes" =>
            K!HashOf(post'[o]) # K!HashOf(post'[x])
      BY <2>1 DEF KInv, Alone
    <2> QED
      BY <1>13, <2>1, <2>2 DEF Alone, K!InTheWay
  <1>18. Unseen'
    <2>1. ASSUME NEW o \in Posts, post'[o].phase \in {"working", "worked"}
          PROVE  \A r \in record' : r.hash = K!HashOf(post'[o]) => helper.sees # "all" /\ r.tenant # post'[o].tenant
      <3>1. o # p
        BY <1>6, <2>1 DEF K!Idle
      <3>2. post'[o] = post[o] /\ K!Holds(o)
        BY <1>6, <2>1, <3>1 DEF K!Holds
      <3>3. \A r \in record : r.hash = K!HashOf(post[o]) => helper.sees # "all" /\ r.tenant # post[o].tenant
        BY <2>1, <3>2 DEF KInv, Unseen, K!Seen
      <3> QED
        BY <1>2, <1>16, <3>1, <3>2, <3>3
    <2> QED
      BY <1>2, <1>13, <2>1 DEF Unseen, K!Seen
  <1>19. Answered'
    <2> DEFINE a == K!Answer(p, n)
    <2>1. a.row = n /\ w = [tenant |-> a.tenant, key |-> a.key, input |-> a.input]
      BY DEF K!Answer, w
    <2> HIDE DEF a
    <2>2. a.row \in 1 .. Len(row') /\ row'[a.row] = [tenant |-> a.tenant, key |-> a.key, input |-> a.input]
      BY <1>3, <1>4, <2>1
    <2>3. ASSUME NEW b \in answers
          PROVE  /\ b.row \in 1 .. Len(row')
                 /\ row'[b.row] = [tenant |-> b.tenant, key |-> b.key, input |-> b.input]
      <3>1. /\ b.row \in 1 .. Len(row)
            /\ row[b.row] = [tenant |-> b.tenant, key |-> b.key, input |-> b.input]
        BY Zenon DEF KInv, Answered
      <3> QED
        BY <1>3, <1>4, <3>1
    <2>4. answers' = answers \cup {a}
      BY <1>2 DEF a
    <2> QED
      BY <2>2, <2>3, <2>4, Zenon DEF Answered
  <1>20. K!RepetitionsAreAnswered'
    BY <1>2, ClashesStay DEF KInv
  <1> QED
    BY <1>11, <1>12, <1>15, <1>17, <1>18, <1>19, <1>20 DEF KInv

LEMMA RollBackStep ==
  ASSUME KInv, NEW p \in Posts, K!RollBack(p)
  PROVE  KInv'
  <1>1. KeyShapes' /\ Recorded' /\ Exclusive' /\ Alone' /\ Unseen'
    BY Ending DEF K!RollBack
  <1> QED
    BY <1>1, AnsweredStays, ClashesStay DEF KInv, K!RollBack

LEMMA KeysStep == KInv /\ [K!Next]_repeated => KInv'
  <1> SUFFICES ASSUME KInv, [K!Next]_repeated PROVE KInv'
    OBVIOUS
  <1>1. CASE UNCHANGED repeated
    <2>1. KeyShapes'
      BY <1>1 DEF KInv, KeyShapes, repeated
    <2>2. Recorded' /\ Answered' /\ K!RepetitionsAreAnswered'
      BY <1>1, AnsweredStays, ClashesStay DEF KInv, Recorded, K!HashOf, K!InputOf, repeated
    <2>3. Exclusive' /\ Alone' /\ Unseen'
      BY <1>1 DEF KInv, Exclusive, Alone, Unseen, K!Holds, K!LockOf, K!HashOf, K!InTheWay, K!Seen, repeated
    <2> QED
      BY <2>1, <2>2, <2>3 DEF KInv
  <1>2. CASE K!Next
    BY <1>2, BeginStep, LockStep, ReplayStep, MissStep, ClaimStep, WorkStep, InsertStep, CommitStep,
       RollBackStep DEF K!Next
  <1> QED
    BY <1>1, <1>2

\* What the run checks follows.
LEMMA KeysRunOnce ==
  ASSUME KInv
  PROVE  K!TypeOK /\ K!KeysCountOnce /\ K!RepetitionsAreAnswered
  <1>1. K!TypeOK
    BY DEF KInv, K!TypeOK, KeyShapes, Recorded, KeyPost, KeyPhases
  <1>2. row \in Seq(KeyRequest) /\ DOMAIN row = 1 .. Len(row)
    BY DEF KInv, KeyShapes
  <1>3. ASSUME NEW m \in DOMAIN row, NEW n \in DOMAIN row,
               row[m].tenant = row[n].tenant, row[m].key = row[n].key
        PROVE  m = n
    <2>1. PICK r \in record : r.row = m
      BY <1>2 DEF KInv, Recorded
    <2>2. PICK s \in record : s.row = n
      BY <1>2 DEF KInv, Recorded
    <2>3. r.hash = K!HashOf(row[m]) /\ s.hash = K!HashOf(row[n])
      BY <2>1, <2>2 DEF KInv, Recorded
    <2>4. K!HashOf(row[m]) = K!HashOf(row[n])
      BY <1>3 DEF K!HashOf
    <2> QED
      BY <2>1, <2>2, <2>3, <2>4 DEF KInv, Recorded
  <1>4. \A a \in answers : row[a.row] = [tenant |-> a.tenant, key |-> a.key, input |-> a.input]
    BY Zenon DEF KInv, Answered
  <1>5. K!KeysCountOnce
    BY <1>3, <1>4, Zenon DEF K!KeysCountOnce
  <1> QED
    BY <1>1, <1>5 DEF KInv

-----------------------------------------------------------------------------
(* Theorems about each of them, whatever the others do                     *)

LEMMA FocusSteps ==
  [MCNext]_<<focus, placement, contracts, standing, rules, repeated>> =>
    /\ focus' = focus
    /\ [C!Next]_contracts /\ [V!Next]_standing /\ [R!Next]_rules /\ [K!Next]_repeated
  BY DEF MCNext, V!Next

\* Rates follow the publications of their contract, an indent has the
\* conditions that were current when it was taken and can be billed by them
\* until the next publication, and a way has one rate unless two lanes were
\* created at once (canonical.service.ts, workbench.service.ts).
THEOREM RatesStayAgreed == MCSpec => []RatesAreAgreed
  <1>1. MCInit => CInv
    BY ContractsInit DEF MCInit
  <1>2. CInv /\ [MCNext]_<<focus, placement, contracts, standing, rules, repeated>> => CInv'
    BY FocusSteps, ContractsStep
  <1>3. CInv => RatesAreAgreed
    BY ContractsAgree DEF RatesAreAgreed
  <1> QED
    BY <1>1, <1>2, <1>3, PTL DEF MCSpec

\* A vendor has one account in force, unless two were verified at once, and
\* keeps one; it is paid to accounts that were verified, and judged by its
\* last papers (advanced.service.ts).
THEOREM VendorsStayVetted == MCSpec => []VendorsAreVetted
  <1>1. MCInit => VInv
    BY VendorsInit DEF MCInit
  <1>2. VInv /\ [MCNext]_<<focus, placement, contracts, standing, rules, repeated>> => VInv'
    BY FocusSteps, VendorsStep
  <1>3. VInv => VendorsAreVetted
    BY VendorsVetted DEF VendorsAreVetted
  <1> QED
    BY <1>1, <1>2, <1>3, PTL DEF MCSpec

\* However often a request is repeated and wherever it stopped, its key has
\* one effect, what is answered is what was done, and offers made by rules fit
\* the demand (executeRule and the idempotent helpers of all services).
THEOREM RepetitionsRunOnce == MCSpec => []RequestsRunOnce
  <1>1. MCInit => RInv /\ KInv
    BY RulesInit, KeysInit DEF MCInit
  <1>2. RInv /\ KInv /\ [MCNext]_<<focus, placement, contracts, standing, rules, repeated>> => RInv' /\ KInv'
    BY FocusSteps, RulesStep, KeysStep
  <1>3. RInv /\ KInv => RequestsRunOnce
    BY RulesRunOnce, KeysRunOnce DEF RequestsRunOnce
  <1> QED
    BY <1>1, <1>2, <1>3, PTL DEF MCSpec
=================================================================================
