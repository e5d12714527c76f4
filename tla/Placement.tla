------------------------------- MODULE Placement -------------------------------
(***************************************************************************)
(* Indents, vendor offers, vehicle assignment and trip creation:           *)
(*   canonical/canonical.service.ts, canonical/advanced.service.ts,        *)
(*   canonical/workers.service.ts, operations/operations-workbench.service *)
(*                                                                         *)
(* An indent asks for a number of vehicles.  Allocations offer some of     *)
(* them to a vendor; an accepted allocation is assigned a vehicle with its *)
(* driver, is placed, and trips are created for it.                        *)
(*                                                                         *)
(* Every handler is one transaction at READ COMMITTED.  Three of them      *)
(* decide on values older than the rows they go on to write and are split  *)
(* into Begin and Finish: editIndent sums the allocations in the snapshot  *)
(* of the statement that then waits for the indent row; assignAllocation   *)
(* looks for other assignments of the vehicle in the snapshot of the       *)
(* statement that waits for the vehicle's row; and createTrip reads the    *)
(* assignment of an allocation without a lock.  The other handlers hold    *)
(* the rows they read and are one step.                                    *)
(*                                                                         *)
(* The code treats the driver of an assignment exactly as its vehicle, so  *)
(* one resource stands for the two.  All of them are active, compliant     *)
(* and belong to the allocations' vendor: other cases only refuse          *)
(* requests.                                                               *)
(***************************************************************************)
EXTENDS Integers, FiniteSets

CONSTANTS Indent, Allocation, Vehicle, Trip,
          MaxVehicles,    \* bound: vehicles one indent may ask for
          MaxReplaced,    \* bound: vehicles replaced per allocation
          Null            \* SQL NULL

ASSUME PlacementAssumption ==
    /\ MaxVehicles \in Nat \ {0}
    /\ MaxReplaced \in Nat
    /\ IsFiniteSet(Allocation)
    /\ Null \notin Indent \cup Allocation \cup Vehicle

VARIABLES indent,   \* app.indents; cancelled sums app.indent_cancellations
          alloc,    \* app.allocations; lapsed says that expires_at has passed
          serving,  \* app.allocation_assignments with assigned_to IS NULL
          former,   \* ... and the rows whose assigned_to is set
          trip,     \* app.trips: the allocation and the vehicle of each trip
          edit,     \* editIndent transactions still open: the sum they read
          assign,   \* assignAllocation transactions still open: their vehicle
          create    \* createTrip transactions still open: what they read

vars == <<indent, alloc, serving, former, trip, edit, assign, create>>

IndentMoves == [
    DRAFT |-> {"OPEN", "CANCELLED"},
    OPEN |-> {"PARTIALLY_ALLOCATED", "FULFILLED", "CANCELLED"},
    PARTIALLY_ALLOCATED |-> {"FULFILLED", "CANCELLED"},
    FULFILLED |-> {"CLOSED"},
    CANCELLED |-> {}, CLOSED |-> {}]

\* Mutant: an expired offer may be renewed.
AllocationMovesRenewing == [
    OFFERED |-> {"ACCEPTED", "REJECTED", "EXPIRED"},
    ACCEPTED |-> {"VEHICLE_ASSIGNED", "CANCELLED"},
    VEHICLE_ASSIGNED |-> {"NTP_RELEASED", "CANCELLED"},
    NTP_RELEASED |-> {"PLACED", "CANCELLED"},
    PLACED |-> {}, REJECTED |-> {}, EXPIRED |-> {"OFFERED"}, CANCELLED |-> {}]

AllocationMoves == [
    OFFERED |-> {"ACCEPTED", "REJECTED", "EXPIRED"},
    ACCEPTED |-> {"VEHICLE_ASSIGNED", "CANCELLED"},
    VEHICLE_ASSIGNED |-> {"NTP_RELEASED", "CANCELLED"},
    NTP_RELEASED |-> {"PLACED", "CANCELLED"},
    PLACED |-> {}, REJECTED |-> {}, EXPIRED |-> {}, CANCELLED |-> {}]

IndentState == DOMAIN IndentMoves
AllocationState == DOMAIN AllocationMoves
Released == {"REJECTED", "EXPIRED", "CANCELLED"}
NoEdit == -1

NewIndent == [state |-> "NONE", requested |-> 0, cancelled |-> 0]
NewOffer == [state |-> "NONE", indent |-> Null, vehicles |-> 0, lapsed |-> FALSE]
NoTrip == [allocation |-> Null, vehicle |-> Null]

TypeOK ==
    /\ indent \in [Indent -> [state: IndentState \cup {"NONE"},
                              requested: 0..MaxVehicles, cancelled: Nat]]
    /\ alloc \in [Allocation -> [state: AllocationState \cup {"NONE"},
                                 indent: Indent \cup {Null},
                                 vehicles: 0..MaxVehicles, lapsed: BOOLEAN]]
    /\ serving \in [Allocation -> Vehicle \cup {Null}]
    /\ former \in [Allocation -> SUBSET Vehicle]
    /\ trip \in [Trip -> [allocation: Allocation \cup {Null},
                          vehicle: Vehicle \cup {Null}]]
    /\ edit \in [Indent -> Nat \cup {NoEdit}]
    /\ assign \in [Allocation -> Vehicle \cup {Null}]
    /\ create \in [Trip -> [allocation: Allocation \cup {Null},
                            vehicle: Vehicle \cup {Null}]]

Init ==
    /\ indent = [i \in Indent |-> NewIndent]
    /\ alloc = [a \in Allocation |-> NewOffer]
    /\ serving = [a \in Allocation |-> Null]
    /\ former = [a \in Allocation |-> {}]
    /\ trip = [t \in Trip |-> NoTrip]
    /\ edit = [i \in Indent |-> NoEdit]
    /\ assign = [a \in Allocation |-> Null]
    /\ create = [t \in Trip |-> NoTrip]

-----------------------------------------------------------------------------
\* Allocations that take up demand: NOT IN ('REJECTED','EXPIRED','CANCELLED').
Active == {a \in Allocation : alloc[a].state \in AllocationState \ Released}

\* The vehicles the active allocations of an indent hold, counted one by one.
Units(i) == {u \in Active \X (1..MaxVehicles) :
                alloc[u[1]].indent = i /\ u[2] <= alloc[u[1]].vehicles}

Allotted(i) == Cardinality(Units(i))

\* Mutant: assignAllocation locks the allocation row only.
IndentNotLocked(i) == TRUE

\* FOR UPDATE over allocations JOIN indents locks both rows, so an open
\* assignAllocation holds its allocation and the indent of that.
IndentFree(i) == \A a \in Allocation : alloc[a].indent = i => assign[a] = Null
AllocationFree(a) == assign[a] = Null

\* The vehicle serves an active allocation other than a.
Engaged(a, v) == \E o \in Active \ {a} : serving[o] = v

-----------------------------------------------------------------------------
(* Indents.  A write of an indent raises its version, so an editIndent     *)
(* that is waiting for the row is then refused (VERSION_CONFLICT).         *)

WriteIndent(i, new) ==
    /\ indent' = [indent EXCEPT ![i] = new]
    /\ edit' = [edit EXCEPT ![i] = NoEdit]
    /\ UNCHANGED <<alloc, serving, former, trip, assign, create>>

CreateIndent(i, n) ==
    /\ indent[i].state = "NONE"
    /\ WriteIndent(i, [NewIndent EXCEPT !.state = "DRAFT", !.requested = n])

TransitionIndent(i, to) ==
    /\ IndentFree(i)
    /\ indent[i].state \in IndentState
    /\ to \in IndentMoves[indent[i].state]
    /\ WriteIndent(i, [indent[i] EXCEPT !.state = to])

BeginEditIndent(i) ==
    /\ indent[i].state \in IndentState
    /\ edit[i] = NoEdit
    /\ edit' = [edit EXCEPT ![i] = Allotted(i)]
    /\ UNCHANGED <<indent, alloc, serving, former, trip, assign, create>>

FinishEditIndent(i, n) ==
    /\ edit[i] # NoEdit
    /\ IndentFree(i)
    /\ indent[i].state \in {"DRAFT", "OPEN", "PARTIALLY_ALLOCATED"}
    /\ edit[i] <= n
    /\ WriteIndent(i, [indent[i] EXCEPT !.requested = n])

\* Mutant: what is already cancelled is not subtracted.
CancelIndentAgain(i, n) ==
    LET remaining == indent[i].requested - Allotted(i)
    IN  /\ IndentFree(i)
        /\ indent[i].state \in IndentState
        /\ n <= remaining
        /\ WriteIndent(i, [indent[i] EXCEPT
               !.cancelled = @ + n,
               !.state = IF n = remaining THEN "CANCELLED" ELSE @])

\* cancelIndent takes an indent in any state.
CancelIndent(i, n) ==
    LET remaining == indent[i].requested - Allotted(i) - indent[i].cancelled
    IN  /\ IndentFree(i)
        /\ indent[i].state \in IndentState
        /\ n <= remaining
        /\ WriteIndent(i, [indent[i] EXCEPT
               !.cancelled = @ + n,
               !.state = IF n = remaining THEN "CANCELLED" ELSE @])

-----------------------------------------------------------------------------
(* Offers                                                                  *)

\* Mutant: the offer is compared with the whole demand.
CreateAllocationOfAll(i, a, n) ==
    /\ IndentFree(i)
    /\ indent[i].state \in {"OPEN", "PARTIALLY_ALLOCATED"}
    /\ alloc[a].state = "NONE"
    /\ n <= indent[i].requested
    /\ alloc' = [alloc EXCEPT ![a] = [state |-> "OFFERED", indent |-> i,
                                      vehicles |-> n, lapsed |-> FALSE]]
    /\ UNCHANGED <<indent, serving, former, trip, edit, assign, create>>

\* Requests for one indent queue on an advisory lock, so the sum is exact;
\* it leaves out what has been cancelled.
CreateAllocation(i, a, n) ==
    /\ IndentFree(i)
    /\ indent[i].state \in {"OPEN", "PARTIALLY_ALLOCATED"}
    /\ alloc[a].state = "NONE"
    /\ n <= indent[i].requested - Allotted(i)
    /\ alloc' = [alloc EXCEPT ![a] = [state |-> "OFFERED", indent |-> i,
                                      vehicles |-> n, lapsed |-> FALSE]]
    /\ UNCHANGED <<indent, serving, former, trip, edit, assign, create>>

MoveAllocation(a, to) ==
    /\ AllocationFree(a)
    /\ alloc' = [alloc EXCEPT ![a].state = to]
    /\ UNCHANGED <<indent, serving, former, trip, edit, assign, create>>

\* The generic transition looks at nothing but the state.
TransitionAllocation(a, to) ==
    /\ alloc[a].state \in AllocationState
    /\ to \in AllocationMoves[alloc[a].state]
    /\ MoveAllocation(a, to)

RespondOffer(a, decision) ==
    /\ decision \in {"ACCEPTED", "REJECTED"}
    /\ alloc[a].state = "OFFERED"
    /\ ~alloc[a].lapsed
    /\ MoveAllocation(a, decision)

\* expires_at matters to open offers only.
Lapse(a) ==
    /\ alloc[a].state = "OFFERED"
    /\ alloc' = [alloc EXCEPT ![a].lapsed = TRUE]
    /\ UNCHANGED <<indent, serving, former, trip, edit, assign, create>>

\* One UPDATE of the worker expires every lapsed offer.
ExpireOffers ==
    /\ alloc' = [a \in Allocation |->
                    IF alloc[a].state = "OFFERED" /\ alloc[a].lapsed
                    THEN [alloc[a] EXCEPT !.state = "EXPIRED"] ELSE alloc[a]]
    /\ UNCHANGED <<indent, serving, former, trip, edit, assign, create>>

-----------------------------------------------------------------------------
(* Vehicles and trips                                                      *)

\* Up to the snapshot in which the vehicle serves no other active allocation.
BeginAssign(a, v) ==
    /\ alloc[a].state \in {"ACCEPTED", "VEHICLE_ASSIGNED", "NTP_RELEASED"}
    /\ IndentFree(alloc[a].indent)
    /\ Cardinality(former[a]) < MaxReplaced \/ serving[a] = Null
    /\ ~Engaged(a, v)
    /\ assign' = [assign EXCEPT ![a] = v]
    /\ UNCHANGED <<indent, alloc, serving, former, trip, edit, create>>

\* Mutant: the replaced row is not ended but lost.
FinishAssignOverwrite(a) ==
    /\ assign[a] # Null
    /\ serving' = [serving EXCEPT ![a] = assign[a]]
    /\ alloc' = [alloc EXCEPT ![a].state =
                     IF @ = "ACCEPTED" THEN "VEHICLE_ASSIGNED" ELSE @]
    /\ assign' = [assign EXCEPT ![a] = Null]
    /\ UNCHANGED <<indent, former, trip, edit, create>>

\* The vehicle is locked and its row re-read, the other assignments are not.
FinishAssign(a) ==
    /\ assign[a] # Null
    /\ former' = [former EXCEPT ![a] = @ \cup ({serving[a]} \ {Null})]
    /\ serving' = [serving EXCEPT ![a] = assign[a]]
    /\ alloc' = [alloc EXCEPT ![a].state =
                     IF @ = "ACCEPTED" THEN "VEHICLE_ASSIGNED" ELSE @]
    /\ assign' = [assign EXCEPT ![a] = Null]
    /\ UNCHANGED <<indent, trip, edit, create>>

BeginTrip(t, a) ==
    /\ trip[t] = NoTrip
    /\ create[t] = NoTrip
    /\ serving[a] # Null
    /\ alloc[a].state \in {"VEHICLE_ASSIGNED", "NTP_RELEASED", "PLACED"}
    /\ create' = [create EXCEPT ![t] = [allocation |-> a, vehicle |-> serving[a]]]
    /\ UNCHANGED <<indent, alloc, serving, former, trip, edit, assign>>

\* The foreign key check of the INSERT waits for a locked allocation row.
FinishTrip(t) ==
    /\ create[t] # NoTrip
    /\ AllocationFree(create[t].allocation)
    /\ trip' = [trip EXCEPT ![t] = create[t]]
    /\ create' = [create EXCEPT ![t] = NoTrip]
    /\ UNCHANGED <<indent, alloc, serving, former, edit, assign>>

\* A refusal, a deadlock, a timeout or a crash of the backend.
RollbackEdit(i) ==
    /\ edit[i] # NoEdit
    /\ edit' = [edit EXCEPT ![i] = NoEdit]
    /\ UNCHANGED <<indent, alloc, serving, former, trip, assign, create>>

RollbackAssign(a) ==
    /\ assign[a] # Null
    /\ assign' = [assign EXCEPT ![a] = Null]
    /\ UNCHANGED <<indent, alloc, serving, former, trip, edit, create>>

RollbackTrip(t) ==
    /\ create[t] # NoTrip
    /\ create' = [create EXCEPT ![t] = NoTrip]
    /\ UNCHANGED <<indent, alloc, serving, former, trip, edit, assign>>

-----------------------------------------------------------------------------
DemandNext ==
    \/ \E i \in Indent :
          \/ \E n \in 1..MaxVehicles : CreateIndent(i, n) \/ CancelIndent(i, n)
          \/ \E to \in IndentState : TransitionIndent(i, to)
          \/ \E a \in Allocation, n \in 1..MaxVehicles : CreateAllocation(i, a, n)
    \/ \E a \in Allocation :
          \/ \E to \in AllocationState :
                TransitionAllocation(a, to) \/ RespondOffer(a, to)
          \/ Lapse(a)
    \/ ExpireOffers

EditNext ==
    \E i \in Indent : \/ BeginEditIndent(i)
                      \/ \E n \in 1..MaxVehicles : FinishEditIndent(i, n)
                      \/ RollbackEdit(i)

AssignNext ==
    \/ \E a \in Allocation :
          \/ \E v \in Vehicle : BeginAssign(a, v)
          \/ FinishAssign(a)
          \/ RollbackAssign(a)
    \/ \E t \in Trip :
          \/ \E a \in Allocation : BeginTrip(t, a)
          \/ FinishTrip(t)
          \/ RollbackTrip(t)

Next == DemandNext \/ EditNext \/ AssignNext

Spec == Init /\ [][Next]_vars

-----------------------------------------------------------------------------
(* Properties                                                              *)

\* Only lowering the demand of an indent can leave more vehicles offered than
\* are asked for: however offers are made, accepted, rejected, expired and
\* cancelled, and however an edit is caught up in that, their sum stays right.
OnlyEditsOverallot ==
    [][\A i \in Indent :
           Allotted(i) <= indent[i].requested =>
               \/ Allotted(i)' <= indent'[i].requested
               \/ indent'[i].requested < indent[i].requested]_vars

\* An open assignAllocation finds its allocation at the end as it left it,
\* and holds the indent alone, so assignments under one indent are serial.
AssignmentHoldsRows ==
    \A a \in Allocation : assign[a] # Null =>
        /\ alloc[a].state \in {"ACCEPTED", "VEHICLE_ASSIGNED", "NTP_RELEASED"}
        /\ \A o \in Allocation \ {a} :
              alloc[o].indent = alloc[a].indent => assign[o] = Null

\* Two active allocations of one indent never share a vehicle, although the
\* check reads a snapshot: the lock on the indent serialises them.
VehiclesDifferWithinIndent ==
    \A a, o \in Active :
        a # o /\ alloc[a].indent = alloc[o].indent /\ serving[a] # Null
            => serving[a] # serving[o]

\* A trip carries a vehicle that was assigned to its allocation, even one that
\* was replaced while the trip was being created, and the assignment history
\* still shows it.
TripVehicleWasAssigned ==
    \A t \in Trip : trip[t] # NoTrip =>
        trip[t].vehicle \in former[trip[t].allocation]
                            \cup {serving[trip[t].allocation]}

\* Once an allocation is placed, neither its state nor its vehicle changes: no
\* assignment that began before the placement can finish after it.
PlacedIsFinal ==
    [][\A a \in Allocation : alloc[a].state = "PLACED" =>
           alloc'[a].state = "PLACED" /\ serving'[a] = serving[a]]_vars
=============================================================================
