------------------------------ MODULE Contracts ------------------------------
(***************************************************************************)
(* One contract of a client, its versions with their lanes and rates, the  *)
(* indents that are taken under it and their billing, in apps/backend/src/ *)
(* modules: canonical/canonical.service.ts creates and publishes and takes *)
(* indents, canonical/advanced.service.ts opens a new version, data/       *)
(* data.provider.ts imports indents, finance/workbench.service.ts bills.   *)
(*                                                                         *)
(* A lane has one rate, of an amount that never changes, effective on some *)
(* days.  To publish locks the contract and then changes all its rates in  *)
(* one statement.  To create a lane looks for overlapping rates, to take   *)
(* an indent for one that is in force; both insert later, without a lock.  *)
(***************************************************************************)
EXTENDS Naturals

CONSTANTS
  Lanes,
  Windows,      \* sets of days on which a rate may be effective
  Days,
  Indents,
  MaxVersions   \* bound: versions of the contract

VARIABLES
  contract,  \* app.contracts, and the version that was published last
  lane,      \* app.contract_lanes, each with its app.client_rate_lines
  creating,  \* lanes that were checked and are not inserted yet
  indent,    \* app.indents, and those that were resolved and are not yet
  raced      \* whether two lanes of a version were ever created at once

vars == <<contract, lane, creating, indent, raced>>

Versions == 1 .. MaxVersions
NoLane == [of |-> 0, rate |-> "none", window |-> {}]
NoIndent == [state |-> "none", lane |-> "none", version |-> 0, current |-> 0]

Moves ==
  [DRAFT |-> {"PENDING_APPROVAL"}, PENDING_APPROVAL |-> {"APPROVED", "DRAFT"}, APPROVED |-> {"PUBLISHED"},
   PUBLISHED |-> {"SUPERSEDED", "INACTIVE"}, SUPERSEDED |-> {}, INACTIVE |-> {}]

\* The contract is created with its first version.
Init ==
  /\ contract = [state |-> "DRAFT", current |-> 1, published |-> 0]
  /\ lane = [l \in Lanes |-> NoLane]
  /\ creating = [l \in Lanes |-> NoLane]
  /\ indent = [i \in Indents |-> NoIndent]
  /\ raced = FALSE

\* Mutant: the contract stays as it is while the new version is drafted.
NextVersionOnly == [contract EXCEPT !.current = @ + 1]

\* The contract is a draft again, whatever it was.
NextVersion == [contract EXCEPT !.current = @ + 1, !.state = "DRAFT"]

\* The lanes of the old version are not copied.
CreateContractVersion ==
  /\ contract.current < MaxVersions
  /\ contract' = NextVersion
  /\ UNCHANGED <<lane, creating, indent, raced>>

Transition(state) ==
  /\ state \in Moves[contract.state] \ {"PUBLISHED"}
  /\ contract' = [contract EXCEPT !.state = state]
  /\ UNCHANGED <<lane, creating, indent, raced>>

\* Rates of the current version are published, all others superseded.
Publish ==
  /\ "PUBLISHED" \in Moves[contract.state]
  /\ contract' = [contract EXCEPT !.state = "PUBLISHED", !.published = contract.current]
  /\ lane' = [l \in Lanes |->
       IF lane[l].rate \in {"DRAFT", "PUBLISHED"}
         THEN [lane[l] EXCEPT !.rate = IF lane[l].of = contract.current THEN "PUBLISHED" ELSE "SUPERSEDED"]
         ELSE lane[l]]
  /\ UNCHANGED <<creating, indent, raced>>

\* Between the same places, with the same truck and priority.
Overlaps(l, version, window) == lane[l].of = version /\ lane[l].window \cap window # {}

\* In any version, whatever the state of the contract.
BeginLane(l, version, window) ==
  /\ lane[l] = NoLane /\ creating[l] = NoLane
  /\ version <= contract.current
  /\ \A other \in Lanes : ~Overlaps(other, version, window)
  /\ creating' = [creating EXCEPT ![l] = [of |-> version, rate |-> "DRAFT", window |-> window]]
  /\ raced' = (raced \/ \E other \in Lanes : creating[other].of = version)
  /\ UNCHANGED <<contract, lane, indent>>

CommitLane(l) ==
  /\ creating[l] # NoLane
  /\ lane' = [lane EXCEPT ![l] = creating[l]]
  /\ creating' = [creating EXCEPT ![l] = NoLane]
  /\ UNCHANGED <<contract, indent, raced>>

\* One statement finds the version, with what was current when it did.
Resolved(i, l) ==
  /\ indent[i] = NoIndent
  /\ contract.state = "PUBLISHED" /\ lane[l].rate = "PUBLISHED"
  /\ indent' = [indent EXCEPT ![i] =
       [state |-> "resolved", lane |-> l, version |-> lane[l].of, current |-> contract.current]]
  /\ UNCHANGED <<contract, lane, creating, raced>>

ResolveIndent(i, l, pickup) == pickup \in lane[l].window /\ Resolved(i, l)

\* The import looks in the current version, and not at the day.
ResolveImport(i, l) == lane[l].of = contract.current /\ Resolved(i, l)

InsertIndent(i) ==
  /\ indent[i].state = "resolved"
  /\ indent' = [indent EXCEPT ![i].state = "OPEN"]
  /\ UNCHANGED <<contract, lane, creating, raced>>

\* At the rate that is in force on the indent's own lane today.
Billable(i, today) ==
  /\ indent[i].state = "OPEN"
  /\ lane[indent[i].lane].rate = "PUBLISHED" /\ today \in lane[indent[i].lane].window

Bill(i, today) ==
  /\ Billable(i, today)
  /\ indent' = [indent EXCEPT ![i].state = "BILLED"]
  /\ UNCHANGED <<contract, lane, creating, raced>>

-----------------------------------------------------------------------------
Next ==
  \/ CreateContractVersion
  \/ \E state \in DOMAIN Moves : Transition(state)
  \/ Publish
  \/ \E l \in Lanes :
       \/ \E version \in Versions, window \in Windows : BeginLane(l, version, window)
       \/ CommitLane(l)
       \/ \E i \in Indents : ResolveImport(i, l) \/ \E day \in Days : ResolveIndent(i, l, day)
  \/ \E i \in Indents : InsertIndent(i) \/ \E day \in Days : Bill(i, day)

Spec == Init /\ [][Next]_vars

-----------------------------------------------------------------------------
(* Properties                                                              *)

TypeOK ==
  /\ contract \in [state : DOMAIN Moves, current : Versions, published : 0 .. MaxVersions]
  /\ \A l \in Lanes : lane[l] = NoLane \/
       (lane[l].of \in 1 .. contract.current /\ lane[l].rate \in {"DRAFT", "PUBLISHED", "SUPERSEDED"})
  /\ \A i \in Indents : indent[i].state \in {"none", "resolved", "OPEN", "BILLED"}

\* The rates in force are of the version that was published last, and while
\* the contract is published that one is current.
RatesFollowVersions ==
  /\ \A l \in Lanes : lane[l].rate = "PUBLISHED" => lane[l].of = contract.published
  /\ contract.state = "PUBLISHED" => contract.published = contract.current

\* An indent has the conditions of the version that was current when they
\* were looked up, whatever was published until it was inserted.
IndentsAreCurrent == \A i \in Indents : indent[i].version = indent[i].current

\* What was agreed can be billed, on its days, until another version is
\* published; then it cannot any more.
PricedUntilSuperseded ==
  \A i \in Indents : indent[i].state = "OPEN" =>
    \A day \in lane[indent[i].lane].window : Billable(i, day) = (indent[i].version = contract.published)

\* Two rates for one way and one day are of different versions, unless their
\* lanes were created at once.
WaysHaveOneRate ==
  raced \/ \A l, m \in Lanes : l # m /\ lane[l] # NoLane => ~Overlaps(m, lane[l].of, lane[l].window)
=============================================================================
