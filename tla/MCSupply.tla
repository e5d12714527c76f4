------------------------------- MODULE MCSupply -------------------------------
(***************************************************************************)
(* From the contract to the trip: indents, offers and assignments          *)
(* (Placement), the rules that make offers (RuleExecution), the contract   *)
(* they are priced by (Contracts), the vendors they go to                  *)
(* (VendorStanding), and the keys under which all of it may be repeated    *)
(* (Idempotency).  Each behaviour is one of a single component, which      *)
(* focus names: what one takes from another - an indent has a rate, a      *)
(* vehicle is compliant - only lets a request fail.                        *)
(*                                                                         *)
(* No handler of Placement tells one row of a table from another, so every *)
(* set of its identifiers is symmetric.                                    *)
(***************************************************************************)
EXTENDS Placement, TLC

CONSTANTS
  Lanes, Windows, Days, Indents, MaxVersions,                    \* of Contracts
  Users, Nobody, Requirements, Batches, Decisions, MaxPapers,    \* of VendorStanding
  MaxAccounts,                      \* bound: versions of the vendor's account
  RuleKeys, RuleRequests, Vendors, AnyVendor, Demand, MaxEdits, MaxAllocations,  \* of RuleExecution
  Posts, Tenants, Keys, Inputs, Anybody, MaxRows                 \* of Idempotency

\* Contracts and rules start with a version, and no request asks with the names that
\* mark offers made without a key.
ASSUME SupplyAssumption ==
  /\ {MaxVersions, MaxEdits} \subseteq Nat \ {0}
  /\ {MaxAccounts, MaxPapers, Demand, MaxAllocations} \subseteq Nat
  /\ Nobody \notin Users
  /\ RuleKeys \cap {"none", "manual"} = {}

VARIABLES
  focus,
  contract, lane, creating, order, raced,
  account, verifying, crowded, batch, paper, expired, override,
  rule, envelope, offered, executed, request,
  helper, record, row, post, answers, clashes

placement == vars
contracts == <<contract, lane, creating, order, raced>>
standing == <<account, verifying, crowded, batch, paper, expired, override>>
rules == <<rule, envelope, offered, executed, request>>
repeated == <<helper, record, row, post, answers, clashes>>

C == INSTANCE Contracts WITH indent <- order

\* Rates follow the versions of their contract, indents are priced by the
\* current one until another is published, and a way has one rate.
RatesAreAgreed ==
  focus = "Contracts" =>
    C!TypeOK /\ C!RatesFollowVersions /\ C!IndentsAreCurrent /\ C!PricedUntilSuperseded /\ C!WaysHaveOneRate

V == INSTANCE VendorStanding WITH Versions <- 1 .. MaxAccounts

\* Accounts and papers of a vendor are those that were verified last.
VendorsAreVetted ==
  focus \in {"Accounts", "Compliance"} => V!TypeOK /\ V!AccountsAreInForce /\ V!PapersAreDecided

R == INSTANCE RuleExecution WITH Keys <- RuleKeys, Requests <- RuleRequests, Any <- AnyVendor,
       allocation <- offered
K == INSTANCE Idempotency

\* A key does one thing however often a request is repeated, and what is told
\* was done: also where a rule allocates, which takes six transactions, and
\* then for no more than the indent asks for.
RequestsRunOnce ==
  /\ focus = "Rules" => R!TypeOK /\ R!AllocatedOnce /\ R!ToldIsDone /\ R!DemandIsKept
  /\ focus = "Keys" => K!TypeOK /\ K!KeysCountOnce /\ K!RepetitionsAreAnswered

Focuses == {"Placement", "Contracts", "Accounts", "Compliance", "Rules", "Keys"}

MCInit ==
  /\ focus \in Focuses
  /\ Init /\ C!Init /\ V!Init /\ R!Init /\ K!Init
  /\ focus # "Rules" => rule.max = 1
  /\ focus # "Keys" => helper = K!Bulk

MCNext ==
  /\ UNCHANGED focus
  /\ \/ focus = "Placement" /\ UNCHANGED <<contracts, standing, rules, repeated>> /\ Next
     \/ focus = "Contracts" /\ UNCHANGED <<placement, standing, rules, repeated>> /\ C!Next
     \/ focus = "Accounts" /\ UNCHANGED <<placement, contracts, rules, repeated>> /\ V!AccountNext
     \/ focus = "Compliance" /\ UNCHANGED <<placement, contracts, rules, repeated>> /\ V!ComplianceNext
     \/ focus = "Rules" /\ UNCHANGED <<placement, contracts, standing, repeated>> /\ R!Next
     \/ focus = "Keys" /\ UNCHANGED <<placement, contracts, standing, rules>> /\ K!Next

MCSpec == MCInit /\ [][MCNext]_<<focus, placement, contracts, standing, rules, repeated>>

Symmetry == Permutations(Indent) \cup Permutations(Allocation)
            \cup Permutations(Vehicle) \cup Permutations(Trip)
===============================================================================
