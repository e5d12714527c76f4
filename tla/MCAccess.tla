------------------------------- MODULE MCAccess -------------------------------
(***************************************************************************)
(* Access to a tenant: who has a working session (TenantAccess), what a    *)
(* member with one may do (Authorization), the generic records they work   *)
(* on (Kernel), and what they ask for in a conversation (Assistant).  Each *)
(* behaviour is one of a single component, which focus names.  Two are     *)
(* taken twice: TenantAccess without logins, and without second links;     *)
(* Authorization with the handlers that write records, and with those that *)
(* write access.                                                           *)
(***************************************************************************)
EXTENDS TenantAccess, TLC

CONSTANTS
  Staff, Offers, LeadRights,        \* of Authorization: its members, proposals and LeadCaps
  MaxRights,                        \* bound: versions of a role, of a membership and of the record
  Records, Contents, Statuses, Initial, Users, MaxVersion, MaxRemarks,  \* of Kernel
  Commands, Keys, Texts, Requests, Nobody, Versions, MaxWrites          \* of Assistant

On(node, action) == [node |-> node, action |-> action]

\* Modules start a record in a status of their own, a text asks for one of two
\* things, and nobody is told apart from members and from commands.
ASSUME KindsAssumption ==
  /\ {MaxRights, MaxVersion, MaxWrites} \subseteq Nat \ {0}
  /\ MaxRemarks \in Nat
  /\ None \notin Staff
  /\ \A p \in Offers : p.role \in {"DRIVER", "LEAD"}
  /\ Initial \in Statuses
  /\ \A t \in Texts : t.intent \in {"CREATE", "CHANGE"}
  /\ Nobody \notin Commands

VARIABLES
  focus,
  lead, rights, audience, signed, record, writer, preview, grantTx, told, mistaken,
  row, snapshots, events, remarks, page,
  sent, proposal, execution, attempt, confirming, written, created, agreed

memberships == vars
authorization == <<lead, rights, audience, signed, record, writer, preview, grantTx, told, mistaken>>
kernel == <<row, snapshots, events, remarks, page>>
assistant == <<sent, proposal, execution, attempt, confirming, written, created, agreed>>

\* A driver's access, and three that are given to a LEAD: one of the whole
\* tenant, one of trips alone, and one that reads and writes elsewhere.
FewOffers ==
  {[role |-> "DRIVER", grants |-> {On("TRIP", "READ"), On("TRIP", "UPDATE")}],
   [role |-> "LEAD", grants |-> {On("TENANT", "ADMIN"), On("BRANCH", "READ")}],
   [role |-> "LEAD", grants |-> {On("TRIP", "ADMIN")}],
   [role |-> "LEAD", grants |-> {On("BRANCH", "UPDATE"), On("TRIP", "READ")}]}

\* A record is created, or the one that is there is changed.
FewTexts == {[intent |-> "CREATE", of |-> 0], [intent |-> "CHANGE", of |-> 1]}

Z == INSTANCE Authorization WITH Members <- Staff, Proposals <- Offers, LeadCaps <- LeadRights,
       MaxVersion <- MaxRights, session <- signed

\* Lists, previews and writes agree with the policy.
AccessIsAsShown ==
  focus \in {"Records", "Previews"} => Z!ListsMatchPolicy /\ Z!PreviewsTell /\ Z!DriversWriteTheirTrips

K == INSTANCE Kernel

\* The history of a record and the pages that show it are whole.
RecordsAreTraced == focus = "Kernel" => K!TypeOK /\ K!PastIsWhole /\ K!PagesAreWhole

Y == INSTANCE Assistant WITH Proposals <- Commands

\* A proposal is executed once, as it was shown, and what was told is on file.
ProposalsAreHonoured == focus = "Assistant" => Y!TypeOK /\ Y!DoneAsProposed /\ Y!AttemptsTell /\ Y!SaidOnce

Focuses == {"Links", "Sessions", "Records", "Previews", "Kernel", "Assistant"}

MCInit ==
  /\ focus \in Focuses
  /\ Init
  /\ Z!Init
  /\ focus \notin {"Records", "Previews"} =>
       "create" \in lead.caps /\ \A m \in Staff : rights[m] = Z!NoRights
  /\ K!Init /\ Y!Init

MCNext ==
  /\ UNCHANGED focus
  /\ \/ /\ focus \in {"Links", "Sessions"}
        /\ UNCHANGED <<authorization, kernel, assistant>>
        /\ Next
        /\ focus = "Links" => \A s \in Sessions : session'[s].phase # "begun"
        /\ focus = "Sessions" => \A m \in Members : \A k \in Links \ {1} : link'[m][k] = "none"
     \/ focus = "Records" /\ UNCHANGED <<memberships, kernel, assistant>> /\ (Z!AccessNext \/ Z!RecordNext)
     \/ focus = "Previews" /\ UNCHANGED <<memberships, kernel, assistant>> /\ (Z!AccessNext \/ Z!PreviewNext)
     \/ focus = "Kernel" /\ UNCHANGED <<memberships, authorization, assistant>> /\ K!Next
     \/ focus = "Assistant" /\ UNCHANGED <<memberships, authorization, kernel>> /\ Y!Next

MCSpec == MCInit /\ [][MCNext]_<<focus, memberships, authorization, kernel, assistant>>

Symmetry == Permutations(Sessions) \cup Permutations(Members \ {Founder})
===============================================================================
