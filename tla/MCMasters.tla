------------------------------ MODULE MCMasters ------------------------------
(***************************************************************************)
(* The masters and the ways into a tenant, side by side: the organization, *)
(* the employees, the files that are imported, the links that set a        *)
(* password and the invitation of the first owner share no row that a      *)
(* property here looks at, so each behaviour is one of a single component, *)
(* which focus names, while the others stay as they started.               *)
(***************************************************************************)
EXTENDS Hierarchy, Sequences, FiniteSets, TLC

CONSTANTS
  Crew, First, Places, Invitees, Covers, Assignments, MaxUnlocked,       \* of Employees
  Files, Rows, Headless, Financial, InsertOnly, Attachments, FileOf,     \* of Imports
  Codes, Values, Users, Sender, Sessions, Keys, MaxEdits,
  Tenants, Home, Links, Requests, ResetKeys, Window, PerSource, PerUser, \* of Passwords
  PerOperator, Life, MaxTime, MaxChanges,
  Workers, MaxIssues, MaxAttempts, MaxFaults, MaxClosings                \* of OwnerInvitation

\* Employees live and work in scopes, files have rows for codes, and a user is
\* of one tenant first; None is none of them.
ASSUME MastersAssumption ==
  /\ First \in Crew /\ Home \in Tenants /\ Sender \in Users
  /\ \A e \in Crew : Covers[e] \subseteq SUBSET Places
  /\ Rows \in [Files -> Seq([code : Codes, value : Values \cup {"INVALID", "BROKEN"}])]
  /\ FileOf \in [Attachments -> Files]
  /\ Values \cap {"INVALID", "BROKEN"} = {}
  /\ \A S \in {Crew, Files, Attachments, Keys, Values, Links, Workers} : None \notin S
  /\ None \notin {"SELF_SERVICE", "TENANT_ADMIN"}
  /\ IsFiniteSet(Files) /\ IsFiniteSet(Codes) /\ IsFiniteSet(Attachments) /\ IsFiniteSet(Links)
  /\ {MaxUnlocked, MaxEdits, PerUser, MaxTime, MaxChanges} \subseteq Nat
  /\ {MaxAttempts, MaxFaults, MaxClosings} \subseteq Nat
  /\ Window \in Nat \ {0} /\ MaxIssues \in Nat \ {0}
  /\ IsFiniteSet(Workers)

VARIABLES
  focus,
  staff, link, assigned, open, hand, left, gone, unlocked,
  job, master, outbox, handoff, tx, edits,
  member, opened, counter, changes, resets, asked, tried, answer, request, spending, passwords,
  broken, clock,
  issue, accepted, expiry, delivery, invited, attempt, event, tenant, closings, work, faults,
  mails, overtaken

hierarchy == vars
employees == <<staff, link, assigned, open, hand, left, gone, unlocked>>
imports == <<job, master, outbox, handoff, tx, edits>>
identity == <<member, opened, counter, changes, resets, asked, tried, answer, request, spending,
                passwords, broken, clock>>
invitation == <<issue, accepted, expiry, delivery, invited, attempt, event, tenant, closings, work,
                faults, mails, overtaken>>

(***************************************************************************)
(* Employees: one has a membership and may move between two scopes.        *)
(***************************************************************************)
FewCovers == [e \in Crew |-> IF e = First THEN {{s} : s \in Places} ELSE {{}}]

E == INSTANCE Employees WITH Employees <- Crew, Members <- Invitees, Scopes <- Places

\* Managers form no circle, nobody who stayed is left with a superior who is
\* gone, and managed grants follow the home and the regions.
StaffIsLedAndPlaced ==
  focus = "Employees" => E!TypeOK /\ E!NoCircle /\ E!NobodyLeftBehind /\ E!GrantsFollowCover

(***************************************************************************)
(* Imports: two files that give each other's codes other values, one of    *)
(* rows that never change what is there, and one without its header.       *)
(***************************************************************************)
FewRows ==
  "f1" :> <<[code |-> "c1", value |-> "v1"], [code |-> "c2", value |-> "v2"]>> @@
  "f2" :> <<[code |-> "c2", value |-> "v1"], [code |-> "c1", value |-> "INVALID"]>> @@
  "f3" :> <<[code |-> "c1", value |-> "v2"], [code |-> "c1", value |-> "v1"]>> @@
  "f4" :> <<[code |-> "c1", value |-> "BROKEN"]>>

FileOfAll == [a \in Attachments |-> "f1"]

I == INSTANCE Imports

\* What the jobs report is what was done to the records, and a file is
\* committed whole, announced once and handed over once.
ImportsAreAccounted == focus = "Imports" => I!TypeOK /\ I!ReportsMatch /\ I!JobsAreWhole

(***************************************************************************)
(* Passwords: a user of two tenants, whose memberships change or for whom  *)
(* time passes.                                                            *)
(***************************************************************************)
W == INSTANCE Passwords WITH open <- opened, link <- resets, Keys <- ResetKeys

\* A new password ends the links there are, and links are rationed.
PasswordsAreReset == focus \in {"Passwords", "Rationing"} => W!TypeOK /\ W!OldLinksEnd /\ W!LinksAreRationed

(***************************************************************************)
(* OwnerInvitation: two instances mail a link that is reissued, accepted   *)
(* or expires, while one of them stops or stalls.                          *)
(***************************************************************************)
O == INSTANCE OwnerInvitation WITH member <- invited

\* Each link is mailed once, but for records made under a lease that was no
\* longer the recorder's own.
LinksAreMailedOnce == focus = "Invitation" => O!TypeOK /\ O!MailsAreBounded

\* As long as there was no such record, the attempt, the invitation and the
\* outbox event tell the same story.
InvitationsAgree == focus = "Invitation" => O!QueueAgrees

(***************************************************************************)
(* Together.                                                               *)
(***************************************************************************)
Focuses == {"Hierarchy", "Employees", "Imports", "Passwords", "Rationing", "Invitation"}

MCInit ==
  /\ focus \in Focuses
  /\ Init
  /\ E!Init /\ staff[First].state = "ACTIVE" /\ staff[First].cover = CHOOSE c \in Covers[First] : TRUE
  /\ I!Init
  /\ W!Init /\ member = [t \in Tenants |-> IF t = Home THEN "ACTIVE" ELSE "NONE"]
  /\ CASE focus = "Rationing" -> changes # 0 /\ clock = 0
       [] OTHER -> changes = 0 /\ clock # 0
  /\ O!Init /\ (focus # "Invitation" => attempt.envelope = 1 /\ tenant = "ACTIVE")

MCNext ==
  /\ UNCHANGED focus
  /\ \/ focus = "Hierarchy" /\ UNCHANGED <<employees, imports, identity, invitation>> /\ Next
     \/ focus = "Employees" /\ UNCHANGED <<hierarchy, imports, identity, invitation>> /\ E!Next
     \/ focus = "Imports" /\ UNCHANGED <<hierarchy, employees, identity, invitation>> /\ I!Next
     \/ focus \in {"Passwords", "Rationing"} /\ UNCHANGED <<hierarchy, employees, imports, invitation>> /\ W!Next
     \/ focus = "Invitation" /\ UNCHANGED <<hierarchy, employees, imports, identity>> /\ O!Next

MCSpec == MCInit /\ [][MCNext]_<<focus, hierarchy, employees, imports, identity, invitation>>

Symmetry == Permutations(Nodes \ {Root})
==============================================================================
