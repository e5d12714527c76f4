------------------------------- MODULE MCDesks -------------------------------
(***************************************************************************)
(* The smaller components, side by side: no two of them share a table, so  *)
(* each behaviour is one of a single component, which focus names, while   *)
(* the others stay as they started, and what is asked of a component is    *)
(* asked where it moves.                                                   *)
(***************************************************************************)
EXTENDS Integers, Sequences, FiniteSets, TLC

CONSTANTS
  None, Web, User,
  ReceiptId, Entry, Seeded, Session,                                   \* of Receipts
  Messages, Proposals, Instances, Scripts, MaxCodes, MaxChanges, MaxPosts, MaxFaults,  \* of Conversation
  Outbound, Payloads, MaxAttempts, PerRun, MaxTries,                   \* of Integrations
  Clients, Roots, EventKeys, Window, MaxTime,
  Sources, Incidents, Resources, Workers, Calls, MaxDay, MaxSteps,     \* of Alerts
  Roles, RolesOf, Requests, Snapshots, PolicySteps, MaxPolicies,       \* of Approvals
  Papers, Attachments, Tokens, MaxVersions, PerScan, MaxEdits,         \* of Documents
  Values, MaxVersion, MaxOpen                                          \* of Configurations

\* A link names a code, alerts are about different things, and None and Web
\* are none of them.
ASSUME DesksAssumption ==
  /\ \A S \in {User, Entry, Messages, Proposals, Instances, Clients} : None \notin S
  /\ None \notin Nat /\ None \notin Papers \X Nat /\ None \notin {"ACCEPTED", "UNBOUND"}
  /\ Web \notin Messages \cup {None}
  /\ Scripts \subseteq [Messages -> [kind : {"TEXT", "CONFIRM", "CANCEL", "START", "STOP", "LINK"},
                                     about : Proposals \cup (1 .. MaxCodes) \cup {None}]]
  /\ \A s \in Scripts : \A m \in Messages : s[m].kind = "LINK" => s[m].about \in 1 .. MaxCodes
  /\ Roots \subseteq Clients /\ Seeded \subseteq Entry /\ PolicySteps \subseteq Seq(Roles)
  /\ Sources \cap Incidents = {} /\ Sources \cap Resources = {} /\ Incidents \cap Resources = {}
  /\ IsFiniteSet(Entry)
  /\ {MaxCodes, MaxChanges, MaxPosts, MaxFaults, Window, MaxTime, MaxPolicies, MaxVersion} \subseteq Nat
  /\ {MaxAttempts, MaxTries, MaxDay} \subseteq Nat \ {0}

VARIABLES
  focus,
  money, ledger, session,
  said, claim, receipt, messages, proposal, executed, linked, codes, challenge, consent,
  consentEvent, changes, replies, work, posts, answered, faults, effects,
  parted, early, overtaken,
  delivery, letter, tried, due, client, clock, webhooks, meant,
  source, unowned, rule, alert, evaluated, notice, run, look, day, recorded,
  handed, steps,
  policy, request, asking, decisions, overrides, overlapped, edits,
  document, version, order, scan, batch, handoff, token, comment, history,
  config, drafting, publishing, projection, crossed

receipts == <<money, ledger, session>>
conversation ==
  <<said, claim, receipt, messages, proposal, executed, linked, codes, challenge, consent,
    consentEvent, changes, replies, work, posts, answered, faults, effects,
    parted, early, overtaken>>
outgoing == <<delivery, letter, tried, due>>
incoming == <<client, clock, webhooks, meant>>
rules == <<source, rule, evaluated, notice, run, day>>
notes == <<unowned, look, recorded>>
approvals == <<policy, request, asking, decisions, overrides, overlapped, edits>>
papers == <<document, version, order, scan, batch, handoff, token>>
comments == <<comment, history>>
configurations == <<config, drafting, publishing, projection, crossed>>

(***************************************************************************)
(* Receipts: one receipt, and entries of which two are there from the      *)
(* start.                                                                  *)
(***************************************************************************)
R == INSTANCE Receipts WITH Receipt <- ReceiptId, receipt <- money, Null <- None

\* What the registers show as received is never more than what the ledger
\* adds up to (the reversals of reverseReceiptEntry), and a reconciled
\* receipt was submitted by somebody other than its maker.
ReceiptsAreSound == focus = "Receipts" => R!TypeOK /\ R!ReceivedNotOverstated /\ R!ReconciledByTwo

(***************************************************************************)
(* Conversation: four scripts of three messages: a bare CANCEL and a bare  *)
(* CONFIRM with two proposals about, a change of mind about alerts, and a  *)
(* text from a number that is linked later.                                *)
(***************************************************************************)
Say(kind, about) == [kind |-> kind, about |-> about]
Talk(a, b, c) == "e1" :> a @@ "e2" :> b @@ "e3" :> c
AProposal == CHOOSE p \in Proposals : TRUE
FewScripts == {
  Talk(Say("TEXT", None), Say("TEXT", None), Say("CANCEL", None)),
  Talk(Say("TEXT", None), Say("CONFIRM", None), Say("CANCEL", AProposal)),
  Talk(Say("TEXT", None), Say("START", None), Say("STOP", None)),
  Talk(Say("TEXT", None), Say("LINK", 1), Say("LINK", 1))}

C == INSTANCE Conversation WITH Events <- Messages

\* A message, a confirmation or a link has one effect however often it is
\* posted, a proposal is decided once, and a reply is queued for what took
\* effect, and for nothing else; and a message that was answered 200 is settled
\* or still being worked on.
OneLogicalEffect ==
  focus = "Conversation" =>
    C!TypeOK /\ C!EventsTakeEffectOnce /\ C!DecidedOnce /\ C!RepliesAreTrue /\ C!NothingIsForgotten

(***************************************************************************)
(* Integrations: two deliveries, and apart from them a credential that   *)
(* is rotated twice.                                                       *)
(***************************************************************************)
N == INSTANCE Integrations WITH Events <- Outbound, Limit <- PerRun, MaxVersion <- MaxTries

(***************************************************************************)
(* Alerts: one source that two runs of the worker evaluate; and apart from *)
(* it one code and one resource.                                           *)
(***************************************************************************)
A == INSTANCE Alerts WITH Codes <- Incidents, Members <- User

\* A delivery that was given up has an open letter, rotation leaves a valid
\* credential, and an alert counts each thing it was raised for once and its
\* owner knows.
NothingIsOverlooked ==
  /\ focus \in {"Deliveries", "Credentials"} => N!TypeOK /\ N!LettersMatch /\ N!RotationKeepsAccess
  /\ focus \in {"Rules", "Notes"} => A!TypeOK /\ A!AlertsAreAccounted /\ A!OwnersAreTold

(***************************************************************************)
(* Approvals, Documents and Configurations: the parts of a governed        *)
(* change, which share no table either.                                    *)
(***************************************************************************)
FewPolicies == {<<"LEAD">>, <<"LEAD", "FINANCE">>}
AllRoles == [u \in User |-> Roles]

P == INSTANCE Approvals WITH crossed <- overlapped, Users <- User, MaxEdits <- MaxPolicies

D == INSTANCE Documents WITH Documents <- Papers, Users <- User, Limit <- PerScan

G == INSTANCE Configurations

\* An approval is earned step by step, by people other than who asked, each
\* decision is used once, and a configuration that was published stays so until
\* another is.
ChangesAreGoverned ==
  /\ focus = "Approvals" => P!TypeOK /\ P!ApprovalIsEarned /\ P!OneSnapshotPending /\ P!OverridesAreApproved
  /\ focus = "Configurations" => G!TypeOK /\ G!ConfigurationHolds

\* The verdict on a document is that on its current version, and its links
\* and comments are what they seem.
VerdictsFollowVersions ==
  focus \in {"Papers", "Comments"} =>
    D!TypeOK /\ D!VerdictsFollowVersions /\ D!LinksAreClean /\ D!CommentsAreTheirAuthors

(***************************************************************************)
(* Together.                                                               *)
(***************************************************************************)
Focuses == {"Receipts", "Conversation", "Deliveries", "Credentials", "Rules", "Notes",
            "Approvals", "Papers", "Comments", "Configurations"}

Init ==
  /\ focus \in Focuses
  /\ R!Init
  /\ C!Init
  /\ linked = (\A e \in DOMAIN said : said[e].kind # "LINK")
  /\ focus # "Conversation" => said = CHOOSE s \in Scripts : \E m \in Messages : s[m].kind = "START"
  /\ N!Init
  /\ A!Init
  /\ P!Init
  /\ focus # "Approvals" => policy.steps = CHOOSE s \in PolicySteps : Len(s) = 1
  /\ D!Init
  /\ G!Init
  /\ focus # "Notes" => unowned = {}
  /\ focus # "Rules" => \A s \in DOMAIN source : source[s] = [level |-> "LOW", owner |-> None]

Others ==
  /\ focus = "Receipts" \/ UNCHANGED receipts
  /\ focus = "Conversation" \/ UNCHANGED conversation
  /\ focus = "Deliveries" \/ UNCHANGED outgoing
  /\ focus = "Credentials" \/ UNCHANGED incoming
  /\ focus = "Rules" \/ UNCHANGED rules
  /\ focus = "Notes" \/ UNCHANGED notes
  /\ focus \in {"Rules", "Notes"} \/ UNCHANGED <<alert, handed, steps>>
  /\ focus = "Approvals" \/ UNCHANGED approvals
  /\ focus = "Papers" \/ UNCHANGED papers
  /\ focus = "Comments" \/ UNCHANGED comments
  /\ focus = "Configurations" \/ UNCHANGED configurations

Next ==
  /\ UNCHANGED focus
  /\ Others
  /\ \/ focus = "Receipts" /\ R!Next
     \/ focus = "Conversation" /\ C!Next
     \/ focus \in {"Deliveries", "Credentials"} /\ N!Next
     \/ focus \in {"Rules", "Notes"} /\ A!Next
     \/ focus = "Approvals" /\ P!Next
     \/ focus \in {"Papers", "Comments"} /\ D!Next
     \/ focus = "Configurations" /\ G!Next

vars == <<focus, receipts, conversation, outgoing, incoming, rules, notes, alert, handed, steps,
          approvals, papers, comments, configurations>>

Spec == Init /\ [][Next]_vars

Symmetry == Permutations(Instances)
==============================================================================
