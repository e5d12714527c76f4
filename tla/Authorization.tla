---------------------------- MODULE Authorization ----------------------------
(***************************************************************************)
(* What a member may do with a record that is authorized by scope:         *)
(* apps/backend/src/access.service.ts, with the policy it asks, packages/  *)
(* auth/src/index.ts.  The policy decides about one record, a predicate of *)
(* SQL about all those a list may show, and a preview about the access a   *)
(* member would have if it were changed.  There is one record, and beside  *)
(* the owner, who may do everything, members with one of two roles: DRIVER *)
(* never changes, LEAD is the one that administrators edit.                *)
(*                                                                         *)
(* A write locks the record's row, decides, and stores: the rights may     *)
(* change in between, the record may not.  updateAccess locks the row of   *)
(* the membership, checks what was previewed, and only its inserts lock    *)
(* the role.  Of authorization versions only equality is asked, so a       *)
(* session has current or past ones.  Members may have been invited with   *)
(* access before.                                                          *)
(***************************************************************************)
EXTENDS Naturals, FiniteSets

CONSTANTS
  Members,
  None,
  Proposals,   \* what may be proposed: a role, and actions on nodes
  LeadCaps,    \* sets of capabilities LEAD may be given
  MaxVersion   \* bound: versions of the role, of a membership and of the record

VARIABLES
  lead,      \* app.roles and app.role_capabilities of LEAD
  rights,    \* app.membership_role_assignments and app.scope_grants
  audience,  \* portal_audience of each membership
  session,   \* of each member: the versions it holds
  record,    \* app.authorization_probe_records
  writer,    \* who has the record's row locked
  preview,   \* the preview an administrator looks at
  grantTx,   \* an updateAccess that has checked its preview
  told,      \* what the preview of a member's present access said
  mistaken   \* whether a driver ever wrote to a trip of somebody else

vars == <<lead, rights, audience, session, record, writer, preview, grantTx, told, mistaken>>
administration == <<preview, grantTx, told>>

Capability == {"read", "create", "update", "approve", "admin"}
Needs == [read |-> "READ", create |-> "CREATE", update |-> "UPDATE", approve |-> "APPROVE", admin |-> "ADMIN"]

\* Scope nodes: a trip's lies in a branch of the tenant.
Above(n) == CASE n = "TENANT" -> {} [] n = "BRANCH" -> {"TENANT"} [] n = "TRIP" -> {"BRANCH", "TENANT"}

NoRecord == [type |-> "none", node |-> "TENANT", assigned |-> None, version |-> 0]
NoRights == [role |-> "none", grants |-> {}, version |-> 1]
NoPreview == [of |-> None, by |-> None, expected |-> 0, roleVersion |-> 0, proposal |-> NoRights, cells |-> {}]
NoWriter == [by |-> None, kind |-> "update", audience |-> "INTERNAL", phase |-> "locked"]

Init ==
  /\ lead \in [caps : LeadCaps, status : {"ACTIVE"}, version : {1}]
  /\ rights \in [Members -> {NoRights} \cup
       {[role |-> p.role, grants |-> p.grants, version |-> 1] : p \in Proposals}]
  /\ audience = [m \in Members |-> IF rights[m].role = "DRIVER" THEN "DRIVER" ELSE "INTERNAL"]
  /\ session = [m \in Members |-> "none"]
  /\ record = NoRecord
  /\ writer = NoWriter
  /\ preview = NoPreview
  /\ grantTx = NoPreview
  /\ told = [m \in Members |-> {}]
  /\ mistaken = FALSE

(***************************************************************************)
(* The policy.                                                             *)
(***************************************************************************)
CapsOf(role) ==
  CASE role = "DRIVER" -> {"read", "update"}
    [] role = "LEAD" /\ lead.status = "ACTIVE" -> lead.caps
    [] OTHER -> {}

Covering(grants, cap, nodes) ==
  {g \in grants : g.action \in {Needs[cap], "ADMIN"} /\ g.node \in nodes}

Resource(type, node, assigned) == [trip |-> type = "TRIP", node |-> node, assigned |-> assigned]
TheRecord == Resource(record.type, record.node, record.assigned)

NotMine(m, resource) == resource.trip /\ resource.assigned # m

\* evaluatePolicy: some assignment has the capability, and some grant of it
\* covers the resource; one on the node of a trip only for the assigned user.
Decide(m, cap, resource) ==
  /\ session[m] = "current"
  /\ ~(audience[m] = "DRIVER" /\ NotMine(m, resource))
  /\ cap \in CapsOf(rights[m].role)
  /\ \E g \in Covering(rights[m].grants, cap, {resource.node} \cup Above(resource.node)) :
       ~(g.node = "TRIP" /\ NotMine(m, resource))

\* scopePredicate, after assertCurrent.
Listed(m, cap) ==
  /\ session[m] = "current" /\ record.type # "none"
  /\ cap \in CapsOf(rights[m].role)
  /\ \E g \in Covering(rights[m].grants, cap, {record.node} \cup Above(record.node)) :
       /\ g.node = "TRIP" => record.assigned = m
       /\ audience[m] = "DRIVER" /\ record.type = "TRIP" => record.assigned = m

\* The same policy, asked for each capability on each node that is proposed,
\* of which neither the type nor the ancestors are given.
Cells(proposed) ==
  {[cap |-> cap, node |-> g.node,
    allowed |-> Covering(proposed.grants, cap, {g.node}) # {}] :
     cap \in CapsOf(proposed.role), g \in proposed.grants}

\* Owners administer everything.  Another must hold ADMIN on all they give.
Delegable(by, proposed) ==
  by # None =>
    /\ Decide(by, "admin", Resource("none", "TENANT", None))
    /\ \A cap \in CapsOf(proposed.role), g \in proposed.grants :
         /\ Decide(by, cap, Resource("none", g.node, None))
         /\ \E mine \in rights[by].grants : mine.action = "ADMIN" /\ mine.node \in {g.node} \cup Above(g.node)

(***************************************************************************)
(* The record.                                                             *)
(***************************************************************************)
Bumped(M) == [m \in Members |-> IF m \in M /\ session[m] = "current" THEN "past" ELSE session[m]]

Free(m) == grantTx.of # m

\* by an owner, or by a member whose rights cover what is created.
CreateRecord(by, type, node, assigned) ==
  /\ record = NoRecord
  /\ by # None => Decide(by, "create", Resource(type, node, assigned))
  /\ record' = [type |-> type, node |-> node, assigned |-> assigned, version |-> 1]
  /\ UNCHANGED <<lead, rights, audience, session, writer, mistaken, administration>>

RecordFree == writer = NoWriter

\* updateProbe and approveProbe lock the row first and then decide.
Lock(m, kind) ==
  /\ record # NoRecord /\ RecordFree
  /\ session[m] # "none"
  /\ writer' = [by |-> m, kind |-> kind, audience |-> audience[m], phase |-> "locked"]
  /\ UNCHANGED <<lead, rights, audience, session, record, mistaken, administration>>

Deny ==
  /\ writer.phase = "locked" /\ writer # NoWriter
  /\ ~Decide(writer.by, writer.kind, TheRecord)
  /\ writer' = NoWriter
  /\ UNCHANGED <<lead, rights, audience, session, record, mistaken, administration>>

DecideWrite ==
  /\ writer.phase = "locked" /\ writer # NoWriter
  /\ Decide(writer.by, writer.kind, TheRecord)
  /\ writer' = [writer EXCEPT !.phase = "decided", !.audience = audience[writer.by]]
  /\ UNCHANGED <<lead, rights, audience, session, record, mistaken, administration>>

\* An approval only writes to the audit.
Store ==
  /\ writer.phase = "decided"
  /\ IF writer.kind = "approve" THEN UNCHANGED record
     ELSE record.version < MaxVersion /\ record' = [record EXCEPT !.version = @ + 1]
  /\ mistaken' = (mistaken \/ (writer.audience = "DRIVER" /\ NotMine(writer.by, TheRecord)))
  /\ writer' = NoWriter
  /\ UNCHANGED <<lead, rights, audience, session, administration>>

\* A version that was not the expected one, or a crash.
GiveUp ==
  /\ writer.phase = "decided"
  /\ writer' = NoWriter
  /\ UNCHANGED <<lead, rights, audience, session, record, mistaken, administration>>

\* The old and the new driver have to sign in again.
ReassignRecord(m) ==
  /\ record.type = "TRIP" /\ RecordFree
  /\ audience[m] = "DRIVER" /\ rights[m].role = "DRIVER"
  /\ Free(m) /\ \A o \in Members : record.assigned = o => Free(o)
  /\ record.version < MaxVersion
  /\ record' = [record EXCEPT !.assigned = m, !.version = @ + 1]
  /\ session' = Bumped({record.assigned, m})
  /\ UNCHANGED <<lead, rights, audience, writer, mistaken, administration>>

(***************************************************************************)
(* Access.                                                                 *)
(***************************************************************************)
SignIn(m) ==
  /\ session[m] # "current" /\ rights[m].role # "none" /\ Free(m)
  /\ session' = [session EXCEPT ![m] = "current"]
  /\ UNCHANGED <<lead, rights, audience, record, writer, mistaken, administration>>

\* The role must be active and made for the member's portal.
Assignable(m, proposed) ==
  /\ proposed.role = "LEAD" => lead.status = "ACTIVE"
  /\ (proposed.role = "DRIVER") = (audience[m] = "DRIVER")

Preview(by, m, proposed) ==
  /\ by # m /\ Assignable(m, proposed) /\ Delegable(by, proposed)
  /\ preview' = [of |-> m, by |-> by, expected |-> rights[m].version, roleVersion |-> lead.version,
                 proposal |-> proposed, cells |-> Cells(proposed)]
  /\ UNCHANGED <<lead, rights, audience, session, record, writer, grantTx, told, mistaken>>

\* Mutant: the fingerprint does not cover the versions of the roles.
SameButRoles(m) == rights[m].version = preview.expected

\* The fingerprint of what was previewed is still that of what would be.
SameFingerprint(m) ==
  /\ rights[m].version = preview.expected
  /\ preview.proposal.role = "LEAD" => lead.version = preview.roleVersion

BeginUpdateAccess(m) ==
  /\ preview.of = m /\ grantTx = NoPreview
  /\ Assignable(m, preview.proposal) /\ Delegable(preview.by, preview.proposal)
  /\ SameFingerprint(m)
  /\ rights[m].version < MaxVersion
  /\ grantTx' = [preview EXCEPT !.roleVersion = lead.version]
  /\ UNCHANGED <<lead, rights, audience, session, record, writer, preview, told, mistaken>>

\* replaceAssignments and what follows.  Only if the role changed since the
\* check is what was told forgotten here.
CommitUpdateAccess ==
  LET m == grantTx.of IN
  /\ grantTx # NoPreview
  /\ rights' = [rights EXCEPT ![m] = [role |-> grantTx.proposal.role, grants |-> grantTx.proposal.grants,
                                      version |-> @.version + 1]]
  /\ session' = Bumped({m})
  /\ told' = [told EXCEPT ![m] = IF grantTx.proposal.role = "LEAD" /\ lead.version # grantTx.roleVersion
                                   THEN {} ELSE grantTx.cells]
  /\ grantTx' = NoPreview /\ preview' = NoPreview
  /\ UNCHANGED <<lead, audience, record, writer, mistaken>>

Leads == {m \in Members : rights[m].role = "LEAD"}

\* UPDATE of the role's members waits for those that updateAccess locked.
RoleChanges(caps, status) ==
  /\ lead.version < MaxVersion
  /\ \A m \in Leads : Free(m)
  /\ lead' = [caps |-> caps, status |-> status, version |-> lead.version + 1]
  /\ session' = Bumped(Leads)
  /\ told' = [m \in Members |-> IF m \in Leads THEN {} ELSE told[m]]
  /\ UNCHANGED <<rights, audience, record, writer, preview, grantTx, mistaken>>

\* Whether or not it is active.
UpdateRole(caps) == RoleChanges(caps, lead.status)
DeactivateRole == RoleChanges(lead.caps, "INACTIVE")

\* Refused while the member has an active role for another portal.
ChangeAudience(m) ==
  /\ Free(m) /\ rights[m].version < MaxVersion
  /\ rights[m].role = "none" \/ (rights[m].role = "LEAD" /\ lead.status = "INACTIVE")
  /\ audience' = [audience EXCEPT ![m] = IF @ = "DRIVER" THEN "INTERNAL" ELSE "DRIVER"]
  /\ rights' = [rights EXCEPT ![m].version = @ + 1]
  /\ session' = Bumped({m})
  /\ UNCHANGED <<lead, record, writer, mistaken, administration>>

-----------------------------------------------------------------------------
RecordNext ==
  \/ \E by \in Members \cup {None}, type \in {"TRIP", "OTHER"}, node \in {"BRANCH", "TRIP"},
       u \in Members \cup {None} : CreateRecord(by, type, node, u)
  \/ \E m \in Members :
       \/ \E kind \in {"update", "approve"} : Lock(m, kind)
       \/ ReassignRecord(m)
  \/ Deny \/ DecideWrite \/ Store \/ GiveUp

PreviewNext ==
  \/ \E m \in Members :
       \/ \E by \in Members \cup {None}, proposed \in Proposals : Preview(by, m, proposed)
       \/ BeginUpdateAccess(m)
  \/ CommitUpdateAccess

AccessNext ==
  \/ \E m \in Members : SignIn(m) \/ ChangeAudience(m)
  \/ \E caps \in LeadCaps : UpdateRole(caps)
  \/ DeactivateRole

Next == RecordNext \/ PreviewNext \/ AccessNext

-----------------------------------------------------------------------------
(* Properties                                                              *)

TypeOK ==
  /\ lead \in [caps : LeadCaps, status : {"ACTIVE", "INACTIVE"}, version : 1 .. MaxVersion]
  /\ \A m \in Members : rights[m].role \in {"none", "DRIVER", "LEAD"} /\ rights[m].version \in 1 .. MaxVersion
  /\ audience \in [Members -> {"DRIVER", "INTERNAL"}]
  /\ session \in [Members -> {"none", "current", "past"}]
  /\ record.version \in 0 .. MaxVersion

\* What a list shows is what the policy lets the member read, and it shows
\* all of that, but for records other than trips whose only grant is one on
\* the node of a trip.
ListsMatchPolicy ==
  \A m \in Members, cap \in Capability :
    /\ Listed(m, cap) => Decide(m, cap, TheRecord)
    /\ record.type = "TRIP" /\ Decide(m, cap, TheRecord) => Listed(m, cap)
    /\ record.type = "OTHER" /\ Decide(m, cap, TheRecord) /\ ~Listed(m, cap) =>
         \A g \in Covering(rights[m].grants, cap, {record.node} \cup Above(record.node)) : g.node = "TRIP"

\* Who was given access with a preview has, as long as the role is the same,
\* the capabilities it said, and lacks those it denied unless a grant higher
\* up has them.
PreviewsTell ==
  \A m \in Members : \A c \in told[m] :
    /\ c.allowed => /\ c.cap \in CapsOf(rights[m].role)
                    /\ Covering(rights[m].grants, c.cap, {c.node} \cup Above(c.node)) # {}
    /\ ~c.allowed => Covering(rights[m].grants, c.cap, {c.node}) = {}

\* A driver only writes to a trip assigned to that driver, also when it is
\* reassigned meanwhile.
DriversWriteTheirTrips == ~mistaken
=============================================================================
