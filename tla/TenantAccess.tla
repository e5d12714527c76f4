----------------------------- MODULE TenantAccess -----------------------------
(***************************************************************************)
(* Who may work in a tenant: its memberships, the links that activate      *)
(* them, and the sessions of their users.  Two services write them:        *)
(*   tenant    apps/backend/src/access.service.ts, for the tenant's own    *)
(*             administrators                                              *)
(*   platform  apps/backend/src/app.service.ts, for platform               *)
(*             administrators, and for login and sessions                  *)
(*                                                                         *)
(* Handlers are READ COMMITTED transactions that lock the membership they  *)
(* write.  Those that may take an owner away first count the other owners, *)
(* which they do not lock: they are two steps.  Each service serialises    *)
(* its own such handlers with an advisory lock, but not with one of the    *)
(* other's.  Opening a session is three steps: the credentials, or the     *)
(* session it succeeds, are verified; the versions are read; the row is     *)
(* inserted, which waits for the row of the membership.                    *)
(*                                                                         *)
(* Authorization versions are only ever compared for equality, so a        *)
(* session has "current" or "past" ones.  An expectedVersion or a preview  *)
(* fingerprint only makes a stale request fail.  A member has one role,    *)
(* and may ask for a password-reset link at any time.  A session that      *)
(* still lacks a second factor is an open one: it can be succeeded by one  *)
(* that has it.  What a password and a role's capabilities are is told     *)
(* apart from what they were by two values of each.                        *)
(***************************************************************************)
EXTENDS Naturals

CONSTANTS
  Members,
  Founder,    \* the owner the tenant was provisioned with, who has accepted
  Sessions,
  None,
  MaxLinks    \* bound: activation links of one membership

ASSUME AccessAssumption ==
  /\ Founder \in Members
  /\ None \notin Members \cup Sessions
  /\ MaxLinks \in Nat \ {0}

VARIABLES
  tenant,     \* its status
  member,     \* app.tenant_memberships, each with its assignment
  clerkRole,  \* status of the one role that is not protected
  clerkCaps,  \* its capabilities
  credential, \* each member's password and second factor
  link,       \* app.access_invitations of each member, in order of issue
  session,    \* app.sessions, and those being opened
  tenantTx,   \* a tenant handler that has counted the owners
  platformTx, \* a platform handler that has
  crossed     \* whether two such handlers ever overlapped

vars == <<tenant, member, clerkRole, clerkCaps, credential, link, session, tenantTx, platformTx, crossed>>
entitlements == <<clerkRole, clerkCaps, credential>>
transactions == <<tenantTx, platformTx, crossed>>

Status == {"INVITED", "ACTIVE", "SUSPENDED"}
\* OWNER is the protected role with ADMIN on the whole tenant, TITULAR the
\* same role with a lesser grant, CLERK any other role.
Rank == {"OWNER", "TITULAR", "CLERK"}
Capability == {"all", "many", "few", "none"}
Credential == {"first", "second"}
Links == 1 .. MaxLinks
Link == {"none", "live", "expired", "used", "revoked"}

Member == [status : Status \cup {"NONE"}, linked : {"yes", "no"}, rank : Rank]
Entitlement == [rank : Rank, caps : Capability, credential : Credential]
Session == [of : Members \cup {None}, phase : {"none", "begun", "read", "open", "revoked"},
            from : Sessions \cup {None}, version : {"current", "past"},
            saw : Entitlement \cup {None}]
Tx == [on : Members \cup {None}, status : Status, rank : Rank]

NoMember == [status |-> "NONE", linked |-> "no", rank |-> "CLERK"]
NoSession == [of |-> None, phase |-> "none", from |-> None, version |-> "current", saw |-> None]
Ended == [NoSession EXCEPT !.phase = "revoked"]
NoTx == [on |-> None, status |-> "ACTIVE", rank |-> "CLERK"]

Init ==
  /\ tenant = "ACTIVE"
  /\ member = [m \in Members |-> IF m = Founder
       THEN [status |-> "ACTIVE", linked |-> "yes", rank |-> "OWNER"] ELSE NoMember]
  /\ clerkRole = "ACTIVE"
  /\ clerkCaps = "few"
  /\ credential = [m \in Members |-> "first"]
  /\ link = [m \in Members |-> [k \in Links |-> "none"]]
  /\ session = [s \in Sessions |-> NoSession]
  /\ tenantTx = NoTx
  /\ platformTx = NoTx
  /\ crossed = FALSE

\* No open transaction has the membership's row locked.
Free(m) == tenantTx.on # m /\ platformTx.on # m

Exists(m) == member[m].status # "NONE"
Active(m) == member[m].status = "ACTIVE" /\ member[m].linked = "yes"

\* What a member may do, and how they prove who they are.
InForce(m) ==
  [rank |-> member[m].rank,
   caps |-> IF member[m].rank # "CLERK" THEN "all"
            ELSE IF clerkRole = "ACTIVE" THEN clerkCaps ELSE "none",
   credential |-> credential[m]]

(***************************************************************************)
(* What a change of somebody's access does to the sessions of the members  *)
(* it is about: it raises authorization_version, or auth_version, and most *)
(* handlers revoke the rows that are there.  A session has no versions     *)
(* until newSession has read them.                                         *)
(***************************************************************************)
Outdate(s, M) ==
  IF session[s].of \in M /\ session[s].phase \in {"read", "open"}
    THEN [session[s] EXCEPT !.version = "past"] ELSE session[s]

\* Mutant: the rows are revoked, but the version stays as it is.
RevokeOnly(M) ==
  [s \in Sessions |-> IF session[s].of \in M /\ session[s].phase = "open" THEN Ended ELSE session[s]]

Bump(M) == [s \in Sessions |-> Outdate(s, M)]

BumpAndRevoke(M) ==
  [s \in Sessions |-> IF session[s].of \in M /\ session[s].phase = "open" THEN Ended ELSE Outdate(s, M)]

(***************************************************************************)
(* Memberships and their links.                                            *)
(***************************************************************************)
Assignable(rank) == rank = "CLERK" => clerkRole = "ACTIVE"

Invite(m, rank) ==
  /\ tenant = "ACTIVE"
  /\ ~Exists(m)
  /\ Assignable(rank)
  /\ member' = [member EXCEPT ![m] = [status |-> "INVITED", linked |-> "no", rank |-> rank]]
  /\ link' = [link EXCEPT ![m][1] = "live"]
  /\ UNCHANGED <<tenant, entitlements, session, transactions>>

\* One of the platform's grants ADMIN on the whole tenant whatever the role.
InvitePlatform(m, rank) == rank # "TITULAR" /\ Invite(m, rank)

\* Mutant: what was sent before still works.
RetiredKept(m) == link[m]

Unused == {"live", "expired"}
Retired(m) == [k \in Links |-> IF link[m][k] \in Unused THEN "revoked" ELSE link[m][k]]

ResendInvitation(m, k) ==
  /\ tenant = "ACTIVE" /\ Free(m)
  /\ member[m].status = "INVITED"
  /\ link[m][k] = "none" /\ \A i \in Links : i < k => link[m][i] # "none"
  /\ link' = [link EXCEPT ![m] = [Retired(m) EXCEPT ![k] = "live"]]
  /\ UNCHANGED <<tenant, member, entitlements, session, transactions>>

\* Whatever the status of the membership.
RevokeInvitation(m) ==
  /\ tenant = "ACTIVE" /\ Free(m)
  /\ \E k \in Links : link[m][k] \in Unused
  /\ link' = [link EXCEPT ![m] = Retired(m)]
  /\ UNCHANGED <<tenant, member, entitlements, session, transactions>>

LinkExpires(m, k) ==
  /\ link[m][k] = "live"
  /\ link' = [link EXCEPT ![m][k] = "expired"]
  /\ UNCHANGED <<tenant, member, entitlements, session, transactions>>

\* Whatever the status of the membership, and with a session at once, which
\* has the versions of after the change.
Accept(m, k, s) ==
  /\ tenant = "ACTIVE" /\ Free(m)
  /\ link[m][k] = "live"
  /\ session[s].phase = "none"
  /\ member' = [member EXCEPT ![m].status = "ACTIVE", ![m].linked = "yes"]
  /\ link' = [link EXCEPT ![m][k] = "used"]
  /\ session' = [Bump({m}) EXCEPT ![s] = [NoSession EXCEPT !.of = m, !.phase = "open", !.saw = InForce(m)]]
  /\ UNCHANGED <<tenant, entitlements, transactions>>

(***************************************************************************)
(* Roles: every member with the role is affected.                          *)
(***************************************************************************)
Clerks == {m \in Members : Exists(m) /\ member[m].rank = "CLERK"}

\* The role need not be active.
UpdateRole(caps) ==
  /\ tenant = "ACTIVE"
  /\ \A m \in Clerks : Free(m)
  /\ clerkCaps' = caps
  /\ session' = BumpAndRevoke(Clerks)
  /\ UNCHANGED <<tenant, member, clerkRole, credential, link, transactions>>

DeactivateRole ==
  /\ tenant = "ACTIVE"
  /\ \A m \in Clerks : Free(m)
  /\ clerkRole' = "INACTIVE"
  /\ session' = BumpAndRevoke(Clerks)
  /\ UNCHANGED <<tenant, member, clerkCaps, credential, link, transactions>>

(***************************************************************************)
(* The tenant's administrators change a member's access or status.  Under  *)
(* the lock "final-owner" they count the others who hold the protected     *)
(* role with ADMIN on the tenant.                                          *)
(***************************************************************************)
OtherOwner(m) == \E o \in Members \ {m} : member[o].status = "ACTIVE" /\ member[o].rank = "OWNER"

BeginTenantTx(m, status, rank) ==
  /\ tenant = "ACTIVE" /\ Exists(m)
  /\ tenantTx = NoTx /\ Free(m)
  /\ tenantTx' = [on |-> m, status |-> status, rank |-> rank]
  /\ UNCHANGED <<tenant, member, entitlements, link, session, platformTx, crossed>>

\* Mutant: nobody counts the owners.
BeginUpdateAccessAnyhow(m, rank) ==
  Assignable(rank) /\ member[m].status \in Status /\ BeginTenantTx(m, member[m].status, rank)

BeginUpdateAccess(m, rank) ==
  /\ Assignable(rank)
  /\ rank = "OWNER" \/ OtherOwner(m)
  /\ BeginTenantTx(m, member[m].status, rank)

\* Whatever the present status.
BeginSuspend(m) ==
  /\ OtherOwner(m)
  /\ BeginTenantTx(m, "SUSPENDED", member[m].rank)

\* Nobody is counted, so it is one step.  The member may never have accepted.
LifecycleActivate(m) ==
  /\ tenant = "ACTIVE" /\ Exists(m)
  /\ tenantTx = NoTx /\ Free(m)
  /\ member' = [member EXCEPT ![m].status = "ACTIVE"]
  /\ session' = BumpAndRevoke({m})
  /\ UNCHANGED <<tenant, entitlements, link, transactions>>

CommitTenantTx ==
  LET m == tenantTx.on IN
  /\ tenantTx # NoTx
  /\ member' = [member EXCEPT ![m].status = tenantTx.status, ![m].rank = tenantTx.rank]
  /\ session' = BumpAndRevoke({m})
  /\ tenantTx' = NoTx
  /\ crossed' = (crossed \/ platformTx # NoTx)
  /\ UNCHANGED <<tenant, entitlements, link, platformTx>>

RollbackTenantTx ==
  /\ tenantTx # NoTx
  /\ tenantTx' = NoTx
  /\ UNCHANGED <<tenant, member, entitlements, link, session, platformTx, crossed>>

ResetSessions(m) ==
  /\ tenant = "ACTIVE" /\ Exists(m) /\ Free(m)
  /\ session' = BumpAndRevoke({m})
  /\ UNCHANGED <<tenant, member, entitlements, link, transactions>>

\* A second factor is taken away, whatever the member's status.
ResetMfa(m) ==
  /\ tenant = "ACTIVE" /\ member[m].linked = "yes" /\ Free(m)
  /\ \E c \in Credential : credential' = [credential EXCEPT ![m] = c]
  /\ session' = BumpAndRevoke({m})
  /\ UNCHANGED <<tenant, member, clerkRole, clerkCaps, link, transactions>>

(***************************************************************************)
(* Platform administrators.  They count those who hold the owner's role,   *)
(* with whatever grants, under a lock of their own, "platform-tenant-      *)
(* user-status", and with the tenant's row locked as well.                 *)
(***************************************************************************)
Titled(m) == member[m].rank \in {"OWNER", "TITULAR"}

BeginDisable(m) ==
  /\ member[m].status = "ACTIVE"
  /\ Titled(m) => \E o \in Members \ {m} : Active(o) /\ Titled(o)
  /\ platformTx = NoTx /\ Free(m)
  /\ platformTx' = [on |-> m, status |-> "SUSPENDED", rank |-> member[m].rank]
  /\ UNCHANGED <<tenant, member, entitlements, link, session, tenantTx, crossed>>

CommitDisable ==
  LET m == platformTx.on IN
  /\ platformTx # NoTx
  /\ member' = [member EXCEPT ![m].status = "SUSPENDED"]
  /\ session' = BumpAndRevoke({m})
  /\ platformTx' = NoTx
  /\ crossed' = (crossed \/ tenantTx # NoTx)
  /\ UNCHANGED <<tenant, entitlements, link, tenantTx>>

RollbackDisable ==
  /\ platformTx # NoTx
  /\ platformTx' = NoTx
  /\ UNCHANGED <<tenant, member, entitlements, link, session, tenantTx, crossed>>

\* No session is revoked.
Enable(m) ==
  /\ tenant = "ACTIVE" /\ platformTx = NoTx /\ Free(m)
  /\ member[m].status = "SUSPENDED" /\ member[m].linked = "yes"
  /\ member' = [member EXCEPT ![m].status = "ACTIVE"]
  /\ session' = Bump({m})
  /\ UNCHANGED <<tenant, entitlements, link, transactions>>

\* The member moves to another portal.
ChangeAudience(m) ==
  /\ Exists(m) /\ Free(m)
  /\ session' = BumpAndRevoke({m})
  /\ UNCHANGED <<tenant, member, entitlements, link, transactions>>

\* Sessions that are there are revoked, but no version is raised.
TenantLifecycle ==
  /\ platformTx = NoTx
  /\ \/ /\ tenant = "ACTIVE" /\ tenant' = "INACTIVE"
        /\ session' = [s \in Sessions |-> IF session[s].phase = "open"
             THEN Ended ELSE session[s]]
     \/ tenant = "INACTIVE" /\ tenant' = "ACTIVE" /\ UNCHANGED session
  /\ UNCHANGED <<member, entitlements, link, transactions>>

(***************************************************************************)
(* Sessions.                                                               *)
(***************************************************************************)
\* What session() accepts.
Usable(s) ==
  LET m == session[s].of IN
  /\ session[s].phase = "open" /\ session[s].version = "current"
  /\ tenant = "ACTIVE" /\ Active(m)

Begin(s, m, from) ==
  /\ session[s].phase = "none"
  /\ session' = [session EXCEPT ![s] = [NoSession EXCEPT !.of = m, !.phase = "begun", !.from = from]]
  /\ UNCHANGED <<tenant, member, entitlements, link, transactions>>

BeginLogin(s, m) ==
  /\ tenant = "ACTIVE" /\ Active(m)
  /\ Begin(s, m, None)

\* Changing the tenant, and completing or challenging a second factor.
BeginSuccessor(s, t) == Usable(t) /\ Begin(s, session[t].of, t)

\* newSession reads the versions, of an active membership.  A trigger of the
\* insert looks for one again, before the row waits, and asks no version.
\* saw is not in the code: it remembers what was in force then.
ReadVersions(s) ==
  /\ session[s].phase = "begun"
  /\ Active(session[s].of)
  /\ session' = [session EXCEPT ![s].phase = "read", ![s].saw = InForce(session[s].of)]
  /\ UNCHANGED <<tenant, member, entitlements, link, transactions>>

\* The foreign key waits for the membership's row.
Open(s) ==
  /\ session[s].phase = "read" /\ Free(session[s].of)
  /\ session' = [t \in Sessions |->
       IF t = s THEN [session[s] EXCEPT !.phase = "open", !.from = None]
       ELSE IF t = session[s].from THEN Ended ELSE session[t]]
  /\ UNCHANGED <<tenant, member, entitlements, link, transactions>>

Logout(s) ==
  /\ Usable(s)
  /\ session' = [session EXCEPT ![s] = Ended]
  /\ UNCHANGED <<tenant, member, entitlements, link, transactions>>

\* The link was sent to the member's own mail address or telephone.
CompletePasswordReset(m) ==
  /\ tenant = "ACTIVE" /\ Active(m)
  /\ \E c \in Credential \ {credential[m]} : credential' = [credential EXCEPT ![m] = c]
  /\ session' = BumpAndRevoke({m})
  /\ UNCHANGED <<tenant, member, clerkRole, clerkCaps, link, transactions>>

-----------------------------------------------------------------------------
MemberNext(m) ==
  \/ \E rank \in Rank : Invite(m, rank) \/ InvitePlatform(m, rank) \/ BeginUpdateAccess(m, rank)
  \/ \E k \in Links : ResendInvitation(m, k) \/ LinkExpires(m, k)
  \/ RevokeInvitation(m)
  \/ BeginSuspend(m) \/ LifecycleActivate(m) \/ ResetSessions(m) \/ ResetMfa(m)
  \/ BeginDisable(m) \/ Enable(m) \/ ChangeAudience(m)
  \/ CompletePasswordReset(m)

SessionNext(s) ==
  \/ \E m \in Members : BeginLogin(s, m) \/ \E k \in Links : Accept(m, k, s)
  \/ \E t \in Sessions : BeginSuccessor(s, t)
  \/ ReadVersions(s) \/ Open(s) \/ Logout(s)

Next ==
  \/ \E m \in Members : MemberNext(m)
  \/ \E s \in Sessions : SessionNext(s)
  \/ (\E caps \in {"many", "few"} : UpdateRole(caps)) \/ DeactivateRole
  \/ CommitTenantTx \/ RollbackTenantTx \/ CommitDisable \/ RollbackDisable
  \/ TenantLifecycle

Spec == Init /\ [][Next]_vars

-----------------------------------------------------------------------------
(* Properties                                                              *)

TypeOK ==
  /\ tenant \in {"ACTIVE", "INACTIVE"}
  /\ member \in [Members -> Member]
  /\ clerkRole \in {"ACTIVE", "INACTIVE"}
  /\ clerkCaps \in Capability
  /\ credential \in [Members -> Credential]
  /\ link \in [Members -> [Links -> Link]]
  /\ session \in [Sessions -> Session]
  /\ tenantTx \in Tx
  /\ platformTx \in Tx
  /\ crossed \in BOOLEAN

OwnerExists == \E m \in Members : member[m].status = "ACTIVE" /\ Titled(m)

\* A tenant keeps an active owner through any changes of access, suspensions
\* and disablings, as long as no two of them, one by each service, overlap.
OwnerRemains == crossed \/ OwnerExists

\* A session that works is one whose versions were read when the member had
\* the rank, the capabilities, the password and the second factor of now,
\* though its row is inserted only later and the handler that changed them
\* saw no row to revoke.  It says nothing of what was verified before the
\* versions were read, which may have been replaced meanwhile.
SessionsAreCurrent == \A s \in Sessions : Usable(s) => session[s].saw = InForce(session[s].of)

\* A member has at most one link that was not used, revoked or replaced, and
\* none after the membership was activated with one.
LinksAreExclusive ==
  \A m \in Members : \A i \in Links : link[m][i] \in Unused =>
    \A k \in Links \ {i} : link[m][k] \in {"none", "revoked"}

\* The last active owner cannot be suspended.  specs/FND-02/spec.md says so.
LastOwnerIsKept == OwnerExists
=============================================================================
