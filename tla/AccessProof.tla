------------------------------ MODULE AccessProof ------------------------------
(***************************************************************************)
(* Proofs about the access to a tenant, for any number of members,         *)
(* sessions and links: a tenant keeps an owner unless handlers of both     *)
(* services overlapped, no session works with rights that were taken away, *)
(* and a member has one link that may still activate the membership.       *)
(*                                                                         *)
(* Sessions are only compared with versions, so they need an invariant of  *)
(* their own (Current).  What a handler decided when it counted the owners *)
(* must still hold when it commits (Counted): the row it locked is as it   *)
(* was, and so is the other owner, whom only a handler of the other        *)
(* service could have taken away meanwhile.                                *)
(*                                                                         *)
(* Then about what members do: with records (Kernel), with commands        *)
(* (Assistant) and under the policy (Authorization).  Each has an          *)
(* invariant of its own, which holds whatever behaviour focus names.       *)
(***************************************************************************)
EXTENDS MCAccess, Sequences, FiniteSetTheorems, TLAPS

Shapes ==
  /\ member \in [Members -> Member]
  /\ link \in [Members -> [Links -> Link]]
  /\ tenantTx \in Tx /\ platformTx \in Tx

\* An open handler is about a member that exists, and they are about two.
Locked ==
  /\ tenantTx = NoTx \/ (tenantTx.on \in Members /\ Exists(tenantTx.on))
  /\ platformTx = NoTx \/ (platformTx.on \in Members /\ Exists(platformTx.on))
  /\ tenantTx.on = platformTx.on => tenantTx.on = None

\* What the handlers found still holds, and does not depend on themselves.
Counted ==
  crossed \/
    /\ tenantTx.on \in Members =>
         \/ OtherOwner(tenantTx.on)
         \/ tenantTx.status = member[tenantTx.on].status /\ tenantTx.rank = "OWNER"
    /\ platformTx.on \in Members =>
         \/ ~Titled(platformTx.on)
         \/ \E o \in Members \ {platformTx.on} : Active(o) /\ Titled(o)

\* Who is still invited has used no link, and who is not invited has none.
Invited ==
  /\ \A m \in Members : ~Exists(m) => \A k \in Links : link[m][k] = "none"
  /\ \A m \in Members : member[m].status = "INVITED" => \A k \in Links : link[m][k] # "used"
  /\ tenantTx.on \in Members /\ tenantTx.status = "INVITED" =>
       \A k \in Links : link[tenantTx.on][k] # "used"

Membership == Shapes /\ Locked /\ OwnerRemains /\ Counted /\ Invited /\ LinksAreExclusive

Entitled ==
  /\ clerkRole \in {"ACTIVE", "INACTIVE"} /\ clerkCaps \in Capability
  /\ credential \in [Members -> Credential]

\* A session being opened, or open, is of somebody who is there; if its
\* versions are current, then so is all that was in force when they were read.
Held(s) ==
  /\ session[s].phase \in {"begun", "read", "open"} => session[s].of \in Members /\ Exists(session[s].of)
  /\ session[s].phase \in {"read", "open"} /\ session[s].version = "current" =>
       session[s].saw = InForce(session[s].of)

Current == Entitled /\ session \in [Sessions -> Session] /\ \A s \in Sessions : Held(s)

enrolment == <<member, link, tenantTx, platformTx, crossed>>

-----------------------------------------------------------------------------
(* Sessions                                                                *)

LEMMA InitCurrent == Init => Current
  <1> SUFFICES ASSUME Init PROVE Current
    OBVIOUS
  <1>1. Entitled
    BY DEF Init, Entitled, Capability, Credential
  <1>2. NoSession \in Session /\ NoSession.phase = "none"
    BY DEF NoSession, Session
  <1>3. session \in [Sessions -> Session] /\ \A s \in Sessions : session[s].phase = "none"
    BY <1>2 DEF Init
  <1> QED
    BY <1>1, <1>3 DEF Current, Held

\* Nobody's membership is ever removed.
LEMMA ExistsStays ==
  ASSUME Membership, Next, NEW m \in Members, Exists(m)
  PROVE  Exists(m)'
  <1>1. member[m].status # "NONE" /\ member \in [Members -> Member]
    BY DEF Exists, Membership, Shapes
  <1>2. tenantTx.status # "NONE"
    BY DEF Membership, Shapes, Tx, Status
  <1>3. CASE UNCHANGED member
    BY <1>1, <1>3 DEF Exists
  <1>4. ASSUME NEW o \in Members, MemberNext(o) PROVE Exists(m)'
    <2>1. ASSUME NEW rank, Invite(o, rank) PROVE Exists(m)'
      BY <1>1, <2>1 DEF Invite, Exists
    <2>2. CASE LifecycleActivate(o) \/ Enable(o)
      <3>1. member' = [member EXCEPT ![o].status = "ACTIVE"]
        BY <2>2 DEF LifecycleActivate, Enable
      <3> QED
        BY <1>1, <3>1 DEF Exists, Membership, Shapes, Member
    <2> QED
      BY <1>3, <1>4, <2>1, <2>2
         DEF MemberNext, InvitePlatform, BeginUpdateAccess, BeginTenantTx, ResendInvitation, LinkExpires,
             RevokeInvitation, BeginSuspend, ResetSessions, ResetMfa, BeginDisable, ChangeAudience,
             CompletePasswordReset
  <1>5. ASSUME NEW s \in Sessions, SessionNext(s) PROVE Exists(m)'
    <2>1. ASSUME NEW o \in Members, NEW k \in Links, Accept(o, k, s) PROVE Exists(m)'
      BY <1>1, <2>1 DEF Accept, Exists
    <2> QED
      BY <1>3, <1>5, <2>1 DEF SessionNext, BeginLogin, BeginSuccessor, Begin, ReadVersions, Open, Logout
  <1>6. CASE CommitTenantTx
    BY <1>1, <1>2, <1>6 DEF CommitTenantTx, Exists
  <1>7. CASE CommitDisable
    BY <1>1, <1>7 DEF CommitDisable, Exists
  <1> QED
    BY <1>3, <1>4, <1>5, <1>6, <1>7
       DEF Next, UpdateRole, DeactivateRole, RollbackTenantTx, RollbackDisable, TenantLifecycle

\* What was in force of members that a step is not about still is.
Spared(M) ==
  \A m \in Members : Exists(m) => Exists(m)' /\ (m \notin M => InForce(m)' = InForce(m))

LEMMA EndedIsNobody == Ended \in Session /\ Ended.phase = "revoked"
  BY DEF Ended, NoSession, Session

LEMMA OutdateShape ==
  ASSUME Current, NEW M, NEW s \in Sessions
  PROVE  /\ Outdate(s, M) \in Session
         /\ \/ Outdate(s, M) = session[s]
               /\ (session[s].phase \in {"read", "open"} => session[s].of \notin M)
            \/ /\ Outdate(s, M).version = "past"
               /\ Outdate(s, M).phase = session[s].phase /\ Outdate(s, M).of = session[s].of
  <1>1. session[s] \in Session
    BY DEF Current
  <1>2. CASE session[s].of \in M /\ session[s].phase \in {"read", "open"}
    BY <1>1, <1>2 DEF Outdate, Session
  <1>3. CASE ~(session[s].of \in M /\ session[s].phase \in {"read", "open"})
    BY <1>1, <1>3 DEF Outdate
  <1> QED
    BY <1>2, <1>3

\* A session holds when its row is as it was and its member is spared, when its
\* versions are past, and when it has ended.
LEMMA StillHeld ==
  ASSUME Current, NEW M, Spared(M), NEW s \in Sessions,
         \/ /\ session'[s] = session[s]
            /\ session[s].phase \in {"read", "open"} => session[s].of \notin M
         \/ /\ session'[s].version = "past"
            /\ session'[s].phase = session[s].phase /\ session'[s].of = session[s].of
         \/ session'[s].phase \in {"none", "revoked"}
  PROVE  Held(s)'
  <1>1. Held(s)
    BY DEF Current
  <1>2. CASE session'[s].phase \in {"none", "revoked"}
    BY <1>2 DEF Held
  <1>3. CASE /\ session'[s].version = "past"
             /\ session'[s].phase = session[s].phase /\ session'[s].of = session[s].of
    BY <1>1, <1>3 DEF Held, Spared
  <1>4. CASE /\ session'[s] = session[s]
             /\ session[s].phase \in {"read", "open"} => session[s].of \notin M
    <2>1. session[s].phase \in {"begun", "read", "open"} => session[s].of \in Members /\ Exists(session[s].of)'
      BY <1>1, <1>4 DEF Held, Spared
    <2>2. session[s].phase \in {"read", "open"} => InForce(session[s].of)' = InForce(session[s].of)
      BY <1>1, <1>4 DEF Held, Spared
    <2> QED
      BY <1>1, <1>4, <2>1, <2>2 DEF Held
  <1> QED
    BY <1>2, <1>3, <1>4

LEMMA BumpIsCurrent ==
  ASSUME Current, NEW M, Spared(M), Entitled', session' = Bump(M) \/ session' = BumpAndRevoke(M)
  PROVE  Current'
  <1>1. \A s \in Sessions : session'[s] = Outdate(s, M) \/ session'[s] = Ended
    BY DEF Bump, BumpAndRevoke
  <1>2. ASSUME NEW s \in Sessions PROVE session'[s] \in Session /\ Held(s)'
    <2>1. CASE session'[s] = Outdate(s, M)
      BY <2>1, OutdateShape, StillHeld
    <2>2. CASE session'[s] = Ended
      BY <2>2, EndedIsNobody, StillHeld
    <2> QED
      BY <1>1, <2>1, <2>2
  <1>3. session' = [s \in Sessions |-> session'[s]]
    BY DEF Bump, BumpAndRevoke
  <1> QED
    BY <1>2, <1>3 DEF Current

LEMMA SessionsStay ==
  ASSUME Current, Spared({}), Entitled', UNCHANGED session
  PROVE  Current'
  <1>1. \A s \in Sessions : Held(s)'
    BY StillHeld
  <1> QED
    BY <1>1 DEF Current

\* One session changes, others may end.
LEMMA OneSession ==
  ASSUME Current, Spared({}), UNCHANGED entitlements, NEW s \in Sessions, NEW r \in Session,
         session' \in [Sessions -> Session], session'[s] = r, Held(s)',
         \A t \in Sessions \ {s} : session'[t] = session[t] \/ session'[t] = Ended
  PROVE  Current'
  <1>1. ASSUME NEW t \in Sessions \ {s} PROVE Held(t)'
    BY <1>1, EndedIsNobody, StillHeld
  <1> QED
    BY <1>1 DEF Current, Entitled, entitlements

LEMMA InForceIs ==
  ASSUME Current, Membership, NEW m \in Members
  PROVE  InForce(m) \in Entitlement
  BY DEF Current, Entitled, Membership, Shapes, Member, InForce, Entitlement, Capability

\* Nothing a member relies on changes.
LEMMA NothingChanges ==
  ASSUME UNCHANGED <<member, entitlements>>, NEW m \in Members
  PROVE  InForce(m)' = InForce(m)
  BY DEF InForce, entitlements

LEMMA AllSpared ==
  ASSUME Membership, Next, NEW M, \A m \in Members \ M : Exists(m) => InForce(m)' = InForce(m)
  PROVE  Spared(M)
  BY ExistsStays DEF Spared

\* A membership is written, with or without an effect on its rights.
LEMMA OneMember ==
  ASSUME Membership, Current, Next, NEW m \in Members, NEW r, member' = [member EXCEPT ![m] = r],
         UNCHANGED entitlements
  PROVE  Spared({m}) /\ (r.rank = member[m].rank => Spared({})) /\ (~Exists(m) => Spared({}))
  <1>1. member'[m] = r /\ \A o \in Members \ {m} : member'[o] = member[o]
    BY DEF Membership, Shapes
  <1>2. \A o \in Members \ {m} : InForce(o)' = InForce(o)
    BY <1>1 DEF InForce, entitlements
  <1>3. r.rank = member[m].rank => InForce(m)' = InForce(m)
    BY <1>1 DEF InForce, entitlements
  <1>4. Spared({m})
    BY <1>2, AllSpared
  <1>5. ASSUME r.rank = member[m].rank \/ ~Exists(m) PROVE Spared({})
    <2>1. \A o \in Members : Exists(o) => InForce(o)' = InForce(o)
      BY <1>2, <1>3, <1>5
    <2> QED
      BY <2>1, AllSpared
  <1> QED
    BY <1>4, <1>5

LEMMA MemberStepCurrent ==
  ASSUME Current, Membership, Next, NEW m \in Members, MemberNext(m)
  PROVE  Current'
  <1>0. Entitled /\ session \in [Sessions -> Session]
    BY DEF Current
  <1>1. CASE UNCHANGED <<member, entitlements, session>>
    <2>1. Spared({})
      BY <1>1, NothingChanges, AllSpared
    <2>2. Entitled'
      BY <1>0, <1>1 DEF Entitled, entitlements
    <2> QED
      BY <1>1, <2>1, <2>2, SessionsStay
  <1>2. ASSUME NEW rank \in Rank, Invite(m, rank) PROVE Current'
    <2> DEFINE r == [status |-> "INVITED", linked |-> "no", rank |-> rank]
    <2>1. /\ ~Exists(m) /\ member' = [member EXCEPT ![m] = r]
          /\ UNCHANGED entitlements /\ UNCHANGED session
      BY <1>2 DEF Invite, entitlements
    <2> HIDE DEF r
    <2>2. Spared({})
      BY <2>1, OneMember
    <2>3. Entitled'
      BY <1>0, <2>1 DEF Entitled, entitlements
    <2> QED
      BY <2>1, <2>2, <2>3, SessionsStay
  <1>3. CASE LifecycleActivate(m) \/ Enable(m)
    <2> DEFINE r == [member[m] EXCEPT !.status = "ACTIVE"]
    <2>1. /\ member' = [member EXCEPT ![m] = r] /\ UNCHANGED entitlements
          /\ session' = Bump({m}) \/ session' = BumpAndRevoke({m})
      BY <1>3 DEF LifecycleActivate, Enable, entitlements
    <2> HIDE DEF r
    <2>2. Spared({m})
      BY <2>1, OneMember
    <2>3. Entitled'
      BY <1>0, <2>1 DEF Entitled, entitlements
    <2> QED
      BY <2>1, <2>2, <2>3, BumpIsCurrent
  <1>4. CASE ResetSessions(m) \/ ChangeAudience(m)
    <2>1. UNCHANGED <<member, entitlements>> /\ session' = BumpAndRevoke({m})
      BY <1>4 DEF ResetSessions, ChangeAudience, entitlements
    <2>2. Spared({m})
      BY <2>1, NothingChanges, AllSpared
    <2>3. Entitled'
      BY <1>0, <2>1 DEF Entitled, entitlements
    <2> QED
      BY <2>1, <2>2, <2>3, BumpIsCurrent
  <1>5. CASE ResetMfa(m) \/ CompletePasswordReset(m)
    <2>1. PICK c \in Credential : credential' = [credential EXCEPT ![m] = c]
      BY <1>5 DEF ResetMfa, CompletePasswordReset
    <2>2. UNCHANGED <<member, clerkRole, clerkCaps>> /\ session' = BumpAndRevoke({m})
      BY <1>5 DEF ResetMfa, CompletePasswordReset
    <2>3. \A o \in Members \ {m} : InForce(o)' = InForce(o)
      BY <1>0, <2>1, <2>2 DEF InForce, Entitled
    <2>4. Spared({m})
      BY <2>3, AllSpared
    <2>5. Entitled'
      BY <1>0, <2>1, <2>2 DEF Entitled
    <2> QED
      BY <2>2, <2>4, <2>5, BumpIsCurrent
  <1> QED
    BY <1>1, <1>2, <1>3, <1>4, <1>5
       DEF MemberNext, InvitePlatform, BeginUpdateAccess, BeginTenantTx, ResendInvitation, LinkExpires,
           RevokeInvitation, BeginSuspend, BeginDisable, entitlements

LEMMA SessionStepCurrent ==
  ASSUME Current, Membership, Next, NEW s \in Sessions, SessionNext(s)
  PROVE  Current'
  <1>0. Entitled /\ session \in [Sessions -> Session] /\ \A t \in Sessions : session[t] \in Session /\ Held(t)
    BY DEF Current
  <1>1. ASSUME UNCHANGED <<member, entitlements>>
        PROVE  Spared({}) /\ \A m \in Members : Exists(m)' = Exists(m) /\ InForce(m)' = InForce(m)
    BY <1>1, NothingChanges, AllSpared DEF Exists
  <1>2. ASSUME NEW m, m \in Members, Exists(m), NEW from \in Sessions \cup {None}, Begin(s, m, from) PROVE Current'
    <2> DEFINE r == [NoSession EXCEPT !.of = m, !.phase = "begun", !.from = from]
    <2>1. r \in Session /\ r.of = m /\ r.phase = "begun"
      BY <1>2 DEF NoSession, Session
    <2>2. UNCHANGED <<member, entitlements>> /\ session' = [session EXCEPT ![s] = r]
      BY <1>2 DEF Begin, entitlements
    <2> HIDE DEF r
    <2>3. /\ session' \in [Sessions -> Session] /\ session'[s] = r
          /\ \A t \in Sessions \ {s} : session'[t] = session[t]
      BY <1>0, <2>1, <2>2
    <2>4. Held(s)'
      BY <1>1, <1>2, <2>1, <2>2, <2>3 DEF Held
    <2> QED
      BY <1>1, <2>1, <2>2, <2>3, <2>4, OneSession
  <1>3. CASE \E m \in Members : BeginLogin(s, m)
    BY <1>2, <1>3 DEF BeginLogin, Active, Exists
  <1>4. CASE \E t \in Sessions : BeginSuccessor(s, t)
    <2>1. PICK t \in Sessions : BeginSuccessor(s, t)
      BY <1>4
    <2>2. session[t].of \in Members /\ Exists(session[t].of)
      BY <1>0, <2>1 DEF BeginSuccessor, Usable, Held
    <2> QED
      BY <1>2, <2>1, <2>2 DEF BeginSuccessor
  <1>5. ASSUME NEW m \in Members, NEW k \in Links, Accept(m, k, s) PROVE Current'
    <2> DEFINE x == [member[m] EXCEPT !.status = "ACTIVE", !.linked = "yes"]
               r == [NoSession EXCEPT !.of = m, !.phase = "open", !.saw = InForce(m)]
    <2>1. member[m] \in Member /\ member' = [member EXCEPT ![m] = x] /\ UNCHANGED entitlements
      BY <1>5 DEF Accept, entitlements, Membership, Shapes
    <2>2. x.rank = member[m].rank /\ x.status = "ACTIVE"
      BY <2>1 DEF Member
    <2>3. r \in Session /\ r.of = m /\ r.phase = "open" /\ r.saw = InForce(m)
      BY InForceIs DEF NoSession, Session
    <2>4. session' = [Bump({m}) EXCEPT ![s] = r]
      BY <1>5 DEF Accept
    <2> HIDE DEF x, r
    <2>5. Spared({m}) /\ Spared({})
      BY <2>1, <2>2, OneMember
    <2>6. session'[s] = r /\ \A t \in Sessions \ {s} : session'[t] = Outdate(t, {m})
      BY <2>4 DEF Bump
    <2>7. session' \in [Sessions -> Session]
      <3>1. \A t \in Sessions : Outdate(t, {m}) \in Session
        BY OutdateShape
      <3> QED
        BY <2>3, <2>4, <3>1 DEF Bump
    <2>8. Held(s)'
      <3>1. Exists(m)'
        BY <2>1, <2>2 DEF Exists, Membership, Shapes
      <3>2. InForce(m)' = InForce(m)
        BY <2>1, <2>2 DEF InForce, entitlements, Membership, Shapes
      <3> QED
        BY <2>3, <2>6, <3>1, <3>2 DEF Held
    <2>9. ASSUME NEW t \in Sessions \ {s} PROVE Held(t)'
      BY <2>5, <2>6, <2>9, OutdateShape, StillHeld
    <2> QED
      BY <1>0, <2>1, <2>7, <2>8, <2>9 DEF Current, Entitled, entitlements
  <1>6. CASE ReadVersions(s)
    <2> DEFINE r == [session[s] EXCEPT !.phase = "read", !.saw = InForce(session[s].of)]
    <2>1. session[s].of \in Members /\ Exists(session[s].of)
      BY <1>0, <1>6 DEF ReadVersions, Held
    <2>2. r \in Session /\ r.of = session[s].of /\ r.phase = "read" /\ r.saw = InForce(session[s].of)
      BY <1>0, <2>1, InForceIs DEF Session
    <2>3. UNCHANGED <<member, entitlements>> /\ session' = [session EXCEPT ![s] = r]
      BY <1>6 DEF ReadVersions, entitlements
    <2> HIDE DEF r
    <2>4. /\ session' \in [Sessions -> Session] /\ session'[s] = r
          /\ \A t \in Sessions \ {s} : session'[t] = session[t]
      BY <1>0, <2>2, <2>3
    <2>5. Held(s)'
      BY <1>1, <2>1, <2>2, <2>3, <2>4 DEF Held
    <2> QED
      BY <1>1, <2>2, <2>3, <2>4, <2>5, OneSession
  <1>7. CASE Open(s)
    <2> DEFINE r == [session[s] EXCEPT !.phase = "open", !.from = None]
    <2>1. /\ r \in Session /\ r.of = session[s].of /\ r.phase = "open"
          /\ r.saw = session[s].saw /\ r.version = session[s].version
      BY <1>0 DEF Session
    <2>2. UNCHANGED <<member, entitlements>> /\ session[s].phase = "read"
      BY <1>7 DEF Open, entitlements
    <2>3. session' = [t \in Sessions |-> IF t = s THEN r ELSE IF t = session[s].from THEN Ended ELSE session[t]]
      BY <1>7 DEF Open
    <2> HIDE DEF r
    <2>4. /\ session' \in [Sessions -> Session] /\ session'[s] = r
          /\ \A t \in Sessions \ {s} : session'[t] = session[t] \/ session'[t] = Ended
      BY <1>0, <2>1, <2>3, EndedIsNobody
    <2>5. Held(s)'
      BY <1>0, <1>1, <2>1, <2>2, <2>4 DEF Held
    <2> QED
      BY <1>1, <2>1, <2>2, <2>4, <2>5, OneSession
  <1>8. CASE Logout(s)
    <2>1. UNCHANGED <<member, entitlements>> /\ session' = [session EXCEPT ![s] = Ended]
      BY <1>8 DEF Logout, entitlements
    <2>2. /\ session' \in [Sessions -> Session] /\ session'[s] = Ended
          /\ \A t \in Sessions \ {s} : session'[t] = session[t]
      BY <1>0, <2>1, EndedIsNobody
    <2>3. Held(s)'
      BY <2>2, EndedIsNobody DEF Held
    <2> QED
      BY <1>1, <2>1, <2>2, <2>3, EndedIsNobody, OneSession
  <1> QED
    BY <1>3, <1>4, <1>5, <1>6, <1>7, <1>8 DEF SessionNext

\* A change of the one role is about all who have it.
LEMMA RoleStepCurrent ==
  ASSUME Current, Membership, Next, NEW caps \in {"many", "few"}, UpdateRole(caps) \/ DeactivateRole
  PROVE  Current'
  <1>1. UNCHANGED <<member, credential>> /\ session' = BumpAndRevoke(Clerks)
    BY DEF UpdateRole, DeactivateRole
  <1>2. Entitled'
    BY DEF UpdateRole, DeactivateRole, Current, Entitled, Capability
  <1>3. \A m \in Members \ Clerks : Exists(m) => InForce(m)' = InForce(m)
    BY <1>1 DEF Clerks, InForce
  <1>4. Spared(Clerks)
    BY <1>3, AllSpared
  <1> QED
    BY <1>1, <1>2, <1>4, BumpIsCurrent

LEMMA CommitStepCurrent ==
  ASSUME Current, Membership, Next, CommitTenantTx \/ CommitDisable
  PROVE  Current'
  <1>1. PICK m \in Members : \E r : /\ member' = [member EXCEPT ![m] = r]
                                    /\ UNCHANGED entitlements
                                    /\ session' = BumpAndRevoke({m})
    <2>1. CASE CommitTenantTx
      <3>1. tenantTx.on \in Members
        BY <2>1 DEF CommitTenantTx, Membership, Locked
      <3>2. /\ member' = [member EXCEPT ![tenantTx.on] =
                            [@ EXCEPT !.status = tenantTx.status, !.rank = tenantTx.rank]]
            /\ UNCHANGED entitlements /\ session' = BumpAndRevoke({tenantTx.on})
        BY <2>1 DEF CommitTenantTx, entitlements
      <3> QED
        BY <3>1, <3>2
    <2>2. CASE CommitDisable
      <3>1. platformTx.on \in Members
        BY <2>2 DEF CommitDisable, Membership, Locked
      <3>2. /\ member' = [member EXCEPT ![platformTx.on] = [@ EXCEPT !.status = "SUSPENDED"]]
            /\ UNCHANGED entitlements /\ session' = BumpAndRevoke({platformTx.on})
        BY <2>2 DEF CommitDisable, entitlements
      <3> QED
        BY <3>1, <3>2
    <2> QED
      BY <2>1, <2>2
  <1>2. Spared({m})
    BY <1>1, OneMember
  <1>3. Entitled'
    BY <1>1 DEF Current, Entitled, entitlements
  <1> QED
    BY <1>1, <1>2, <1>3, BumpIsCurrent

LEMMA NextCurrent == Membership /\ Current /\ [Next]_vars => Current'
  <1> SUFFICES ASSUME Membership, Current, [Next]_vars PROVE Current'
    OBVIOUS
  <1>1. CASE UNCHANGED vars
    BY <1>1 DEF vars, Current, Entitled, Held, Exists, InForce
  <1>2. ASSUME Next, TenantLifecycle PROVE Current'
    <2>1. /\ UNCHANGED <<member, entitlements>>
          /\ \A s \in Sessions : session'[s] = session[s] \/ session'[s] = Ended
          /\ session' \in [Sessions -> Session]
      BY <1>2, EndedIsNobody DEF TenantLifecycle, Current
    <2>2. Spared({})
      BY <1>2, <2>1, NothingChanges, AllSpared
    <2>3. \A s \in Sessions : Held(s)'
      BY <2>1, <2>2, EndedIsNobody, StillHeld
    <2> QED
      BY <2>1, <2>3 DEF Current, Entitled, entitlements
  <1>3. ASSUME Next, RollbackTenantTx \/ RollbackDisable PROVE Current'
    BY <1>3 DEF RollbackTenantTx, RollbackDisable, entitlements, Current, Entitled, Held, Exists, InForce
  <1> QED
    BY <1>1, <1>2, <1>3, MemberStepCurrent, SessionStepCurrent, RoleStepCurrent, CommitStepCurrent DEF Next

-----------------------------------------------------------------------------
(* Memberships                                                             *)

LEMMA InitMembership == Init => Membership
  <1> SUFFICES ASSUME Init PROVE Membership
    OBVIOUS
  <1>1. Shapes
    <2>1. NoTx \in Tx
      BY DEF NoTx, Tx, Status, Rank
    <2>2. NoMember \in Member /\ [status |-> "ACTIVE", linked |-> "yes", rank |-> "OWNER"] \in Member
      BY DEF NoMember, Member, Status, Rank
    <2>3. member \in [Members -> Member]
      BY <2>2 DEF Init
    <2>4. link \in [Members -> [Links -> Link]]
      BY DEF Init, Link
    <2> QED
      BY <2>1, <2>3, <2>4 DEF Init, Shapes
  <1>2. Locked /\ Counted
    BY AccessAssumption DEF Init, Locked, Counted, NoTx
  <1>3. OwnerRemains
    BY AccessAssumption DEF Init, OwnerRemains, OwnerExists, Titled
  <1>4. Invited /\ LinksAreExclusive
    BY AccessAssumption DEF Init, Invited, LinksAreExclusive, NoTx, NoMember, Unused, Exists
  <1> QED
    BY <1>1, <1>2, <1>3, <1>4 DEF Membership

LEMMA MembershipStays == Membership /\ UNCHANGED enrolment => Membership'
  <1> SUFFICES ASSUME Membership, UNCHANGED enrolment PROVE Membership'
    OBVIOUS
  <1>1. Shapes' /\ Locked' /\ Invited' /\ LinksAreExclusive'
    BY DEF Membership, enrolment, Shapes, Locked, Invited, LinksAreExclusive, Exists
  <1>2. OwnerRemains' /\ Counted'
    BY DEF Membership, enrolment, OwnerRemains, OwnerExists, Counted, OtherOwner, Titled, Active
  <1> QED
    BY <1>1, <1>2 DEF Membership

\* Links change, and no membership.
LEMMA LinksChange ==
  ASSUME Membership, NEW m \in Members, NEW l \in [Links -> Link], link' = [link EXCEPT ![m] = l],
         UNCHANGED <<member, tenantTx, platformTx, crossed>>,
         Exists(m), \A k \in Links : l[k] = "used" => link[m][k] = "used",
         \A i \in Links : l[i] \in Unused => \A k \in Links \ {i} : l[k] \in {"none", "revoked"}
  PROVE  Membership'
  <1>1. link' \in [Members -> [Links -> Link]] /\ link'[m] = l /\ \A o \in Members \ {m} : link'[o] = link[o]
    BY DEF Membership, Shapes
  <1>2. Shapes' /\ Locked'
    BY <1>1 DEF Membership, Shapes, Locked, Exists
  <1>3. OwnerRemains' /\ Counted'
    BY DEF Membership, OwnerRemains, OwnerExists, Counted, OtherOwner, Titled, Active
  <1>4. Invited'
    BY <1>1 DEF Membership, Invited, Exists
  <1>5. LinksAreExclusive'
    BY <1>1 DEF Membership, LinksAreExclusive, Unused
  <1> QED
    BY <1>2, <1>3, <1>4, <1>5 DEF Membership

\* The status of a member becomes ACTIVE, or a member is invited, while no
\* handler has the row.
LEMMA MemberGains ==
  ASSUME Membership, NEW m \in Members, NEW r \in Member, member' = [member EXCEPT ![m] = r],
         UNCHANGED <<tenantTx, platformTx, crossed>>, Free(m), r.status # "NONE",
         \/ ~Exists(m)
         \/ r.rank = member[m].rank /\ r.status = "ACTIVE" /\ (member[m].linked = "yes" => r.linked = "yes")
  PROVE  Locked' /\ OwnerRemains' /\ Counted' /\ member' \in [Members -> Member]
  <1>1. /\ member' \in [Members -> Member] /\ member'[m] = r
        /\ \A o \in Members \ {m} : member'[o] = member[o]
    BY DEF Membership, Shapes
  <1>2. Locked'
    BY <1>1 DEF Membership, Locked, Exists
  <1>3. OwnerRemains'
    BY <1>1 DEF Membership, OwnerRemains, OwnerExists, Titled, Exists
  <1>4. Counted'
    <2>1. ASSUME NEW o \in Members, member[o].status = "ACTIVE"
          PROVE  member'[o].status = "ACTIVE" /\ member'[o].rank = member[o].rank
                 /\ (member[o].linked = "yes" => member'[o].linked = "yes")
      BY <1>1, <2>1 DEF Exists
    <2>2. \A o \in Members : OtherOwner(o) => OtherOwner(o)'
      BY <2>1 DEF OtherOwner
    <2>3. \A o \in Members : Active(o) /\ Titled(o) => Active(o)' /\ Titled(o)'
      BY <2>1 DEF Active, Titled
    <2>4. tenantTx.on # m /\ platformTx.on # m
      BY DEF Free
    <2>5. \A o \in Members \ {m} : Titled(o)' = Titled(o) /\ member'[o].status = member[o].status
      BY <1>1 DEF Titled
    <2>6. tenantTx.on \in Members /\ ~crossed =>
            \/ OtherOwner(tenantTx.on)'
            \/ tenantTx.status = member'[tenantTx.on].status /\ tenantTx.rank = "OWNER"
      BY <2>2, <2>4, <2>5 DEF Membership, Counted
    <2>7. platformTx.on \in Members /\ ~crossed =>
            \/ ~Titled(platformTx.on)'
            \/ \E o \in Members \ {platformTx.on} : Active(o)' /\ Titled(o)'
      BY <2>3, <2>4, <2>5 DEF Membership, Counted
    <2> QED
      BY <2>6, <2>7 DEF Counted, OtherOwner, Titled, Active
  <1> QED
    BY <1>1, <1>2, <1>3, <1>4

-----------------------------------------------------------------------------
(* One step per action                                                     *)

LEMMA InviteStep ==
  ASSUME Membership, NEW m \in Members, NEW rank \in Rank, Invite(m, rank)
  PROVE  Membership'
  <1> DEFINE r == [status |-> "INVITED", linked |-> "no", rank |-> rank]
             l == [link[m] EXCEPT ![1] = "live"]
  <1>1. r \in Member /\ r.status = "INVITED"
    BY DEF Member, Status
  <1>2. ~Exists(m) /\ member' = [member EXCEPT ![m] = r] /\ UNCHANGED <<tenantTx, platformTx, crossed>>
    BY DEF Invite, transactions
  <1>3. 1 \in Links /\ link[m] \in [Links -> Link] /\ link' = [link EXCEPT ![m] = l]
    BY AccessAssumption DEF Links, Membership, Shapes, Invite
  <1>4. l \in [Links -> Link] /\ l[1] = "live" /\ \A k \in Links \ {1} : l[k] = "none"
    BY <1>2, <1>3 DEF Link, Membership, Invited
  <1> HIDE DEF r, l
  <1>5. Free(m)
    BY <1>2, AccessAssumption DEF Free, Membership, Locked, NoTx
  <1>6. Locked' /\ OwnerRemains' /\ Counted' /\ member' \in [Members -> Member]
    BY <1>1, <1>2, <1>5, MemberGains
  <1>7. link' \in [Members -> [Links -> Link]] /\ link'[m] = l /\ \A o \in Members \ {m} : link'[o] = link[o]
    BY <1>3, <1>4 DEF Membership, Shapes
  <1>8. member'[m] = r /\ \A o \in Members \ {m} : member'[o] = member[o]
    BY <1>2 DEF Membership, Shapes
  <1>9. Invited'
    BY <1>1, <1>2, <1>4, <1>5, <1>7, <1>8 DEF Membership, Invited, Exists, Free
  <1>10. LinksAreExclusive'
    BY <1>4, <1>7 DEF Membership, LinksAreExclusive, Unused
  <1> QED
    BY <1>2, <1>6, <1>7, <1>9, <1>10 DEF Membership, Shapes

\* A link that may still be used belongs to somebody who exists.
LEMMA LinkedExist ==
  ASSUME Membership, NEW m \in Members, NEW k \in Links, link[m][k] \in Unused
  PROVE  Exists(m)
  BY DEF Membership, Invited, Unused

LEMMA RetiredLinks ==
  ASSUME Membership, NEW m \in Members
  PROVE  /\ Retired(m) \in [Links -> Link]
         /\ \A k \in Links : /\ Retired(m)[k] \notin Unused
                             /\ Retired(m)[k] = "used" => link[m][k] = "used"
                             /\ link[m][k] # "used" => Retired(m)[k] \in {"none", "revoked"}
  <1>1. link[m] \in [Links -> Link]
    BY DEF Membership, Shapes
  <1> QED
    BY <1>1 DEF Retired, Link, Unused

LEMMA LinkSteps ==
  ASSUME Membership, NEW m \in Members, NEW k \in Links,
         ResendInvitation(m, k) \/ RevokeInvitation(m) \/ LinkExpires(m, k)
  PROVE  Membership'
  <1>1. link[m] \in [Links -> Link]
    BY DEF Membership, Shapes
  <1>2. CASE ResendInvitation(m, k)
    <2> DEFINE l == [Retired(m) EXCEPT ![k] = "live"]
    <2>1. \A i \in Links : link[m][i] # "used"
      BY <1>2 DEF ResendInvitation, Membership, Invited
    <2>2. l \in [Links -> Link] /\ l[k] = "live" /\ \A i \in Links \ {k} : l[i] \in {"none", "revoked"}
      BY <2>1, RetiredLinks DEF Link
    <2>3. /\ link' = [link EXCEPT ![m] = l] /\ UNCHANGED <<member, tenantTx, platformTx, crossed>>
          /\ Exists(m)
      BY <1>2 DEF ResendInvitation, transactions, Exists
    <2> HIDE DEF l
    <2> QED
      BY <2>2, <2>3, LinksChange DEF Unused
  <1>3. CASE RevokeInvitation(m)
    <2>1. /\ link' = [link EXCEPT ![m] = Retired(m)] /\ UNCHANGED <<member, tenantTx, platformTx, crossed>>
          /\ Exists(m)
      BY <1>3, LinkedExist DEF RevokeInvitation, transactions
    <2> QED
      BY <2>1, RetiredLinks, LinksChange
  <1>4. CASE LinkExpires(m, k)
    <2> DEFINE l == [link[m] EXCEPT ![k] = "expired"]
    <2>1. link[m][k] = "live" /\ Exists(m)
      BY <1>4, LinkedExist DEF LinkExpires, Unused
    <2>2. l \in [Links -> Link] /\ l[k] = "expired" /\ \A i \in Links \ {k} : l[i] = link[m][i]
      BY <1>1 DEF Link
    <2>3. \A i \in Links \ {k} : link[m][i] \in {"none", "revoked"}
      BY <2>1 DEF Membership, LinksAreExclusive, Unused
    <2>4. link' = [link EXCEPT ![m] = l] /\ UNCHANGED <<member, tenantTx, platformTx, crossed>>
      BY <1>4 DEF LinkExpires, transactions, Membership, Shapes
    <2> HIDE DEF l
    <2> QED
      BY <2>1, <2>2, <2>3, <2>4, LinksChange DEF Unused
  <1> QED
    BY <1>2, <1>3, <1>4

LEMMA AcceptStep ==
  ASSUME Membership, NEW m \in Members, NEW k \in Links, NEW s \in Sessions, Accept(m, k, s)
  PROVE  Membership'
  <1> DEFINE r == [member[m] EXCEPT !.status = "ACTIVE", !.linked = "yes"]
  <1>1. link[m][k] = "live" /\ Free(m) /\ UNCHANGED <<tenantTx, platformTx, crossed>>
    BY DEF Accept, transactions
  <1>2. member[m] \in Member /\ member' = [member EXCEPT ![m] = r]
    BY DEF Accept, Membership, Shapes
  <1>3. r \in Member /\ r.status = "ACTIVE" /\ r.rank = member[m].rank /\ r.linked = "yes"
    BY <1>2 DEF Member, Status
  <1> HIDE DEF r
  <1>4. Locked' /\ OwnerRemains' /\ Counted' /\ member' \in [Members -> Member]
    BY <1>1, <1>2, <1>3, MemberGains
  <1>5. /\ link' \in [Members -> [Links -> Link]] /\ link'[m][k] = "used"
        /\ \A i \in Links \ {k} : link'[m][i] = link[m][i]
        /\ \A o \in Members \ {m} : link'[o] = link[o]
    BY DEF Accept, Membership, Shapes, Link
  <1>6. \A i \in Links \ {k} : link[m][i] \in {"none", "revoked"}
    BY <1>1 DEF Membership, LinksAreExclusive, Unused
  <1>7. member'[m] = r /\ \A o \in Members \ {m} : member'[o] = member[o]
    BY <1>2 DEF Membership, Shapes
  <1>8. Invited'
    BY <1>1, <1>3, <1>5, <1>7 DEF Membership, Invited, Exists, Free
  <1>9. LinksAreExclusive'
    BY <1>5, <1>6 DEF Membership, LinksAreExclusive, Unused
  <1> QED
    BY <1>1, <1>4, <1>5, <1>8, <1>9 DEF Membership, Shapes

LEMMA ActivationSteps ==
  ASSUME Membership, NEW m \in Members, LifecycleActivate(m) \/ Enable(m)
  PROVE  Membership'
  <1> DEFINE r == [member[m] EXCEPT !.status = "ACTIVE"]
  <1>1. Exists(m) /\ Free(m) /\ UNCHANGED <<link, tenantTx, platformTx, crossed>>
    BY DEF LifecycleActivate, Enable, transactions, Exists
  <1>2. member[m] \in Member /\ member' = [member EXCEPT ![m] = r]
    BY DEF LifecycleActivate, Enable, Membership, Shapes
  <1>3. r \in Member /\ r.status = "ACTIVE" /\ r.rank = member[m].rank /\ r.linked = member[m].linked
    BY <1>2 DEF Member, Status
  <1> HIDE DEF r
  <1>4. Locked' /\ OwnerRemains' /\ Counted' /\ member' \in [Members -> Member]
    BY <1>1, <1>2, <1>3, MemberGains
  <1>5. member'[m] = r /\ \A o \in Members \ {m} : member'[o] = member[o]
    BY <1>2 DEF Membership, Shapes
  <1>6. Invited' /\ LinksAreExclusive'
    BY <1>1, <1>3, <1>5 DEF Membership, Invited, Exists, LinksAreExclusive
  <1> QED
    BY <1>1, <1>4, <1>6 DEF Membership, Shapes

LEMMA BeginSteps ==
  ASSUME Membership, NEW m \in Members, NEW rank \in Rank,
         BeginUpdateAccess(m, rank) \/ BeginSuspend(m) \/ BeginDisable(m)
  PROVE  Membership'
  <1>1. member[m] \in Member
    BY DEF Membership, Shapes
  <1>2. ASSUME NEW status \in Status, NEW held \in Rank, BeginTenantTx(m, status, held),
               OtherOwner(m) \/ (status = member[m].status /\ held = "OWNER"),
               status = "INVITED" => member[m].status = "INVITED"
        PROVE  Membership'
    <2>1. /\ tenantTx' = [on |-> m, status |-> status, rank |-> held] /\ platformTx.on # m /\ Exists(m)
          /\ UNCHANGED <<member, link, platformTx, crossed>>
      BY <1>2 DEF BeginTenantTx, Free
    <2>2. tenantTx' \in Tx /\ tenantTx'.on = m /\ tenantTx'.status = status /\ tenantTx'.rank = held
      BY <2>1 DEF Tx
    <2>3. Shapes' /\ Locked'
      BY <2>1, <2>2 DEF Membership, Shapes, Locked, Exists, NoTx
    <2>4. OwnerRemains' /\ Counted'
      BY <1>2, <2>1, <2>2 DEF Membership, OwnerRemains, OwnerExists, Counted, OtherOwner, Titled, Active
    <2>5. Invited' /\ LinksAreExclusive'
      BY <1>2, <2>1, <2>2 DEF Membership, Invited, Exists, LinksAreExclusive
    <2> QED
      BY <2>3, <2>4, <2>5 DEF Membership
  <1>3. CASE BeginUpdateAccess(m, rank)
    <2>1. member[m].status \in Status
      BY <1>1, <1>3 DEF BeginUpdateAccess, BeginTenantTx, Exists, Member
    <2> QED
      BY <1>2, <1>3, <2>1 DEF BeginUpdateAccess
  <1>4. CASE BeginSuspend(m)
    <2>1. member[m].rank \in Rank
      BY <1>1 DEF Member
    <2>2. BeginTenantTx(m, "SUSPENDED", member[m].rank) /\ OtherOwner(m) /\ "SUSPENDED" \in Status
      BY <1>4 DEF BeginSuspend, Status
    <2> QED
      BY <1>2, <2>1, <2>2
  <1>5. CASE BeginDisable(m)
    <2>1. /\ platformTx' = [on |-> m, status |-> "SUSPENDED", rank |-> member[m].rank] /\ tenantTx.on # m
          /\ UNCHANGED <<member, link, tenantTx, crossed>> /\ Exists(m)
          /\ Titled(m) => \E o \in Members \ {m} : Active(o) /\ Titled(o)
      BY <1>5 DEF BeginDisable, Free, Exists
    <2>2. platformTx' \in Tx /\ platformTx'.on = m
      BY <1>1, <2>1 DEF Tx, Member, Status
    <2>3. Shapes' /\ Locked'
      BY <2>1, <2>2 DEF Membership, Shapes, Locked, Exists, NoTx
    <2>4. OwnerRemains' /\ Counted'
      BY <2>1, <2>2 DEF Membership, OwnerRemains, OwnerExists, Counted, OtherOwner, Titled, Active
    <2>5. Invited' /\ LinksAreExclusive'
      BY <2>1 DEF Membership, Invited, Exists, LinksAreExclusive
    <2> QED
      BY <2>3, <2>4, <2>5 DEF Membership
  <1> QED
    BY <1>3, <1>4, <1>5

\* The other owner is still there, or the member stays one.
LEMMA CommitTenantStep == Membership /\ CommitTenantTx => Membership'
  <1> SUFFICES ASSUME Membership, CommitTenantTx PROVE Membership'
    OBVIOUS
  <1> DEFINE m == tenantTx.on
  <1>1. m \in Members /\ tenantTx # NoTx /\ tenantTx \in Tx /\ platformTx.on # m
    BY AccessAssumption DEF CommitTenantTx, Membership, Shapes, Locked
  <1>2. /\ member' \in [Members -> Member]
        /\ member'[m].status = tenantTx.status /\ member'[m].rank = tenantTx.rank
        /\ \A o \in Members \ {m} : member'[o] = member[o]
    <2> DEFINE r == [member[m] EXCEPT !.status = tenantTx.status, !.rank = tenantTx.rank]
    <2>1. member[m] \in Member /\ member \in [Members -> Member]
      BY <1>1 DEF Membership, Shapes
    <2>2. r \in Member /\ r.status = tenantTx.status /\ r.rank = tenantTx.rank
      BY <1>1, <2>1 DEF Member, Tx
    <2>3. member' = [member EXCEPT ![m] = r]
      BY <2>1 DEF CommitTenantTx
    <2> HIDE DEF r, m
    <2> QED
      BY <1>1, <2>1, <2>2, <2>3
  <1>3. tenantTx' = NoTx /\ NoTx \in Tx /\ NoTx.on = None /\ None \notin Members /\ tenantTx.status # "NONE"
    BY <1>1, AccessAssumption DEF CommitTenantTx, NoTx, Tx, Status, Rank
  <1>4. UNCHANGED <<link, platformTx>> /\ (crossed' <=> crossed \/ platformTx # NoTx)
    BY DEF CommitTenantTx
  <1> HIDE DEF m
  <1>5. Shapes' /\ Locked'
    BY <1>1, <1>2, <1>3, <1>4 DEF Membership, Shapes, Locked, Exists, m
  <1>6. ASSUME crossed \/ platformTx # NoTx PROVE OwnerRemains' /\ Counted'
    BY <1>4, <1>6, Zenon DEF OwnerRemains, Counted
  <1>7. ASSUME ~crossed, platformTx = NoTx PROVE OwnerRemains' /\ Counted'
    <2>1. Counted'
      BY <1>3, <1>4, <1>7 DEF Counted
    <2>2. ASSUME OtherOwner(m) PROVE OwnerExists'
      <3>1. PICK o \in Members \ {m} : member[o].status = "ACTIVE" /\ member[o].rank = "OWNER"
        BY <2>2 DEF OtherOwner
      <3>2. member'[o].status = "ACTIVE" /\ member'[o].rank = "OWNER"
        BY <1>2, <3>1
      <3> QED
        BY <3>2 DEF OwnerExists, Titled
    <2>3. ASSUME tenantTx.status = member[m].status, tenantTx.rank = "OWNER" PROVE OwnerExists'
      <3>1. PICK x \in Members : member[x].status = "ACTIVE" /\ Titled(x)
        BY <1>7 DEF Membership, OwnerRemains, OwnerExists
      <3>2. member'[x].status = "ACTIVE" /\ member'[x].rank \in {"OWNER", "TITULAR"}
        BY <1>2, <2>3, <3>1 DEF Titled
      <3> QED
        BY <3>2 DEF OwnerExists, Titled
    <2>4. OwnerExists'
      BY <1>1, <1>7, <2>2, <2>3 DEF Membership, Counted, m
    <2> QED
      BY <2>1, <2>4, Zenon DEF OwnerRemains
  <1>8. Invited' /\ LinksAreExclusive'
    BY <1>1, <1>2, <1>3, <1>4 DEF Membership, Invited, Exists, LinksAreExclusive, m
  <1> QED
    BY <1>5, <1>6, <1>7, <1>8 DEF Membership

LEMMA CommitDisableStep == Membership /\ CommitDisable => Membership'
  <1> SUFFICES ASSUME Membership, CommitDisable PROVE Membership'
    OBVIOUS
  <1> DEFINE m == platformTx.on
  <1>1. m \in Members /\ platformTx # NoTx /\ tenantTx.on # m
    BY AccessAssumption DEF CommitDisable, Membership, Shapes, Locked
  <1>2. /\ member' \in [Members -> Member]
        /\ member'[m].status = "SUSPENDED"
        /\ \A o \in Members \ {m} : member'[o] = member[o]
    BY <1>1 DEF CommitDisable, Membership, Shapes, Member, Status
  <1>3. platformTx' = NoTx /\ NoTx \in Tx /\ NoTx.on = None /\ None \notin Members
    BY AccessAssumption DEF CommitDisable, NoTx, Tx, Status, Rank
  <1>4. UNCHANGED <<link, tenantTx>> /\ (crossed' <=> crossed \/ tenantTx # NoTx)
    BY DEF CommitDisable
  <1> HIDE DEF m
  <1>5. Shapes' /\ Locked'
    BY <1>1, <1>2, <1>3, <1>4 DEF Membership, Shapes, Locked, Exists, m
  <1>6. ASSUME crossed \/ tenantTx # NoTx PROVE OwnerRemains' /\ Counted'
    BY <1>4, <1>6, Zenon DEF OwnerRemains, Counted
  <1>7. ASSUME ~crossed, tenantTx = NoTx PROVE OwnerRemains' /\ Counted'
    <2>1. Counted'
      BY <1>3, <1>4, <1>7 DEF Counted
    <2>2. PICK x \in Members : x # m /\ member[x].status = "ACTIVE" /\ Titled(x)
      BY <1>1, <1>7 DEF Membership, OwnerRemains, OwnerExists, Counted, Active, m
    <2>3. OwnerExists'
      BY <1>2, <2>2 DEF OwnerExists, Titled
    <2> QED
      BY <2>1, <2>3, Zenon DEF OwnerRemains
  <1>8. Invited' /\ LinksAreExclusive'
    BY <1>1, <1>2, <1>3, <1>4 DEF Membership, Invited, Exists, LinksAreExclusive, m
  <1> QED
    BY <1>5, <1>6, <1>7, <1>8 DEF Membership

LEMMA RollbackSteps == Membership /\ (RollbackTenantTx \/ RollbackDisable) => Membership'
  <1> SUFFICES ASSUME Membership, RollbackTenantTx \/ RollbackDisable PROVE Membership'
    OBVIOUS
  <1>1. NoTx \in Tx /\ NoTx.on = None /\ None \notin Members /\ UNCHANGED <<member, link, crossed>>
    BY AccessAssumption DEF RollbackTenantTx, RollbackDisable, NoTx, Tx, Status, Rank
  <1>2. \/ tenantTx' = NoTx /\ platformTx' = platformTx
        \/ tenantTx' = tenantTx /\ platformTx' = NoTx
    BY DEF RollbackTenantTx, RollbackDisable
  <1>3. Shapes' /\ Locked'
    BY <1>1, <1>2 DEF Membership, Shapes, Locked, Exists
  <1>4. OwnerRemains' /\ Counted'
    BY <1>1, <1>2 DEF Membership, OwnerRemains, OwnerExists, Counted, OtherOwner, Titled, Active
  <1>5. Invited' /\ LinksAreExclusive'
    BY <1>1, <1>2 DEF Membership, Invited, Exists, LinksAreExclusive
  <1> QED
    BY <1>3, <1>4, <1>5 DEF Membership

LEMMA NextMembership == Membership /\ [Next]_vars => Membership'
  <1> SUFFICES ASSUME Membership, [Next]_vars PROVE Membership'
    OBVIOUS
  <1>1. CASE UNCHANGED enrolment
    BY <1>1, MembershipStays
  <1>2. ASSUME NEW m \in Members, MemberNext(m) PROVE Membership'
    <2>1. CASE \E rank \in Rank : Invite(m, rank) \/ InvitePlatform(m, rank)
      BY <2>1, InviteStep DEF InvitePlatform
    <2>2. CASE (\E rank \in Rank : BeginUpdateAccess(m, rank)) \/ BeginSuspend(m) \/ BeginDisable(m)
      <3>1. "OWNER" \in Rank
        BY DEF Rank
      <3> QED
        BY <2>2, <3>1, BeginSteps
    <2>3. CASE (\E k \in Links : ResendInvitation(m, k) \/ LinkExpires(m, k)) \/ RevokeInvitation(m)
      <3>1. 1 \in Links
        BY AccessAssumption DEF Links
      <3> QED
        BY <2>3, <3>1, LinkSteps
    <2>4. CASE LifecycleActivate(m) \/ Enable(m)
      BY <2>4, ActivationSteps
    <2>5. CASE ResetSessions(m) \/ ResetMfa(m) \/ ChangeAudience(m) \/ CompletePasswordReset(m)
      BY <1>1, <2>5 DEF ResetSessions, ResetMfa, ChangeAudience, CompletePasswordReset, enrolment, transactions
    <2> QED
      BY <1>2, <2>1, <2>2, <2>3, <2>4, <2>5 DEF MemberNext
  <1>3. ASSUME NEW s \in Sessions, SessionNext(s) PROVE Membership'
    <2>1. CASE \E m \in Members, k \in Links : Accept(m, k, s)
      BY <2>1, AcceptStep
    <2>2. CASE \/ \E m \in Members : BeginLogin(s, m)
               \/ \E t \in Sessions : BeginSuccessor(s, t)
               \/ ReadVersions(s) \/ Open(s) \/ Logout(s)
      <3>1. UNCHANGED <<member, link, transactions>>
        <4>1. CASE \/ \E m \in Members : BeginLogin(s, m)
                   \/ \E t \in Sessions : BeginSuccessor(s, t)
          <5>1. PICK m, from : Begin(s, m, from)
            BY <4>1 DEF BeginLogin, BeginSuccessor
          <5> QED
            BY <5>1 DEF Begin
        <4>2. CASE ReadVersions(s) \/ Logout(s)
          BY <4>2 DEF ReadVersions, Logout
        <4>3. CASE Open(s)
          BY <4>3, Zenon DEF Open
        <4> QED
          BY <2>2, <4>1, <4>2, <4>3
      <3> QED
        BY <1>1, <3>1 DEF enrolment, transactions
    <2> QED
      BY <1>3, <2>1, <2>2 DEF SessionNext
  <1>4. CASE (\E caps \in {"many", "few"} : UpdateRole(caps)) \/ DeactivateRole \/ TenantLifecycle
    BY <1>1, <1>4 DEF UpdateRole, DeactivateRole, TenantLifecycle, enrolment, transactions
  <1> QED
    BY <1>1, <1>2, <1>3, <1>4, CommitTenantStep, CommitDisableStep, RollbackSteps DEF Next, vars, enrolment

-----------------------------------------------------------------------------
(* Records of the kernel                                                   *)

Stored == [version : 1 .. MaxVersion, content : Contents, status : Statuses]
Move == [from : Statuses \cup {"none"}, to : Statuses, version : 1 .. MaxVersion]

\* Versions are numbered as their snapshots are, and the last of each is the
\* present.
Versioned ==
  /\ row \in [Records -> {K!NoRow} \cup Stored]
  /\ snapshots \in [Records -> Seq(Stored)]
  /\ \A r \in Records :
       /\ Len(snapshots[r]) = row[r].version
       /\ K!Exists(r) => snapshots[r][Len(snapshots[r])] = row[r]
       /\ \A i \in 1 .. Len(snapshots[r]) : snapshots[r][i].version = i

\* Events lead from each status to the next, up to that of the record.
Headed ==
  \A r \in Records :
    /\ K!Exists(r) <=> Len(events[r]) > 0
    /\ K!Exists(r) => events[r][Len(events[r])].to = row[r].status

Linked ==
  \A r \in Records : \A k \in 1 .. Len(events[r]) :
    /\ events[r][k].version <= Len(snapshots[r])
    /\ snapshots[r][events[r][k].version].status = events[r][k].to
    /\ k > 1 => events[r][k].from = events[r][k - 1].to

Explained ==
  \A r \in Records : \A i \in 1 .. Len(snapshots[r]) :
    i > 1 /\ snapshots[r][i].status # snapshots[r][i - 1].status =>
      \E k \in 1 .. Len(events[r]) : events[r][k].version = i

Moved == events \in [Records -> Seq(Move)] /\ Headed /\ Linked /\ Explained

KernelPage == [phase : {"none", "row", "snapshots", "shown"}, record : Records \cup {"none"}, version : Nat,
               snapshots : Nat, events : Nat, remarks : Nat]

\* A page shows no version that has no snapshot, and no snapshot it has not
\* read; of later snapshots it may lack the events.
Read ==
  /\ page \in [Users -> KernelPage]
  /\ \A u \in Users : page[u].phase # "none" =>
       /\ page[u].record \in Records
       /\ page[u].version > 0
       /\ page[u].version <= Len(snapshots[page[u].record])
       /\ page[u].phase # "row" =>
            /\ page[u].version <= page[u].snapshots
            /\ page[u].snapshots <= Len(snapshots[page[u].record])
       /\ page[u].phase = "shown" =>
            \A k \in 1 .. Len(events[page[u].record]) :
              events[page[u].record][k].version <= page[u].snapshots => k <= page[u].events

Recorded == Versioned /\ Moved /\ Read /\ remarks \in [Records -> 0 .. MaxRemarks]

LEMMA VersionBounds == MaxVersion \in Nat /\ MaxVersion > 0 /\ MaxRemarks \in Nat /\ Initial \in Statuses
  BY KindsAssumption

LEMMA RecordedInit == K!Init => Recorded
  BY VersionBounds DEF K!Init, Recorded, Versioned, Moved, Headed, Linked, Explained, Read, KernelPage, K!NoPage, K!NoRow, K!Exists

LEMMA StoredExists == K!NoRow \notin Stored
  BY DEF K!NoRow, Stored

\* An edit of a record leaves alone what is read or remarked, and vice versa.
LEMMA Elsewhere ==
  ASSUME Recorded, UNCHANGED <<row, snapshots, events>>
  PROVE  Versioned' /\ Moved' /\ (UNCHANGED page => Read')
  BY DEF Recorded, Versioned, Moved, Headed, Linked, Explained, Read, K!Exists

LEMMA ExistingIsNumbered ==
  ASSUME Recorded, NEW r \in Records, K!Exists(r)
  PROVE  Len(snapshots[r]) = row[r].version /\ Len(snapshots[r]) \in Nat /\ row[r].version > 0
  BY VersionBounds DEF Recorded, Versioned, Stored, K!Exists

\* A page that is shown names a version from 1 on: a row is read after it exists.
LEMMA ShownIsNumbered ==
  ASSUME Recorded, NEW u \in Users, page[u].phase = "shown"
  PROVE  page[u].version > 0
  BY DEF Recorded, Read, KernelPage

\* What a handler that writes a record does, with or without an event.
LEMMA Writing ==
  ASSUME Versioned, NEW r \in Records, NEW new \in Stored, new.version = row[r].version + 1, K!Write(r, new)
  PROVE  /\ Versioned'
         /\ row'[r] = new /\ \A s \in Records \ {r} : row'[s] = row[s] /\ snapshots'[s] = snapshots[s]
         /\ Len(snapshots'[r]) = new.version /\ snapshots'[r][new.version] = new
         /\ \A i \in 1 .. Len(snapshots[r]) : snapshots'[r][i] = snapshots[r][i]
         /\ Len(snapshots[r]) + 1 = new.version
         /\ K!Exists(r)' /\ \A s \in Records \ {r} : K!Exists(s)' <=> K!Exists(s)
  <1>1. row' = [row EXCEPT ![r] = new] /\ snapshots' = [snapshots EXCEPT ![r] = Append(snapshots[r], new)]
    BY DEF K!Write, K!Snapshot
  <1>2. row \in [Records -> {K!NoRow} \cup Stored] /\ snapshots \in [Records -> Seq(Stored)]
    BY DEF Versioned
  <1>3. row' \in [Records -> {K!NoRow} \cup Stored] /\ snapshots' \in [Records -> Seq(Stored)]
    BY <1>1, <1>2
  <1>4. /\ row'[r] = new /\ snapshots'[r] = Append(snapshots[r], new)
        /\ \A s \in Records \ {r} : row'[s] = row[s] /\ snapshots'[s] = snapshots[s]
    BY <1>1, <1>2
  <1>5. snapshots[r] \in Seq(Stored) /\ Len(snapshots[r]) = row[r].version
    BY <1>2 DEF Versioned
  <1>6. /\ Len(snapshots'[r]) = Len(snapshots[r]) + 1 /\ snapshots'[r][Len(snapshots[r]) + 1] = new
        /\ \A i \in 1 .. Len(snapshots[r]) : snapshots'[r][i] = snapshots[r][i]
    BY <1>4, <1>5
  <1>7. Len(snapshots[r]) + 1 = new.version /\ Len(snapshots[r]) \in Nat
    BY <1>5
  <1>8. K!Exists(r)' /\ \A s \in Records \ {r} : K!Exists(s)' <=> K!Exists(s)
    BY <1>4, StoredExists DEF K!Exists, K!NoRow, Stored
  <1>9. \A s \in Records :
          /\ Len(snapshots'[s]) = row'[s].version
          /\ K!Exists(s)' => snapshots'[s][Len(snapshots'[s])] = row'[s]
          /\ \A i \in 1 .. Len(snapshots'[s]) : snapshots'[s][i].version = i
    <2> TAKE s \in Records
    <2>1. CASE s # r
      BY <1>4, <1>8, <2>1 DEF Versioned
    <2>2. CASE s = r
      <3>1. \A i \in 1 .. Len(snapshots[r]) : snapshots[r][i].version = i
        BY DEF Versioned
      <3> QED
        BY <1>4, <1>6, <1>7, <2>2, <3>1
    <2> QED
      BY <2>1, <2>2
  <1> QED
    BY <1>3, <1>4, <1>6, <1>7, <1>8, <1>9 DEF Versioned

\* An event of the version that is written keeps the chain.
LEMMA WritingMoves ==
  ASSUME Versioned, Moved, NEW r \in Records, NEW new \in Stored, new.version = row[r].version + 1,
         K!Write(r, new),
         NEW from \in Statuses \cup {"none"}, K!Exists(r) => from = row[r].status,
         K!Event(r, from, new)
  PROVE  /\ Moved'
         /\ Len(events'[r]) = Len(events[r]) + 1 /\ events'[r][Len(events[r]) + 1].version = new.version
         /\ \A k \in 1 .. Len(events[r]) : events'[r][k] = events[r][k]
         /\ \A s \in Records \ {r} : events'[s] = events[s]
  <1> DEFINE e == [from |-> from, to |-> new.status, version |-> new.version]
  <1>1. e \in Move /\ e.from = from /\ e.to = new.status /\ e.version = new.version
    BY DEF Move, Stored
  <1>2. events' = [events EXCEPT ![r] = Append(events[r], e)]
    BY DEF K!Event
  <1> HIDE DEF e
  <1>3. events \in [Records -> Seq(Move)] /\ events[r] \in Seq(Move)
    BY DEF Moved
  <1>4. events' \in [Records -> Seq(Move)]
    BY <1>1, <1>2, <1>3
  <1>5. events'[r] = Append(events[r], e) /\ \A s \in Records \ {r} : events'[s] = events[s]
    BY <1>2, <1>3
  <1>6. /\ Len(events'[r]) = Len(events[r]) + 1 /\ events'[r][Len(events[r]) + 1] = e
        /\ \A k \in 1 .. Len(events[r]) : events'[r][k] = events[r][k]
        /\ Len(events[r]) \in Nat
    BY <1>1, <1>3, <1>5
  <1>7. /\ row'[r] = new /\ \A s \in Records \ {r} : row'[s] = row[s] /\ snapshots'[s] = snapshots[s]
        /\ Len(snapshots'[r]) = new.version /\ snapshots'[r][new.version] = new
        /\ \A i \in 1 .. Len(snapshots[r]) : snapshots'[r][i] = snapshots[r][i]
        /\ Len(snapshots[r]) + 1 = new.version /\ Len(snapshots[r]) \in Nat
        /\ K!Exists(r)' /\ \A s \in Records \ {r} : K!Exists(s)' <=> K!Exists(s)
    <2>1. Len(snapshots[r]) \in Nat
      BY DEF Versioned
    <2> QED
      BY <2>1, Writing
  <1>8. K!Exists(r) <=> Len(events[r]) > 0
    BY DEF Moved, Headed
  <1>9. Headed'
    <2> SUFFICES ASSUME NEW s \in Records
                 PROVE  /\ K!Exists(s)' <=> Len(events'[s]) > 0
                        /\ K!Exists(s)' => events'[s][Len(events'[s])].to = row'[s].status
      BY DEF Headed
    <2>1. CASE s # r
      <3>1. /\ K!Exists(s) <=> Len(events[s]) > 0
            /\ K!Exists(s) => events[s][Len(events[s])].to = row[s].status
        BY DEF Moved, Headed
      <3> QED
        BY <1>5, <1>7, <2>1, <3>1
    <2>2. CASE s = r
      BY <1>1, <1>6, <1>7, <2>2
    <2> QED
      BY <2>1, <2>2
  <1>10. Linked'
    <2> SUFFICES ASSUME NEW s \in Records, NEW k \in 1 .. Len(events'[s])
                 PROVE  /\ events'[s][k].version <= Len(snapshots'[s])
                        /\ snapshots'[s][events'[s][k].version].status = events'[s][k].to
                        /\ k > 1 => events'[s][k].from = events'[s][k - 1].to
      BY DEF Linked
    <2>1. CASE s # r
      <3>1. events'[s] = events[s] /\ snapshots'[s] = snapshots[s]
        BY <1>5, <1>7, <2>1
      <3>2. k \in 1 .. Len(events[s])
        BY <3>1
      <3>3. /\ events[s][k].version <= Len(snapshots[s])
            /\ snapshots[s][events[s][k].version].status = events[s][k].to
            /\ k > 1 => events[s][k].from = events[s][k - 1].to
        BY <3>2, Zenon DEF Moved, Linked
      <3> QED
        BY <3>1, <3>3
    <2>2. CASE s = r /\ k \in 1 .. Len(events[r])
      <3>1. /\ events[r][k].version <= Len(snapshots[r]) /\ events[r][k] \in Move
            /\ snapshots[r][events[r][k].version].status = events[r][k].to
            /\ k > 1 => events[r][k].from = events[r][k - 1].to
        BY <1>3, <2>2 DEF Moved, Linked
      <3>2. events[r][k].version \in 1 .. Len(snapshots[r])
        BY <1>7, <3>1 DEF Move
      <3>3. k > 1 => events'[r][k - 1] = events[r][k - 1]
        BY <1>6, <2>2
      <3>4. events'[r][k] = events[r][k]
        BY <1>6, <2>2
      <3>5. snapshots'[r][events[r][k].version] = snapshots[r][events[r][k].version]
        BY <1>7, <3>2
      <3>6. events[r][k].version <= Len(snapshots'[r])
        BY <1>7, <3>2
      <3> QED
        BY <2>2, <3>1, <3>3, <3>4, <3>5, <3>6
    <2>3. CASE s = r /\ k = Len(events[r]) + 1
      <3>1. events'[r][k] = e
        BY <1>6, <2>3
      <3>2. k > 1 => e.from = events'[r][k - 1].to
        <4> SUFFICES ASSUME k > 1 PROVE e.from = events'[r][k - 1].to
          OBVIOUS
        <4>1. K!Exists(r) /\ k - 1 = Len(events[r]) /\ k - 1 \in 1 .. Len(events[r])
          BY <1>6, <1>8, <2>3
        <4>2. events[r][Len(events[r])].to = row[r].status
          BY <4>1 DEF Moved, Headed
        <4> QED
          BY <1>1, <1>6, <4>1, <4>2
      <3> QED
        BY <1>1, <1>7, <2>3, <3>1, <3>2
    <2> QED
      BY <1>6, <2>1, <2>2, <2>3
  <1>11. Explained'
    <2> SUFFICES ASSUME NEW s \in Records, NEW i \in 1 .. Len(snapshots'[s]), i > 1,
                        snapshots'[s][i].status # snapshots'[s][i - 1].status
                 PROVE  \E k \in 1 .. Len(events'[s]) : events'[s][k].version = i
      BY DEF Explained
    <2>1. CASE s # r
      <3>1. events'[s] = events[s] /\ snapshots'[s] = snapshots[s]
        BY <1>5, <1>7, <2>1
      <3>2. i \in 1 .. Len(snapshots[s]) /\ snapshots[s][i].status # snapshots[s][i - 1].status
        BY <3>1
      <3>3. \E k \in 1 .. Len(events[s]) : events[s][k].version = i
        BY <3>2, Zenon DEF Moved, Explained
      <3> QED
        BY <3>1, <3>3
    <2>2. CASE s = r /\ i \in 1 .. Len(snapshots[r])
      <3>1. i - 1 \in 1 .. Len(snapshots[r])
        BY <1>7, <2>2
      <3>2. snapshots'[r][i] = snapshots[r][i] /\ snapshots'[r][i - 1] = snapshots[r][i - 1]
        BY <1>7, <2>2, <3>1
      <3>3. snapshots[r][i].status # snapshots[r][i - 1].status
        BY <2>2, <3>2
      <3>4. PICK k \in 1 .. Len(events[r]) : events[r][k].version = i
        BY <2>2, <3>3, Zenon DEF Moved, Explained
      <3> QED
        BY <1>6, <2>2, <3>4
    <2>3. CASE s = r /\ i = new.version
      BY <1>1, <1>6, <2>3
    <2> QED
      BY <1>7, <2>1, <2>2, <2>3
  <1> QED
    BY <1>1, <1>4, <1>5, <1>6, <1>9, <1>10, <1>11 DEF Moved

\* So does no event, if the status stays.
LEMMA WritingStays ==
  ASSUME Versioned, Moved, NEW r \in Records, NEW new \in Stored, new.version = row[r].version + 1,
         K!Write(r, new), K!Exists(r), new.status = row[r].status, UNCHANGED events
  PROVE  Moved'
  <1>1. /\ row'[r] = new /\ \A s \in Records \ {r} : row'[s] = row[s] /\ snapshots'[s] = snapshots[s]
        /\ Len(snapshots'[r]) = new.version /\ snapshots'[r][new.version] = new
        /\ \A i \in 1 .. Len(snapshots[r]) : snapshots'[r][i] = snapshots[r][i]
        /\ Len(snapshots[r]) + 1 = new.version /\ Len(snapshots[r]) \in Nat
        /\ K!Exists(r)' /\ \A s \in Records \ {r} : K!Exists(s)' <=> K!Exists(s)
    <2>1. Len(snapshots[r]) \in Nat
      BY DEF Versioned
    <2> QED
      BY <2>1, Writing
  <1>2. Headed'
    BY <1>1 DEF Moved, Headed
  <1>3. Linked'
    <2> SUFFICES ASSUME NEW s \in Records, NEW k \in 1 .. Len(events'[s])
                 PROVE  /\ events'[s][k].version <= Len(snapshots'[s])
                        /\ snapshots'[s][events'[s][k].version].status = events'[s][k].to
                        /\ k > 1 => events'[s][k].from = events'[s][k - 1].to
      BY DEF Linked
    <2>1. CASE s # r
      <3>1. events'[s] = events[s] /\ snapshots'[s] = snapshots[s]
        BY <1>1, <2>1
      <3>2. k \in 1 .. Len(events[s])
        BY <3>1
      <3>3. /\ events[s][k].version <= Len(snapshots[s])
            /\ snapshots[s][events[s][k].version].status = events[s][k].to
            /\ k > 1 => events[s][k].from = events[s][k - 1].to
        BY <3>2, Zenon DEF Moved, Linked
      <3> QED
        BY <3>1, <3>3
    <2>2. CASE s = r
      <3>1. /\ events[r][k].version <= Len(snapshots[r]) /\ events[r][k] \in Move
            /\ snapshots[r][events[r][k].version].status = events[r][k].to
            /\ k > 1 => events[r][k].from = events[r][k - 1].to
        BY <2>2 DEF Moved, Linked
      <3>2. events[r][k].version \in 1 .. Len(snapshots[r])
        BY <1>1, <3>1 DEF Move
      <3> QED
        BY <1>1, <2>2, <3>1, <3>2
    <2> QED
      BY <2>1, <2>2
  <1>4. Explained'
    <2> SUFFICES ASSUME NEW s \in Records, NEW i \in 1 .. Len(snapshots'[s]), i > 1,
                        snapshots'[s][i].status # snapshots'[s][i - 1].status
                 PROVE  \E k \in 1 .. Len(events'[s]) : events'[s][k].version = i
      BY DEF Explained
    <2>1. CASE s # r
      <3>1. events'[s] = events[s] /\ snapshots'[s] = snapshots[s]
        BY <1>1, <2>1
      <3>2. i \in 1 .. Len(snapshots[s]) /\ snapshots[s][i].status # snapshots[s][i - 1].status
        BY <3>1
      <3> QED
        BY <3>1, <3>2, Zenon DEF Moved, Explained
    <2>2. CASE s = r /\ i \in 1 .. Len(snapshots[r])
      <3>1. i - 1 \in 1 .. Len(snapshots[r])
        BY <1>1, <2>2
      <3>2. snapshots'[r][i] = snapshots[r][i] /\ snapshots'[r][i - 1] = snapshots[r][i - 1]
        BY <1>1, <2>2, <3>1
      <3>3. snapshots[r][i].status # snapshots[r][i - 1].status
        BY <2>2, <3>2
      <3> QED
        BY <2>2, <3>3, Zenon DEF Moved, Explained
    <2>3. CASE s = r /\ i = new.version
      <3>1. snapshots'[r][i] = new /\ i - 1 = Len(snapshots[r])
        BY <1>1, <2>3
      <3>2. i > 1 => snapshots'[r][i - 1] = snapshots[r][Len(snapshots[r])]
        BY <1>1, <2>3, <3>1
      <3>3. snapshots[r][Len(snapshots[r])] = row[r]
        BY DEF Versioned
      <3> QED
        BY <2>3, <3>1, <3>2, <3>3
    <2> QED
      BY <1>1, <2>1, <2>2, <2>3
  <1> QED
    BY <1>2, <1>3, <1>4 DEF Moved

\* A later version, and its event, are beyond any page.
LEMMA WritingUnread ==
  ASSUME Versioned, Moved, Read, NEW r \in Records, NEW new \in Stored, new.version = row[r].version + 1,
         K!Write(r, new), UNCHANGED page, Moved',
         \A s \in Records : Len(events'[s]) >= Len(events[s])
           /\ \A k \in 1 .. Len(events[s]) : events'[s][k] = events[s][k],
         \A s \in Records : \A k \in 1 .. Len(events'[s]) :
           k > Len(events[s]) => s = r /\ events'[s][k].version = new.version
  PROVE  Read'
  <1>1. /\ \A s \in Records \ {r} : row'[s] = row[s] /\ snapshots'[s] = snapshots[s]
        /\ Len(snapshots'[r]) = new.version /\ Len(snapshots[r]) + 1 = new.version
    BY Writing
  <1>2. \A s \in Records : Len(snapshots[s]) \in Nat /\ Len(snapshots[s]) <= Len(snapshots'[s])
    BY <1>1 DEF Versioned
  <1>3. \A s \in Records : Len(events[s]) \in Nat
    BY DEF Moved
  <1>4. ASSUME NEW u \in Users, page'[u].phase # "none"
        PROVE  /\ page'[u].record \in Records
               /\ page'[u].version > 0
               /\ page'[u].version <= Len(snapshots'[page'[u].record])
               /\ page'[u].phase # "row" =>
                    /\ page'[u].version <= page'[u].snapshots
                    /\ page'[u].snapshots <= Len(snapshots'[page'[u].record])
               /\ page'[u].phase = "shown" =>
                    \A k \in 1 .. Len(events'[page'[u].record]) :
                      events'[page'[u].record][k].version <= page'[u].snapshots => k <= page'[u].events
    <2> DEFINE s == page[u].record
    <2>1. page' = page /\ page[u] \in KernelPage
      BY DEF Read
    <2>2. s \in Records /\ page[u].version > 0 /\ page[u].version <= Len(snapshots[s])
      BY <1>4, <2>1 DEF Read
    <2>3. page[u].phase # "row" => page[u].version <= page[u].snapshots /\ page[u].snapshots <= Len(snapshots[s])
      BY <1>4, <2>1 DEF Read
    <2>4. page[u].version \in Nat /\ page[u].snapshots \in Nat
      BY <2>1 DEF KernelPage
    <2>5. page[u].phase = "shown" =>
            \A k \in 1 .. Len(events[s]) : events[s][k].version <= page[u].snapshots => k <= page[u].events
      BY <1>4, <2>1 DEF Read
    <2> HIDE DEF s
    <2>6. ASSUME page[u].phase = "shown", NEW k \in 1 .. Len(events'[s]),
                 events'[s][k].version <= page[u].snapshots
          PROVE  k <= page[u].events
      <3>1. k <= Len(events[s])
        <4> SUFFICES ASSUME k > Len(events[s]) PROVE FALSE
          BY <1>3, <2>2
        <4>1. s = r /\ events'[s][k].version = new.version
          BY <2>2
        <4>2. page[u].snapshots <= Len(snapshots[s]) /\ Len(snapshots[s]) \in Nat
          BY <1>2, <2>2, <2>3, <2>6
        <4> QED
          BY <1>1, <2>4, <2>6, <4>1, <4>2
      <3>2. k \in 1 .. Len(events[s]) /\ events'[s][k] = events[s][k]
        BY <1>3, <2>2, <3>1
      <3> QED
        BY <2>5, <2>6, <3>2
    <2>7. page[u].version <= Len(snapshots'[s])
      BY <1>2, <2>2, <2>4
    <2>8. page[u].phase # "row" => page[u].snapshots <= Len(snapshots'[s])
      BY <1>2, <2>2, <2>3, <2>4
    <2> QED
      BY <2>1, <2>2, <2>3, <2>6, <2>7, <2>8 DEF s
  <1> QED
    BY <1>4 DEF Read

LEMMA WritingRecorded ==
  ASSUME Recorded, NEW r \in Records, NEW new \in Stored, new.version = row[r].version + 1,
         K!Write(r, new), UNCHANGED <<remarks, page>>,
         \/ \E from \in Statuses \cup {"none"} :
              (K!Exists(r) => from = row[r].status) /\ K!Event(r, from, new)
         \/ K!Exists(r) /\ new.status = row[r].status /\ UNCHANGED events
  PROVE  Recorded'
  <1>1. Versioned /\ Moved /\ Read /\ remarks \in [Records -> 0 .. MaxRemarks]
    BY DEF Recorded
  <1>2. Versioned'
    BY <1>1, Writing
  <1>3. \A s \in Records : Len(events[s]) \in Nat
    BY <1>1 DEF Moved
  <1>4. CASE \E from \in Statuses \cup {"none"} :
               (K!Exists(r) => from = row[r].status) /\ K!Event(r, from, new)
    <2>1. PICK from \in Statuses \cup {"none"} :
            (K!Exists(r) => from = row[r].status) /\ K!Event(r, from, new)
      BY <1>4
    <2>2. /\ Moved'
          /\ Len(events'[r]) = Len(events[r]) + 1 /\ events'[r][Len(events[r]) + 1].version = new.version
          /\ \A k \in 1 .. Len(events[r]) : events'[r][k] = events[r][k]
          /\ \A s \in Records \ {r} : events'[s] = events[s]
      BY <1>1, <2>1, WritingMoves
    <2>3. \A s \in Records : Len(events'[s]) >= Len(events[s])
            /\ \A k \in 1 .. Len(events[s]) : events'[s][k] = events[s][k]
      BY <1>3, <2>2
    <2>4. \A s \in Records : \A k \in 1 .. Len(events'[s]) :
            k > Len(events[s]) => s = r /\ events'[s][k].version = new.version
      <3> TAKE s \in Records
      <3> TAKE k \in 1 .. Len(events'[s])
      <3> HAVE k > Len(events[s])
      <3>1. s = r
        BY <1>3, <2>2
      <3>2. k = Len(events[r]) + 1
        BY <1>3, <2>2, <3>1
      <3> QED
        BY <2>2, <3>1, <3>2
    <2>5. Read'
      BY <1>1, <2>2, <2>3, <2>4, WritingUnread
    <2> QED
      BY <1>1, <1>2, <2>2, <2>5 DEF Recorded
  <1>5. CASE K!Exists(r) /\ new.status = row[r].status /\ UNCHANGED events
    <2>1. Moved'
      BY <1>1, <1>5, WritingStays
    <2>2. /\ \A s \in Records : Len(events'[s]) >= Len(events[s])
               /\ \A k \in 1 .. Len(events[s]) : events'[s][k] = events[s][k]
          /\ \A s \in Records : \A k \in 1 .. Len(events'[s]) :
               k > Len(events[s]) => s = r /\ events'[s][k].version = new.version
      BY <1>3, <1>5
    <2>3. Read'
      BY <1>1, <2>1, <2>2, WritingUnread
    <2> QED
      BY <1>1, <1>2, <2>1, <2>3 DEF Recorded
  <1> QED
    BY <1>4, <1>5

LEMMA CreateRecordStep ==
  ASSUME Recorded, NEW r \in Records, NEW content \in Contents, K!Create(r, content)
  PROVE  Recorded'
  <1> DEFINE new == [version |-> 1, content |-> content, status |-> Initial]
  <1>1. new \in Stored /\ new.version = 1
    BY VersionBounds DEF Stored
  <1>2. ~K!Exists(r) /\ K!Write(r, new) /\ K!Event(r, "none", new) /\ UNCHANGED <<remarks, page>>
    BY Zenon DEF K!Create
  <1> HIDE DEF new
  <1>3. new.version = row[r].version + 1
    BY <1>1, <1>2 DEF K!Exists, K!NoRow
  <1> QED
    BY <1>1, <1>2, <1>3, WritingRecorded

\* The record an edit expects is there, at a version below the last.
LEMMA ExpectedExists ==
  ASSUME Recorded, NEW u \in Users, NEW r \in Records, K!Expected(u, r)
  PROVE  row[r] \in Stored /\ row[r].version + 1 \in 1 .. MaxVersion /\ K!Exists(r)
  <1>1. row[r] \in {K!NoRow} \cup Stored
    BY DEF Recorded, Versioned
  <1>2. row[r] # K!NoRow
    <2>1. CASE row[r] = K!NoRow
      <3>1. row[r].version = 0
        BY <2>1 DEF K!NoRow
      <3> QED
        BY <3>1, ShownIsNumbered DEF K!Expected
    <2> QED
      BY <2>1
  <1> QED
    BY <1>1, <1>2, VersionBounds DEF Stored, K!Expected, K!Exists

LEMMA UpdateStep ==
  ASSUME Recorded, NEW u \in Users, NEW r \in Records, NEW content \in Contents, K!Update(u, r, content)
  PROVE  Recorded'
  <1> DEFINE new == [row[r] EXCEPT !.version = row[r].version + 1, !.content = content]
  <1>1. K!Expected(u, r) /\ K!Write(r, new) /\ UNCHANGED <<events, remarks, page>>
    BY Zenon DEF K!Update
  <1>2. row[r] \in Stored /\ row[r].version + 1 \in 1 .. MaxVersion /\ K!Exists(r)
    BY <1>1, ExpectedExists
  <1>3. new \in Stored /\ new.version = row[r].version + 1 /\ new.status = row[r].status
    BY <1>2 DEF Stored
  <1> HIDE DEF new
  <1> QED
    BY <1>1, <1>2, <1>3, WritingRecorded

LEMMA TransitionStep ==
  ASSUME Recorded, NEW u \in Users, NEW r \in Records, NEW status \in Statuses, K!Transition(u, r, status)
  PROVE  Recorded'
  <1> DEFINE new == [row[r] EXCEPT !.version = row[r].version + 1, !.status = status]
  <1>1. K!Expected(u, r) /\ K!Write(r, new) /\ K!Event(r, row[r].status, new) /\ UNCHANGED <<remarks, page>>
    BY Zenon DEF K!Transition
  <1>2. row[r] \in Stored /\ row[r].version + 1 \in 1 .. MaxVersion
    BY <1>1, ExpectedExists
  <1>3. new \in Stored /\ new.version = row[r].version + 1 /\ row[r].status \in Statuses
    BY <1>2 DEF Stored
  <1> HIDE DEF new
  <1> QED
    BY <1>1, <1>3, WritingRecorded

LEMMA RemarkStep ==
  ASSUME Recorded, NEW r \in Records, K!Remark(r)
  PROVE  Recorded'
  <1>1. remarks' \in [Records -> 0 .. MaxRemarks]
    BY VersionBounds DEF Recorded, K!Remark
  <1> QED
    BY <1>1, Elsewhere DEF Recorded, K!Remark

\* A page is read from what is there.
LEMMA DetailRowStep ==
  ASSUME Recorded, NEW u \in Users, NEW r \in Records, K!DetailRow(u, r)
  PROVE  Recorded'
  <1> DEFINE new == [K!NoPage EXCEPT !.phase = "row", !.record = r, !.version = row[r].version]
  <1>1. page' = [page EXCEPT ![u] = new] /\ UNCHANGED <<row, snapshots, events, remarks>>
    BY Zenon DEF K!DetailRow
  <1>2. Len(snapshots[r]) = row[r].version /\ Len(snapshots[r]) \in Nat /\ row[r].version > 0
    BY Zenon, ExistingIsNumbered DEF K!DetailRow
  <1>3. new \in KernelPage /\ new.phase = "row" /\ new.record = r /\ new.version = row[r].version
    BY <1>2 DEF K!NoPage, KernelPage
  <1> HIDE DEF new
  <1>4. page \in [Users -> KernelPage]
    BY DEF Recorded, Read
  <1>5. page' \in [Users -> KernelPage] /\ page'[u] = new /\ \A v \in Users \ {u} : page'[v] = page[v]
    BY <1>1, <1>3, <1>4
  <1>6. Read'
    BY <1>1, <1>2, <1>3, <1>5 DEF Recorded, Read
  <1> QED
    BY <1>1, <1>6, Elsewhere DEF Recorded

LEMMA DetailSnapshotsStep ==
  ASSUME Recorded, NEW u \in Users, K!DetailSnapshots(u)
  PROVE  Recorded'
  <1> DEFINE n == Len(snapshots[page[u].record])
             new == [page[u] EXCEPT !.phase = "snapshots", !.snapshots = n]
  <1>1. page[u].phase = "row" /\ page' = [page EXCEPT ![u] = new] /\ UNCHANGED <<row, snapshots, events, remarks>>
    BY DEF K!DetailSnapshots
  <1>2. page[u] \in KernelPage /\ page[u].record \in Records /\ page[u].version > 0 /\ page[u].version <= n
    BY <1>1 DEF Recorded, Read
  <1>3. n \in Nat
    BY <1>2 DEF Recorded, Versioned
  <1>4. /\ new \in KernelPage /\ new.phase = "snapshots" /\ new.record = page[u].record
        /\ new.version = page[u].version /\ new.snapshots = n
    BY <1>2, <1>3 DEF KernelPage
  <1>5. n <= Len(snapshots[new.record]) /\ new.record \in Records
    BY <1>2, <1>3, <1>4
  <1> HIDE DEF new, n
  <1>6. page \in [Users -> KernelPage]
    BY DEF Recorded, Read
  <1>7. page' \in [Users -> KernelPage] /\ page'[u] = new /\ \A v \in Users \ {u} : page'[v] = page[v]
    BY <1>1, <1>4, <1>6
  <1>8. new.version <= Len(snapshots[new.record])
    BY <1>2, <1>4 DEF n
  <1>9. Read'
    BY <1>1, <1>2, <1>4, <1>5, <1>7, <1>8 DEF Recorded, Read
  <1> QED
    BY <1>1, <1>9, Elsewhere DEF Recorded

LEMMA DetailRestStep ==
  ASSUME Recorded, NEW u \in Users, K!DetailRest(u)
  PROVE  Recorded'
  <1> DEFINE r == page[u].record
             new == [page[u] EXCEPT !.phase = "shown", !.events = Len(events[r]), !.remarks = remarks[r]]
  <1>1. page[u].phase = "snapshots" /\ page' = [page EXCEPT ![u] = new] /\ UNCHANGED <<row, snapshots, events, remarks>>
    BY DEF K!DetailRest
  <1>2. /\ page[u] \in KernelPage /\ r \in Records /\ page[u].version > 0 /\ page[u].version <= Len(snapshots[r])
        /\ page[u].version <= page[u].snapshots /\ page[u].snapshots <= Len(snapshots[r])
    BY <1>1 DEF Recorded, Read
  <1>3. Len(events[r]) \in Nat /\ remarks[r] \in Nat
    BY <1>2, VersionBounds DEF Recorded, Moved
  <1>4. /\ new \in KernelPage /\ new.phase = "shown" /\ new.record = r /\ new.version = page[u].version
        /\ new.snapshots = page[u].snapshots /\ new.events = Len(events[r])
    BY <1>2, <1>3 DEF KernelPage
  <1> HIDE DEF new, r
  <1>5. page \in [Users -> KernelPage]
    BY DEF Recorded, Read
  <1>6. page' \in [Users -> KernelPage] /\ page'[u] = new /\ \A v \in Users \ {u} : page'[v] = page[v]
    BY <1>1, <1>4, <1>5
  <1>7. \A k \in 1 .. Len(events[r]) : k <= new.events
    BY <1>3, <1>4
  <1>8. Read'
    BY <1>1, <1>2, <1>4, <1>6, <1>7 DEF Recorded, Read
  <1> QED
    BY <1>1, <1>8, Elsewhere DEF Recorded

LEMMA KernelStep == Recorded /\ [K!Next]_kernel => Recorded'
  <1> SUFFICES ASSUME Recorded, [K!Next]_kernel PROVE Recorded'
    OBVIOUS
  <1>1. CASE UNCHANGED kernel
    BY <1>1, Elsewhere DEF Recorded, Read, kernel
  <1>2. CASE K!Next
    BY <1>2, CreateRecordStep, UpdateStep, TransitionStep, RemarkStep, DetailRowStep, DetailSnapshotsStep,
       DetailRestStep DEF K!Next
  <1> QED
    BY <1>1, <1>2

\* What the run checks follows.
LEMMA RecordedIsTraced ==
  ASSUME Recorded
  PROVE  K!TypeOK /\ K!PastIsWhole /\ K!PagesAreWhole
  <1>1. K!TypeOK
    BY DEF Recorded, Versioned, K!TypeOK, Stored
  <1>2. \A r \in Records : DOMAIN snapshots[r] = 1 .. Len(snapshots[r]) /\ DOMAIN events[r] = 1 .. Len(events[r])
    BY DEF Recorded, Versioned, Moved
  <1>3. K!PastIsWhole
    <2> SUFFICES ASSUME NEW r \in Records
                 PROVE  /\ Len(snapshots[r]) = row[r].version
                        /\ K!Exists(r) => snapshots[r][Len(snapshots[r])] = row[r]
                        /\ \A i \in DOMAIN snapshots[r] : snapshots[r][i].version = i
                        /\ \A k \in DOMAIN events[r] :
                             /\ snapshots[r][events[r][k].version].status = events[r][k].to
                             /\ k > 1 => events[r][k].from = events[r][k - 1].to
                        /\ \A i \in DOMAIN snapshots[r] :
                             i > 1 /\ snapshots[r][i].status # snapshots[r][i - 1].status =>
                               \E k \in DOMAIN events[r] : events[r][k].version = i
      BY Zenon DEF K!PastIsWhole
    <2>1. /\ Len(snapshots[r]) = row[r].version
          /\ K!Exists(r) => snapshots[r][Len(snapshots[r])] = row[r]
          /\ \A i \in DOMAIN snapshots[r] : snapshots[r][i].version = i
      BY <1>2 DEF Recorded, Versioned
    <2>2. \A k \in DOMAIN events[r] :
            /\ snapshots[r][events[r][k].version].status = events[r][k].to
            /\ k > 1 => events[r][k].from = events[r][k - 1].to
      BY <1>2, Zenon DEF Recorded, Moved, Linked
    <2>3. \A i \in DOMAIN snapshots[r] :
            i > 1 /\ snapshots[r][i].status # snapshots[r][i - 1].status =>
              \E k \in DOMAIN events[r] : events[r][k].version = i
      <3>1. \A i \in 1 .. Len(snapshots[r]) :
              i > 1 /\ snapshots[r][i].status # snapshots[r][i - 1].status =>
                \E k \in 1 .. Len(events[r]) : events[r][k].version = i
        BY Zenon DEF Recorded, Moved, Explained
      <3> QED
        BY <1>2, <3>1
    <2> QED
      BY <2>1, <2>2, <2>3
  <1>4. K!PagesAreWhole
    BY <1>2 DEF Recorded, Read, K!PagesAreWhole
  <1> QED
    BY <1>1, <1>3, <1>4

-----------------------------------------------------------------------------
(* Commands of a conversation                                              *)

Command == [state : {"NONE", "PENDING", "CANCELLED", "EXECUTED"}, intent : {"CREATE", "CHANGE"},
            of : {t.of : t \in Texts} \cup {0}, version : Nat, expired : {"no", "yes"}]
Confirmation == [phase : {"idle", "begun", "taken", "undone"}, proposal : Commands \cup {Nobody},
                 version : Versions \cup {0}, key : Keys \cup {Nobody}]
Message == [text : Texts \cup {Y!Unsaid.text}, proposal : Commands \cup {Nobody}]
Effect == [proposal : Commands, key : Keys, of : Versions \cup {0}]

Commanded ==
  /\ proposal \in [Commands -> Command]
  /\ \A p \in Commands : proposal[p].state = "NONE" => proposal[p] = Y!Unmade
  /\ execution \subseteq Effect /\ created \subseteq Commands
  /\ written \in Seq(Commands \cup {Nobody}) /\ Len(written) \in 1 .. MaxWrites

\* A request is for a proposal, and has it to itself, pending, once it took it.
Confirming ==
  /\ confirming \in [Requests -> Confirmation]
  /\ \A r \in Requests : confirming[r].phase # "idle" =>
       /\ confirming[r].proposal \in Commands /\ confirming[r].key \in Keys
       /\ proposal[confirming[r].proposal].state # "NONE"
       /\ confirming[r].phase = "taken" => proposal[confirming[r].proposal].state = "PENDING"
  /\ \A q, r \in Requests :
       /\ confirming[q].phase = "taken" /\ confirming[r].phase = "taken"
       /\ confirming[q].proposal = confirming[r].proposal
       => q = r

\* The state of a proposal tells what is on file and what was done.
Executed ==
  /\ \A p \in Commands : (\E e \in execution : e.proposal = p) <=> proposal[p].state = "EXECUTED"
  /\ \A e, f \in execution : e.proposal = f.proposal => e = f
  /\ \A p \in Commands : Y!Done(p) <=> proposal[p].state = "EXECUTED"
  /\ \A n \in 1 .. Len(written) : written[n] \in Commands => proposal[written[n]].of = n - 1

\* So does what the member was told, and what was noted.
Honest ==
  /\ \A a \in agreed : a.what = "cancelled" =>
       a.proposal \in Commands /\ proposal[a.proposal].state = "CANCELLED"
  /\ \A a \in agreed : a.what = "executed" => \E e \in execution : e.proposal = a.proposal /\ e.key = a.key
  /\ \A a \in attempt : a.outcome = "SUCCEEDED" => \E e \in execution : e.proposal = a.proposal /\ e.key = a.key
  /\ \A e \in execution : \E a \in attempt :
       a.outcome = "SUCCEEDED" /\ a.proposal = e.proposal /\ a.key = e.key

Said ==
  /\ sent \in [Keys -> Message]
  /\ \A k \in Keys : sent[k].proposal \in Commands => proposal[sent[k].proposal].state # "NONE"
  /\ \A j, k \in Keys : sent[j].proposal = sent[k].proposal /\ j # k => sent[j].proposal = Nobody

Obeyed == Commanded /\ Confirming /\ Executed /\ Honest /\ Said

LEMMA WriteBound == MaxWrites \in Nat /\ MaxWrites > 0 /\ Nobody \notin Commands
  BY KindsAssumption

LEMMA TextIntents == \A t \in Texts : t.intent \in {"CREATE", "CHANGE"}
  BY KindsAssumption

LEMMA UnmadeIsCommand == Y!Unmade \in Command /\ Y!Unmade.state = "NONE"
  BY DEF Y!Unmade, Command

LEMMA IdleIsConfirmation == Y!Idle \in Confirmation /\ Y!Idle.phase = "idle"
  BY DEF Y!Idle, Confirmation

LEMMA CommandsInit == Y!Init => Obeyed
  <1> SUFFICES ASSUME Y!Init PROVE Obeyed
    OBVIOUS
  <1>1. Commanded
    BY WriteBound, UnmadeIsCommand DEF Y!Init, Commanded
  <1>2. Confirming
    BY IdleIsConfirmation DEF Y!Init, Confirming
  <1>3. Executed
    BY WriteBound, UnmadeIsCommand DEF Y!Init, Executed, Y!Done
  <1>4. Honest
    BY DEF Y!Init, Honest
  <1>5. Said
    BY WriteBound DEF Y!Init, Said, Message, Y!Unsaid
  <1> QED
    BY <1>1, <1>2, <1>3, <1>4, <1>5 DEF Obeyed

\* What is said and done stays as it is while requests are served.
LEMMA Undisturbed ==
  ASSUME Obeyed, UNCHANGED <<sent, proposal, execution, written, created>>
  PROVE  /\ Commanded' /\ Executed' /\ Said'
         /\ UNCHANGED confirming => Confirming'
         /\ UNCHANGED <<attempt, agreed>> => Honest'
  <1>1. Commanded' /\ Said'
    BY DEF Obeyed, Commanded, Said
  <1>2. Executed'
    BY DEF Obeyed, Executed, Y!Done
  <1>3. UNCHANGED confirming => Confirming'
    BY DEF Obeyed, Confirming
  <1>4. UNCHANGED <<attempt, agreed>> => Honest'
    BY DEF Obeyed, Honest
  <1> QED
    BY <1>1, <1>2, <1>3, <1>4

\* A request that ends, or goes on without the proposal, disturbs no other.
LEMMA Serving ==
  ASSUME Confirming, UNCHANGED proposal, NEW r \in Requests, NEW new \in Confirmation,
         confirming' = [confirming EXCEPT ![r] = new], new.phase # "taken",
         new.phase # "idle" =>
           new.proposal \in Commands /\ new.key \in Keys /\ proposal[new.proposal].state # "NONE"
  PROVE  Confirming'
  <1>1. confirming \in [Requests -> Confirmation]
    BY DEF Confirming
  <1>2. /\ confirming' \in [Requests -> Confirmation] /\ confirming'[r] = new
        /\ \A q \in Requests \ {r} : confirming'[q] = confirming[q]
    BY <1>1
  <1> QED
    BY <1>2 DEF Confirming

LEMMA SubmitStep ==
  ASSUME Obeyed, NEW k \in Keys, NEW text \in Texts, Y!Submit(k, text)
  PROVE  Obeyed'
  <1>1. /\ sent[k] = Y!Unsaid
        /\ UNCHANGED <<execution, attempt, confirming, written, created, agreed>>
    BY DEF Y!Submit
  <1>2. sent \in [Keys -> Message] /\ proposal \in [Commands -> Command]
    BY DEF Obeyed, Said, Commanded
  <1>3. CASE sent' = [sent EXCEPT ![k] = [text |-> text, proposal |-> Nobody]] /\ UNCHANGED proposal
    <2>1. [text |-> text, proposal |-> Nobody] \in Message
      BY DEF Message
    <2>2. Said'
      BY <1>2, <1>3, <2>1, WriteBound DEF Obeyed, Said
    <2>3. Commanded' /\ Confirming' /\ Honest'
      BY <1>1, <1>3 DEF Obeyed, Commanded, Confirming, Honest
    <2>4. Executed'
      BY <1>1, <1>3 DEF Obeyed, Executed, Y!Done
    <2> QED
      BY <2>2, <2>3, <2>4 DEF Obeyed
  <1>4. ASSUME NEW p \in Commands, proposal[p] = Y!Unmade,
               sent' = [sent EXCEPT ![k] = [text |-> text, proposal |-> p]],
               proposal' = [proposal EXCEPT ![p] =
                 [state |-> "PENDING", intent |-> text.intent, of |-> text.of, version |-> 1, expired |-> "no"]]
        PROVE  Obeyed'
    <2> DEFINE new == [state |-> "PENDING", intent |-> text.intent, of |-> text.of, version |-> 1, expired |-> "no"]
    <2>1. new \in Command /\ new.state = "PENDING"
      BY TextIntents DEF Command
    <2>2. proposal' = [proposal EXCEPT ![p] = new]
      BY <1>4
    <2> HIDE DEF new
    <2>3. /\ proposal' \in [Commands -> Command] /\ proposal'[p] = new
          /\ \A o \in Commands \ {p} : proposal'[o] = proposal[o]
      BY <1>2, <2>1, <2>2
    <2>4. proposal[p].state = "NONE"
      BY <1>4, UnmadeIsCommand
    <2>5. [text |-> text, proposal |-> p] \in Message
      BY DEF Message
    <2>6. /\ sent' \in [Keys -> Message] /\ sent'[k].proposal = p
          /\ \A j \in Keys \ {k} : sent'[j] = sent[j]
      BY <1>2, <1>4, <2>5
    <2>7. \A j \in Keys : sent[j].proposal # p
      BY <2>4 DEF Obeyed, Said
    <2>8. Said'
      <3>1. \A j \in Keys : sent'[j].proposal \in Commands => proposal'[sent'[j].proposal].state # "NONE"
        BY <2>1, <2>3, <2>6, <2>7 DEF Obeyed, Said
      <3>2. ASSUME NEW i \in Keys, NEW j \in Keys, sent'[i].proposal = sent'[j].proposal, i # j
            PROVE  sent'[i].proposal = Nobody
        BY <2>6, <2>7, <3>2 DEF Obeyed, Said
      <3> QED
        BY <2>6, <3>1, <3>2 DEF Said
    <2>9. Commanded'
      BY <1>1, <2>1, <2>3 DEF Obeyed, Commanded
    <2>10. Confirming'
      <3>1. \A r \in Requests : confirming[r].phase # "idle" => confirming[r].proposal # p
        BY <2>4 DEF Obeyed, Confirming
      <3> QED
        BY <1>1, <2>3, <3>1 DEF Obeyed, Confirming
    <2>11. ~Y!Done(p) /\ \A e \in execution : e.proposal # p
      BY <2>4 DEF Obeyed, Executed
    <2>12. \A n \in 1 .. Len(written) : written[n] # p
      <3>1. DOMAIN written = 1 .. Len(written)
        BY DEF Obeyed, Commanded
      <3> QED
        BY <2>11, <3>1 DEF Y!Done
    <2>13. Executed'
      <3>1. \A o \in Commands : Y!Done(o)' <=> Y!Done(o)
        BY <1>1 DEF Y!Done
      <3>2. \A n \in 1 .. Len(written) : written[n] \in Commands => proposal'[written[n]].of = n - 1
        BY <2>3, <2>12 DEF Obeyed, Executed
      <3>3. \A o \in Commands : (proposal'[o].state = "EXECUTED") = (proposal[o].state = "EXECUTED")
        BY <2>1, <2>3, <2>4
      <3> QED
        BY <1>1, <3>1, <3>2, <3>3 DEF Obeyed, Executed
    <2>14. Honest'
      BY <1>1, <2>3, <2>4 DEF Obeyed, Honest
    <2> QED
      BY <2>8, <2>9, <2>10, <2>13, <2>14 DEF Obeyed
  <1> QED
    BY <1>3, <1>4, Zenon DEF Y!Submit

\* A proposal that changes without being executed.
LEMMA Unexecuted ==
  ASSUME Obeyed, UNCHANGED <<sent, execution, attempt, confirming, written, created>>,
         NEW p \in Commands, NEW new \in Command, proposal' = [proposal EXCEPT ![p] = new],
         proposal[p].state = "PENDING", new.of = proposal[p].of,
         new.state \in {"PENDING", "CANCELLED"}, Y!Locked(p) => new.state = "PENDING"
  PROVE  Commanded' /\ Confirming' /\ Executed' /\ Said'
  <1>1. proposal \in [Commands -> Command]
    BY DEF Obeyed, Commanded
  <1>2. /\ proposal' \in [Commands -> Command] /\ proposal'[p] = new
        /\ \A o \in Commands \ {p} : proposal'[o] = proposal[o]
    BY <1>1
  <1>3. Commanded'
    BY <1>2 DEF Obeyed, Commanded
  <1>4. Confirming'
    <2>1. \A r \in Requests : confirming[r].phase = "taken" /\ confirming[r].proposal = p => new.state = "PENDING"
      BY Zenon DEF Y!Locked
    <2> QED
      BY <1>2, <2>1 DEF Obeyed, Confirming
  <1>5. Executed'
    <2>1. \A o \in Commands : Y!Done(o)' <=> Y!Done(o)
      BY DEF Y!Done
    <2>2. \A n \in 1 .. Len(written) : written[n] \in Commands => proposal'[written[n]].of = n - 1
      BY <1>2 DEF Obeyed, Executed
    <2>3. \A o \in Commands : (proposal'[o].state = "EXECUTED") = (proposal[o].state = "EXECUTED")
      BY <1>2
    <2> QED
      BY <2>1, <2>2, <2>3 DEF Obeyed, Executed
  <1>6. Said'
    BY <1>2 DEF Obeyed, Said
  <1> QED
    BY <1>3, <1>4, <1>5, <1>6

LEMMA ExpireStep ==
  ASSUME Obeyed, NEW p \in Commands, Y!Expire(p)
  PROVE  Obeyed'
  <1> DEFINE new == [proposal[p] EXCEPT !.expired = "yes"]
  <1>1. /\ proposal[p].state = "PENDING" /\ proposal' = [proposal EXCEPT ![p] = new]
        /\ UNCHANGED <<sent, execution, attempt, confirming, written, created, agreed>>
    BY Zenon DEF Y!Expire
  <1>2. proposal \in [Commands -> Command]
    BY DEF Obeyed, Commanded
  <1>3. new \in Command /\ new.of = proposal[p].of /\ new.state = "PENDING"
    BY <1>1, <1>2 DEF Command
  <1> HIDE DEF new
  <1>4. Commanded' /\ Confirming' /\ Executed' /\ Said'
    BY <1>1, <1>3, Unexecuted
  <1>5. Honest'
    BY <1>1, <1>2, <1>3 DEF Obeyed, Honest
  <1> QED
    BY <1>4, <1>5 DEF Obeyed

LEMMA CancelStep ==
  ASSUME Obeyed, NEW p \in Commands, NEW v \in Versions, Y!Cancel(p, v)
  PROVE  Obeyed'
  <1> DEFINE y == [proposal[p] EXCEPT !.state = "CANCELLED"]
             new == [y EXCEPT !.version = proposal[p].version + 1]
             a == [what |-> "cancelled", proposal |-> p, key |-> Nobody]
  <1>1. /\ ~Y!Locked(p) /\ proposal[p].state = "PENDING" /\ agreed' = agreed \cup {a}
        /\ UNCHANGED <<sent, execution, attempt, confirming, written, created>>
    BY DEF Y!Cancel, Y!Actionable
  <1>2. proposal \in [Commands -> Command]
    BY DEF Obeyed, Commanded
  <1>3. proposal' = [proposal EXCEPT ![p].state = "CANCELLED", ![p].version = @ + 1]
    BY Zenon DEF Y!Cancel
  <1>4. proposal' = [proposal EXCEPT ![p] = new]
    BY <1>2, <1>3 DEF Command
  <1>5. y \in Command /\ y.of = proposal[p].of /\ y.state = "CANCELLED"
    BY <1>2 DEF Command
  <1>6. new \in Command /\ new.of = proposal[p].of /\ new.state = "CANCELLED"
    <2> HIDE DEF y
    <2>1. proposal[p].version + 1 \in Nat
      BY <1>2 DEF Command
    <2> QED
      BY <1>5, <2>1 DEF Command
  <1>7. a.what = "cancelled" /\ a.proposal = p
    OBVIOUS
  <1> HIDE DEF new, a, y
  <1>8. Commanded' /\ Confirming' /\ Executed' /\ Said'
    BY <1>1, <1>4, <1>6, Unexecuted
  <1>9. proposal'[p].state = "CANCELLED" /\ \A o \in Commands \ {p} : proposal'[o] = proposal[o]
    BY <1>2, <1>4, <1>6
  <1>10. Honest'
    BY <1>1, <1>7, <1>9 DEF Obeyed, Honest
  <1> QED
    BY <1>8, <1>10 DEF Obeyed

LEMMA BeginConfirmStep ==
  ASSUME Obeyed, NEW r \in Requests, NEW p \in Commands, NEW v \in Versions, NEW k \in Keys,
         Y!BeginConfirm(r, p, v, k)
  PROVE  Obeyed'
  <1> DEFINE new == [phase |-> "begun", proposal |-> p, version |-> v, key |-> k]
  <1>1. /\ proposal[p] # Y!Unmade /\ confirming' = [confirming EXCEPT ![r] = new]
        /\ UNCHANGED <<sent, proposal, execution, attempt, written, created, agreed>>
    BY DEF Y!BeginConfirm
  <1>2. new \in Confirmation /\ new.phase = "begun" /\ new.proposal = p /\ new.key = k
    BY DEF Confirmation
  <1> HIDE DEF new
  <1>3. proposal[p].state # "NONE"
    BY <1>1 DEF Obeyed, Commanded
  <1>4. Confirming'
    BY <1>1, <1>2, <1>3, Serving DEF Obeyed
  <1> QED
    BY <1>1, <1>4, Undisturbed DEF Obeyed

LEMMA ReplayConfirmStep ==
  ASSUME Obeyed, NEW r \in Requests, Y!ReplayConfirm(r)
  PROVE  Obeyed'
  <1>1. /\ confirming' = [confirming EXCEPT ![r] = Y!Idle]
        /\ UNCHANGED <<sent, proposal, execution, written, created>>
    BY DEF Y!ReplayConfirm
  <1>2. PICK e \in execution : e.key = confirming[r].key /\ e.proposal = confirming[r].proposal
    BY DEF Y!ReplayConfirm, Y!Earlier
  <1>3. Confirming'
    BY <1>1, IdleIsConfirmation, Serving DEF Obeyed
  <1> DEFINE a == [key |-> confirming[r].key, outcome |-> "SUCCEEDED", proposal |-> confirming[r].proposal]
             b == [what |-> "executed", proposal |-> confirming[r].proposal, key |-> confirming[r].key]
  <1>4. attempt' = attempt \cup {a} /\ agreed' = agreed \cup {b}
    BY DEF Y!ReplayConfirm, Y!Tried, Y!Told
  <1>5. /\ a.key = confirming[r].key /\ a.proposal = confirming[r].proposal /\ a.outcome = "SUCCEEDED"
        /\ b.key = confirming[r].key /\ b.proposal = confirming[r].proposal /\ b.what = "executed"
    OBVIOUS
  <1> HIDE DEF a, b
  <1>6. Honest'
    BY <1>1, <1>2, <1>4, <1>5 DEF Obeyed, Honest
  <1> QED
    BY <1>1, <1>3, <1>6, Undisturbed DEF Obeyed

LEMMA TakeStep ==
  ASSUME Obeyed, NEW r \in Requests, Y!Take(r)
  PROVE  Obeyed'
  <1> DEFINE p == confirming[r].proposal
             new == [confirming[r] EXCEPT !.phase = "taken"]
  <1>1. /\ confirming[r].phase = "begun" /\ ~Y!Locked(p) /\ proposal[p].state = "PENDING"
        /\ confirming' = [confirming EXCEPT ![r] = new]
        /\ UNCHANGED <<sent, proposal, execution, attempt, written, created, agreed>>
    BY DEF Y!Take, Y!Goes, Y!Actionable
  <1>2. confirming \in [Requests -> Confirmation] /\ p \in Commands /\ confirming[r].key \in Keys
    BY <1>1 DEF Obeyed, Confirming
  <1>3. new \in Confirmation /\ new.phase = "taken" /\ new.proposal = p /\ new.key = confirming[r].key
    BY <1>2 DEF Confirmation
  <1> HIDE DEF new, p
  <1>4. /\ confirming' \in [Requests -> Confirmation] /\ confirming'[r] = new
        /\ \A q \in Requests \ {r} : confirming'[q] = confirming[q]
    BY <1>1, <1>2, <1>3
  <1>5. \A q \in Requests : confirming[q].phase = "taken" => confirming[q].proposal # p
    BY <1>1, Zenon DEF Y!Locked
  <1>6. Confirming'
    BY <1>1, <1>2, <1>3, <1>4, <1>5 DEF Obeyed, Confirming
  <1> QED
    BY <1>1, <1>6, Undisturbed DEF Obeyed

\* What a confirmation does is on record afterwards, for the first time.
LEMMA CommitConfirmStep ==
  ASSUME Obeyed, NEW r \in Requests, Y!CommitConfirm(r)
  PROVE  Obeyed'
  <1> DEFINE p == confirming[r].proposal
             k == confirming[r].key
             y == [proposal[p] EXCEPT !.state = "EXECUTED"]
             new == [y EXCEPT !.version = proposal[p].version + 1]
             e == [proposal |-> p, key |-> k, of |-> confirming[r].version]
             a == [key |-> k, outcome |-> "SUCCEEDED", proposal |-> p]
             b == [what |-> "executed", proposal |-> p, key |-> k]
  <1>1. /\ confirming[r].phase = "taken" /\ execution' = execution \cup {e}
        /\ confirming' = [confirming EXCEPT ![r] = Y!Idle] /\ UNCHANGED sent
        /\ Y!ExecuteCreate(p) \/ Y!ExecuteChange(p)
    BY DEF Y!CommitConfirm
  <1>2. attempt' = attempt \cup {a} /\ agreed' = agreed \cup {b}
    BY DEF Y!CommitConfirm, Y!Tried, Y!Told
  <1>3. proposal' = [proposal EXCEPT ![p].state = "EXECUTED", ![p].version = @ + 1]
    BY Zenon DEF Y!CommitConfirm
  <1>4. proposal \in [Commands -> Command] /\ confirming \in [Requests -> Confirmation]
    BY DEF Obeyed, Commanded, Confirming
  <1>5. p \in Commands /\ k \in Keys /\ proposal[p].state = "PENDING"
    BY <1>1 DEF Obeyed, Confirming
  <1>6. proposal' = [proposal EXCEPT ![p] = new]
    BY <1>3, <1>4, <1>5 DEF Command
  <1>7. y \in Command /\ y.of = proposal[p].of /\ y.state = "EXECUTED"
    BY <1>4, <1>5 DEF Command
  <1>8. new \in Command /\ new.of = proposal[p].of /\ new.state = "EXECUTED"
    <2>1. proposal[p].version + 1 \in Nat
      BY <1>4, <1>5 DEF Command
    <2> HIDE DEF y
    <2> QED
      BY <1>7, <2>1 DEF Command
  <1>9. e \in Effect /\ e.proposal = p /\ e.key = k
    BY <1>4, <1>5 DEF Effect, Confirmation
  <1>10. /\ a.outcome = "SUCCEEDED" /\ a.proposal = p /\ a.key = k
         /\ b.what = "executed" /\ b.proposal = p /\ b.key = k
    OBVIOUS
  <1>11. \A q \in Requests : q # r /\ confirming[q].phase = "taken" => confirming[q].proposal # p
    BY <1>1 DEF Obeyed, Confirming
  <1> HIDE DEF p, k, y, new, e, a, b
  <1>12. /\ proposal' \in [Commands -> Command] /\ proposal'[p] = new
         /\ \A o \in Commands \ {p} : proposal'[o] = proposal[o]
    BY <1>4, <1>5, <1>6, <1>8
  <1>13. /\ confirming' \in [Requests -> Confirmation] /\ confirming'[r].phase = "idle"
         /\ \A q \in Requests \ {r} : confirming'[q] = confirming[q]
    BY <1>1, <1>4, IdleIsConfirmation
  <1>14. ~Y!Done(p) /\ \A f \in execution : f.proposal # p
    BY <1>5 DEF Obeyed, Executed
  <1>15. Confirming'
    BY <1>5, <1>8, <1>11, <1>12, <1>13 DEF Obeyed, Confirming
  <1>16. Honest'
    BY <1>1, <1>2, <1>5, <1>9, <1>10, <1>12 DEF Obeyed, Honest
  <1>17. Said'
    BY <1>1, <1>8, <1>12 DEF Obeyed, Said
  <1>18. written \in Seq(Commands \cup {Nobody}) /\ Len(written) \in 1 .. MaxWrites /\ created \subseteq Commands
         /\ DOMAIN written = 1 .. Len(written)
    BY DEF Obeyed, Commanded
  <1>19. \A n \in 1 .. Len(written) : written[n] # p
    BY <1>14, <1>18 DEF Y!Done
  <1>20. /\ written' \in Seq(Commands \cup {Nobody}) /\ Len(written') \in 1 .. MaxWrites
         /\ created' \subseteq Commands
         /\ \A o \in Commands : Y!Done(o)' <=> Y!Done(o) \/ o = p
         /\ \A n \in 1 .. Len(written') : written'[n] \in Commands => proposal'[written'[n]].of = n - 1
    <2>1. \A n \in 1 .. Len(written) : written[n] \in Commands => proposal'[written[n]].of = n - 1
      BY <1>12, <1>19 DEF Obeyed, Executed
    <2>2. CASE Y!ExecuteCreate(p)
      <3>1. created' = created \cup {p} /\ written' = written
        BY <2>2 DEF Y!ExecuteCreate
      <3> QED
        BY <1>5, <1>18, <2>1, <3>1 DEF Y!Done
    <2>3. CASE Y!ExecuteChange(p)
      <3>1. /\ proposal[p].of = Len(written) /\ Len(written) < MaxWrites
            /\ written' = Append(written, p) /\ created' = created
        BY <2>3 DEF Y!ExecuteChange
      <3>2. /\ written' \in Seq(Commands \cup {Nobody}) /\ Len(written') = Len(written) + 1
            /\ written'[Len(written) + 1] = p
            /\ \A n \in 1 .. Len(written) : written'[n] = written[n]
            /\ DOMAIN written' = 1 .. Len(written) + 1
        BY <1>5, <1>18, <3>1
      <3>3. Len(written') \in 1 .. MaxWrites
        BY <1>18, <3>1, <3>2, WriteBound
      <3>4. \A o \in Commands : Y!Done(o)' <=> Y!Done(o) \/ o = p
        <4> TAKE o \in Commands
        <4>1. (\E n \in DOMAIN written' : written'[n] = o) <=> (\E n \in DOMAIN written : written[n] = o) \/ o = p
          BY <1>18, <3>2
        <4> QED
          BY <3>1, <4>1 DEF Y!Done
      <3>5. \A n \in 1 .. Len(written') : written'[n] \in Commands => proposal'[written'[n]].of = n - 1
        <4> TAKE n \in 1 .. Len(written')
        <4>1. CASE n \in 1 .. Len(written)
          BY <2>1, <3>2, <4>1
        <4>2. CASE n = Len(written) + 1
          BY <1>8, <1>12, <1>18, <3>1, <3>2, <4>2
        <4> QED
          BY <1>18, <3>2, <4>1, <4>2
      <3> QED
        BY <1>18, <3>1, <3>2, <3>3, <3>4, <3>5
    <2> QED
      BY <1>1, <2>2, <2>3
  <1>21. Commanded'
    BY <1>1, <1>8, <1>9, <1>12, <1>20 DEF Obeyed, Commanded
  <1>22. Executed'
    <2>1. \A o \in Commands : (\E f \in execution' : f.proposal = o) <=> proposal'[o].state = "EXECUTED"
      BY <1>1, <1>8, <1>9, <1>12 DEF Obeyed, Executed
    <2>2. \A f, g \in execution' : f.proposal = g.proposal => f = g
      BY <1>1, <1>9, <1>14 DEF Obeyed, Executed
    <2>3. \A o \in Commands : Y!Done(o)' <=> proposal'[o].state = "EXECUTED"
      BY <1>8, <1>12, <1>20 DEF Obeyed, Executed
    <2> QED
      BY <1>20, <2>1, <2>2, <2>3 DEF Executed
  <1> QED
    BY <1>15, <1>16, <1>17, <1>21, <1>22 DEF Obeyed

\* A refusal and a crash leave nothing but a note.
LEMMA RefusalSteps ==
  ASSUME Obeyed, NEW r \in Requests, Y!Undo(r) \/ Y!Note(r) \/ Y!Stop(r)
  PROVE  Obeyed'
  <1>1. UNCHANGED <<sent, proposal, execution, written, created, agreed>>
    BY DEF Y!Undo, Y!Note, Y!Stop
  <1>2. Confirming'
    <2>1. CASE Y!Undo(r)
      <3> DEFINE new == [confirming[r] EXCEPT !.phase = "undone"]
      <3>1. confirming[r].phase # "idle" /\ confirming' = [confirming EXCEPT ![r] = new]
        BY <2>1 DEF Y!Undo, Y!Goes
      <3>2. confirming[r] \in Confirmation
        BY DEF Obeyed, Confirming
      <3>3. /\ new \in Confirmation /\ new.phase = "undone" /\ new.proposal = confirming[r].proposal
            /\ new.key = confirming[r].key
        BY <3>2 DEF Confirmation
      <3>4. /\ confirming[r].proposal \in Commands /\ confirming[r].key \in Keys
            /\ proposal[confirming[r].proposal].state # "NONE"
        BY <3>1 DEF Obeyed, Confirming
      <3> HIDE DEF new
      <3> QED
        BY <1>1, <3>1, <3>3, <3>4, Serving DEF Obeyed
    <2>2. CASE Y!Note(r) \/ Y!Stop(r)
      <3>1. confirming' = [confirming EXCEPT ![r] = Y!Idle]
        BY <2>2 DEF Y!Note, Y!Stop
      <3> QED
        BY <1>1, <3>1, IdleIsConfirmation, Serving DEF Obeyed
    <2> QED
      BY <2>1, <2>2
  <1>3. Honest'
    <2>1. CASE UNCHANGED attempt
      BY <1>1, <2>1, Undisturbed
    <2>2. CASE Y!Note(r)
      <3> DEFINE a == [key |-> confirming[r].key, outcome |-> "REFUSED",
                       proposal |-> IF "REFUSED" = "SUCCEEDED" THEN confirming[r].proposal ELSE Nobody]
      <3>1. attempt' = attempt \cup {a} /\ a.outcome = "REFUSED"
        BY <2>2, Zenon DEF Y!Note, Y!Tried
      <3> HIDE DEF a
      <3> QED
        BY <1>1, <3>1 DEF Obeyed, Honest
    <2> QED
      BY <2>1, <2>2 DEF Y!Undo, Y!Stop
  <1> QED
    BY <1>1, <1>2, <1>3, Undisturbed DEF Obeyed

LEMMA WriteStep ==
  ASSUME Obeyed, Y!Write
  PROVE  Obeyed'
  <1>1. /\ Len(written) < MaxWrites /\ written' = Append(written, Nobody)
        /\ UNCHANGED <<sent, proposal, execution, attempt, confirming, created, agreed>>
    BY DEF Y!Write
  <1>2. written \in Seq(Commands \cup {Nobody}) /\ Len(written) \in 1 .. MaxWrites /\ DOMAIN written = 1 .. Len(written)
    BY DEF Obeyed, Commanded
  <1>3. /\ written' \in Seq(Commands \cup {Nobody}) /\ Len(written') = Len(written) + 1
        /\ written'[Len(written) + 1] = Nobody
        /\ \A n \in 1 .. Len(written) : written'[n] = written[n]
        /\ DOMAIN written' = 1 .. Len(written) + 1
    BY <1>1, <1>2
  <1>4. Commanded'
    BY <1>1, <1>2, <1>3, WriteBound DEF Obeyed, Commanded
  <1>5. Confirming' /\ Honest' /\ Said'
    BY <1>1 DEF Obeyed, Confirming, Honest, Said
  <1>6. Executed'
    <2>1. \A o \in Commands : Y!Done(o)' <=> Y!Done(o)
      BY <1>1, <1>2, <1>3, WriteBound DEF Y!Done
    <2>2. \A n \in 1 .. Len(written') : written'[n] \in Commands => proposal[written'[n]].of = n - 1
      BY <1>2, <1>3, WriteBound DEF Obeyed, Executed
    <2> QED
      BY <1>1, <2>1, <2>2 DEF Obeyed, Executed
  <1> QED
    BY <1>4, <1>5, <1>6 DEF Obeyed

LEMMA CommandsStep == Obeyed /\ [Y!Next]_assistant => Obeyed'
  <1> SUFFICES ASSUME Obeyed, [Y!Next]_assistant PROVE Obeyed'
    OBVIOUS
  <1>1. CASE UNCHANGED assistant
    BY <1>1, Undisturbed DEF Obeyed, assistant
  <1>2. CASE Y!Next
    BY <1>2, SubmitStep, ExpireStep, CancelStep, BeginConfirmStep, ReplayConfirmStep, TakeStep,
       CommitConfirmStep, RefusalSteps, WriteStep DEF Y!Next
  <1> QED
    BY <1>1, <1>2

\* What the run checks follows; of the executions of a proposal there is one.
LEMMA CommandsAreHonoured ==
  ASSUME Obeyed
  PROVE  Y!TypeOK /\ Y!DoneAsProposed /\ Y!AttemptsTell /\ Y!SaidOnce
  <1>1. Y!TypeOK
    BY DEF Obeyed, Commanded, Y!TypeOK, Command, Effect
  <1>2. Y!SaidOnce
    BY DEF Obeyed, Said, Y!SaidOnce
  <1>3. ASSUME NEW p \in Commands
        PROVE  Y!Cardinality({e \in execution : e.proposal = p}) = IF Y!Done(p) THEN 1 ELSE 0
    <2>1. \A S : Y!Cardinality(S) = Cardinality(S)
      BY DEF Y!Cardinality, Cardinality
    <2>2. CASE Y!Done(p)
      <3>1. PICK e \in execution : e.proposal = p
        BY <2>2 DEF Obeyed, Executed
      <3>2. {f \in execution : f.proposal = p} = {e}
        BY <3>1 DEF Obeyed, Executed
      <3> QED
        BY <2>1, <2>2, <3>2, FS_Singleton
    <2>3. CASE ~Y!Done(p)
      <3>1. {f \in execution : f.proposal = p} = {}
        BY <2>3 DEF Obeyed, Executed
      <3> QED
        BY <2>1, <2>3, <3>1, FS_EmptySet
    <2> QED
      BY <2>2, <2>3
  <1>4. DOMAIN written = 1 .. Len(written)
    BY DEF Obeyed, Commanded
  <1>5. \A a \in agreed : a.what = "cancelled" => ~Y!Done(a.proposal)
    BY DEF Obeyed, Executed, Honest
  <1>6. /\ \A p \in Commands : Y!Done(p) <=> proposal[p].state = "EXECUTED"
        /\ \A n \in DOMAIN written : written[n] \in Commands => proposal[written[n]].of = n - 1
    BY <1>4 DEF Obeyed, Executed
  <1>7. Y!DoneAsProposed
    BY <1>3, <1>5, <1>6, Zenon DEF Y!DoneAsProposed
  <1>8. Y!AttemptsTell
    <2>1. /\ \A a \in attempt : a.outcome = "SUCCEEDED" => \E e \in execution : e.proposal = a.proposal /\ e.key = a.key
          /\ \A e \in execution : \E a \in attempt :
               a.outcome = "SUCCEEDED" /\ a.proposal = e.proposal /\ a.key = e.key
          /\ \A a \in agreed : a.what = "executed" => \E e \in execution : e.proposal = a.proposal /\ e.key = a.key
      BY Zenon DEF Obeyed, Honest
    <2>2. {[key |-> a.key, proposal |-> a.proposal] : a \in {b \in attempt : b.outcome = "SUCCEEDED"}}
            = {[key |-> e.key, proposal |-> e.proposal] : e \in execution}
      BY <2>1
    <2> QED
      BY <2>1, <2>2 DEF Y!AttemptsTell
  <1> QED
    BY <1>1, <1>2, <1>7, <1>8

-----------------------------------------------------------------------------
(* The policy                                                              *)

Right == [role : {"none", "DRIVER", "LEAD"}, grants : {p.grants : p \in Offers} \cup {{}}, version : Nat]
Writer == [by : Staff \cup {None}, kind : {"update", "approve"}, audience : {"DRIVER", "INTERNAL"},
           phase : {"locked", "decided"}]

Governance ==
  /\ lead.version \in Nat
  /\ rights \in [Staff -> Right] /\ audience \in [Staff -> {"DRIVER", "INTERNAL"}]
  /\ told = [m \in Staff |-> told[m]]
  /\ writer \in Writer /\ (writer # Z!NoWriter => writer.by \in Staff)

\* What was said of a member's access is what the access is.
Promised ==
  \A m \in Staff : \A c \in told[m] :
    /\ c.cap \in Z!CapsOf(rights[m].role)
    /\ c.allowed <=> Z!Covering(rights[m].grants, c.cap, {c.node}) # {}

\* A preview says what its proposal would give, as long as the role it gives
\* has the version it was made for.
Foretells(x) ==
  x # Z!NoPreview =>
    /\ x = [of |-> x.of, by |-> x.by, expected |-> x.expected, roleVersion |-> x.roleVersion,
            proposal |-> x.proposal, cells |-> x.cells]
    /\ x.of \in Staff /\ x.proposal \in Offers
    /\ x.roleVersion \in Nat /\ x.roleVersion <= lead.version
    /\ (x.proposal.role = "LEAD" => x.roleVersion = lead.version) =>
         x.cells = Z!Cells(x.proposal)

\* Who was let through to a trip as its driver still is.
Admitted ==
  /\ ~mistaken
  /\ writer # Z!NoWriter => record # Z!NoRecord
  /\ writer.phase = "decided" => ~(writer.audience = "DRIVER" /\ Z!NotMine(writer.by, Z!TheRecord))

Governed == Governance /\ Promised /\ Foretells(preview) /\ Foretells(grantTx) /\ Admitted

LEMMA OffersGive == None \notin Staff /\ \A p \in Offers : p.role \in {"DRIVER", "LEAD"}
  BY KindsAssumption

LEMMA NoneIsPrevious == Z!NoPreview.of = None /\ Z!NoWriter.phase = "locked" /\ Z!NoWriter.by = None
  BY DEF Z!NoPreview, Z!NoWriter

LEMMA GovernedInit == Z!Init => Governed
  <1> SUFFICES ASSUME Z!Init PROVE Governed
    OBVIOUS
  <1>1. rights \in [Staff -> Right]
    <2>1. Z!NoRights \in Right
      BY DEF Z!NoRights, Right
    <2>2. \A p \in Offers : [role |-> p.role, grants |-> p.grants, version |-> 1] \in Right
      BY OffersGive DEF Right
    <2>3. rights \in [Staff -> {Z!NoRights} \cup
            {[role |-> p.role, grants |-> p.grants, version |-> 1] : p \in Offers}]
      BY Zenon DEF Z!Init
    <2> QED
      BY <2>1, <2>2, <2>3
  <1>2. audience \in [Staff -> {"DRIVER", "INTERNAL"}]
    BY DEF Z!Init
  <1>3. lead.version \in Nat
    BY DEF Z!Init
  <1>4. writer = Z!NoWriter /\ told = [m \in Staff |-> {}] /\ preview = Z!NoPreview /\ grantTx = Z!NoPreview
        /\ mistaken = FALSE
    BY DEF Z!Init
  <1>5. Z!NoWriter \in Writer
    BY DEF Z!NoWriter, Writer
  <1>6. Governance
    BY <1>1, <1>2, <1>3, <1>4, <1>5 DEF Governance
  <1>7. Promised /\ Foretells(preview) /\ Foretells(grantTx)
    BY <1>4 DEF Promised, Foretells
  <1>8. Admitted
    BY <1>4, NoneIsPrevious DEF Admitted
  <1> QED
    BY <1>6, <1>7, <1>8 DEF Governed

\* Nothing that is promised or previewed depends on sessions and records.
LEMMA Unpromised ==
  ASSUME Governed, UNCHANGED <<lead, rights, audience, told, preview, grantTx>>,
         writer' \in Writer, writer' # Z!NoWriter => writer'.by \in Staff
  PROVE  Governance' /\ Promised' /\ Foretells(preview)' /\ Foretells(grantTx)'
  <1>1. Governance'
    BY DEF Governed, Governance
  <1>2. Promised'
    BY DEF Governed, Promised, Z!CapsOf
  <1>3. Foretells(preview)' /\ Foretells(grantTx)'
    <2>1. \A p : Z!Cells(p)' = Z!Cells(p)
      BY DEF Z!Cells, Z!CapsOf
    <2> QED
      BY <2>1 DEF Governed, Foretells
  <1> QED
    BY <1>1, <1>2, <1>3

LEMMA RecordSteps ==
  ASSUME Governed, Z!RecordNext
  PROVE  Governed'
  <1>1. UNCHANGED <<lead, rights, audience, told, preview, grantTx>>
    BY DEF Z!RecordNext, Z!CreateRecord, Z!Lock, Z!ReassignRecord, Z!Deny, Z!DecideWrite, Z!Store, Z!GiveUp,
           Z!administration
  <1>2. Z!NoWriter \in Writer /\ Z!NoWriter.phase = "locked"
    BY DEF Z!NoWriter, Writer
  <1>3. writer \in Writer /\ (writer # Z!NoWriter => writer.by \in Staff) /\ audience \in [Staff -> {"DRIVER", "INTERNAL"}]
    BY DEF Governed, Governance
  <1>4. ASSUME NEW by, NEW type, NEW node, NEW u, Z!CreateRecord(by, type, node, u)
        PROVE  Governed'
    <2>1. record = Z!NoRecord /\ UNCHANGED <<writer, mistaken>>
      BY <1>4, Zenon DEF Z!CreateRecord
    <2>2. Admitted'
      BY <1>2, <2>1 DEF Governed, Admitted
    <2> QED
      BY <1>1, <1>3, <2>1, <2>2, Unpromised DEF Governed
  <1>5. ASSUME NEW m \in Staff, NEW kind \in {"update", "approve"}, Z!Lock(m, kind)
        PROVE  Governed'
    <2> DEFINE new == [by |-> m, kind |-> kind, audience |-> audience[m], phase |-> "locked"]
    <2>1. record # Z!NoRecord /\ writer' = new /\ UNCHANGED <<record, mistaken>>
      BY <1>5 DEF Z!Lock
    <2>2. new \in Writer /\ new.by = m /\ new.phase = "locked"
      BY <1>3 DEF Writer
    <2> HIDE DEF new
    <2>3. Admitted'
      BY <2>1, <2>2 DEF Governed, Admitted
    <2> QED
      BY <1>1, <2>1, <2>2, <2>3, Unpromised DEF Governed
  <1>6. ASSUME NEW m \in Staff, Z!ReassignRecord(m)
        PROVE  Governed'
    <2>1. writer = Z!NoWriter /\ UNCHANGED <<writer, mistaken>>
      BY <1>6 DEF Z!ReassignRecord, Z!RecordFree
    <2>2. Admitted'
      BY <1>2, <2>1 DEF Governed, Admitted
    <2> QED
      BY <1>1, <1>3, <2>1, <2>2, Unpromised DEF Governed
  <1>7. CASE Z!Deny \/ Z!GiveUp
    <2>1. writer' = Z!NoWriter /\ UNCHANGED mistaken
      BY <1>7 DEF Z!Deny, Z!GiveUp
    <2>2. Admitted'
      BY <1>2, <2>1 DEF Governed, Admitted
    <2> QED
      BY <1>1, <1>2, <2>1, <2>2, Unpromised DEF Governed
  <1>8. CASE Z!DecideWrite
    <2> DEFINE y == [writer EXCEPT !.phase = "decided"]
               new == [y EXCEPT !.audience = audience[writer.by]]
    <2>1. writer # Z!NoWriter /\ Z!Decide(writer.by, writer.kind, Z!TheRecord) /\ UNCHANGED <<record, mistaken>>
      BY <1>8 DEF Z!DecideWrite
    <2>2. writer' = [writer EXCEPT !.phase = "decided", !.audience = audience[writer.by]]
      BY <1>8, Zenon DEF Z!DecideWrite
    <2>3. writer' = new
      BY <1>3, <2>2 DEF Writer
    <2>4. writer.by \in Staff /\ audience[writer.by] \in {"DRIVER", "INTERNAL"}
      BY <1>3, <2>1
    <2>5. y \in Writer /\ y.by = writer.by /\ y.phase = "decided"
      BY <1>3 DEF Writer
    <2>6. new \in Writer /\ new.by = writer.by /\ new.audience = audience[writer.by]
      <3> HIDE DEF y
      <3> QED
        BY <2>4, <2>5 DEF Writer
    <2> HIDE DEF new, y
    <2>7. ~(audience[writer.by] = "DRIVER" /\ Z!NotMine(writer.by, Z!TheRecord))
      BY <2>1, Zenon DEF Z!Decide
    <2>8. record # Z!NoRecord
      BY <2>1 DEF Governed, Admitted
    <2>9. Z!TheRecord' = Z!TheRecord
      BY <2>1 DEF Z!TheRecord, Z!Resource
    <2>10. Admitted'
      BY <2>1, <2>3, <2>6, <2>7, <2>8, <2>9 DEF Governed, Admitted, Z!NotMine
    <2> QED
      BY <1>1, <2>3, <2>4, <2>6, <2>10, Unpromised DEF Governed
  <1>9. CASE Z!Store
    <2>1. /\ writer.phase = "decided" /\ writer' = Z!NoWriter
          /\ mistaken' = (mistaken \/ (writer.audience = "DRIVER" /\ Z!NotMine(writer.by, Z!TheRecord)))
      BY <1>9 DEF Z!Store
    <2>2. Admitted'
      BY <1>2, <2>1, Zenon DEF Governed, Admitted
    <2> QED
      BY <1>1, <1>2, <2>1, <2>2, Unpromised DEF Governed
  <1> QED
    BY <1>4, <1>5, <1>6, <1>7, <1>8, <1>9 DEF Z!RecordNext

LEMMA PreviewSteps ==
  ASSUME Governed, Z!PreviewNext
  PROVE  Governed'
  <1>1. UNCHANGED <<lead, audience, record, writer, mistaken>>
    BY DEF Z!PreviewNext, Z!Preview, Z!BeginUpdateAccess, Z!CommitUpdateAccess
  <1>2. Admitted'
    BY <1>1 DEF Governed, Admitted, Z!TheRecord, Z!Resource, Z!NotMine
  <1>3. \A role : Z!CapsOf(role)' = Z!CapsOf(role)
    BY <1>1 DEF Z!CapsOf
  <1>4. \A p : Z!Cells(p)' = Z!Cells(p)
    BY <1>1 DEF Z!Cells, Z!CapsOf
  <1>5. lead.version \in Nat
    BY DEF Governed, Governance
  <1>6. ASSUME NEW by, NEW m \in Staff, NEW proposed \in Offers, Z!Preview(by, m, proposed)
        PROVE  Governed'
    <2> DEFINE new == [of |-> m, by |-> by, expected |-> rights[m].version, roleVersion |-> lead.version,
                       proposal |-> proposed, cells |-> Z!Cells(proposed)]
    <2>1. preview' = new /\ UNCHANGED <<rights, grantTx, told>>
      BY <1>6, Zenon DEF Z!Preview
    <2>2. Foretells(new)
      BY <1>5 DEF Foretells
    <2> HIDE DEF new
    <2>3. Foretells(preview)' /\ Foretells(grantTx)'
      BY <1>1, <1>4, <2>1, <2>2 DEF Governed, Foretells
    <2>4. Governance' /\ Promised'
      BY <1>1, <1>3, <2>1 DEF Governed, Governance, Promised
    <2> QED
      BY <1>2, <2>3, <2>4 DEF Governed
  <1>7. ASSUME NEW m \in Staff, Z!BeginUpdateAccess(m)
        PROVE  Governed'
    <2> DEFINE new == [preview EXCEPT !.roleVersion = lead.version]
    <2>1. /\ preview.of = m /\ grantTx' = new /\ UNCHANGED <<rights, preview, told>>
          /\ preview.proposal.role = "LEAD" => lead.version = preview.roleVersion
      BY <1>7 DEF Z!BeginUpdateAccess, Z!SameFingerprint
    <2>2. preview # Z!NoPreview
      BY <2>1, OffersGive, NoneIsPrevious
    <2>3. /\ preview = [of |-> preview.of, by |-> preview.by, expected |-> preview.expected,
                        roleVersion |-> preview.roleVersion, proposal |-> preview.proposal, cells |-> preview.cells]
          /\ preview.of \in Staff /\ preview.proposal \in Offers
          /\ preview.cells = Z!Cells(preview.proposal)
      BY <2>1, <2>2, OffersGive DEF Governed, Foretells
    <2>4. new = [of |-> preview.of, by |-> preview.by, expected |-> preview.expected,
                 roleVersion |-> lead.version, proposal |-> preview.proposal, cells |-> preview.cells]
      BY <2>3
    <2> HIDE DEF new
    <2>5. Foretells(new)
      BY <1>5, <2>3, <2>4 DEF Foretells
    <2>6. Foretells(preview)' /\ Foretells(grantTx)'
      BY <1>1, <1>4, <2>1, <2>5 DEF Governed, Foretells
    <2>7. Governance' /\ Promised'
      BY <1>1, <1>3, <2>1 DEF Governed, Governance, Promised
    <2> QED
      BY <1>2, <2>6, <2>7 DEF Governed
  <1>8. CASE Z!CommitUpdateAccess
    <2> DEFINE m == grantTx.of
               p == grantTx.proposal
               new == [role |-> p.role, grants |-> p.grants, version |-> rights[m].version + 1]
               cells == IF p.role = "LEAD" /\ lead.version # grantTx.roleVersion THEN {} ELSE grantTx.cells
    <2>1. /\ grantTx # Z!NoPreview /\ rights' = [rights EXCEPT ![m] = new]
          /\ told' = [told EXCEPT ![m] = cells] /\ grantTx' = Z!NoPreview /\ preview' = Z!NoPreview
      BY <1>8 DEF Z!CommitUpdateAccess
    <2>2. /\ m \in Staff /\ p \in Offers
          /\ (p.role = "LEAD" => grantTx.roleVersion = lead.version) =>
               grantTx.cells = Z!Cells(p)
      BY <2>1 DEF Governed, Foretells
    <2>3. rights \in [Staff -> Right] /\ told = [x \in Staff |-> told[x]]
      BY DEF Governed, Governance
    <2>4. new \in Right /\ new.role = p.role /\ new.grants = p.grants
      <3>1. rights[m].version + 1 \in Nat
        BY <2>2, <2>3 DEF Right
      <3> QED
        BY <2>2, <3>1, OffersGive DEF Right
    <2>5. cells = {} \/ cells = Z!Cells(p)
      BY <2>2, OffersGive
    <2> HIDE DEF m, p, new, cells
    <2>6. /\ rights' \in [Staff -> Right] /\ rights'[m] = new /\ told'[m] = cells
          /\ \A x \in Staff \ {m} : rights'[x] = rights[x] /\ told'[x] = told[x]
          /\ told' = [x \in Staff |-> told'[x]]
      BY <2>1, <2>2, <2>3, <2>4
    <2>7. \A c \in cells :
            /\ c.cap \in Z!CapsOf(p.role)
            /\ c.allowed <=> Z!Covering(p.grants, c.cap, {c.node}) # {}
      <3> TAKE c \in cells
      <3> HIDE DEF cells
      <3>0. c \in Z!Cells(p)
        BY <2>5
      <3>1. PICK cap \in Z!CapsOf(p.role), g \in p.grants :
              c = [cap |-> cap, node |-> g.node, allowed |-> Z!Covering(p.grants, cap, {g.node}) # {}]
        BY <3>0 DEF Z!Cells
      <3>2. c.cap = cap /\ c.node = g.node /\ (c.allowed <=> Z!Covering(p.grants, cap, {g.node}) # {})
        BY <3>1
      <3> QED
        BY <3>2, Zenon
    <2>8. Promised'
      BY <1>3, <2>4, <2>6, <2>7 DEF Governed, Promised
    <2>9. Governance' /\ Foretells(preview)' /\ Foretells(grantTx)'
      BY <1>1, <2>1, <2>6 DEF Governed, Governance, Foretells
    <2> QED
      BY <1>2, <2>8, <2>9 DEF Governed
  <1> QED
    BY <1>6, <1>7, <1>8 DEF Z!PreviewNext

LEMMA AccessSteps ==
  ASSUME Governed, Z!AccessNext
  PROVE  Governed'
  <1>1. UNCHANGED <<record, writer, mistaken, preview, grantTx>>
    BY DEF Z!AccessNext, Z!SignIn, Z!ChangeAudience, Z!UpdateRole, Z!DeactivateRole, Z!RoleChanges, Z!administration
  <1>2. Admitted'
    BY <1>1 DEF Governed, Admitted, Z!TheRecord, Z!Resource, Z!NotMine
  <1>3. ASSUME NEW m \in Staff, Z!SignIn(m)
        PROVE  Governed'
    BY <1>1, <1>2, <1>3, Unpromised DEF Governed, Governance, Z!SignIn, Z!administration
  <1>4. ASSUME NEW m \in Staff, Z!ChangeAudience(m)
        PROVE  Governed'
    <2> DEFINE new == [rights[m] EXCEPT !.version = rights[m].version + 1]
    <2>1. /\ rights' = [rights EXCEPT ![m] = new] /\ UNCHANGED <<lead, told>>
          /\ audience' = [audience EXCEPT ![m] = IF audience[m] = "DRIVER" THEN "INTERNAL" ELSE "DRIVER"]
      BY <1>4 DEF Z!ChangeAudience, Z!administration
    <2>2. rights \in [Staff -> Right] /\ audience \in [Staff -> {"DRIVER", "INTERNAL"}]
      BY DEF Governed, Governance
    <2>3. new \in Right /\ new.role = rights[m].role /\ new.grants = rights[m].grants
      BY <2>2 DEF Right
    <2> HIDE DEF new
    <2>4. /\ rights' \in [Staff -> Right] /\ audience' \in [Staff -> {"DRIVER", "INTERNAL"}]
          /\ \A x \in Staff : rights'[x].role = rights[x].role /\ rights'[x].grants = rights[x].grants
      BY <2>1, <2>2, <2>3
    <2>5. Promised'
      <3> SUFFICES ASSUME NEW x \in Staff, NEW c \in told[x]
                   PROVE  /\ c.cap \in Z!CapsOf(rights[x].role)'
                          /\ c.allowed <=> Z!Covering(rights[x].grants, c.cap, {c.node})' # {}
        BY <2>1 DEF Promised
      <3>1. /\ c.cap \in Z!CapsOf(rights[x].role)
            /\ c.allowed <=> Z!Covering(rights[x].grants, c.cap, {c.node}) # {}
        BY DEF Governed, Promised
      <3>2. rights'[x].role = rights[x].role /\ rights'[x].grants = rights[x].grants
        BY <2>4
      <3>3. Z!CapsOf(rights[x].role)' = Z!CapsOf(rights[x].role)
        BY <2>1, <3>2 DEF Z!CapsOf
      <3>4. Z!Covering(rights[x].grants, c.cap, {c.node})' = Z!Covering(rights[x].grants, c.cap, {c.node})
        BY <3>2 DEF Z!Covering
      <3> QED
        BY <3>1, <3>3, <3>4
    <2>6. Governance' /\ Foretells(preview)' /\ Foretells(grantTx)'
      <3>1. \A p : Z!Cells(p)' = Z!Cells(p)
        BY <2>1 DEF Z!Cells, Z!CapsOf
      <3> QED
        BY <1>1, <2>1, <2>4, <3>1 DEF Governed, Governance, Foretells
    <2> QED
      BY <1>2, <2>5, <2>6 DEF Governed
  <1>5. ASSUME NEW caps, NEW status, Z!RoleChanges(caps, status)
        PROVE  Governed'
    <2> DEFINE new == [caps |-> caps, status |-> status, version |-> lead.version + 1]
    <2>1. /\ lead' = new /\ UNCHANGED <<rights, audience>>
          /\ told' = [m \in Staff |-> IF m \in Z!Leads THEN {} ELSE told[m]]
      BY <1>5, Zenon DEF Z!RoleChanges
    <2>2. new.version = lead.version + 1 /\ lead.version \in Nat
      BY DEF Governed, Governance
    <2> HIDE DEF new
    <2>3. rights \in [Staff -> Right]
      BY DEF Governed, Governance
    <2>4. \A role : role # "LEAD" => Z!CapsOf(role)' = Z!CapsOf(role)
      BY DEF Z!CapsOf
    <2>5. Promised'
      <3> SUFFICES ASSUME NEW m \in Staff, NEW c \in told'[m]
                   PROVE  /\ c.cap \in Z!CapsOf(rights[m].role)'
                          /\ c.allowed <=> Z!Covering(rights[m].grants, c.cap, {c.node}) # {}
        BY <2>1 DEF Promised
      <3>1. rights[m].role # "LEAD" /\ c \in told[m]
        BY <2>1 DEF Z!Leads
      <3> QED
        BY <2>1, <2>4, <3>1 DEF Governed, Promised
    <2>6. \A p \in Offers : p.role = "DRIVER" => Z!Cells(p)' = Z!Cells(p)
      <3> TAKE p \in Offers
      <3> HAVE p.role = "DRIVER"
      <3> DEFINE Cell(C) == {[cap |-> cap, node |-> g.node,
                              allowed |-> Z!Covering(p.grants, cap, {g.node}) # {}] : cap \in C, g \in p.grants}
      <3>1. Z!CapsOf(p.role) = {"read", "update"} /\ Z!CapsOf(p.role)' = {"read", "update"}
        BY DEF Z!CapsOf
      <3>2. Z!Cells(p) = Cell(Z!CapsOf(p.role))
        BY DEF Z!Cells
      <3>3. Z!Cells(p)' = Cell(Z!CapsOf(p.role)')
        BY DEF Z!Cells
      <3> HIDE DEF Cell
      <3> QED
        BY <3>1, <3>2, <3>3
    <2>7. ASSUME NEW x, Foretells(x)
          PROVE  /\ x # Z!NoPreview =>
                      /\ x = [of |-> x.of, by |-> x.by, expected |-> x.expected, roleVersion |-> x.roleVersion,
                              proposal |-> x.proposal, cells |-> x.cells]
                      /\ x.of \in Staff /\ x.proposal \in Offers
                      /\ x.roleVersion \in Nat /\ x.roleVersion <= lead'.version
                      /\ (x.proposal.role = "LEAD" => x.roleVersion = lead'.version) =>
                           x.cells = Z!Cells(x.proposal)'
      <3>1. x.proposal \in Offers => x.proposal.role = "LEAD" \/ Z!Cells(x.proposal)' = Z!Cells(x.proposal)
        BY <2>6, OffersGive
      <3> QED
        BY <2>1, <2>2, <2>7, <3>1, OffersGive DEF Foretells
    <2>8. Foretells(preview)' /\ Foretells(grantTx)'
      BY <1>1, <2>7 DEF Governed, Foretells
    <2>9. Governance'
      BY <1>1, <2>1, <2>2 DEF Governed, Governance
    <2> QED
      BY <1>2, <2>5, <2>8, <2>9 DEF Governed
  <1> QED
    BY <1>3, <1>4, <1>5 DEF Z!AccessNext, Z!UpdateRole, Z!DeactivateRole

LEMMA GovernedStep == Governed /\ [Z!Next]_authorization => Governed'
  <1> SUFFICES ASSUME Governed, [Z!Next]_authorization PROVE Governed'
    OBVIOUS
  <1>1. CASE UNCHANGED authorization
    <2>1. Admitted'
      BY <1>1 DEF Governed, Admitted, Z!TheRecord, Z!Resource, Z!NotMine, authorization
    <2> QED
      BY <1>1, <2>1, Unpromised DEF Governed, Governance, authorization
  <1>2. CASE Z!Next
    BY <1>2, RecordSteps, PreviewSteps, AccessSteps DEF Z!Next
  <1> QED
    BY <1>1, <1>2

\* Lists agree with the policy in every state: one asks of each grant what the
\* other asks of the record.
LEMMA ListsAgree ==
  ASSUME Governed
  PROVE  Z!ListsMatchPolicy
  <1> SUFFICES ASSUME NEW m \in Staff, NEW cap \in Z!Capability
               PROVE  /\ Z!Listed(m, cap) => Z!Decide(m, cap, Z!TheRecord)
                      /\ record.type = "TRIP" /\ Z!Decide(m, cap, Z!TheRecord) => Z!Listed(m, cap)
                      /\ record.type = "OTHER" /\ Z!Decide(m, cap, Z!TheRecord) /\ ~Z!Listed(m, cap) =>
                           \A g \in Z!Covering(rights[m].grants, cap, {record.node} \cup Z!Above(record.node)) :
                             g.node = "TRIP"
    BY Zenon DEF Z!ListsMatchPolicy
  <1> DEFINE Covered == Z!Covering(rights[m].grants, cap, {record.node} \cup Z!Above(record.node))
             mine == record.assigned = m
             trip == record.type = "TRIP"
  <1>1. Z!TheRecord.node = record.node /\ (Z!NotMine(m, Z!TheRecord) <=> trip /\ ~mine)
    BY DEF Z!TheRecord, Z!Resource, Z!NotMine
  <1>2. Z!Decide(m, cap, Z!TheRecord) <=>
          /\ signed[m] = "current" /\ ~(audience[m] = "DRIVER" /\ trip /\ ~mine)
          /\ cap \in Z!CapsOf(rights[m].role)
          /\ \E g \in Covered : ~(g.node = "TRIP" /\ trip /\ ~mine)
    BY <1>1 DEF Z!Decide
  <1>3. Z!Listed(m, cap) <=>
          /\ signed[m] = "current" /\ record.type # "none"
          /\ cap \in Z!CapsOf(rights[m].role)
          /\ \E g \in Covered : (g.node = "TRIP" => mine) /\ (audience[m] = "DRIVER" /\ trip => mine)
    BY DEF Z!Listed
  <1> HIDE DEF Covered, mine
  <1>4. Z!Listed(m, cap) => Z!Decide(m, cap, Z!TheRecord)
    BY <1>2, <1>3
  <1>5. record.type = "TRIP" /\ Z!Decide(m, cap, Z!TheRecord) => Z!Listed(m, cap)
    BY <1>2, <1>3
  <1>6. record.type = "OTHER" /\ Z!Decide(m, cap, Z!TheRecord) /\ ~Z!Listed(m, cap) =>
          \A g \in Covered : g.node = "TRIP"
    BY <1>2, <1>3
  <1> QED
    BY <1>4, <1>5, <1>6, Zenon DEF Covered

LEMMA PreviewsAreTrue ==
  ASSUME Governed
  PROVE  Z!PreviewsTell /\ Z!DriversWriteTheirTrips
  <1>1. ASSUME NEW m \in Staff, NEW c \in told[m]
        PROVE  /\ c.allowed => /\ c.cap \in Z!CapsOf(rights[m].role)
                               /\ Z!Covering(rights[m].grants, c.cap, {c.node} \cup Z!Above(c.node)) # {}
               /\ ~c.allowed => Z!Covering(rights[m].grants, c.cap, {c.node}) = {}
    <2>1. /\ c.cap \in Z!CapsOf(rights[m].role)
          /\ c.allowed <=> Z!Covering(rights[m].grants, c.cap, {c.node}) # {}
      BY DEF Governed, Promised
    <2>2. Z!Covering(rights[m].grants, c.cap, {c.node})
            \subseteq Z!Covering(rights[m].grants, c.cap, {c.node} \cup Z!Above(c.node))
      BY DEF Z!Covering
    <2> QED
      BY <2>1, <2>2
  <1>2. Z!PreviewsTell
    BY <1>1, Zenon DEF Z!PreviewsTell
  <1>3. Z!DriversWriteTheirTrips
    BY Zenon DEF Governed, Admitted, Z!DriversWriteTheirTrips
  <1> QED
    BY <1>2, <1>3

-----------------------------------------------------------------------------
(* Theorems                                                                *)

\* Memberships, links, sessions and open handlers keep their shapes.
THEOREM TypeCorrect == Spec => [](Shapes /\ Entitled /\ session \in [Sessions -> Session])
  <1>1. Membership /\ Current => Shapes /\ Entitled /\ session \in [Sessions -> Session]
    BY DEF Membership, Current
  <1> QED
    BY <1>1, InitMembership, NextMembership, InitCurrent, NextCurrent, PTL DEF Spec

\* A tenant keeps an active owner through any changes of access, suspensions
\* and disablings, unless one by each service overlapped (protectFinalOwner,
\* setPlatformTenantUserStatus).
THEOREM AnOwnerRemains == Spec => []OwnerRemains
  <1>1. Membership => OwnerRemains
    BY DEF Membership
  <1> QED
    BY <1>1, InitMembership, NextMembership, PTL DEF Spec

\* A session that is accepted is one whose versions were read under the rank,
\* the capabilities and the credentials of now, whatever changed between that
\* and the insertion of its row, or since (newSession, session).
THEOREM NoStaleSession == Spec => []SessionsAreCurrent
  <1>1. Current => SessionsAreCurrent
    BY DEF Current, Held, SessionsAreCurrent, Usable
  <1> QED
    BY <1>1, InitCurrent, NextCurrent, InitMembership, NextMembership, PTL DEF Spec

\* A member has at most one activation link that was not used, revoked or
\* replaced, and none after one was used (resendInvitation, acceptInvitation).
THEOREM OneActivationLink == Spec => []LinksAreExclusive
  <1>1. Membership => LinksAreExclusive
    BY DEF Membership
  <1> QED
    BY <1>1, InitMembership, NextMembership, PTL DEF Spec

LEMMA FocusSteps ==
  [MCNext]_<<focus, memberships, authorization, kernel, assistant>> =>
    /\ focus' = focus
    /\ [K!Next]_kernel /\ [Y!Next]_assistant /\ [Z!Next]_authorization
  BY DEF MCNext, Z!Next

\* What a list shows is what the policy lets its reader see, a preview says
\* what the access then is, and no driver writes to a trip of another, whoever
\* changes roles, portals and trips meanwhile (access.service.ts, auth/index.ts).
THEOREM AccessStaysAsShown == MCSpec => []AccessIsAsShown
  <1>1. MCInit => Governed
    BY GovernedInit DEF MCInit
  <1>2. Governed /\ [MCNext]_<<focus, memberships, authorization, kernel, assistant>> => Governed'
    BY FocusSteps, GovernedStep
  <1>3. Governed => AccessIsAsShown
    BY ListsAgree, PreviewsAreTrue DEF AccessIsAsShown
  <1> QED
    BY <1>1, <1>2, <1>3, PTL DEF MCSpec

\* The snapshots and events of a record tell its whole past, and a page has
\* the snapshot of the version it shows although it is read in three statements
\* (kernel.service.ts).
THEOREM RecordsStayTraced == MCSpec => []RecordsAreTraced
  <1>1. MCInit => Recorded
    BY RecordedInit DEF MCInit
  <1>2. Recorded /\ [MCNext]_<<focus, memberships, authorization, kernel, assistant>> => Recorded'
    BY FocusSteps, KernelStep
  <1>3. Recorded => RecordsAreTraced
    BY RecordedIsTraced DEF RecordsAreTraced
  <1> QED
    BY <1>1, <1>2, <1>3, PTL DEF MCSpec

\* A proposal is executed at most once, never after its member was told that it
\* is cancelled, and each confirmation that was answered is on file
\* (conversation.service.ts).
THEOREM ProposalsStayHonoured == MCSpec => []ProposalsAreHonoured
  <1>1. MCInit => Obeyed
    BY CommandsInit DEF MCInit
  <1>2. Obeyed /\ [MCNext]_<<focus, memberships, authorization, kernel, assistant>> => Obeyed'
    BY FocusSteps, CommandsStep
  <1>3. Obeyed => ProposalsAreHonoured
    BY CommandsAreHonoured DEF ProposalsAreHonoured
  <1> QED
    BY <1>1, <1>2, <1>3, PTL DEF MCSpec
===============================================================================
