------------------------------- MODULE Passwords -------------------------------
(***************************************************************************)
(* Links by which one user sets a new password: asked for by the user,     *)
(* issued by an administrator of the only tenant the user belongs to, or   *)
(* by the operator of the platform for such a tenant.  Only digests of     *)
(* tokens are kept, so a link is shown in the answer that issued it, and a *)
(* request that is sent again with its key gets the answer without it.     *)
(*                                                                         *)
(* All of them take the lock of the user.  A membership that is made or    *)
(* changes its status updates the user's row, where a trigger counts; a    *)
(* tenant that is closed or opened does not touch the user at all.         *)
(***************************************************************************)
EXTENDS Naturals, Sequences, FiniteSets

CONSTANTS
  Tenants, Links, Requests, Keys, None,
  Window,      \* the minutes that attempts are counted over
  PerSource,   \* requests a source or an identifier may make in them
  PerUser,     \* links a user may ask for in them
  PerOperator, \* attempts the operator may make in them
  Life,        \* minutes that a link is good for
  MaxTime, MaxChanges  \* bounds: the clock, and changes of memberships and tenants

VARIABLES
  member,    \* status of the user's membership of each tenant
  open,      \* tenants that are ACTIVE
  counter,   \* users.membership_version
  changes,
  link,      \* password_reset_tokens
  asked,     \* password_reset_request_limits: when the identifier was used
  tried,     \* security_events: when the operator tried
  answer,    \* idempotency_records of the operator: key -> link
  request,   \* requests that have chosen a membership and not inserted yet
  spending,  \* the link whose password is being hashed
  passwords, \* how often the password was set
  broken,    \* history: links since whose issue a membership changed
  clock

vars == <<member, open, counter, changes, link, asked, tried, answer, request, spending,
          passwords, broken, clock>>
people == <<member, open, counter, changes, broken>>

NoLink == [state |-> "ABSENT", source |-> None, tenant |-> None, counter |-> 0, at |-> 0, after |-> 0]

Init ==
  /\ \E s \in [Tenants -> {"NONE", "ACTIVE"}] : member = s
  /\ open = Tenants
  /\ counter = 1 /\ changes \in {0, MaxChanges}
  /\ link = [l \in Links |-> NoLink]
  /\ asked = <<>> /\ tried = <<>>
  /\ answer = [k \in Keys |-> None]
  /\ request = [r \in {} |-> None]
  /\ spending = None
  /\ passwords = 0
  /\ broken = {}
  /\ clock \in {0, MaxTime}

Belongs == {t \in open : member[t] = "ACTIVE"}

-----------------------------------------------------------------------------
(* Memberships and tenants *)

\* Mutant: the trigger counts new memberships only.
CountedNew(t, status) == IF member[t] = "NONE" THEN counter + 1 ELSE counter

Counted(t, status) == IF status # member[t] THEN counter + 1 ELSE counter

\* The trigger updates the user, whose row a password being set has locked.
MembershipChanges(t, status) ==
  /\ changes < MaxChanges /\ changes' = changes + 1
  /\ spending = None
  /\ status # member[t]
  /\ member' = [member EXCEPT ![t] = status]
  /\ counter' = Counted(t, status)
  /\ broken' = broken \cup {l \in Links : link[l].state = "LIVE"}
  /\ UNCHANGED <<open, link, asked, tried, answer, request, spending, passwords, clock>>

TenantChanges(t) ==
  /\ changes < MaxChanges /\ changes' = changes + 1
  /\ open' = IF t \in open THEN open \ {t} ELSE open \cup {t}
  /\ UNCHANGED <<member, counter, broken, link, asked, tried, answer, request, spending,
                 passwords, clock>>

\* Attempts the window has left are never looked at again.
Tick ==
  /\ clock < MaxTime /\ clock' = clock + 1
  /\ asked' = SelectSeq(asked, LAMBDA t : t + Window > clock')
  /\ tried' = SelectSeq(tried, LAMBDA t : t + Window > clock')
  /\ UNCHANGED <<people, link, answer, request, spending, passwords>>

-----------------------------------------------------------------------------
(* Asked for by the user *)

\* The attempt counts whether or not anybody is found; the ones after the
\* first that is too many change nothing more.
requestPasswordReset(r) ==
  /\ r \notin DOMAIN request
  /\ Len(asked) <= PerSource
  /\ asked' = Append(asked, clock)
  /\ \/ /\ Len(asked') > PerSource \/ Belongs = {}
        /\ UNCHANGED request
     \/ /\ Len(asked') <= PerSource
        /\ \E t \in Belongs :
             request' = [x \in DOMAIN request \cup {r} |->
               IF x = r THEN [tenant |-> t, counter |-> counter, at |-> clock] ELSE request[x]]
  /\ UNCHANGED <<people, link, tried, answer, spending, passwords, clock>>

Self(l) == link[l].source = "SELF_SERVICE"

\* The count is taken under the lock, of what its own start looks back on; a
\* trigger asks that the membership still be active.
RecordRequest(r, l) ==
  LET q == request[r] IN
  /\ r \in DOMAIN request /\ spending = None
  /\ request' = [x \in DOMAIN request \ {r} |-> request[x]]
  /\ IF /\ Cardinality({x \in Links : Self(x) /\ link[x].at + Window > q.at}) < PerUser
        /\ member[q.tenant] = "ACTIVE"
     THEN /\ link[l] = NoLink
          /\ link' = [link EXCEPT ![l] = [state |-> "LIVE", source |-> "SELF_SERVICE", tenant |-> q.tenant,
                                         counter |-> q.counter, at |-> q.at, after |-> passwords]]
     ELSE UNCHANGED link
  /\ UNCHANGED <<people, asked, tried, answer, spending, passwords, clock>>

-----------------------------------------------------------------------------
(* Issued for the user *)

Revoked == [l \in Links |-> IF link[l].state = "LIVE" THEN [link[l] EXCEPT !.state = "REVOKED"] ELSE link[l]]

\* Only for a user who belongs to that tenant and to no other.
Issued(l, t) ==
  /\ spending = None /\ link[l] = NoLink
  /\ Belongs = {t}
  /\ link' = [Revoked EXCEPT ![l] = [state |-> "LIVE", source |-> "TENANT_ADMIN", tenant |-> t,
                                     counter |-> counter, at |-> clock, after |-> passwords]]

issuePasswordReset(l, t) ==
  /\ Issued(l, t)
  /\ UNCHANGED <<people, asked, tried, answer, request, spending, passwords, clock>>

issuePlatformTenantUserPasswordReset(k, l, t) ==
  /\ Len(tried) < PerOperator
  /\ answer[k] = None
  /\ Issued(l, t)
  /\ answer' = [answer EXCEPT ![k] = l]
  /\ tried' = Append(tried, clock)
  /\ UNCHANGED <<people, asked, request, spending, passwords, clock>>

\* What is refused counts as well; the answer that is repeated does not.
RefusePlatform(k, t) ==
  /\ Len(tried) < PerOperator
  /\ answer[k] = None /\ Belongs # {t}
  /\ tried' = Append(tried, clock)
  /\ UNCHANGED <<people, link, asked, answer, request, spending, passwords, clock>>

-----------------------------------------------------------------------------
(* Spent *)

Good(l) ==
  /\ link[l].state = "LIVE" /\ clock < link[l].at + Life
  /\ link[l].tenant \in Belongs
  /\ Self(l) \/ (link[l].counter = counter /\ Cardinality(Belongs) = 1)

completePasswordReset(l) ==
  /\ spending = None /\ Good(l)
  /\ spending' = l
  /\ UNCHANGED <<people, link, asked, tried, answer, request, passwords, clock>>

SetPassword ==
  /\ spending # None
  /\ link' = [Revoked EXCEPT ![spending] = [link[spending] EXCEPT !.state = "USED"]]
  /\ passwords' = passwords + 1
  /\ spending' = None
  /\ UNCHANGED <<people, asked, tried, answer, request, clock>>

Next ==
  \/ \E t \in Tenants : TenantChanges(t) \/ \E s \in {"ACTIVE", "SUSPENDED"} : MembershipChanges(t, s)
  \/ Tick
  \/ \E r \in Requests : requestPasswordReset(r) \/ \E l \in Links : RecordRequest(r, l)
  \/ \E l \in Links, t \in Tenants :
       issuePasswordReset(l, t) \/ \E k \in Keys : issuePlatformTenantUserPasswordReset(k, l, t)
  \/ \E k \in Keys, t \in Tenants : RefusePlatform(k, t)
  \/ \E l \in Links : completePasswordReset(l)
  \/ SetPassword

Spec == Init /\ [][Next]_vars

-----------------------------------------------------------------------------
(* Properties *)

TypeOK ==
  /\ member \in [Tenants -> {"NONE", "ACTIVE", "SUSPENDED"}]
  /\ open \subseteq Tenants
  /\ \A l \in Links : link[l].state \in {"ABSENT", "LIVE", "USED", "REVOKED"}
  /\ DOMAIN request \subseteq Requests
  /\ spending \in Links \cup {None}
  /\ clock <= MaxTime /\ changes <= MaxChanges

Administered(l) == link[l].source = "TENANT_ADMIN"

\* A new password ends every link there is, of which an administrator's
\* never stands beside another one; and an administrator's link outlives no
\* change of the memberships, of which there may be more by then.
OldLinksEnd ==
  /\ \A l \in Links : link[l].state = "LIVE" => link[l].after = passwords
  /\ \A l, m \in Links : link[l].state = "LIVE" /\ link[m].state = "LIVE"
                           /\ Administered(l) /\ Administered(m) => l = m
  /\ \A l \in Links : link[l].state = "USED" /\ Administered(l) => l \notin broken

\* However requests overlap, in no window does a user get more links than
\* the limit.
LinksAreRationed ==
  \A t \in 0..MaxTime :
    Cardinality({l \in Links : Self(l) /\ link[l].at \in t..(t + Window - 1)}) <= PerUser
================================================================================
