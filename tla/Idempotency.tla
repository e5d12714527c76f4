----------------------------- MODULE Idempotency -----------------------------
(***************************************************************************)
(* Requests that carry an idempotency key: the helpers by which the        *)
(* services of apps/backend/src let a repeated request have one effect.    *)
(* They share app.idempotency_records and differ in what the stored hash   *)
(* covers, in what they lock, in whose rows they see, and in whether the   *)
(* record is written before the work or after it.  The operation and the   *)
(* actor are part of the key, so a behaviour is about one operation of one *)
(* actor, who works for two tenants.                                       *)
(***************************************************************************)
EXTENDS Integers, FiniteSets, Sequences

CONSTANTS
  Posts,    \* the requests that are being served
  Tenants,
  Keys,
  Inputs,
  Anybody,  \* in place of a tenant that a hash does not cover
  MaxRows   \* bound: how often the operation did something

VARIABLES
  helper,   \* which of the helpers below
  record,   \* app.idempotency_records of the operation, committed
  row,      \* what the operation did, committed: the request it was for
  post,     \* the transactions that are open
  answers,  \* what clients were told
  clashes   \* the tenants of inserts that a record was in the way of

vars == <<helper, record, row, post, answers, clashes>>

Canonical == [hash |-> "tenant", lock |-> "key", sees |-> "tenant", record |-> "after"]
Advanced == Canonical
Organization == Canonical
Operations == Canonical
Finance == Canonical
Governance == Canonical
Calls == Canonical
Alerts == Canonical
Whatsapp == Canonical
\* The hash covers the key alone, while rows are looked up by tenant.
Access == [Canonical EXCEPT !.hash = "key"]
Masters == Access
Probes == Access
\* Records of the platform, under which the input names the tenant.
Console == [Access EXCEPT !.sees = "all"]
Provisioning == Console
\* The record is claimed first, under a lock on all the tenant's assignments.
Bulk == [Canonical EXCEPT !.lock = "tenant", !.record = "before"]

Helpers == {Canonical, Advanced, Organization, Operations, Finance, Governance, Calls, Alerts,
            Whatsapp, Access, Masters, Probes, Console, Provisioning, Bulk}

Rows == 1 .. MaxRows
Idle == [phase |-> "idle", tenant |-> Anybody, key |-> 0, input |-> 0, inserted |-> "no"]

Init ==
  /\ helper \in Helpers
  /\ record = {} /\ row = <<>> /\ answers = {} /\ clashes = {}
  /\ post = [p \in Posts |-> Idle]

-----------------------------------------------------------------------------
HashOf(q) == [tenant |-> IF helper.hash = "tenant" THEN q.tenant ELSE Anybody, key |-> q.key]
InputOf(q) == [tenant |-> IF helper.sees = "all" THEN q.tenant ELSE Anybody, input |-> q.input]

\* Mutant: the lock is that of the request alone.
LockOfRequest(p) == [lock |-> p]

LockOf(p) == [lock |-> IF helper.lock = "key" THEN HashOf(post[p]) ELSE [tenant |-> post[p].tenant, key |-> 0]]

Holds(p) == post[p].phase \in {"locked", "working", "worked"}

\* The row policy and the queries hide what another tenant recorded.
Seen(p) == {r \in record : r.hash = HashOf(post[p]) /\ (helper.sees = "all" \/ r.tenant = post[p].tenant)}

\* What the unique index compares an insert with.
InTheWay(p) == {r \in record : r.hash = HashOf(post[p])}
Awaited(p) ==
  {o \in Posts \ {p} : post[o].inserted = "yes" /\ HashOf(post[o]) = HashOf(post[p])}

Moves(p, changed) == post' = [post EXCEPT ![p] = changed]
Enters(p, phase) == Moves(p, [post[p] EXCEPT !.phase = phase])
Answer(p, r) == [tenant |-> post[p].tenant, key |-> post[p].key, input |-> post[p].input, row |-> r]

Begin(p, tenant, key, input) ==
  /\ post[p] = Idle
  /\ Moves(p, [Idle EXCEPT !.phase = "begun", !.tenant = tenant, !.key = key, !.input = input])
  /\ UNCHANGED <<helper, record, row, answers, clashes>>

Lock(p) ==
  /\ post[p].phase = "begun"
  /\ \A o \in Posts \ {p} : Holds(o) => LockOf(o) # LockOf(p)
  /\ Enters(p, "locked")
  /\ UNCHANGED <<helper, record, row, answers, clashes>>

\* A repetition is told what the first was, unless its input is another.
Replay(p) ==
  /\ post[p].phase = "locked"
  /\ \E r \in Seen(p) :
       answers' = IF r.input = InputOf(post[p]) THEN answers \cup {Answer(p, r.row)} ELSE answers
  /\ Moves(p, Idle)
  /\ UNCHANGED <<helper, record, row, clashes>>

Miss(p) ==
  /\ post[p].phase = "locked" /\ helper.record = "after"
  /\ Seen(p) = {}
  /\ Enters(p, "working")
  /\ UNCHANGED <<helper, record, row, answers, clashes>>

\* An insert that finds its key taken does nothing, and waits to know it.
Claim(p) ==
  /\ post[p].phase = "locked" /\ helper.record = "before"
  /\ InTheWay(p) = {} /\ Awaited(p) = {}
  /\ Moves(p, [post[p] EXCEPT !.phase = "working", !.inserted = "yes"])
  /\ UNCHANGED <<helper, record, row, answers, clashes>>

Work(p) ==
  /\ post[p].phase = "working"
  /\ Enters(p, "worked")
  /\ UNCHANGED <<helper, record, row, answers, clashes>>

\* A record in the way undoes the work.
Insert(p) ==
  /\ post[p].phase = "worked" /\ post[p].inserted = "no"
  /\ Awaited(p) = {}
  /\ IF InTheWay(p) = {}
       THEN /\ Moves(p, [post[p] EXCEPT !.inserted = "yes"])
            /\ UNCHANGED clashes
       ELSE /\ Moves(p, Idle)
            /\ clashes' = clashes \cup {{r.tenant : r \in InTheWay(p)} \cup {post[p].tenant}}
  /\ UNCHANGED <<helper, record, row, answers>>

Commit(p) ==
  /\ post[p].phase = "worked" /\ post[p].inserted = "yes"
  /\ Len(row) < MaxRows
  /\ LET n == Len(row) + 1
         q == post[p] IN
       /\ row' = Append(row, [tenant |-> q.tenant, key |-> q.key, input |-> q.input])
       /\ record' = record \cup {[hash |-> HashOf(q), input |-> InputOf(q), tenant |-> q.tenant, row |-> n]}
       /\ answers' = answers \cup {Answer(p, n)}
  /\ Moves(p, Idle)
  /\ UNCHANGED <<helper, clashes>>

\* The work is refused, or the backend stops.
RollBack(p) ==
  /\ post[p] # Idle
  /\ Moves(p, Idle)
  /\ UNCHANGED <<helper, record, row, answers, clashes>>

Next ==
  \E p \in Posts :
    \/ \E tenant \in Tenants, key \in Keys, input \in Inputs : Begin(p, tenant, key, input)
    \/ Lock(p) \/ Replay(p) \/ Miss(p) \/ Claim(p) \/ Work(p) \/ Insert(p) \/ Commit(p) \/ RollBack(p)

Spec == Init /\ [][Next]_vars

-----------------------------------------------------------------------------
(* Properties                                                              *)

TypeOK ==
  /\ helper \in Helpers
  /\ \A r \in record : r.row \in 1 .. Len(row)
  /\ \A p \in Posts : post[p].phase \in {"idle", "begun", "locked", "working", "worked"}

\* A key does one thing for a tenant, and who is answered under it is told of
\* that thing, and asked for it.
KeysCountOnce ==
  /\ \A m, n \in DOMAIN row : row[m].tenant = row[n].tenant /\ row[m].key = row[n].key => m = n
  /\ \A a \in answers : row[a.row] = [tenant |-> a.tenant, key |-> a.key, input |-> a.input]

\* No repetition does its work in vain.  The exception is a key that its
\* actor has used for another tenant, under a hash that does not cover it.
RepetitionsAreAnswered ==
  \A c \in clashes : helper.hash = "key" /\ helper.sees = "tenant" /\ Cardinality(c) = 2
=============================================================================
