-------------------------------- MODULE Alerts --------------------------------
(***************************************************************************)
(* Operational alerts and who raises them: the worker, which evaluates a   *)
(* rule against each source once a day; people and conversations, which    *)
(* record occurrences under a code of their own; and the masters pages,    *)
(* which look for resources without an active owner.  People act on an     *)
(* alert in any state.                                                     *)
(*                                                                         *)
(* A run of the worker is one transaction: it reads the sources of a rule  *)
(* and works them off one by one, and keeps what it wrote locked until it  *)
(* ends.  Several may run, and one may run past midnight.                  *)
(***************************************************************************)
EXTENDS Naturals, FiniteSets

CONSTANTS
  Sources,     \* what a rule looks at
  Codes,       \* deduplication keys of recorded occurrences
  Resources,   \* clients, locations, vendors, indents, allocations, rules
  Members, None,
  Workers,
  Calls,       \* idempotency keys of recorded occurrences
  MaxDay,      \* bound: days
  MaxSteps     \* bound: acts, and changes of what the alerts are about

VARIABLES
  source,      \* what the rule observes, and its owner
  unowned,     \* resources without an active owner
  rule,        \* whether the rule is active
  alert,       \* operational_alerts
  evaluated,   \* alert_rule_evaluations
  notice,      \* notification_deliveries: the state of <<alert, member>>
  run,         \* what each worker has read and not committed yet
  look,        \* the resources that the holder of the ownership lock read
  day,
  recorded,    \* idempotency records: <<call, code>>
  handed,      \* history: alerts whose owner was changed
  steps

vars == <<source, unowned, rule, alert, evaluated, notice, run, look, day,
          recorded, handed, steps>>

Alerts == Sources \cup Codes \cup Resources
NoAlert == [state |-> "ABSENT", resolvedAt |-> None, owner |-> None, count |-> 0]
NoRun == [seen |-> [s \in {} |-> None], alert |-> [s \in {} |-> NoAlert], evaluated |-> {}, notice |-> {}]
States == {"OPEN", "ACKNOWLEDGED", "SNOOZED", "ESCALATED", "RESOLVED"}
Set == "SET"

Init ==
  /\ source \in [Sources -> [level : {"LOW", "HIGH"}, owner : Members \cup {None}]]
  /\ unowned \in SUBSET Resources
  /\ rule = "ACTIVE"
  /\ alert = [a \in Alerts |-> NoAlert]
  /\ evaluated = {}
  /\ notice = [n \in {} |-> None]
  /\ run = [w \in Workers |-> NoRun]
  /\ look = None
  /\ day = 1
  /\ recorded = {}
  /\ handed = {}
  /\ steps = 0

Step == steps < MaxSteps /\ steps' = steps + 1

Raised(owner) == [state |-> "OPEN", resolvedAt |-> None, owner |-> owner, count |-> 1]
Reopened(a) == [a EXCEPT !.state = IF @ = "RESOLVED" THEN "OPEN" ELSE @, !.resolvedAt = None]
Counted(a) == [a EXCEPT !.count = @ + 1]
Resolved(a) == IF a.state \in {"ABSENT", "RESOLVED"} THEN a
               ELSE [a EXCEPT !.state = "RESOLVED", !.resolvedAt = Set]

(***************************************************************************)
(* The worker.                                                             *)
(***************************************************************************)
\* What a rule observes: a source that is gone is not looked at again.
observations == {s \in Sources : source[s].level # "GONE"}

evaluateAlerts(w) ==
  /\ run[w] = NoRun /\ rule = "ACTIVE" /\ observations # {}
  /\ run' = [run EXCEPT ![w].seen = [s \in observations |-> source[s]]]
  /\ UNCHANGED <<source, unowned, rule, alert, evaluated, notice, look, day, recorded, handed, steps>>

Matched(o) == o.level = "HIGH"
Key(s) == <<s, day>>

\* Mutant: a source is evaluated as often as the worker runs.
EvaluatedNever(s) == FALSE

\* One evaluation a day.
Evaluated(s) == \E e \in evaluated : e.key = Key(s)

\* Whether the step writes the alert, which waits for the run that holds it.
Touches(s, o) == Matched(o) \/ alert[s].state \notin {"ABSENT", "RESOLVED"}
Free(w, s, o) ==
  \A v \in Workers \ {w} : /\ \A e \in run[v].evaluated : e.key # Key(s)
                           /\ Touches(s, o) => s \notin DOMAIN run[v].alert

Evaluate(w, s) ==
  LET t == run[w]
      o == t.seen[s]
      a == IF ~Matched(o) THEN Resolved(alert[s])
           ELSE IF alert[s] = NoAlert THEN Raised(o.owner)
           ELSE Counted(Reopened(alert[s]))
      rest == [x \in DOMAIN t.seen \ {s} |-> t.seen[x]]
      held == DOMAIN t.alert \cup IF Touches(s, o) THEN {s} ELSE {}
  IN
  /\ s \in DOMAIN t.seen /\ Free(w, s, o)
  /\ run' = [run EXCEPT ![w] =
       IF Evaluated(s)
       THEN [t EXCEPT !.seen = rest]
       ELSE [seen |-> rest,
             alert |-> [x \in held |-> IF x = s THEN a ELSE t.alert[x]],
             evaluated |-> t.evaluated \cup {[key |-> Key(s), matched |-> Matched(o)]},
             notice |-> IF Matched(o) /\ a.owner # None THEN t.notice \cup {<<s, a.owner>>} ELSE t.notice]]
  /\ UNCHANGED <<source, unowned, rule, alert, evaluated, notice, look, day, recorded, handed, steps>>

Commit(w) ==
  LET t == run[w] IN
  /\ t # NoRun /\ DOMAIN t.seen = {}
  /\ alert' = [a \in Alerts |-> IF a \in DOMAIN t.alert THEN t.alert[a] ELSE alert[a]]
  /\ evaluated' = evaluated \cup t.evaluated
  /\ notice' = [n \in DOMAIN notice \cup t.notice |-> IF n \in DOMAIN notice THEN notice[n] ELSE "PENDING"]
  /\ run' = [run EXCEPT ![w] = NoRun]
  /\ UNCHANGED <<source, unowned, rule, look, day, recorded, handed, steps>>

\* The database refused a statement, of this step or of another one of the
\* run, or the backend stopped.
Abort(w) ==
  /\ run[w] # NoRun
  /\ run' = [run EXCEPT ![w] = NoRun]
  /\ UNCHANGED <<source, unowned, rule, alert, evaluated, notice, look, day, recorded, handed, steps>>

\* Nobody is there to deliver a notice, which is said once.
notificationDeliveries ==
  /\ \E n \in DOMAIN notice : notice[n] = "PENDING"
  /\ notice' = [n \in DOMAIN notice |-> "SUPPRESSED"]
  /\ UNCHANGED <<source, unowned, rule, alert, evaluated, run, look, day, recorded, handed, steps>>

(***************************************************************************)
(* People.                                                                 *)
(***************************************************************************)
nextState(a, action) ==
  CASE action = "ACKNOWLEDGE" -> "ACKNOWLEDGED"
    [] action = "SNOOZE" -> "SNOOZED"
    [] action = "ESCALATE" -> "ESCALATED"
    [] action = "RESOLVE" -> "RESOLVED"
    [] action = "REOPEN" -> "OPEN"
    [] OTHER -> alert[a].state

Acted(row, to, m) ==
  [row EXCEPT !.state = to,
              !.owner = IF m = None THEN @ ELSE m,
              !.resolvedAt = CASE to = "RESOLVED" -> Set [] to = "OPEN" -> None [] OTHER -> @]

\* The row is locked, and no run of the worker holds it.
act(a, action, m) ==
  /\ alert[a] # NoAlert
  /\ \A w \in Workers : a \notin DOMAIN run[w].alert
  /\ alert' = [alert EXCEPT ![a] = Acted(@, nextState(a, action), m)]
  /\ handed' = IF m = None THEN handed ELSE handed \cup {a}
  /\ Step
  /\ UNCHANGED <<source, unowned, rule, evaluated, notice, run, look, day, recorded>>

createOccurrence(call, c) ==
  /\ \A r \in recorded : r[1] # call
  /\ recorded' = recorded \cup {<<call, c>>}
  /\ alert' = [alert EXCEPT ![c] =
       CASE @ = NoAlert -> Raised(None)
         [] @.state = "RESOLVED" -> Counted(Reopened(@))
         [] OTHER -> Counted(@)]
  /\ UNCHANGED <<source, unowned, rule, evaluated, notice, run, look, day, handed, steps>>

saveRule ==
  /\ rule' = IF rule = "ACTIVE" THEN "INACTIVE" ELSE "ACTIVE"
  /\ Step
  /\ UNCHANGED <<source, unowned, alert, evaluated, notice, run, look, day, recorded, handed>>

(***************************************************************************)
(* Ownership, under a lock of its own.                                     *)
(***************************************************************************)
evaluateOwnershipAlerts ==
  /\ look = None
  /\ look' = [kind |-> "READ", found |-> unowned]
  /\ UNCHANGED <<source, unowned, rule, alert, evaluated, notice, run, day, recorded, handed, steps>>

RaiseOwnership ==
  /\ look # None
  /\ alert' = [a \in Alerts |->
       IF a \notin Resources THEN alert[a]
       ELSE IF a \notin look.found THEN Resolved(alert[a])
       ELSE IF alert[a] = NoAlert THEN Raised(None) ELSE Reopened(alert[a])]
  /\ look' = None
  /\ UNCHANGED <<source, unowned, rule, evaluated, notice, run, day, recorded, handed, steps>>

(***************************************************************************)
(* What the alerts are about.                                              *)
(***************************************************************************)
Changes ==
  /\ \/ \E s \in Sources, l \in {"LOW", "HIGH", "GONE"} :
          /\ source[s].level # l /\ source' = [source EXCEPT ![s].level = l]
          /\ UNCHANGED unowned
     \/ \E r \in Resources :
          /\ unowned' = IF r \in unowned THEN unowned \ {r} ELSE unowned \cup {r}
          /\ UNCHANGED source
  /\ Step
  /\ UNCHANGED <<rule, alert, evaluated, notice, run, look, day, recorded, handed>>

Midnight ==
  /\ day < MaxDay /\ day' = day + 1
  /\ UNCHANGED <<source, unowned, rule, alert, evaluated, notice, run, look, recorded, handed, steps>>

Next ==
  \/ \E w \in Workers : evaluateAlerts(w) \/ Commit(w) \/ Abort(w) \/ \E s \in Sources : Evaluate(w, s)
  \/ notificationDeliveries
  \/ \E a \in Alerts, m \in Members \cup {None},
        x \in {"ACKNOWLEDGE", "ASSIGN", "SNOOZE", "ESCALATE", "RESOLVE", "REOPEN"} : act(a, x, m)
  \/ \E call \in Calls, c \in Codes : createOccurrence(call, c)
  \/ saveRule
  \/ evaluateOwnershipAlerts \/ RaiseOwnership
  \/ Changes \/ Midnight

Spec == Init /\ [][Next]_vars

(***************************************************************************)
(* Properties.                                                             *)
(***************************************************************************)
TypeOK ==
  /\ \A a \in Alerts : /\ alert[a].state \in States \cup {"ABSENT"}
                       /\ alert[a].resolvedAt \in {None, Set}
                       /\ alert[a].owner \in Members \cup {None}
                       /\ alert[a].count \in Nat
  /\ \A e \in evaluated : e.key[1] \in Sources /\ e.key[2] \in 1..MaxDay
  /\ \A n \in DOMAIN notice : n \in Sources \X Members /\ notice[n] \in {"PENDING", "SUPPRESSED"}
  /\ recorded \subseteq Calls \X Codes
  /\ unowned \subseteq Resources
  /\ handed \subseteq Alerts

\* Whoever raises it and however their runs overlap, an alert counts each
\* thing it was raised for once: a source once a day, an occurrence once a
\* call.  A resolved alert is stamped and an open one is not.
AlertsAreAccounted ==
  /\ \A s \in Sources : alert[s].count = Cardinality({e \in evaluated : e.key[1] = s /\ e.matched})
  /\ \A e, f \in evaluated : e.key = f.key => e = f
  /\ \A c \in Codes : alert[c].count = Cardinality({r \in recorded : r[2] = c})
  /\ \A a \in Alerts : /\ alert[a].state = "RESOLVED" => alert[a].resolvedAt = Set
                       /\ alert[a].state = "OPEN" => alert[a].resolvedAt = None

\* The owner that an alert was raised with was told, whatever came after.
OwnersAreTold ==
  \A s \in Sources : alert[s].owner # None /\ s \notin handed => <<s, alert[s].owner>> \in DOMAIN notice
================================================================================
