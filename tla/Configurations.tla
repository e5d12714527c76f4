----------------------------- MODULE Configurations -----------------------------
(***************************************************************************)
(* Versions of the configuration of one namespace: drafted, published one  *)
(* over the other, and brought back as a new draft.  Publishing supersedes *)
(* the versions it finds published and then publishes its own row, which   *)
(* alone it has locked; so two drafts that are published at once may both  *)
(* stay published until the next one is.                                   *)
(***************************************************************************)
EXTENDS Naturals, FiniteSets

CONSTANTS
  Values, None,
  MaxVersion,  \* bound: versions
  MaxOpen      \* bound: drafts in progress at once

VARIABLES
  config,      \* configuration_versions
  drafting,    \* drafts whose number was read and that are not inserted yet
  publishing,  \* versions being published, with what they supersede
  projection,  \* configuration_projection_versions
  crossed      \* history: versions that were published while another was

vars == <<config, drafting, publishing, projection, crossed>>

Versions == 1..MaxVersion
Absent == [state |-> "ABSENT", value |-> None, of |-> None]

Init ==
  /\ config = [v \in Versions |-> Absent]
  /\ drafting = {}
  /\ publishing = [v \in {} |-> {}]
  /\ projection = 0
  /\ crossed = {}

Rows == {v \in Versions : config[v] # Absent}
NextVersion == Cardinality(Rows) + 1

Read(value, of) ==
  /\ NextVersion \in Versions /\ Cardinality(drafting) < MaxOpen
  /\ drafting' = drafting \cup {[version |-> NextVersion, value |-> value, of |-> of]}
  /\ UNCHANGED <<config, publishing, projection, crossed>>

createConfiguration(value) == Read(value, None)

rollbackConfiguration(v) ==
  /\ config[v].state \in {"PUBLISHED", "SUPERSEDED"}
  /\ Read(config[v].value, v)

\* The number is unique: of two that read the same one, one fails.
Insert(d) ==
  /\ d \in drafting
  /\ drafting' = drafting \ {d}
  /\ config' = IF config[d.version] = Absent
               THEN [config EXCEPT ![d.version] = [state |-> "DRAFT", value |-> d.value, of |-> d.of]]
               ELSE config
  /\ UNCHANGED <<publishing, projection, crossed>>

\* Mutant: what is published stays so.
SupersededNone == {}

Superseded == {v \in Versions : config[v].state = "PUBLISHED"}

\* One that waits for rows another publication supersedes goes on without
\* what that one published.
publishConfiguration(v) ==
  /\ config[v].state = "DRAFT" /\ v \notin DOMAIN publishing
  /\ publishing' = [w \in DOMAIN publishing \cup {v} |-> IF w = v THEN Superseded ELSE publishing[w]]
  /\ crossed' = IF DOMAIN publishing = {} THEN crossed ELSE crossed \cup DOMAIN publishing \cup {v}
  /\ UNCHANGED <<config, drafting, projection>>

Publish(v) ==
  /\ v \in DOMAIN publishing
  /\ config' = [w \in Versions |-> IF w = v THEN [config[w] EXCEPT !.state = "PUBLISHED"]
                                   ELSE IF w \in publishing[v] THEN [config[w] EXCEPT !.state = "SUPERSEDED"]
                                   ELSE config[w]]
  /\ publishing' = [w \in DOMAIN publishing \ {v} |-> publishing[w]]
  /\ projection' = projection + 1
  /\ UNCHANGED <<drafting, crossed>>

Next ==
  \/ \E x \in Values : createConfiguration(x)
  \/ \E v \in Versions : rollbackConfiguration(v) \/ publishConfiguration(v) \/ Publish(v)
  \/ \E d \in drafting : Insert(d)

Spec == Init /\ [][Next]_vars

(***************************************************************************)
(* Properties.                                                             *)
(***************************************************************************)
TypeOK ==
  /\ \A v \in Versions : config[v].state \in {"ABSENT", "DRAFT", "PUBLISHED", "SUPERSEDED"}
  /\ Rows = 1..Cardinality(Rows)
  /\ DOMAIN publishing \subseteq Rows

\* Once a version was published there is one that is, and there are two only
\* if they were published at once; the projection counts them all, and what
\* was brought back is what it was.
ConfigurationHolds ==
  /\ projection > 0 => \E v \in Versions : config[v].state = "PUBLISHED"
  /\ \A v, w \in Versions : config[v].state = "PUBLISHED" /\ config[w].state = "PUBLISHED" =>
       v = w \/ {v, w} \subseteq crossed
  /\ projection = Cardinality({v \in Versions : config[v].state \in {"PUBLISHED", "SUPERSEDED"}})
  /\ \A v \in Rows : config[v].of # None => config[v].value = config[config[v].of].value
================================================================================
