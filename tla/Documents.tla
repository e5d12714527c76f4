------------------------------- MODULE Documents -------------------------------
(***************************************************************************)
(* Governed documents with their versions, uploaded from a page or from an *)
(* attachment of a conversation; the worker that looks for the signature   *)
(* of the test virus in the oldest versions without a result; and the      *)
(* links by which a version is read once.  A version that carries no       *)
(* signature gets no result from the worker: only a scanner attests it,    *)
(* which is not part of the program.                                       *)
(*                                                                         *)
(* Comments have versions and a history of their bodies.                   *)
(***************************************************************************)
EXTENDS Naturals, Sequences, FiniteSets

CONSTANTS
  Documents, Attachments, Tokens, Users, None,
  MaxVersions,  \* bound: versions of a document
  Limit,        \* versions that one run of the worker reads
  MaxEdits      \* bound: edits of the comment

VARIABLES
  document,  \* governed_documents
  version,   \* governed_document_versions of each document, oldest first
  order,     \* all of them as they were created
  scan,      \* document_scan_results, with those of the scanner
  batch,     \* what a run of the worker has read
  handoff,   \* conversation_file_handoffs: the document of an attachment
  token,     \* document_access_tokens
  comment,   \* governed_comments: one of them
  history    \* governed_comment_history: version -> who wrote it

vars == <<document, version, order, scan, batch, handoff, token, comment, history>>
papers == <<document, version, order, scan, batch, handoff, token>>
comments == <<comment, history>>

NoDocument == [state |-> "ABSENT", current |-> 0]
NoComment == [version |-> 0, author |-> None, resolvedBy |-> None]

Init ==
  /\ document = [d \in Documents |-> NoDocument]
  /\ version = [d \in Documents |-> <<>>]
  /\ order = <<>>
  /\ scan = [v \in {} |-> "CLEAN"]
  /\ batch = {}
  /\ handoff = [a \in Attachments |-> None]
  /\ token = [t \in Tokens |-> [of |-> None, used |-> FALSE]]
  /\ comment = NoComment
  /\ history = <<>>

Add(d, content) ==
  /\ document[d].current < MaxVersions
  /\ document' = [document EXCEPT ![d] = [state |-> "PENDING", current |-> @.current + 1]]
  /\ version' = [version EXCEPT ![d] = Append(@, content)]
  /\ order' = Append(order, <<d, document[d].current + 1>>)

uploadDocument(d, content) ==
  /\ Add(d, content)
  /\ UNCHANGED <<scan, batch, handoff, token, comments>>

createGovernedDocument(a, d, content) ==
  /\ handoff[a] = None
  /\ Add(d, content)
  /\ handoff' = [handoff EXCEPT ![a] = <<d, document[d].current + 1>>]
  /\ UNCHANGED <<scan, batch, token, comments>>

Unscanned == {i \in DOMAIN order : order[i] \notin DOMAIN scan}
Oldest == {i \in Unscanned : Cardinality({j \in Unscanned : j < i}) < Limit}
Content(v) == version[v[1]][v[2]]

\* The versions are read and locked; their documents are not.
documentScans ==
  /\ batch = {} /\ Unscanned # {}
  /\ batch' = {order[i] : i \in Oldest}
  /\ UNCHANGED <<document, version, order, scan, handoff, token, comments>>

Rejected(S) == {v \in S : Content(v) = "EICAR"}

\* Mutant: the run ends without a look at the documents.
QuarantineNone(S) == document

Quarantine(S) ==
  [d \in Documents |-> IF \E v \in Rejected(S) : v[1] = d THEN [document[d] EXCEPT !.state = "QUARANTINED"]
                       ELSE document[d]]

Record ==
  /\ batch # {}
  /\ scan' = [v \in DOMAIN scan \cup Rejected(batch) |-> IF v \in DOMAIN scan THEN scan[v] ELSE "REJECTED"]
  /\ document' = Quarantine(batch)
  /\ batch' = {}
  /\ UNCHANGED <<version, order, handoff, token, comments>>

\* The scanner outside, which attests versions that the worker does not hold.
Attest(v) ==
  /\ v \notin DOMAIN scan /\ v \notin batch
  /\ Content(v) # "EICAR" /\ document[v[1]].current = v[2] /\ document[v[1]].state = "PENDING"
  /\ scan' = [x \in DOMAIN scan \cup {v} |-> IF x = v THEN "CLEAN" ELSE scan[x]]
  /\ document' = [document EXCEPT ![v[1]].state = "VERIFIED"]
  /\ UNCHANGED <<version, order, batch, handoff, token, comments>>

issueDocumentAccess(t, v) ==
  /\ token[t].of = None
  /\ v \in DOMAIN scan /\ scan[v] = "CLEAN" /\ document[v[1]].state = "VERIFIED"
  /\ token' = [token EXCEPT ![t].of = v]
  /\ UNCHANGED <<document, version, order, scan, batch, handoff, comments>>

\* What has become of the document since is not asked.
downloadDocument(t) ==
  /\ token[t].of # None /\ ~token[t].used
  /\ token' = [token EXCEPT ![t].used = TRUE]
  /\ UNCHANGED <<document, version, order, scan, batch, handoff, comments>>

addGovernedComment(u) ==
  /\ comment = NoComment
  /\ comment' = [version |-> 1, author |-> u, resolvedBy |-> None]
  /\ history' = <<u>>
  /\ UNCHANGED papers

\* Only the author changes the body; whoever may, resolves it.  An entry of
\* the history is written for a new body, under the version it made.
updateGovernedComment(u, edit, resolved) ==
  /\ comment # NoComment /\ comment.version <= MaxEdits
  /\ edit \/ resolved # "KEEP"
  /\ edit => comment.author = u
  /\ comment' = [comment EXCEPT !.version = @ + 1,
                   !.resolvedBy = CASE resolved = "YES" -> u [] resolved = "NO" -> None [] OTHER -> @]
  /\ history' = Append(history, IF edit THEN u ELSE None)
  /\ UNCHANGED papers

Next ==
  \/ \E d \in Documents, c \in {"PLAIN", "EICAR"} :
       uploadDocument(d, c) \/ \E a \in Attachments : createGovernedDocument(a, d, c)
  \/ documentScans \/ Record
  \/ \E i \in DOMAIN order : Attest(order[i]) \/ \E t \in Tokens : issueDocumentAccess(t, order[i])
  \/ \E t \in Tokens : downloadDocument(t)
  \/ \E u \in Users : \/ addGovernedComment(u)
                      \/ \E e \in BOOLEAN, r \in {"KEEP", "YES", "NO"} : updateGovernedComment(u, e, r)

Spec == Init /\ [][Next]_vars

(***************************************************************************)
(* Properties.                                                             *)
(***************************************************************************)
TypeOK ==
  /\ \A d \in Documents : /\ document[d].state \in {"ABSENT", "PENDING", "VERIFIED", "QUARANTINED"}
                          /\ document[d].current = Len(version[d])
  /\ \A v \in DOMAIN scan : v[1] \in Documents /\ scan[v] \in {"CLEAN", "REJECTED"}
  /\ \A t \in Tokens : token[t].of = None \/ token[t].of[1] \in Documents
  /\ Len(history) = comment.version

\* Whoever uploads while the worker runs, a document whose current version
\* was found infected is quarantined, and a verified one was attested in
\* its current version.
VerdictsFollowVersions ==
  \A d \in Documents :
    LET v == <<d, document[d].current>> IN
    /\ v \in DOMAIN scan /\ scan[v] = "REJECTED" => document[d].state = "QUARANTINED"
    /\ document[d].state = "VERIFIED" => v \in DOMAIN scan /\ scan[v] = "CLEAN"

\* A link shows no version in which a virus was ever found, and an
\* attachment is handed over as the version it became.
LinksAreClean ==
  /\ \A t \in Tokens : token[t].of # None => Content(token[t].of) # "EICAR"
  /\ \A a, b \in Attachments : handoff[a] # None /\ handoff[a] = handoff[b] => a = b

\* Every body of a comment was written by its author.
CommentsAreTheirAuthors ==
  \A i \in DOMAIN history : history[i] \in {None, comment.author}
================================================================================
