-------------------------------- MODULE Kernel --------------------------------
(***************************************************************************)
(* The records every module without tables of its own keeps:               *)
(* apps/backend/src/modules/kernel/kernel.service.ts.  A record is one row *)
(* that each edit gives a new version; a snapshot of every version and an  *)
(* event of every change of status are kept beside it and never changed,   *)
(* which triggers see to.  Each operation is one transaction; the page of  *)
(* a record is read by several statements, and each sees what was          *)
(* committed by then.  As rows are only added, a page is described by how  *)
(* many it shows.  Alerts and deliveries are handed to their own modules.  *)
(***************************************************************************)
EXTENDS Naturals, Sequences

CONSTANTS
  Records,
  Contents,    \* what code, name, data and dates may be
  Statuses,    \* those of the manifest, which are all reachable from each other
  Initial,     \* the manifest's first status
  Users,
  MaxVersion,  \* bound: versions of a record
  MaxRemarks   \* bound: comments and documents of a record

VARIABLES
  row,        \* app.module_records
  snapshots,  \* app.module_record_snapshots of each, by snapshot_no
  events,     \* app.module_workflow_events of each, by time
  remarks,    \* how many app.module_comments and app.module_documents
  page        \* what each user looks at

vars == <<row, snapshots, events, remarks, page>>

NoRow == [version |-> 0, content |-> "none", status |-> "none"]
NoPage == [phase |-> "none", record |-> "none", version |-> 0, snapshots |-> 0, events |-> 0, remarks |-> 0]

Init ==
  /\ row = [r \in Records |-> NoRow]
  /\ snapshots = [r \in Records |-> <<>>]
  /\ events = [r \in Records |-> <<>>]
  /\ remarks = [r \in Records |-> 0]
  /\ page = [u \in Users |-> NoPage]

Exists(r) == row[r] # NoRow

\* Mutant: a snapshot is only taken when the status changes.
SnapshotOfStatus(r, new) ==
  snapshots' = [snapshots EXCEPT ![r] = IF new.status = row[r].status THEN @ ELSE Append(@, new)]

\* Of the row as the transaction has just written it.
Snapshot(r, new) == snapshots' = [snapshots EXCEPT ![r] = Append(@, new)]

Event(r, from, new) ==
  events' = [events EXCEPT ![r] = Append(@, [from |-> from, to |-> new.status, version |-> new.version])]

Write(r, new) == row' = [row EXCEPT ![r] = new] /\ Snapshot(r, new)

Create(r, content) ==
  LET new == [version |-> 1, content |-> content, status |-> Initial] IN
  /\ ~Exists(r)
  /\ Write(r, new) /\ Event(r, "none", new)
  /\ UNCHANGED <<remarks, page>>

\* An edit expects the version of the page it was made on.
Expected(u, r) ==
  /\ page[u].phase = "shown" /\ page[u].record = r /\ page[u].version = row[r].version
  /\ row[r].version < MaxVersion

Update(u, r, content) ==
  /\ Expected(u, r)
  /\ Write(r, [row[r] EXCEPT !.version = @ + 1, !.content = content])
  /\ UNCHANGED <<events, remarks, page>>

\* To any status of the manifest, with a reason if it is a rejection.
Transition(u, r, status) ==
  LET new == [row[r] EXCEPT !.version = @ + 1, !.status = status] IN
  /\ Expected(u, r)
  /\ Write(r, new) /\ Event(r, row[r].status, new)
  /\ UNCHANGED <<remarks, page>>

\* addComment and addDocument
Remark(r) ==
  /\ Exists(r) /\ remarks[r] < MaxRemarks
  /\ remarks' = [remarks EXCEPT ![r] = @ + 1]
  /\ UNCHANGED <<row, snapshots, events, page>>

\* detail reads the row, then the snapshots, then the rest.
DetailRow(u, r) ==
  /\ Exists(r) /\ page[u].phase \in {"none", "shown"}
  /\ page' = [page EXCEPT ![u] = [NoPage EXCEPT !.phase = "row", !.record = r, !.version = row[r].version]]
  /\ UNCHANGED <<row, snapshots, events, remarks>>

DetailSnapshots(u) ==
  /\ page[u].phase = "row"
  /\ page' = [page EXCEPT ![u].phase = "snapshots", ![u].snapshots = Len(snapshots[page[u].record])]
  /\ UNCHANGED <<row, snapshots, events, remarks>>

DetailRest(u) ==
  LET r == page[u].record IN
  /\ page[u].phase = "snapshots"
  /\ page' = [page EXCEPT ![u].phase = "shown", ![u].events = Len(events[r]), ![u].remarks = remarks[r]]
  /\ UNCHANGED <<row, snapshots, events, remarks>>

-----------------------------------------------------------------------------
Next ==
  \/ \E r \in Records :
       \/ \E content \in Contents : Create(r, content)
       \/ Remark(r)
       \/ \E u \in Users :
            \/ \E content \in Contents : Update(u, r, content)
            \/ \E status \in Statuses : Transition(u, r, status)
            \/ DetailRow(u, r)
  \/ \E u \in Users : DetailSnapshots(u) \/ DetailRest(u)

Spec == Init /\ [][Next]_vars

-----------------------------------------------------------------------------
(* Properties                                                              *)

TypeOK ==
  /\ row \in [Records -> {NoRow} \cup [version : 1 .. MaxVersion, content : Contents, status : Statuses]]
  /\ snapshots \in [Records -> Seq([version : 1 .. MaxVersion, content : Contents, status : Statuses])]
  /\ remarks \in [Records -> 0 .. MaxRemarks]

\* A record's past can be read off its snapshots, which are one for each
\* version, and its events, which lead from each status to the next.
PastIsWhole ==
  \A r \in Records :
    LET past == snapshots[r] moves == events[r] IN
    /\ Len(past) = row[r].version
    /\ Exists(r) => past[Len(past)] = row[r]
    /\ \A i \in DOMAIN past : past[i].version = i
    /\ \A k \in DOMAIN moves :
         /\ past[moves[k].version].status = moves[k].to
         /\ k > 1 => moves[k].from = moves[k - 1].to
    /\ \A i \in DOMAIN past : i > 1 /\ past[i].status # past[i - 1].status =>
         \E k \in DOMAIN moves : moves[k].version = i

\* Whatever is edited while a page is read, the page has a snapshot of the
\* version it shows, and the events that led to each of its snapshots.
PagesAreWhole ==
  \A u \in Users : page[u].phase = "shown" =>
    /\ page[u].version <= page[u].snapshots
    /\ \A k \in DOMAIN events[page[u].record] :
         events[page[u].record][k].version <= page[u].snapshots => k <= page[u].events
===============================================================================
