-------------------------------- MODULE Imports --------------------------------
(***************************************************************************)
(* Files of master and transaction data: previewed into a job with its     *)
(* rows, then committed row by row in one transaction, either from the     *)
(* import page or by a confirmed proposal about an attachment, which hands *)
(* the job over once per operation.  Commits of several files run at the   *)
(* same time and meet on the codes of their rows: a row that is there is   *)
(* locked, one that is not is inserted, and the insert waits for another   *)
(* transaction's and fails if that one commits.                            *)
(*                                                                         *)
(* A row that fails in the program is rejected and the next one goes on;   *)
(* one that fails in the database takes the whole transaction with it.     *)
(* The modes of a file change nothing of its commit, so a file here is a   *)
(* checksum with its dataset and its mode, which are unique together.      *)
(***************************************************************************)
EXTENDS Naturals, Sequences, FiniteSetsExt

CONSTANTS
  Files,
  Rows,         \* of each file: sequences of rows, [code, value]
  Headless,     \* files without a required header
  Financial,    \* files that a proposal may not commit
  InsertOnly,   \* files of datasets whose rows never change what is there
  Attachments, FileOf,   \* what was sent in a conversation
  Codes, Values,
  Users, Sender,         \* Sender: who sent the attachments
  Sessions,     \* commits under way
  Keys,         \* idempotency keys of the proposals
  None,
  MaxEdits      \* bound: times other services write a record

VARIABLES
  job,        \* import_jobs with the dispositions of their import_rows
  master,     \* the record of each code
  outbox,     \* jobs whose commit was announced
  handoff,    \* conversation_file_handoffs: the key of each operation
  tx,         \* what each commit has done so far
  edits       \* history: writes by other services, per code

vars == <<job, master, outbox, handoff, tx, edits>>

Invalid == "INVALID"   \* a value the program rejects
Broken == "BROKEN"     \* a value the database rejects
Dispositions == {"CREATE", "UPDATE", "UNCHANGED", "REJECT"}

Absent == [value |-> None, version |-> 0]
NoJob == [state |-> "NONE", owner |-> None, rows |-> <<>>]
NoTx == [file |-> None, via |-> None, key |-> None, missing |-> FALSE,
         rows |-> <<>>, records |-> [c \in {} |-> Absent]]

Init ==
  /\ job = [f \in Files |-> NoJob]
  /\ master = [c \in Codes |-> Absent]
  /\ outbox = {}
  /\ handoff = [a \in Attachments |-> [preview |-> None, commit |-> None]]
  /\ tx = [s \in Sessions |-> NoTx]
  /\ edits = [c \in Codes |-> 0]

(***************************************************************************)
(* Preview.                                                                *)
(***************************************************************************)
\* A file that was previewed before is answered with its job, to the one
\* who uploaded it.
previewInTransaction(u, f) ==
  \/ /\ job[f] = NoJob
     /\ job' = [job EXCEPT ![f] = [state |-> IF f \in Headless THEN "FAILED" ELSE "VALIDATED",
                                   owner |-> u, rows |-> <<>>]]
  \/ job[f].owner = u /\ UNCHANGED job

\* Each operation on an attachment is done once, under one key.
idempotentHandoff(a, operation) == handoff[a][operation] = None

preview(u, f) ==
  /\ job[f] = NoJob
  /\ previewInTransaction(u, f)
  /\ UNCHANGED <<master, outbox, handoff, tx, edits>>

previewImport(a, k) ==
  /\ idempotentHandoff(a, "preview")
  /\ previewInTransaction(Sender, FileOf[a])
  /\ handoff' = [handoff EXCEPT ![a].preview = k]
  /\ UNCHANGED <<master, outbox, tx, edits>>

(***************************************************************************)
(* Commit.                                                                 *)
(***************************************************************************)
Locked(f) == \E s \in Sessions : tx[s].file = f

Committable(f, u) == job[f].owner = u /\ job[f].state = "VALIDATED" /\ ~Locked(f)

Begin(s, f, via, key) ==
  /\ tx[s] = NoTx
  /\ tx' = [tx EXCEPT ![s] = [NoTx EXCEPT !.file = f, !.via = via, !.key = key]]
  /\ UNCHANGED <<job, master, outbox, handoff, edits>>

commit(s, u, f) == Committable(f, u) /\ Begin(s, f, None, None)

commitImport(s, a, k) ==
  /\ FileOf[a] \notin Financial
  /\ handoff[a].preview # None /\ idempotentHandoff(a, "commit")
  /\ Committable(FileOf[a], Sender)
  /\ Begin(s, FileOf[a], a, k)

Row(s) == Rows[tx[s].file][Len(tx[s].rows) + 1]
AtRow(s) == tx[s].file # None /\ Len(tx[s].rows) < Len(Rows[tx[s].file])

\* What the transaction sees under a code.
Record(s, c) == IF c \in DOMAIN tx[s].records THEN tx[s].records[c] ELSE master[c]
\* Mutant: nobody waits for another transaction's row.
FreeAlways(s, c) == TRUE

Free(s, c) == \A t \in Sessions \ {s} : c \notin DOMAIN tx[t].records

Keeps(s, c, r, d) ==
  tx' = [tx EXCEPT ![s].rows = Append(@, d), ![s].missing = FALSE,
                   ![s].records = [x \in DOMAIN @ \cup {c} |-> IF x = c THEN r ELSE @[x]]]

Reject(s) ==
  /\ AtRow(s) /\ Row(s).value = Invalid
  /\ tx' = [tx EXCEPT ![s].rows = Append(@, "REJECT")]
  /\ UNCHANGED <<job, master, outbox, handoff, edits>>

\* The row that is there is locked, and changed if it differs.
UpsertRow(s) ==
  LET c == Row(s).code
      r == Record(s, c)
  IN
  /\ AtRow(s) /\ Row(s).value \in Values /\ ~tx[s].missing
  /\ tx[s].file \notin InsertOnly
  /\ r # Absent /\ Free(s, c)
  /\ IF r.value = Row(s).value
     THEN Keeps(s, c, r, "UNCHANGED")
     ELSE Keeps(s, c, [value |-> Row(s).value, version |-> r.version + 1], "UPDATE")
  /\ UNCHANGED <<job, master, outbox, handoff, edits>>

KeepRow(s) ==
  /\ AtRow(s) /\ Row(s).value \in Values /\ ~tx[s].missing
  /\ tx[s].file \in InsertOnly
  /\ Record(s, Row(s).code) # Absent
  /\ tx' = [tx EXCEPT ![s].rows = Append(@, "UNCHANGED")]
  /\ UNCHANGED <<job, master, outbox, handoff, edits>>

\* No row was found, in the snapshot of its own statement.
MissRow(s) ==
  /\ AtRow(s) /\ Row(s).value \in Values /\ ~tx[s].missing
  /\ Record(s, Row(s).code) = Absent
  /\ tx' = [tx EXCEPT ![s].missing = TRUE]
  /\ UNCHANGED <<job, master, outbox, handoff, edits>>

InsertRow(s) ==
  LET c == Row(s).code IN
  /\ AtRow(s) /\ tx[s].missing
  /\ Free(s, c) /\ master[c] = Absent
  /\ Keeps(s, c, [value |-> Row(s).value, version |-> 1], "CREATE")
  /\ UNCHANGED <<job, master, outbox, handoff, edits>>

Commit(s) ==
  LET t == tx[s] IN
  /\ t.file # None /\ ~AtRow(s)
  /\ master' = [c \in Codes |-> Record(s, c)]
  /\ job' = [job EXCEPT ![t.file].state = "COMMITTED", ![t.file].rows = t.rows]
  /\ outbox' = outbox \cup {t.file}
  /\ handoff' = IF t.via = None THEN handoff ELSE [handoff EXCEPT ![t.via].commit = t.key]
  /\ tx' = [tx EXCEPT ![s] = NoTx]
  /\ UNCHANGED edits

\* The database refused a row or an insert, or the backend stopped.
Abort(s) ==
  /\ tx[s] # NoTx
  /\ tx' = [tx EXCEPT ![s] = NoTx]
  /\ UNCHANGED <<job, master, outbox, handoff, edits>>

\* Other services create and change the same records.
WriteElsewhere(c, v) ==
  /\ FoldSet(LAMBDA x, n : n + edits[x], 0, Codes) < MaxEdits
  /\ \A s \in Sessions : c \notin DOMAIN tx[s].records
  /\ v # master[c].value
  /\ master' = [master EXCEPT ![c] = [value |-> v, version |-> @.version + 1]]
  /\ edits' = [edits EXCEPT ![c] = @ + 1]
  /\ UNCHANGED <<job, outbox, handoff, tx>>

Next ==
  \/ \E u \in Users, f \in Files : preview(u, f)
  \/ \E a \in Attachments, k \in Keys : previewImport(a, k)
  \/ \E s \in Sessions : \E u \in Users, f \in Files : commit(s, u, f)
  \/ \E s \in Sessions : \E a \in Attachments, k \in Keys : commitImport(s, a, k)
  \/ \E s \in Sessions : \/ Reject(s) \/ UpsertRow(s) \/ KeepRow(s) \/ MissRow(s)
                         \/ InsertRow(s) \/ Commit(s) \/ Abort(s)
  \/ \E c \in Codes, v \in Values : WriteElsewhere(c, v)

Spec == Init /\ [][Next]_vars

(***************************************************************************)
(* Properties.                                                             *)
(***************************************************************************)
TypeOK ==
  /\ \A f \in Files : /\ job[f].state \in {"NONE", "VALIDATED", "FAILED", "COMMITTED"}
                      /\ job[f].owner \in Users \cup {None}
                      /\ job[f].rows \in Seq(Dispositions)
  /\ \A c \in Codes : master[c].value \in Values \cup {None} /\ master[c].version \in Nat
  /\ outbox \subseteq Files
  /\ handoff \in [Attachments -> [preview : Keys \cup {None}, commit : Keys \cup {None}]]
  /\ \A s \in Sessions : /\ tx[s].file \in Files \cup {None}
                         /\ tx[s].via \in Attachments \cup {None}
                         /\ tx[s].rows \in Seq(Dispositions)
                         /\ DOMAIN tx[s].records \subseteq Codes
  /\ edits \in [Codes -> Nat]

\* Rows of committed files, each a file and a place in it, that say d was
\* done to a code.
Reported(c, d) ==
  Cardinality({p \in UNION {{f} \X DOMAIN job[f].rows : f \in Files} :
                 Rows[p[1]][p[2]].code = c /\ job[p[1]].rows[p[2]] = d})

\* What the files report is what was done: a record is created by one row of
\* one file at most, and its version counts the rows that say they created or
\* changed it and the writes of other services, however the commits overlap.
ReportsMatch ==
  \A c \in Codes :
    /\ Reported(c, "CREATE") <= 1
    /\ master[c].version = Reported(c, "CREATE") + Reported(c, "UPDATE") + edits[c]

\* A file is committed whole or not at all, announced with its commit, and
\* handed over by one attachment at most.
JobsAreWhole ==
  \A f \in Files :
    /\ (job[f].state = "COMMITTED") = (f \in outbox)
    /\ Len(job[f].rows) = IF f \in outbox THEN Len(Rows[f]) ELSE 0
    /\ Cardinality({a \in Attachments : FileOf[a] = f /\ handoff[a].commit # None})
         <= IF f \in outbox THEN 1 ELSE 0
================================================================================
